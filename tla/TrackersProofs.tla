--------------------------- MODULE TrackersProofs ---------------------------
(***************************************************************************)
(* Proofs about Trackers: its types, and that incidents and journeys hold  *)
(* together whatever the finalizers, failed writes and restarts do between *)
(* the pipeline's reads and its commit.                                    *)
(***************************************************************************)
EXTENDS Trackers, FiniteSetTheorems, TLAPS

Stored(o) == obs[o].cam /= Away

(* An observation is stored as a whole, and numbered as it began.          *)
ObsInv ==
  \A o \in Sightings :
    IF Stored(o) THEN o <= spent.sightings ELSE obs[o] = NoObs

(* An incident is that of a stored observation, holds observations of its  *)
(* camera that show its subject, and ends by the last of the camera.       *)
IncidentOK(i) ==
  IF incident[i].state = "none" THEN incident[i] = NoIncident
  ELSE /\ Stored(i[1]) /\ incident[i].cam \in Cameras
       /\ incident[i].first <= incident[i].last
       /\ \E o \in Sightings : /\ obs[o].cam = incident[i].cam
                               /\ incident[i].last <= obs[o].upto
       /\ \A o \in incident[i].seen : Stored(o)
       /\ i[2] \notin Followed => incident[i].journey = None

IncidentInv == \A i \in Groups : IncidentOK(i)

JourneyInv == \A j \in Groups : journey[j].state /= "none" => Stored(j[1])

Rows ==
  ObsInv /\ IncidentInv /\ JourneyInv /\ SightingsFiled /\ OneOpenInWindow /\ JourneyReaches

(* The transaction: a new observation, the newest of its camera.           *)
FrameInv ==
  tx.at /= "idle" =>
    /\ tx.obs \in Sightings /\ tx.obs = spent.sightings /\ ~Stored(tx.obs)
    /\ tx.cam \in Cameras /\ InOrder(tx.cam, tx.when) /\ tx.todo \subseteq tx.subs
    /\ tx.at = "link" => /\ tx.held \in Groups /\ tx.held[2] \in tx.todo
                         /\ tx.incs[tx.held].state /= "none"

InHand(i) == tx.at = "link" /\ i = tx.held

(* A row the transaction holds: the one it read, with the observation, and *)
(* of those it did not choose none is open within the window.              *)
FiledOK(i) ==
  /\ i[2] \in tx.subs /\ (i[2] \in tx.todo => InHand(i))
  /\ tx.incs[i].cam = tx.cam /\ tx.incs[i].first <= tx.when /\ tx.incs[i].last = tx.when
  /\ tx.incs[i].seen = incident[i].seen \union {tx.obs}
  /\ tx.incs[i].count = incident[i].count + 1
  /\ IF incident[i].state = "none" THEN i[1] = tx.obs ELSE incident[i].cam = tx.cam
  /\ \A k \in Groups :
       (/\ k /= i /\ k[2] = i[2]
        /\ incident[k].state = "open" /\ incident[k].cam = tx.cam) =>
         tx.incs[i].first > incident[k].last + IncidentIdle

FiledInv ==
  tx.at /= "idle" =>
    /\ \A i \in Groups : tx.incs[i].state /= "none" => FiledOK(i)
    /\ \A i, k \in Groups : (/\ tx.incs[i].state /= "none" /\ tx.incs[k].state /= "none"
                             /\ i[2] = k[2]) => i = k
    /\ \A s \in tx.subs \ tx.todo :
         \E i \in Groups : i[2] = s /\ tx.incs[i].state /= "none"

(* The journeys it holds: those of its incidents, none shorter than read.  *)
LinkOK(i) ==
  LET j == tx.incs[i].journey IN
  /\ i[2] \notin Followed => j = None
  /\ (j /= None /\ ~InHand(i)) =>
       /\ j[2] = i[2] /\ tx.jours[j].state /= "none" /\ tx.when <= tx.jours[j].last

LinkInv ==
  tx.at /= "idle" =>
    /\ \A i \in Groups : tx.incs[i].state /= "none" => LinkOK(i)
    /\ \A j \in Groups : tx.jours[j].state /= "none" =>
         IF journey[j].state = "none" THEN j[1] = tx.obs
         ELSE journey[j].last <= tx.jours[j].last

(* What a finalizer has in hand is open.                                   *)
HandOK(hand, rows) ==
  /\ \A i \in hand.todo : rows[i].state = "open"
  /\ hand.at = "mark" => /\ hand.held \in Groups /\ hand.held \notin hand.todo
                         /\ rows[hand.held].state = "open"

HandInv == HandOK(closing, incident) /\ HandOK(parting, journey)

IInv == TypeOK /\ Rows /\ FrameInv /\ FiledInv /\ LinkInv /\ HandInv

(***************************************************************************)
(* Types.                                                                  *)
(***************************************************************************)
LEMMA GroupParts ==
  ASSUME NEW i \in Groups
  PROVE  i[1] \in Sightings /\ i[2] \in Subjects /\ i = <<i[1], i[2]>> /\ i \in Links
BY DEF Groups, Links

LEMMA PairIsGroup ==
  ASSUME NEW o \in Sightings, NEW s \in Subjects
  PROVE  <<o, s>> \in Groups /\ <<o, s>>[1] = o /\ <<o, s>>[2] = s
BY DEF Groups

LEMMA NoneIsNoGroup == None \notin Groups
BY DEF None, Groups, Sightings

LEMMA EmptyRows ==
  /\ NoObs \in Observations /\ NoIncident \in IncidentRows /\ NoJourney \in JourneyRows
  /\ NoTx \in Transactions /\ NoClosing \in Hands /\ NoParting \in Hands
  <1> USE TrackersAssumption
  <1>1. 0 \in Times /\ Away \in Places /\ None \in Links
    BY DEF Times, Places, Links
  <1>2. NoObs \in Observations
    BY <1>1 DEF NoObs, Observations
  <1>3. NoIncident \in IncidentRows
    BY <1>1 DEF NoIncident, IncidentRows, States
  <1>4. NoJourney \in JourneyRows
    BY <1>1 DEF NoJourney, JourneyRows, States
  <1>5. NoTx \in Transactions
    BY <1>1, <1>3, <1>4 DEF NoTx, Transactions
  <1>6. NoClosing \in Hands /\ NoParting \in Hands
    BY <1>1 DEF NoClosing, NoParting, Hands
  <1> QED
    BY <1>2, <1>3, <1>4, <1>5, <1>6

LEMMA MergeTypes ==
  /\ \A old, new \in IncidentRows : Merge(old, new) \in IncidentRows
  /\ \A old, new \in JourneyRows : Merge(old, new) \in JourneyRows
BY DEF Merge, IncidentRows, JourneyRows

LEMMA StampTypes ==
  ASSUME TypeOK, NEW when \in Stamps
  PROVE  when \in Times /\ when \in Nat /\ when >= 1
BY TrackersAssumption DEF TypeOK, Stamps, Times

LEMMA InitTypes ==
  ASSUME Init
  PROVE  TypeOK
BY EmptyRows, TrackersAssumption DEF Init, TypeOK, Places, Subjects

(* What the steps of the pipeline make of a row.                           *)
LEMMA FiledTypes ==
  ASSUME TypeOK, FrameInv, tx.at /= "idle"
  PROVE  /\ \A row \in IncidentRows : ExtendIncident(row) \in IncidentRows
         /\ NewIncident \in IncidentRows
  <1>1. tx.when \in Times /\ tx.obs \in Sightings /\ tx.cam \in Places
    BY DEF TypeOK, FrameInv, Transactions
  <1>2. ASSUME NEW row \in IncidentRows
        PROVE  ExtendIncident(row) \in IncidentRows
    <2>1. row.seen \union {tx.obs} \in SUBSET Sightings /\ row.count + 1 \in Nat
      BY <1>1 DEF IncidentRows
    <2> QED
      BY <1>1, <2>1 DEF ExtendIncident, IncidentRows
  <1>3. NewIncident \in IncidentRows
    BY <1>1, EmptyRows DEF NewIncident, IncidentRows, States
  <1> QED
    BY <1>2, <1>3

LEMMA LinkedTypes ==
  ASSUME TypeOK, FrameInv, tx.at /= "idle", NEW row \in IncidentRows
  PROVE  /\ \A jrow \in JourneyRows : ExtendJourney(jrow, row) \in JourneyRows
         /\ NewJourney(row) \in JourneyRows
  <1>1. tx.cam \in Cameras /\ row.first \in Times /\ row.last \in Times
    BY DEF FrameInv, IncidentRows
  <1>2. Segment(row) \in Segments
    BY <1>1 DEF Segment, Segments
  <1>3. ASSUME NEW jrow \in JourneyRows
        PROVE  ExtendJourney(jrow, row) \in JourneyRows
    <2>1. AppendSegment(jrow.segs, row) \in Seq(Segments)
      BY <1>2 DEF AppendSegment, JourneyRows
    <2>2. Later(jrow.last, row.last) \in Times
      BY <1>1 DEF Later, JourneyRows
    <2> QED
      BY <2>1, <2>2 DEF ExtendJourney, JourneyRows
  <1>4. <<Segment(row)>> \in Seq(Segments)
    BY <1>2
  <1>5. NewJourney(row) \in JourneyRows
    BY <1>1, <1>4, EmptyRows DEF NewJourney, JourneyRows, States
  <1> QED
    BY <1>3, <1>5

LEMMA SpendTypes ==
  ASSUME TypeOK, Trouble, NEW what \in {"faults", "crashes"}, Spend(what)
  PROVE  /\ spent' \in [sightings : 0..NumSightings, faults : 0..MaxTroubles, crashes : 0..MaxTroubles]
         /\ spent'.sightings = spent.sightings
BY TrackersAssumption DEF TypeOK, Trouble, Spend

LEMMA PipelineTypes ==
  ASSUME TypeOK, FrameInv
  PROVE  /\ \A c \in Cameras, when \in Stamps : ExtendScene(c, when) => TypeOK'
         /\ \A c \in Cameras, when \in Stamps, S \in SUBSET Subjects : Observe(c, when, S) => TypeOK'
         /\ FindIncident => TypeOK'
         /\ LinkJourney => TypeOK'
         /\ NoJourneyKind => TypeOK'
         /\ Commit => TypeOK'
         /\ StoreFails => TypeOK'
  <1>1. ASSUME NEW c \in Cameras, NEW when \in Stamps, ExtendScene(c, when)
        PROVE  TypeOK'
    <2>1. obs' \in [Sightings -> Observations]
      BY <1>1, StampTypes DEF ExtendScene, TypeOK, Observations, Recent
    <2> QED
      BY <1>1, <2>1 DEF ExtendScene, TypeOK
  <1>2. ASSUME NEW c \in Cameras, NEW when \in Stamps, NEW S \in SUBSET Subjects,
               Observe(c, when, S)
        PROVE  TypeOK'
    <2>1. spent.sightings + 1 \in 0..NumSightings
      BY <1>2, TrackersAssumption DEF Observe, TypeOK
    <2>2. spent' \in [sightings : 0..NumSightings, faults : 0..MaxTroubles, crashes : 0..MaxTroubles]
      BY <1>2, <2>1 DEF Observe, TypeOK, Spend
    <2>3. tx' \in Transactions
      BY <1>2, <2>1, StampTypes, EmptyRows DEF Observe, Transactions, Places
    <2> QED
      BY <1>2, <2>2, <2>3 DEF Observe, TypeOK
  <1>3. ASSUME FindIncident
        PROVE  TypeOK'
    <2>1. tx.at /= "idle" /\ tx.obs \in Sightings
      BY <1>3 DEF FindIncident, FrameInv
    <2>2. \E i \in Groups, row \in IncidentRows : Hold(i, row)
      <3>1. PICK s \in tx.todo :
              \/ OpenFor(s) = {} /\ Hold(<<tx.obs, s>>, NewIncident)
              \/ \E i \in Newest(OpenFor(s), incident) : Hold(i, ExtendIncident(incident[i]))
        BY <1>3 DEF FindIncident
      <3>2. s \in Subjects
        BY DEF TypeOK, Transactions
      <3>3. \A i \in Newest(OpenFor(s), incident) : i \in Groups /\ incident[i] \in IncidentRows
        BY DEF Newest, OpenFor, TypeOK
      <3>4. CASE Hold(<<tx.obs, s>>, NewIncident)
        BY <2>1, <3>2, <3>4, FiledTypes, PairIsGroup
      <3>5. CASE \E i \in Newest(OpenFor(s), incident) : Hold(i, ExtendIncident(incident[i]))
        BY <2>1, <3>3, <3>5, FiledTypes
      <3> QED
        BY <3>1, <3>4, <3>5
    <2>3. tx' \in Transactions
      <3>1. PICK i \in Groups, row \in IncidentRows : Hold(i, row)
        BY <2>2
      <3>2. i \in Links /\ [tx.incs EXCEPT ![i] = row] \in [Groups -> IncidentRows]
        BY DEF TypeOK, Transactions, Links
      <3> QED
        BY <3>1, <3>2 DEF Hold, TypeOK, Transactions
    <2> QED
      BY <1>3, <2>3 DEF FindIncident, TypeOK
  <1>4. ASSUME LinkJourney
        PROVE  TypeOK'
    <2> DEFINE row == tx.incs[tx.held]
    <2>1. /\ tx.at /= "idle" /\ tx.obs \in Sightings /\ tx.held \in Groups /\ tx.held[2] \in Subjects
          /\ row \in IncidentRows /\ tx.cam \in Places
      BY <1>4, GroupParts DEF LinkJourney, FrameInv, TypeOK, Transactions
    <2>2. <<tx.obs, tx.held[2]>> \in Groups
      BY <2>1, PairIsGroup
    <2>3. \E j \in Groups, jrow \in JourneyRows : Linked(j, jrow)
      <3> HIDE DEF row
      <3>1. CASE JourneysFor(tx.held[2], row.last) = {} /\ Linked(<<tx.obs, tx.held[2]>>, NewJourney(row))
        BY <2>1, <2>2, <3>1, LinkedTypes
      <3>2. CASE \E j \in Newest(JourneysFor(tx.held[2], row.last), journey) :
                   Linked(j, ExtendJourney(journey[j], row))
        BY <2>1, <3>2, LinkedTypes DEF Newest, JourneysFor, TypeOK
      <3> QED
        BY <1>4, <3>1, <3>2 DEF LinkJourney, row
    <2>4. tx' \in Transactions
      <3>1. PICK j \in Groups, jrow \in JourneyRows : Linked(j, jrow)
        BY <2>3
      <3>2. j \in Links /\ None \in Links
        BY DEF Links
      <3> QED
        BY <2>1, <3>1, <3>2 DEF Linked, TypeOK, Transactions, IncidentRows
    <2>5. guardian' \in [Subjects -> Places]
      BY <1>4, <2>1 DEF LinkJourney, Heard, TypeOK
    <2> QED
      BY <1>4, <2>4, <2>5 DEF LinkJourney, TypeOK
  <1>5. ASSUME NoJourneyKind
        PROVE  TypeOK'
    <2>1. tx' \in Transactions
      BY <1>5 DEF NoJourneyKind, TypeOK, Transactions, Links
    <2> QED
      BY <1>5, <2>1 DEF NoJourneyKind, TypeOK
  <1>6. ASSUME Commit
        PROVE  TypeOK'
    <2>1. obs' \in [Sightings -> Observations]
      BY <1>6 DEF Commit, TypeOK, Observations, Transactions
    <2>2. incident' \in [Groups -> IncidentRows] /\ journey' \in [Groups -> JourneyRows]
      BY <1>6, MergeTypes DEF Commit, TypeOK, Transactions
    <2> QED
      BY <1>6, <2>1, <2>2, EmptyRows DEF Commit, TypeOK
  <1>7. ASSUME StoreFails
        PROVE  TypeOK'
    BY <1>7, SpendTypes, EmptyRows DEF StoreFails, TypeOK
  <1> QED
    BY <1>1, <1>2, <1>3, <1>4, <1>5, <1>6, <1>7

(* What closing a row does to the table.                                   *)
LEMMA IncidentClosed ==
  ASSUME TypeOK, HandInv, CloseIncident
  PROVE  /\ closing.held \in Groups /\ incident[closing.held].state = "open"
         /\ incident' = [i \in Groups |->
              IF i = closing.held
              THEN [incident[i] EXCEPT !.state = "closed", !.ended = closing.ended]
              ELSE incident[i]]
BY DEF TypeOK, HandInv, HandOK, CloseIncident

LEMMA JourneyClosed ==
  ASSUME TypeOK, HandInv, parting.at = "mark", MarkJourney
  PROVE  /\ parting.held \in Groups /\ journey[parting.held].state = "open"
         /\ journey' = [j \in Groups |->
              IF j = parting.held
              THEN [journey[j] EXCEPT !.state = "closed", !.ended = parting.ended]
              ELSE journey[j]]
BY DEF TypeOK, HandInv, HandOK, MarkJourney

LEMMA FinalizerTypes ==
  ASSUME TypeOK, HandInv
  PROVE  /\ IncidentStep => TypeOK'
         /\ CloseIncidentFails => TypeOK'
         /\ JourneyStep => TypeOK'
         /\ CloseJourneyFails => TypeOK'
         /\ RefreshFails => TypeOK'
  <1>0. \A i \in Groups : incident[i].last \in Times /\ journey[i].last \in Times
    BY DEF TypeOK, IncidentRows, JourneyRows
  <1>1. ASSUME ScanIncidents
        PROVE  TypeOK'
    <2>1. closing' \in Hands
      BY <1>1, EmptyRows DEF ScanIncidents, Stalest, Quiet, Hands
    <2> QED
      BY <1>1, <2>1 DEF ScanIncidents, TypeOK
  <1>2. ASSUME NEW i \in Groups, TakeIncident(i)
        PROVE  TypeOK'
    <2>1. closing' \in Hands
      BY <1>0, <1>2 DEF TakeIncident, TypeOK, Hands, Links
    <2> QED
      BY <1>2, <2>1 DEF TakeIncident, TypeOK
  <1>3. ASSUME CloseIncident
        PROVE  TypeOK'
    <2>1. closing' \in Hands
      BY <1>3 DEF CloseIncident, TypeOK, Hands
    <2>2. \A i \in Groups :
            [incident[i] EXCEPT !.state = "closed", !.ended = closing.ended] \in IncidentRows
      BY DEF TypeOK, Hands, IncidentRows, States
    <2>3. incident' \in [Groups -> IncidentRows]
      BY <1>3, <2>2, IncidentClosed DEF TypeOK
    <2> QED
      BY <1>3, <2>1, <2>3 DEF CloseIncident, TypeOK
  <1>4. ASSUME CloseIncidentFails
        PROVE  TypeOK'
    <2>1. closing' \in Hands
      BY <1>4 DEF CloseIncidentFails, TypeOK, Hands
    <2> QED
      BY <1>4, <2>1, SpendTypes DEF CloseIncidentFails, TypeOK
  <1>5. ASSUME TellEnded
        PROVE  TypeOK'
    <2>1. closing' \in Hands
      BY <1>5, EmptyRows DEF TellEnded, TypeOK, Hands, Links
    <2> QED
      BY <1>5, <2>1 DEF TellEnded, TypeOK
  <1>6. ASSUME ScanJourneys
        PROVE  TypeOK'
    <2>1. parting' \in Hands
      BY <1>6, EmptyRows DEF ScanJourneys, Stalest, Quiet, Hands
    <2> QED
      BY <1>6, <2>1 DEF ScanJourneys, TypeOK
  <1>7. ASSUME NEW j \in Groups, TakeJourney(j)
        PROVE  TypeOK'
    <2>1. parting' \in Hands
      BY <1>0, <1>7 DEF TakeJourney, TypeOK, Hands, Links
    <2> QED
      BY <1>7, <2>1 DEF TakeJourney, TypeOK
  <1>8. ASSUME MarkJourney
        PROVE  journey' \in [Groups -> JourneyRows]
    <2>1. parting.ended \in Times
      BY DEF TypeOK, Hands
    <2> QED
      BY <1>8, <2>1 DEF MarkJourney, TypeOK, JourneyRows, States
  <1>11. ASSUME CloseJourney
         PROVE  TypeOK'
    <2>1. parting' \in Hands
      BY <1>11 DEF CloseJourney, TypeOK, Hands
    <2> QED
      BY <1>8, <1>11, <2>1 DEF CloseJourney, TypeOK
  <1>12. ASSUME RefreshFails
         PROVE  TypeOK'
    BY <1>8, <1>12, SpendTypes, EmptyRows DEF RefreshFails, TypeOK
  <1>9. ASSUME CloseJourneyFails
        PROVE  TypeOK'
    BY <1>9, SpendTypes, EmptyRows DEF CloseJourneyFails, TypeOK
  <1>10. ASSUME TellDeparted
         PROVE  TypeOK'
    <2>1. parting' \in Hands
      BY <1>10, EmptyRows DEF TellDeparted, TypeOK, Hands, Links
    <2>2. guardian' \in [Subjects -> Places]
      BY <1>10 DEF TellDeparted, Heard, TypeOK, Places
    <2> QED
      BY <1>10, <2>1, <2>2 DEF TellDeparted, TypeOK
  <1> QED
    BY <1>1, <1>2, <1>3, <1>4, <1>5, <1>6, <1>7, <1>9, <1>10, <1>11, <1>12
    DEF IncidentStep, JourneyStep

LEMMA TypesKept ==
  ASSUME TypeOK, FrameInv, HandInv, [Next]_vars
  PROVE  TypeOK'
  <1>1. CASE Crash
    BY <1>1, SpendTypes, EmptyRows DEF Crash, TypeOK
  <1>2. CASE Tick
    BY <1>2, TrackersAssumption DEF Tick, TypeOK
  <1>3. CASE UNCHANGED vars
    BY <1>3 DEF vars, TypeOK
  <1> QED
    BY <1>1, <1>2, <1>3, PipelineTypes, FinalizerTypes DEF Next, PipelineStep

(***************************************************************************)
(* What a step leaves alone.                                               *)
(***************************************************************************)
LEMMA RowsKept ==
  ASSUME TypeOK, Rows, UNCHANGED <<obs, incident, journey>>,
         spent'.sightings \in {spent.sightings, spent.sightings + 1}
  PROVE  Rows'
  <1>1. ObsInv'
    <2>1. spent.sightings \in Nat
      BY TrackersAssumption DEF TypeOK
    <2> QED
      BY <2>1 DEF Rows, ObsInv, Stored, Sightings
  <1>2. IncidentInv' /\ JourneyInv'
    BY DEF Rows, IncidentInv, IncidentOK, JourneyInv, Stored
  <1>3. SightingsFiled'
    BY DEF Rows, SightingsFiled, Holding
  <1>4. OneOpenInWindow'
    BY DEF Rows, OneOpenInWindow
  <1>5. JourneyReaches'
    BY DEF Rows, JourneyReaches
  <1> QED
    BY <1>1, <1>2, <1>3, <1>4, <1>5 DEF Rows

TxInv == FrameInv /\ FiledInv /\ LinkInv

LEMMA TxEnded ==
  ASSUME tx' = NoTx
  PROVE  TxInv'
BY DEF TxInv, FrameInv, FiledInv, LinkInv, NoTx

(* A finalizer only closes rows, under the transaction.                    *)
LEMMA TxKept ==
  ASSUME TxInv, UNCHANGED <<tx, obs>>, spent'.sightings = spent.sightings,
         \A i \in Groups :
           /\ incident'[i].cam = incident[i].cam /\ incident'[i].last = incident[i].last
           /\ incident'[i].seen = incident[i].seen /\ incident'[i].count = incident[i].count
           /\ (incident'[i].state = "none") <=> (incident[i].state = "none")
           /\ incident'[i].state = "open" => incident[i].state = "open",
         \A j \in Groups :
           /\ journey'[j].last = journey[j].last
           /\ (journey'[j].state = "none") <=> (journey[j].state = "none")
  PROVE  TxInv'
  <1>1. FrameInv'
    BY DEF TxInv, FrameInv, Stored, InOrder
  <1>2. ASSUME NEW i \in Groups, FiledOK(i)
        PROVE  FiledOK(i)'
    BY <1>2 DEF FiledOK, InHand
  <1>3. FiledInv'
    BY <1>2 DEF TxInv, FiledInv
  <1>4. LinkInv'
    BY DEF TxInv, LinkInv, LinkOK, InHand
  <1> QED
    BY <1>1, <1>3, <1>4 DEF TxInv

LEMMA HandsKept ==
  ASSUME HandInv, UNCHANGED <<closing, parting>>,
         TypeOK,
         \A i \in Groups : incident[i].state = "open" => incident'[i].state = "open",
         \A j \in Groups : journey[j].state = "open" => journey'[j].state = "open"
  PROVE  HandInv'
BY DEF HandInv, HandOK, TypeOK, Hands

(***************************************************************************)
(* The finalizers.                                                         *)
(***************************************************************************)
(* What closing a row leaves alone.                                        *)
ClosesOne ==
  \A i \in Groups :
    /\ incident'[i].cam = incident[i].cam /\ incident'[i].last = incident[i].last
    /\ incident'[i].first = incident[i].first /\ incident'[i].journey = incident[i].journey
    /\ incident'[i].seen = incident[i].seen /\ incident'[i].count = incident[i].count
    /\ IF i = closing.held
       THEN incident'[i].state = "closed" /\ incident[i].state = "open"
       ELSE incident'[i] = incident[i]

LEMMA ClosedIncidentFields ==
  ASSUME TypeOK, HandInv, CloseIncident
  PROVE  ClosesOne
  <1>1. ASSUME NEW i \in Groups, i = closing.held
        PROVE  /\ incident'[i] = [incident[i] EXCEPT !.state = "closed", !.ended = closing.ended]
               /\ incident[i].state = "open" /\ incident[i] \in IncidentRows
    BY <1>1, IncidentClosed DEF TypeOK
  <1>2. ASSUME NEW i \in Groups, i /= closing.held
        PROVE  incident'[i] = incident[i]
    BY <1>2, IncidentClosed
  <1>3. ASSUME NEW i \in Groups, i = closing.held
        PROVE  /\ incident'[i].cam = incident[i].cam /\ incident'[i].last = incident[i].last
               /\ incident'[i].first = incident[i].first
               /\ incident'[i].journey = incident[i].journey
               /\ incident'[i].seen = incident[i].seen /\ incident'[i].count = incident[i].count
               /\ incident'[i].state = "closed"
    BY <1>1, <1>3 DEF IncidentRows
  <1> QED
    BY <1>1, <1>2, <1>3, Zenon DEF ClosesOne

(* Closing an incident moves no sighting and shortens nothing.             *)
LEMMA CloseIncidentKeepsRows ==
  ASSUME TypeOK, Rows, HandInv, CloseIncident
  PROVE  Rows'
  <1>0. UNCHANGED <<obs, journey, spent>>
    BY DEF CloseIncident
  <1>1. ClosesOne
    BY ClosedIncidentFields
  <1>2. ObsInv' /\ JourneyInv'
    BY <1>0 DEF Rows, ObsInv, JourneyInv, Stored
  <1>3. IncidentInv'
    <2>1. ASSUME NEW i \in Groups, IncidentOK(i)
          PROVE  IncidentOK(i)'
      BY <1>0, <1>1, <2>1 DEF ClosesOne, IncidentOK, Stored
    <2> QED
      BY <2>1 DEF Rows, IncidentInv
  <1>4. SightingsFiled'
    BY <1>0, <1>1 DEF ClosesOne, Rows, SightingsFiled, Holding
  <1>5. OneOpenInWindow'
    BY <1>1 DEF ClosesOne, Rows, OneOpenInWindow
  <1>6. JourneyReaches'
    BY <1>0, <1>1 DEF ClosesOne, Rows, JourneyReaches
  <1> QED
    BY <1>2, <1>3, <1>4, <1>5, <1>6 DEF Rows

PartsOne ==
  \A j \in Groups :
    /\ journey'[j].last = journey[j].last
    /\ IF j = parting.held
       THEN journey'[j].state = "closed" /\ journey[j].state = "open"
       ELSE journey'[j] = journey[j]

LEMMA PartedJourneyFields ==
  ASSUME TypeOK, HandInv, parting.at = "mark", MarkJourney
  PROVE  PartsOne
  <1>1. ASSUME NEW j \in Groups, j = parting.held
        PROVE  /\ journey'[j] = [journey[j] EXCEPT !.state = "closed", !.ended = parting.ended]
               /\ journey[j].state = "open" /\ journey[j] \in JourneyRows
    BY <1>1, JourneyClosed DEF TypeOK
  <1>2. ASSUME NEW j \in Groups, j /= parting.held
        PROVE  journey'[j] = journey[j]
    BY <1>2, JourneyClosed
  <1>3. ASSUME NEW j \in Groups, j = parting.held
        PROVE  journey'[j].last = journey[j].last /\ journey'[j].state = "closed"
    BY <1>1, <1>3 DEF JourneyRows
  <1> QED
    BY <1>1, <1>2, <1>3, Zenon DEF PartsOne

LEMMA CloseJourneyKeepsRows ==
  ASSUME TypeOK, Rows, HandInv, CloseJourney \/ RefreshFails
  PROVE  Rows'
  <1>0. UNCHANGED <<obs, incident>> /\ spent'.sightings = spent.sightings
    BY SpendTypes DEF CloseJourney, RefreshFails
  <1>1. PartsOne
    BY PartedJourneyFields DEF CloseJourney, RefreshFails
  <1>2. ObsInv' /\ IncidentInv' /\ JourneyInv'
    BY <1>0, <1>1 DEF PartsOne, Rows, ObsInv, IncidentInv, IncidentOK, JourneyInv, Stored
  <1>3. SightingsFiled' /\ OneOpenInWindow'
    BY <1>0 DEF Rows, SightingsFiled, Holding, OneOpenInWindow
  <1>4. JourneyReaches'
    <2>1. \A i \in Groups : incident[i].journey /= None => incident[i].journey \in Groups
      BY DEF TypeOK, IncidentRows, Links
    <2> QED
      BY <1>0, <1>1, <2>1 DEF PartsOne, Rows, JourneyReaches
  <1> QED
    BY <1>2, <1>3, <1>4 DEF Rows

LEMMA FinalizersKeep ==
  ASSUME IInv, \/ IncidentStep \/ CloseIncidentFails
               \/ JourneyStep \/ CloseJourneyFails \/ RefreshFails
  PROVE  Rows' /\ TxInv' /\ HandInv'
  <1> USE DEF IInv
  <1>0. TxInv
    BY DEF TxInv
  <1>1. ASSUME CloseIncident
        PROVE  Rows' /\ TxInv' /\ HandInv'
    <2>1. ClosesOne /\ UNCHANGED <<tx, obs, spent, journey, parting>>
      BY <1>1, ClosedIncidentFields DEF CloseIncident
    <2>2. TxInv'
      BY <1>0, <2>1, TxKept DEF ClosesOne
    <2>3. HandInv'
      <3>1. closing.held \notin closing.todo /\ closing'.at = "tell" /\ closing'.todo = closing.todo
        BY <1>1 DEF CloseIncident, HandInv, HandOK, TypeOK, Hands
      <3>2. \A i \in closing.todo : i \in Groups /\ i /= closing.held /\ incident'[i] = incident[i]
        BY <2>1, <3>1 DEF ClosesOne, TypeOK, Hands
      <3> QED
        BY <2>1, <3>1, <3>2 DEF HandInv, HandOK
    <2> QED
      BY <1>1, <2>2, <2>3, CloseIncidentKeepsRows
  <1>2. ASSUME CloseJourney
        PROVE  Rows' /\ TxInv' /\ HandInv'
    <2>1. PartsOne /\ UNCHANGED <<tx, obs, spent, incident, closing>>
      BY <1>2, PartedJourneyFields DEF CloseJourney
    <2>2. TxInv'
      BY <1>0, <2>1, TxKept DEF PartsOne
    <2>3. HandInv'
      <3>1. parting.held \notin parting.todo /\ parting'.at = "tell" /\ parting'.todo = parting.todo
        BY <1>2 DEF CloseJourney, HandInv, HandOK, TypeOK, Hands
      <3>2. \A j \in parting.todo : j \in Groups /\ j /= parting.held /\ journey'[j] = journey[j]
        BY <2>1, <3>1 DEF PartsOne, TypeOK, Hands
      <3> QED
        BY <2>1, <3>1, <3>2 DEF HandInv, HandOK
    <2> QED
      BY <1>2, <2>2, <2>3, CloseJourneyKeepsRows
  <1>3. ASSUME ScanIncidents \/ (\E i \in Groups : TakeIncident(i)) \/ TellEnded \/ CloseIncidentFails
        PROVE  Rows' /\ TxInv' /\ HandInv'
    <2>1. /\ UNCHANGED <<obs, incident, journey, tx, parting>>
          /\ spent'.sightings = spent.sightings
      BY <1>3, SpendTypes
      DEF ScanIncidents, TakeIncident, TellEnded, CloseIncidentFails
    <2>2. Rows' /\ TxInv'
      BY <1>0, <2>1, RowsKept, TxKept
    <2>3. HandOK(closing', incident)
      <3>1. CASE ScanIncidents
        BY <3>1 DEF ScanIncidents, Stalest, Quiet, NoClosing, HandOK
      <3>2. CASE \E i \in Groups : TakeIncident(i)
        BY <3>2 DEF TakeIncident, HandInv, HandOK, TypeOK, Hands
      <3>3. CASE TellEnded
        BY <3>3 DEF TellEnded, NoClosing, HandInv, HandOK, TypeOK, Hands
      <3>4. CASE CloseIncidentFails
        BY <3>4 DEF CloseIncidentFails, HandInv, HandOK, TypeOK, Hands
      <3> QED
        BY <1>3, <3>1, <3>2, <3>3, <3>4
    <2> QED
      BY <2>1, <2>2, <2>3 DEF HandInv, HandOK
  <1>4. ASSUME ScanJourneys \/ (\E j \in Groups : TakeJourney(j)) \/ TellDeparted \/ CloseJourneyFails
        PROVE  Rows' /\ TxInv' /\ HandInv'
    <2>1. /\ UNCHANGED <<obs, incident, journey, tx, closing>>
          /\ spent'.sightings = spent.sightings
      BY <1>4, SpendTypes
      DEF ScanJourneys, TakeJourney, TellDeparted, CloseJourneyFails
    <2>2. Rows' /\ TxInv'
      BY <1>0, <2>1, RowsKept, TxKept
    <2>3. HandOK(parting', journey)
      <3>1. CASE ScanJourneys
        BY <3>1 DEF ScanJourneys, Stalest, Quiet, NoParting, HandOK
      <3>2. CASE \E j \in Groups : TakeJourney(j)
        BY <3>2 DEF TakeJourney, HandInv, HandOK, TypeOK, Hands
      <3>3. CASE TellDeparted
        BY <3>3 DEF TellDeparted, NoParting, HandInv, HandOK, TypeOK, Hands
      <3>4. CASE CloseJourneyFails
        BY <3>4 DEF CloseJourneyFails, NoParting, HandOK
      <3> QED
        BY <1>4, <3>1, <3>2, <3>3, <3>4
    <2> QED
      BY <2>1, <2>2, <2>3 DEF HandInv, HandOK
  <1>5. ASSUME RefreshFails
        PROVE  Rows' /\ TxInv' /\ HandInv'
    <2>1. /\ PartsOne /\ UNCHANGED <<tx, obs, incident, closing>>
          /\ spent'.sightings = spent.sightings
      BY <1>5, PartedJourneyFields, SpendTypes DEF RefreshFails
    <2>2. TxInv'
      BY <1>0, <2>1, TxKept DEF PartsOne
    <2>3. HandInv'
      BY <1>5, <2>1 DEF RefreshFails, NoParting, HandInv, HandOK
    <2> QED
      BY <1>5, <2>2, <2>3, CloseJourneyKeepsRows
  <1> QED
    BY <1>1, <1>2, <1>3, <1>4, <1>5 DEF IncidentStep, JourneyStep

(***************************************************************************)
(* The pipeline.                                                           *)
(***************************************************************************)
LEMMA ExtendSceneKeeps ==
  ASSUME IInv, NEW c \in Cameras, NEW when \in Stamps, ExtendScene(c, when)
  PROVE  Rows' /\ TxInv' /\ HandInv'
  <1> USE DEF IInv
  <1>1. UNCHANGED <<incident, journey, tx, closing, parting, spent>> /\ tx.at = "idle"
    BY DEF ExtendScene
  <1>2. PICK e \in Sightings : obs[e].cam = c /\ obs' = [obs EXCEPT ![e].upto = when]
    BY DEF ExtendScene, Recent
  <1>3. obs[e].upto <= when
    BY <1>2 DEF ExtendScene, InOrder
  <1>4. \A o \in Sightings : /\ obs'[o].cam = obs[o].cam /\ obs'[o].subs = obs[o].subs
                             /\ obs[o].upto <= obs'[o].upto
                             /\ o /= e => obs'[o] = obs[o]
    BY <1>2, <1>3, StampTypes DEF TypeOK, Observations, Times
  <1>5. ObsInv'
    <2>1. Stored(e)
      BY <1>2, TrackersAssumption DEF Stored
    <2> QED
      BY <1>1, <1>4, <2>1 DEF Rows, ObsInv, Stored
  <1>6. IncidentInv'
    <2>1. ASSUME NEW i \in Groups, IncidentOK(i)
          PROVE  IncidentOK(i)'
      <3>1. CASE incident[i].state = "none"
        BY <1>1, <2>1, <3>1 DEF IncidentOK
      <3>2. CASE incident[i].state /= "none"
        <4>1. PICK o \in Sightings : obs[o].cam = incident[i].cam /\ incident[i].last <= obs[o].upto
          BY <2>1, <3>2 DEF IncidentOK
        <4>2. incident[i].last <= obs'[o].upto
          BY <1>1, <1>2, <1>4, <4>1, StampTypes DEF TypeOK, Observations, IncidentRows, Times
        <4>3. i[1] \in Sightings /\ \A q \in incident[i].seen : q \in Sightings
          BY GroupParts DEF TypeOK, IncidentRows
        <4> QED
          BY <1>1, <1>4, <2>1, <3>2, <4>1, <4>2, <4>3 DEF IncidentOK, Stored
      <3> QED
        BY <3>1, <3>2
    <2> QED
      BY <2>1 DEF Rows, IncidentInv
  <1>7. JourneyInv'
    BY <1>1, <1>4, GroupParts DEF Rows, JourneyInv, Stored
  <1>8. SightingsFiled'
    BY <1>1, <1>4 DEF Rows, SightingsFiled, Holding
  <1>9. OneOpenInWindow' /\ JourneyReaches'
    BY <1>1 DEF Rows, OneOpenInWindow, JourneyReaches
  <1>10. TxInv'
    BY <1>1 DEF TxInv, FrameInv, FiledInv, LinkInv
  <1>11. HandInv'
    BY <1>1 DEF HandInv, HandOK
  <1> QED
    BY <1>5, <1>6, <1>7, <1>8, <1>9, <1>10, <1>11 DEF Rows

LEMMA ObserveKeeps ==
  ASSUME IInv, NEW c \in Cameras, NEW when \in Stamps, NEW S \in SUBSET Subjects,
         Observe(c, when, S)
  PROVE  Rows' /\ TxInv' /\ HandInv'
  <1> USE DEF IInv
  <1>1. /\ UNCHANGED <<obs, incident, journey, closing, parting>>
        /\ spent'.sightings = spent.sightings + 1 /\ spent.sightings \in Nat
        /\ spent.sightings + 1 \in Sightings /\ InOrder(c, when)
    BY TrackersAssumption DEF Observe, Spend, TypeOK, Sightings
  <1>2. Rows'
    BY <1>1, RowsKept
  <1>3. /\ tx'.at = "find" /\ tx'.obs = spent.sightings + 1 /\ tx'.cam = c /\ tx'.when = when
        /\ tx'.subs = S /\ tx'.todo = S
        /\ tx'.incs = [i \in Groups |-> NoIncident] /\ tx'.jours = [j \in Groups |-> NoJourney]
    BY DEF Observe, NoTx
  <1>4. ~Stored(spent.sightings + 1)
    BY <1>1 DEF Rows, ObsInv
  <1>5. FrameInv'
    BY <1>1, <1>3, <1>4 DEF FrameInv, Stored, InOrder
  <1>6. \A i \in Groups : tx'.incs[i].state = "none" /\ tx'.jours[i].state = "none"
    BY <1>3 DEF NoIncident, NoJourney
  <1>7. FiledInv' /\ LinkInv'
    BY <1>3, <1>6 DEF FiledInv, LinkInv
  <1>8. HandInv'
    BY <1>1 DEF HandInv, HandOK
  <1> QED
    BY <1>2, <1>5, <1>7, <1>8 DEF TxInv

(* The row FindIncident chooses for a subject.                             *)
ChosenOK(i, row) ==
  /\ row.state = "open" /\ row.cam = tx.cam /\ row.first <= tx.when /\ row.last = tx.when
  /\ row.seen = incident[i].seen \union {tx.obs} /\ row.count = incident[i].count + 1
  /\ IF incident[i].state = "none" THEN i[1] = tx.obs ELSE incident[i].cam = tx.cam
  /\ \A k \in Groups :
       (/\ k /= i /\ k[2] = i[2]
        /\ incident[k].state = "open" /\ incident[k].cam = tx.cam) =>
         row.first > incident[k].last + IncidentIdle
  /\ i[2] \notin Followed => row.journey = None

LEMMA FreshIsOK ==
  ASSUME IInv, tx.at = "find", NEW s \in Subjects, OpenFor(s) = {}
  PROVE  <<tx.obs, s>> \in Groups /\ <<tx.obs, s>>[2] = s /\ ChosenOK(<<tx.obs, s>>, NewIncident)
  <1> USE DEF IInv
  <1> DEFINE i == <<tx.obs, s>>
  <1>1. /\ tx.obs \in Sightings /\ ~Stored(tx.obs) /\ tx.when \in Nat
        /\ i \in Groups /\ i[1] = tx.obs /\ i[2] = s
    BY PairIsGroup, TrackersAssumption DEF FrameInv, TypeOK, Transactions, Times
  <1> HIDE DEF i
  <1>2. incident[i] = NoIncident
    BY <1>1 DEF Rows, IncidentInv, IncidentOK
  <1>3. ASSUME NEW k \in Groups, k[2] = s, incident[k].state = "open", incident[k].cam = tx.cam
        PROVE  tx.when > incident[k].last + IncidentIdle
    <2>1. incident[k].last \in Nat /\ IncidentIdle \in Nat
      BY TrackersAssumption DEF TypeOK, IncidentRows, Times
    <2>2. ~(incident[k].last >= tx.when - IncidentIdle)
      BY <1>3 DEF OpenFor
    <2> QED
      BY <1>1, <2>1, <2>2
  <1>4. ChosenOK(i, NewIncident)
    BY <1>1, <1>2, <1>3 DEF ChosenOK, NewIncident, NoIncident
  <1> QED
    BY <1>1, <1>4 DEF i

LEMMA NewestIsOK ==
  ASSUME IInv, tx.at = "find", NEW s \in Subjects, NEW i \in Newest(OpenFor(s), incident)
  PROVE  i \in Groups /\ i[2] = s /\ ChosenOK(i, ExtendIncident(incident[i]))
  <1> USE DEF IInv
  <1>1. /\ i \in Groups /\ i[2] = s /\ incident[i].state = "open" /\ incident[i].cam = tx.cam
        /\ incident[i].last >= tx.when - IncidentIdle
        /\ \A k \in OpenFor(s) : incident[k].last <= incident[i].last
    BY DEF Newest, OpenFor
  <1>2. /\ tx.when \in Nat /\ IncidentIdle \in Nat
        /\ \A k \in Groups : incident[k].first \in Nat /\ incident[k].last \in Nat
    BY TrackersAssumption DEF TypeOK, Transactions, IncidentRows, Times
  <1>3. incident[i].first <= incident[i].last /\ incident[i].last <= tx.when
    <2>1. IncidentOK(i) /\ InOrder(tx.cam, tx.when)
      BY <1>1 DEF Rows, IncidentInv, FrameInv
    <2>2. PICK o \in Sightings : obs[o].cam = tx.cam /\ incident[i].last <= obs[o].upto
      BY <1>1, <2>1 DEF IncidentOK
    <2>3. obs[o].upto \in Nat /\ obs[o].upto <= tx.when
      BY <2>1, <2>2 DEF InOrder, TypeOK, Observations, Times
    <2> QED
      BY <1>1, <1>2, <2>1, <2>2, <2>3 DEF IncidentOK
  <1>4. ASSUME NEW k \in Groups, k /= i, k[2] = s, incident[k].state = "open",
               incident[k].cam = tx.cam
        PROVE  incident[i].first > incident[k].last + IncidentIdle
    <2>1. SUFFICES ASSUME incident[k].first > incident[i].last + IncidentIdle
                   PROVE  FALSE
      BY <1>1, <1>4 DEF Rows, OneOpenInWindow
    <2>2. incident[k].first <= incident[k].last
      BY <1>4 DEF Rows, IncidentInv, IncidentOK
    <2>3. incident[k].last > incident[i].last /\ incident[k].last >= tx.when - IncidentIdle
      BY <1>1, <1>2, <2>1, <2>2
    <2>4. k \in OpenFor(s)
      BY <1>4, <2>3 DEF OpenFor
    <2> QED
      BY <1>1, <1>2, <2>3, <2>4
  <1>5. incident[i] \in IncidentRows /\ (s \notin Followed => incident[i].journey = None)
    BY <1>1 DEF TypeOK, Rows, IncidentInv, IncidentOK
  <1>6. LET row == ExtendIncident(incident[i]) IN
        /\ row.state = "open" /\ row.cam = tx.cam /\ row.first = incident[i].first
        /\ row.last = tx.when /\ row.seen = incident[i].seen \union {tx.obs}
        /\ row.count = incident[i].count + 1 /\ row.journey = incident[i].journey
    BY <1>1, <1>5 DEF ExtendIncident, IncidentRows
  <1>7. incident[i].first <= tx.when
    BY <1>1, <1>2, <1>3
  <1> QED
    BY <1>1, <1>4, <1>5, <1>6, <1>7 DEF ChosenOK

LEMMA FindIncidentKeeps ==
  ASSUME IInv, FindIncident
  PROVE  Rows' /\ TxInv' /\ HandInv'
  <1> USE DEF IInv
  <1>1. /\ UNCHANGED <<obs, incident, journey, closing, parting, spent>>
        /\ tx.at = "find" /\ tx.todo \subseteq Subjects
    BY DEF FindIncident, TypeOK, Transactions
  <1>2. PICK h \in Groups, row \in IncidentRows :
          h[2] \in tx.todo /\ ChosenOK(h, row) /\ Hold(h, row)
    <2>1. PICK s \in tx.todo :
            \/ OpenFor(s) = {} /\ Hold(<<tx.obs, s>>, NewIncident)
            \/ \E i \in Newest(OpenFor(s), incident) : Hold(i, ExtendIncident(incident[i]))
      BY DEF FindIncident
    <2>2. NewIncident \in IncidentRows
      BY <1>1, FiledTypes
    <2>3. \A i \in Groups : ExtendIncident(incident[i]) \in IncidentRows
      BY <1>1, FiledTypes DEF TypeOK
    <2>4. CASE OpenFor(s) = {} /\ Hold(<<tx.obs, s>>, NewIncident)
      BY <1>1, <2>1, <2>2, <2>4, FreshIsOK
    <2>5. CASE \E i \in Newest(OpenFor(s), incident) : Hold(i, ExtendIncident(incident[i]))
      BY <1>1, <2>1, <2>3, <2>5, NewestIsOK
    <2> QED
      BY <2>1, <2>4, <2>5
  <1>3. /\ tx'.at = "link" /\ tx'.held = h /\ tx'.incs = [tx.incs EXCEPT ![h] = row]
        /\ tx'.obs = tx.obs /\ tx'.cam = tx.cam /\ tx'.when = tx.when
        /\ tx'.subs = tx.subs /\ tx'.todo = tx.todo /\ tx'.jours = tx.jours
    BY <1>2 DEF Hold, TypeOK, Transactions
  <1>4. tx'.incs[h] = row /\ \A i \in Groups : i /= h => tx'.incs[i] = tx.incs[i]
    BY <1>3 DEF TypeOK, Transactions
  <1>5. \A i \in Groups : tx.incs[i].state /= "none" => FiledOK(i) /\ i[2] \notin tx.todo /\ i /= h
    BY <1>1, <1>2 DEF FiledInv, FiledOK, InHand
  <1>6. FrameInv'
    BY <1>1, <1>2, <1>3, <1>4 DEF FrameInv, Stored, InOrder, ChosenOK
  <1>7. FiledInv'
    <2>1. ASSUME NEW i \in Groups, tx'.incs[i].state /= "none"
          PROVE  FiledOK(i)'
      <3>1. CASE i = h
        BY <1>1, <1>2, <1>3, <1>4, <3>1 DEF ChosenOK, FiledOK, InHand, FrameInv
      <3>2. CASE i /= h
        <4>1. FiledOK(i) /\ i[2] \notin tx.todo /\ tx'.incs[i] = tx.incs[i]
          BY <1>4, <1>5, <2>1, <3>2
        <4> QED
          BY <1>1, <1>3, <4>1 DEF FiledOK, InHand
      <3> QED
        BY <3>1, <3>2
    <2>2. \A i, k \in Groups : (/\ tx'.incs[i].state /= "none" /\ tx'.incs[k].state /= "none"
                                /\ i[2] = k[2]) => i = k
      BY <1>1, <1>2, <1>4, <1>5 DEF FiledInv
    <2>3. \A s \in tx.subs \ tx.todo :
            \E i \in Groups : i[2] = s /\ tx'.incs[i].state /= "none"
      BY <1>1, <1>2, <1>4, <1>5 DEF FiledInv
    <2> QED
      BY <1>3, <2>1, <2>2, <2>3 DEF FiledInv
  <1>8. LinkInv'
    <2>1. ASSUME NEW i \in Groups, tx'.incs[i].state /= "none"
          PROVE  LinkOK(i)'
      <3>1. CASE i = h
        BY <1>2, <1>3, <1>4, <3>1 DEF ChosenOK, LinkOK, InHand
      <3>2. CASE i /= h
        <4>1. LinkOK(i) /\ ~InHand(i) /\ tx'.incs[i] = tx.incs[i]
          BY <1>1, <1>4, <2>1, <3>2 DEF LinkInv, InHand
        <4> QED
          BY <1>3, <4>1 DEF LinkOK
      <3> QED
        BY <3>1, <3>2
    <2> QED
      BY <1>1, <1>3, <2>1 DEF LinkInv
  <1>9. Rows' /\ HandInv'
    BY <1>1, RowsKept, HandsKept
  <1> QED
    BY <1>6, <1>7, <1>8, <1>9 DEF TxInv

(* With the incident in hand done, the transaction goes on.                *)
LEMMA NextSubject ==
  ASSUME IInv, tx.at = "link", tx'.at = "find", UNCHANGED <<obs, incident, spent>>,
         tx'.obs = tx.obs, tx'.cam = tx.cam, tx'.when = tx.when, tx'.subs = tx.subs,
         tx'.todo = tx.todo \ {tx.held[2]},
         \A i \in Groups :
           /\ tx'.incs[i].state = tx.incs[i].state /\ tx'.incs[i].cam = tx.incs[i].cam
           /\ tx'.incs[i].first = tx.incs[i].first /\ tx'.incs[i].last = tx.incs[i].last
           /\ tx'.incs[i].seen = tx.incs[i].seen /\ tx'.incs[i].count = tx.incs[i].count
  PROVE  FrameInv' /\ FiledInv'
  <1> USE DEF IInv
  <1>1. FrameInv'
    BY DEF FrameInv, Stored, InOrder
  <1>2. ASSUME NEW i \in Groups, tx.incs[i].state /= "none"
        PROVE  FiledOK(i)'
    <2>1. FiledOK(i) /\ i[2] \notin tx'.todo
      BY <1>2 DEF FiledInv, FiledOK, InHand
    <2> QED
      BY <2>1 DEF FiledOK
  <1>3. \A s \in tx'.subs \ tx'.todo :
          \E i \in Groups : i[2] = s /\ tx'.incs[i].state /= "none"
    BY DEF FiledInv, FrameInv
  <1> QED
    BY <1>1, <1>2, <1>3 DEF FiledInv

LEMMA NoJourneyKindKeeps ==
  ASSUME IInv, NoJourneyKind
  PROVE  Rows' /\ TxInv' /\ HandInv'
  <1> USE DEF IInv
  <1>1. /\ UNCHANGED <<obs, incident, journey, closing, parting, spent>>
        /\ tx.at = "link" /\ tx.held[2] \notin Followed
        /\ tx'.at = "find" /\ tx'.obs = tx.obs /\ tx'.cam = tx.cam /\ tx'.when = tx.when
        /\ tx'.subs = tx.subs /\ tx'.todo = tx.todo \ {tx.held[2]}
        /\ tx'.incs = tx.incs /\ tx'.jours = tx.jours
    BY DEF NoJourneyKind, TypeOK, Transactions
  <1>2. FrameInv' /\ FiledInv'
    BY <1>1, NextSubject
  <1>3. LinkInv'
    BY <1>1 DEF LinkInv, LinkOK, InHand
  <1>4. Rows' /\ HandInv'
    BY <1>1, RowsKept, HandsKept
  <1> QED
    BY <1>2, <1>3, <1>4 DEF TxInv

(* The journey LinkJourney chooses, and what it makes of it.               *)
JoinedOK(j, jrow) ==
  /\ j \in Groups /\ j[2] = tx.held[2] /\ jrow.state = "open" /\ tx.when <= jrow.last
  /\ IF journey[j].state = "none" THEN j[1] = tx.obs ELSE journey[j].last <= jrow.last

LEMMA JoinedIsOK ==
  ASSUME IInv, LinkJourney
  PROVE  \E j \in Groups, jrow \in JourneyRows : JoinedOK(j, jrow) /\ Linked(j, jrow)
  <1> USE DEF IInv
  <1> DEFINE row == tx.incs[tx.held]
             s   == tx.held[2]
  <1>1. /\ tx.at = "link" /\ tx.obs \in Sightings /\ ~Stored(tx.obs) /\ tx.held \in Groups
        /\ s \in Subjects /\ row \in IncidentRows /\ row.last = tx.when /\ tx.when \in Nat
    BY GroupParts, TrackersAssumption
    DEF LinkJourney, FrameInv, FiledInv, FiledOK, TypeOK, Transactions, Times
  <1>2. \/ JourneysFor(s, row.last) = {} /\ Linked(<<tx.obs, s>>, NewJourney(row))
        \/ \E j \in Newest(JourneysFor(s, row.last), journey) :
             Linked(j, ExtendJourney(journey[j], row))
    BY DEF LinkJourney
  <1> HIDE DEF row, s
  <1>3. CASE Linked(<<tx.obs, s>>, NewJourney(row))
    <2>1. <<tx.obs, s>> \in Groups /\ <<tx.obs, s>>[1] = tx.obs /\ <<tx.obs, s>>[2] = s
      BY <1>1, PairIsGroup
    <2>2. NewJourney(row) \in JourneyRows
      BY <1>1, LinkedTypes
    <2>3. NewJourney(row).state = "open" /\ NewJourney(row).last = tx.when
      BY <1>1 DEF NewJourney, NoJourney
    <2>4. journey[<<tx.obs, s>>].state = "none"
      BY <1>1, <2>1 DEF Rows, JourneyInv
    <2>5. JoinedOK(<<tx.obs, s>>, NewJourney(row))
      BY <1>1, <2>1, <2>3, <2>4 DEF JoinedOK, s
    <2> QED
      BY <1>3, <2>1, <2>2, <2>5
  <1>4. ASSUME NEW j \in Newest(JourneysFor(s, row.last), journey),
               Linked(j, ExtendJourney(journey[j], row))
        PROVE  \E k \in Groups, jrow \in JourneyRows : JoinedOK(k, jrow) /\ Linked(k, jrow)
    <2>1. /\ j \in Groups /\ j[2] = s /\ journey[j].state = "open" /\ journey[j] \in JourneyRows
          /\ journey[j].last \in Nat
      BY TrackersAssumption DEF Newest, JourneysFor, TypeOK, JourneyRows, Times
    <2>2. ExtendJourney(journey[j], row) \in JourneyRows
      BY <1>1, <2>1, LinkedTypes
    <2>3. /\ ExtendJourney(journey[j], row).state = "open"
          /\ ExtendJourney(journey[j], row).last = Later(journey[j].last, tx.when)
      BY <1>1, <2>1 DEF ExtendJourney, JourneyRows
    <2>4. JoinedOK(j, ExtendJourney(journey[j], row))
      BY <1>1, <2>1, <2>3 DEF JoinedOK, Later, s
    <2> QED
      BY <1>4, <2>1, <2>2, <2>4
  <1> QED
    BY <1>2, <1>3, <1>4

LEMMA LinkJourneyKeeps ==
  ASSUME IInv, LinkJourney
  PROVE  Rows' /\ TxInv' /\ HandInv'
  <1> USE DEF IInv
  <1> DEFINE h == tx.held
  <1>1. /\ UNCHANGED <<obs, incident, journey, closing, parting, spent>>
        /\ tx.at = "link" /\ h \in Groups /\ h[2] \in Followed /\ tx.incs[h].state /= "none"
    BY DEF LinkJourney, FrameInv
  <1>2. PICK j \in Groups, jrow \in JourneyRows : JoinedOK(j, jrow) /\ Linked(j, jrow)
    BY JoinedIsOK
  <1>3. /\ tx'.at = "find" /\ tx'.obs = tx.obs /\ tx'.cam = tx.cam /\ tx'.when = tx.when
        /\ tx'.subs = tx.subs /\ tx'.todo = tx.todo \ {h[2]}
        /\ tx'.incs = [tx.incs EXCEPT ![h].journey = j]
        /\ tx'.jours = [tx.jours EXCEPT ![j] = jrow]
    BY <1>2 DEF Linked, TypeOK, Transactions
  <1> HIDE DEF h
  <1>4. /\ tx'.incs[h] = [tx.incs[h] EXCEPT !.journey = j] /\ tx.incs[h] \in IncidentRows
        /\ \A i \in Groups : i /= h => tx'.incs[i] = tx.incs[i]
        /\ tx'.jours[j] = jrow /\ \A k \in Groups : k /= j => tx'.jours[k] = tx.jours[k]
    BY <1>1, <1>3 DEF TypeOK, Transactions
  <1>5. /\ tx'.incs[h].journey = j
        /\ \A i \in Groups :
             /\ tx'.incs[i].state = tx.incs[i].state /\ tx'.incs[i].cam = tx.incs[i].cam
             /\ tx'.incs[i].first = tx.incs[i].first /\ tx'.incs[i].last = tx.incs[i].last
             /\ tx'.incs[i].seen = tx.incs[i].seen /\ tx'.incs[i].count = tx.incs[i].count
    BY <1>4 DEF IncidentRows
  <1>6. FrameInv' /\ FiledInv'
    BY <1>1, <1>3, <1>5, NextSubject DEF h
  <1>7. LinkInv'
    <2>1. ASSUME NEW i \in Groups, tx'.incs[i].state /= "none"
          PROVE  LinkOK(i)'
      <3>1. CASE i = h
        BY <1>1, <1>2, <1>3, <1>4, <1>5, <3>1 DEF LinkOK, JoinedOK, h
      <3>2. CASE i /= h
        <4>1. /\ LinkOK(i) /\ ~InHand(i) /\ tx'.incs[i] = tx.incs[i] /\ i[2] /= h[2]
              /\ tx.incs[i].journey \in Links
          BY <1>1, <1>4, <1>5, <2>1, <3>2
          DEF LinkInv, FiledInv, InHand, TypeOK, Transactions, IncidentRows, h
        <4>2. CASE tx.incs[i].journey = None
          BY <4>1, <4>2 DEF LinkOK
        <4>3. CASE tx.incs[i].journey /= None
          <5>1. tx.incs[i].journey \in Groups /\ tx.incs[i].journey /= j
            BY <1>2, <4>1, <4>3 DEF LinkOK, JoinedOK, Links, h
          <5> QED
            BY <1>3, <1>4, <4>1, <5>1 DEF LinkOK
        <4> QED
          BY <4>2, <4>3
      <3> QED
        BY <3>1, <3>2
    <2>2. ASSUME NEW k \in Groups, tx'.jours[k].state /= "none"
          PROVE  IF journey[k].state = "none" THEN k[1] = tx.obs
                 ELSE journey[k].last <= tx'.jours[k].last
      BY <1>1, <1>2, <1>4, <2>2 DEF JoinedOK, LinkInv
    <2> QED
      BY <1>1, <1>3, <2>1, <2>2 DEF LinkInv
  <1>8. Rows' /\ HandInv'
    BY <1>1, RowsKept, HandsKept
  <1> QED
    BY <1>6, <1>7, <1>8 DEF TxInv

LEMMA SightingsFinite ==
  ASSUME NEW S \in SUBSET Sightings
  PROVE  IsFiniteSet(S) /\ Cardinality(S) \in Nat
  <1>1. IsFiniteSet(Sightings)
    BY FS_Interval, TrackersAssumption DEF Sightings
  <1> QED
    BY <1>1, FS_Subset, FS_CardinalityType

(* The tables after a commit.                                              *)
Committed ==
  /\ obs'[tx.obs].cam = tx.cam /\ obs'[tx.obs].subs = tx.subs /\ obs'[tx.obs].upto = tx.when
  /\ \A o \in Sightings : o /= tx.obs => obs'[o] = obs[o]
  /\ \A i \in Groups :
       IF tx.incs[i].state = "none" THEN incident'[i] = incident[i]
       ELSE /\ incident'[i].cam = tx.incs[i].cam /\ incident'[i].first = tx.incs[i].first
            /\ incident'[i].last = tx.incs[i].last /\ incident'[i].seen = tx.incs[i].seen
            /\ incident'[i].count = tx.incs[i].count
            /\ incident'[i].journey = tx.incs[i].journey
            /\ incident'[i].state = (IF incident[i].state = "none" THEN tx.incs[i].state
                                     ELSE incident[i].state)
  /\ \A j \in Groups :
       IF tx.jours[j].state = "none" THEN journey'[j] = journey[j]
       ELSE /\ journey'[j].last = tx.jours[j].last
            /\ journey'[j].state = (IF journey[j].state = "none" THEN tx.jours[j].state
                                    ELSE journey[j].state)

LEMMA CommitFacts ==
  ASSUME IInv, Commit
  PROVE  /\ Committed
         /\ tx.obs \in Sightings /\ ~Stored(tx.obs) /\ tx.todo = {} /\ tx.at = "find"
         /\ tx.cam \in Cameras /\ tx.obs = spent.sightings
  <1> USE DEF IInv
  <1>1. /\ tx.obs \in Sightings /\ ~Stored(tx.obs) /\ tx.todo = {} /\ tx.at = "find"
        /\ tx.cam \in Cameras /\ tx.obs = spent.sightings
    BY DEF Commit, FrameInv
  <1>2. obs' = [obs EXCEPT ![tx.obs] = [cam |-> tx.cam, subs |-> tx.subs, upto |-> tx.when]]
    BY DEF Commit
  <1>3. ASSUME NEW i \in Groups
        PROVE  /\ incident'[i] = Merge(incident[i], tx.incs[i])
               /\ incident[i] \in IncidentRows /\ tx.incs[i] \in IncidentRows
    BY DEF Commit, TypeOK, Transactions
  <1>4. ASSUME NEW j \in Groups
        PROVE  /\ journey'[j] = Merge(journey[j], tx.jours[j])
               /\ journey[j] \in JourneyRows /\ tx.jours[j] \in JourneyRows
    BY DEF Commit, TypeOK, Transactions
  <1>5. ASSUME NEW old \in IncidentRows, NEW new \in IncidentRows, new.state /= "none"
        PROVE  LET m == Merge(old, new) IN
               /\ m.cam = new.cam /\ m.first = new.first /\ m.last = new.last
               /\ m.seen = new.seen /\ m.count = new.count /\ m.journey = new.journey
               /\ m.state = (IF old.state = "none" THEN new.state ELSE old.state)
    BY <1>5 DEF Merge, IncidentRows
  <1>6. ASSUME NEW old \in JourneyRows, NEW new \in JourneyRows, new.state /= "none"
        PROVE  LET m == Merge(old, new) IN
               /\ m.last = new.last
               /\ m.state = (IF old.state = "none" THEN new.state ELSE old.state)
    BY <1>6 DEF Merge, JourneyRows
  <1>7. \A old, new : new.state = "none" => Merge(old, new) = old
    BY DEF Merge
  <1>8. /\ obs'[tx.obs].cam = tx.cam /\ obs'[tx.obs].subs = tx.subs /\ obs'[tx.obs].upto = tx.when
        /\ \A o \in Sightings : o /= tx.obs => obs'[o] = obs[o]
    BY <1>1, <1>2 DEF TypeOK
  <1> QED
    BY <1>1, <1>3, <1>4, <1>5, <1>6, <1>7, <1>8 DEF Committed

LEMMA CommitFiles ==
  ASSUME IInv, Commit
  PROVE  SightingsFiled'
  <1> USE DEF IInv
  <1>1. /\ Committed /\ tx.obs \in Sightings /\ ~Stored(tx.obs) /\ tx.todo = {} /\ tx.at = "find"
    BY CommitFacts
  <1>b. PICK b \in Sightings : b = tx.obs
    BY <1>1
  <1>2. \A i \in Groups : tx.incs[i].state /= "none" => FiledOK(i)
    BY <1>1 DEF FiledInv
  <1>3. \A i \in Groups : /\ tx.obs \notin incident[i].seen
                          /\ incident[i].state = "none" => incident[i].seen = {}
    BY <1>1 DEF Rows, IncidentInv, IncidentOK, NoIncident
  <1>4. ASSUME NEW i \in Groups
        PROVE  \A o \in Sightings : o \in incident'[i].seen <=>
                 (o \in incident[i].seen \/ (o = tx.obs /\ tx.incs[i].state /= "none"))
    BY <1>1, <1>2 DEF Committed, FiledOK
  <1>5. ASSUME NEW s \in Subjects, s \in tx.subs
        PROVE  \E i \in Groups : /\ Holding(b, s)' = {i}
                                 /\ incident'[i].cam = obs'[tx.obs].cam
    <2>1. PICK i \in Groups : i[2] = s /\ tx.incs[i].state /= "none"
      BY <1>1, <1>5 DEF FiledInv
    <2>2. \A k \in Groups : (k[2] = s /\ tx.incs[k].state /= "none") => k = i
      BY <1>1, <2>1 DEF FiledInv
    <2>3. Holding(b, s)' = {i}
      BY <1>1, <1>b, <1>3, <1>4, <2>1, <2>2 DEF Holding
    <2>4. incident'[i].cam = obs'[tx.obs].cam
      BY <1>1, <1>2, <2>1 DEF Committed, FiledOK
    <2> QED
      BY <2>3, <2>4
  <1>6. ASSUME NEW s \in Subjects, s \notin tx.subs
        PROVE  Holding(b, s)' = {}
    BY <1>1, <1>b, <1>2, <1>3, <1>4, <1>6 DEF Holding, FiledOK
  <1>7. ASSUME NEW o \in Sightings, NEW s \in Subjects, o /= tx.obs
        PROVE  IF s \in obs'[o].subs
               THEN \E i \in Groups : Holding(o, s)' = {i} /\ incident'[i].cam = obs'[o].cam
               ELSE Holding(o, s)' = {}
    <2>1. obs'[o] = obs[o]
      BY <1>1, <1>7 DEF Committed
    <2>2. Holding(o, s)' = Holding(o, s)
      BY <1>4, <1>7 DEF Holding
    <2>3. \A i \in Holding(o, s) : i \in Groups /\ incident'[i].cam = incident[i].cam
      BY <1>1, <1>2, <1>3 DEF Holding, Committed, FiledOK
    <2>4. CASE s \in obs[o].subs
      <3>1. PICK i \in Groups : Holding(o, s) = {i} /\ incident[i].cam = obs[o].cam
        BY <2>4 DEF Rows, SightingsFiled
      <3> QED
        BY <2>1, <2>2, <2>3, <2>4, <3>1
    <2>5. CASE s \notin obs[o].subs
      BY <2>1, <2>2, <2>5 DEF Rows, SightingsFiled
    <2> QED
      BY <2>4, <2>5
  <1>8. ASSUME NEW i \in Groups
        PROVE  incident'[i].count = Cardinality(incident'[i].seen)
    <2>1. incident[i].count = Cardinality(incident[i].seen) /\ incident[i].seen \in SUBSET Sightings
      BY DEF Rows, SightingsFiled, TypeOK, IncidentRows
    <2>2. CASE tx.incs[i].state = "none"
      BY <1>1, <2>1, <2>2 DEF Committed
    <2>3. CASE tx.incs[i].state /= "none"
      <3>1. /\ incident'[i].seen = incident[i].seen \union {tx.obs}
            /\ incident'[i].count = incident[i].count + 1
        BY <1>1, <1>2, <2>3 DEF Committed, FiledOK
      <3>2. Cardinality(incident[i].seen \union {tx.obs}) = Cardinality(incident[i].seen) + 1
        BY <1>3, <2>1, SightingsFinite, FS_AddElement
      <3> QED
        BY <2>1, <3>1, <3>2
    <2> QED
      BY <2>2, <2>3
  <1>9. obs'[tx.obs].subs = tx.subs
    BY <1>1 DEF Committed
  <1> QED
    BY <1>1, <1>b, <1>5, <1>6, <1>7, <1>8, <1>9 DEF SightingsFiled

LEMMA CommitKeeps ==
  ASSUME IInv, Commit
  PROVE  Rows' /\ TxInv' /\ HandInv'
  <1> USE DEF IInv
  <1>1. /\ Committed /\ tx.obs \in Sightings /\ ~Stored(tx.obs) /\ tx.todo = {} /\ tx.at = "find"
        /\ tx.cam \in Cameras /\ tx.obs = spent.sightings
        /\ UNCHANGED <<closing, parting, spent>> /\ tx' = NoTx
    BY CommitFacts DEF Commit
  <1>b. PICK b \in Sightings : b = tx.obs
    BY <1>1
  <1>t. TypeOK'
    BY PipelineTypes
  <1>2. \A i \in Groups : tx.incs[i].state /= "none" => FiledOK(i) /\ LinkOK(i) /\ ~InHand(i)
    BY <1>1 DEF FiledInv, LinkInv, InHand
  <1>3. \A o \in Sightings : Stored(o) => Stored(o)' /\ obs'[o] = obs[o] /\ o /= tx.obs
    BY <1>1 DEF Committed, Stored
  <1>4. Stored(b)'
    BY <1>1, <1>b, TrackersAssumption DEF Committed, Stored
  <1>5. ObsInv'
    <2>1. tx.obs <= spent.sightings
      BY <1>1 DEF Sightings
    <2> QED
      BY <1>1, <1>b, <1>4, <2>1 DEF Rows, ObsInv, Stored, Committed
  <1>6. IncidentInv'
    <2>1. ASSUME NEW i \in Groups, tx.incs[i].state = "none"
          PROVE  IncidentOK(i)'
      <3>1. IncidentOK(i) /\ incident'[i] = incident[i] /\ i[1] \in Sightings
        BY <1>1, <2>1, GroupParts DEF Committed, Rows, IncidentInv
      <3>2. \A o \in incident[i].seen : o \in Sightings
        BY DEF TypeOK, IncidentRows
      <3>3. \A o \in Sightings : obs[o].cam \in Cameras => Stored(o)
        BY TrackersAssumption DEF Stored
      <3>4. CASE incident[i].state = "none"
        BY <3>1, <3>4 DEF IncidentOK
      <3>5. CASE incident[i].state /= "none"
        <4>1. \E o \in Sightings : obs'[o].cam = incident[i].cam /\ incident[i].last <= obs'[o].upto
          BY <1>3, <3>1, <3>3, <3>5 DEF IncidentOK
        <4> QED
          BY <1>3, <3>1, <3>2, <3>5, <4>1 DEF IncidentOK
      <3> QED
        BY <3>4, <3>5
    <2>2. ASSUME NEW i \in Groups, tx.incs[i].state /= "none"
          PROVE  IncidentOK(i)'
      <3>1. /\ FiledOK(i) /\ LinkOK(i) /\ i[1] \in Sightings /\ IncidentOK(i)
        BY <1>2, <2>2, GroupParts DEF Rows, IncidentInv
      <3>2. incident'[i].state /= "none"
        BY <1>1, <2>2 DEF Committed
      <3>3. Stored(i[1])'
        BY <1>b, <1>3, <1>4, <3>1 DEF FiledOK, IncidentOK
      <3>4. /\ incident'[i].cam = tx.cam /\ incident'[i].first <= tx.when
            /\ incident'[i].last = tx.when /\ incident'[i].seen = incident[i].seen \union {tx.obs}
            /\ incident'[i].journey = tx.incs[i].journey
        BY <1>1, <2>2, <3>1 DEF Committed, FiledOK
      <3>5. \A o \in incident[i].seen : o \in Sightings /\ Stored(o)
        BY <3>1 DEF IncidentOK, NoIncident, TypeOK, IncidentRows
      <3>6. \E o \in Sightings : obs'[o].cam = tx.cam /\ tx.when <= obs'[o].upto
        <4>1. tx.when <= tx.when
          BY DEF TypeOK, Transactions, Times
        <4> QED
          BY <1>1, <4>1 DEF Committed
      <3> QED
        BY <1>1, <1>b, <1>3, <1>4, <3>1, <3>2, <3>3, <3>4, <3>5, <3>6 DEF IncidentOK, LinkOK
    <2> QED
      BY <2>1, <2>2 DEF IncidentInv
  <1>7. JourneyInv'
    BY <1>1, <1>b, <1>3, <1>4, GroupParts DEF Rows, JourneyInv, Committed, LinkInv
  <1>8. OneOpenInWindow'
    <2>1. ASSUME NEW i \in Groups, NEW k \in Groups, i /= k, i[2] = k[2],
                 incident'[i].cam = incident'[k].cam,
                 incident'[i].state = "open", incident'[k].state = "open",
                 tx.incs[i].state /= "none"
          PROVE  incident'[i].first > incident'[k].last + IncidentIdle
      <3>1. tx.incs[k].state = "none"
        BY <1>1, <2>1 DEF FiledInv
      <3>2. /\ incident'[k] = incident[k] /\ incident'[i].cam = tx.cam
            /\ incident'[i].first = tx.incs[i].first
        BY <1>1, <1>2, <2>1, <3>1 DEF Committed, FiledOK
      <3> QED
        BY <1>2, <2>1, <3>2 DEF FiledOK
    <2>2. \A i \in Groups : tx.incs[i].state = "none" => incident'[i] = incident[i]
      BY <1>1 DEF Committed
    <2> QED
      BY <2>1, <2>2 DEF Rows, OneOpenInWindow
  <1>9. JourneyReaches'
    <2>1. ASSUME NEW j \in Groups, journey[j].state /= "none"
          PROVE  journey'[j].state /= "none" /\ journey[j].last <= journey'[j].last
      <3>1. journey[j].last <= journey[j].last
        BY DEF TypeOK, JourneyRows, Times
      <3> QED
        BY <1>1, <2>1, <3>1 DEF Committed, LinkInv
    <2>2. ASSUME NEW i \in Groups, incident'[i].journey /= None
          PROVE  LET j == incident'[i].journey IN
                 /\ j[2] = i[2] /\ journey'[j].state /= "none"
                 /\ incident'[i].last <= journey'[j].last
      <3> DEFINE j == incident'[i].journey
      <3>1. CASE tx.incs[i].state = "none"
        <4>1. incident'[i] = incident[i] /\ j \in Groups
          BY <1>1, <2>2, <3>1 DEF Committed, TypeOK, IncidentRows, Links
        <4>2. /\ j[2] = i[2] /\ journey[j].state /= "none" /\ incident[i].last <= journey[j].last
          BY <2>2, <4>1 DEF Rows, JourneyReaches
        <4>3. incident[i].last \in Times /\ journey[j].last \in Times
          BY <4>1 DEF TypeOK, IncidentRows, JourneyRows
        <4>4. journey'[j].last \in Times
          BY <1>t, <4>1 DEF TypeOK, JourneyRows
        <4> QED
          BY <2>1, <4>1, <4>2, <4>3, <4>4 DEF Times
      <3>2. CASE tx.incs[i].state /= "none"
        <4>1. /\ incident'[i].journey = tx.incs[i].journey /\ incident'[i].last = tx.when
              /\ j \in Groups
          BY <1>1, <1>2, <2>2, <3>2
          DEF Committed, FiledOK, TypeOK, Transactions, IncidentRows, Links
        <4>2. j[2] = i[2] /\ tx.jours[j].state /= "none" /\ tx.when <= tx.jours[j].last
          BY <1>2, <2>2, <3>2, <4>1 DEF LinkOK
        <4> QED
          BY <1>1, <4>1, <4>2 DEF Committed
      <3> QED
        BY <3>1, <3>2
    <2> QED
      BY <2>2 DEF JourneyReaches
  <1>10. TxInv'
    BY <1>1, TxEnded
  <1>11. HandInv'
    <2>1. \A i \in Groups : incident[i].state = "open" => incident'[i].state = "open"
      BY <1>1 DEF Committed
    <2>2. \A j \in Groups : journey[j].state = "open" => journey'[j].state = "open"
      BY <1>1 DEF Committed
    <2> QED
      BY <1>1, <2>1, <2>2, HandsKept
  <1> QED
    BY <1>5, <1>6, <1>7, <1>8, <1>9, <1>10, <1>11, CommitFiles DEF Rows

(***************************************************************************)
(* The theorems.                                                           *)
(***************************************************************************)
LEMMA InitInv ==
  ASSUME Init
  PROVE  IInv
  <1>1. TypeOK
    BY InitTypes
  <1>2. /\ \A o \in Sightings : obs[o] = NoObs
        /\ \A i \in Groups : incident[i] = NoIncident /\ journey[i] = NoJourney
        /\ tx.at = "idle"
    BY DEF Init, NoTx
  <1>3. ObsInv /\ IncidentInv /\ JourneyInv
    <2>1. ObsInv
      BY <1>2 DEF ObsInv, Stored, NoObs
    <2>2. NoIncident.state = "none" /\ NoJourney.state = "none"
      BY DEF NoIncident, NoJourney
    <2>3. IncidentInv
      BY <1>2, <2>2 DEF IncidentInv, IncidentOK
    <2>4. JourneyInv
      BY <1>2, <2>2 DEF JourneyInv
    <2> QED
      BY <2>1, <2>3, <2>4
  <1>4. SightingsFiled
    <2>1. Cardinality({}) = 0
      BY FS_EmptySet
    <2> QED
      BY <1>2, <2>1 DEF SightingsFiled, Holding, NoObs, NoIncident
  <1>5. OneOpenInWindow /\ JourneyReaches
    BY <1>2 DEF OneOpenInWindow, JourneyReaches, NoIncident
  <1>6. FrameInv /\ FiledInv /\ LinkInv
    BY <1>2 DEF FrameInv, FiledInv, LinkInv
  <1>7. HandInv
    BY DEF Init, HandInv, HandOK, NoClosing, NoParting
  <1> QED
    BY <1>1, <1>3, <1>4, <1>5, <1>6, <1>7 DEF IInv, Rows

LEMMA NextInv ==
  ASSUME IInv, [Next]_vars
  PROVE  IInv'
  <1>1. TypeOK'
    BY TypesKept DEF IInv
  <1>2. TxInv /\ TypeOK /\ Rows /\ HandInv
    BY DEF IInv, TxInv
  <1> SUFFICES Rows' /\ TxInv' /\ HandInv'
    BY <1>1 DEF IInv, TxInv
  <1>3. CASE \E c \in Cameras, when \in Stamps : ExtendScene(c, when)
    BY <1>3, ExtendSceneKeeps
  <1>4. CASE \E c \in Cameras, when \in Stamps, S \in SUBSET Subjects : Observe(c, when, S)
    BY <1>4, ObserveKeeps
  <1>5. CASE PipelineStep
    BY <1>5, FindIncidentKeeps, LinkJourneyKeeps, NoJourneyKindKeeps, CommitKeeps DEF PipelineStep
  <1>6. CASE StoreFails
    <2>1. /\ UNCHANGED <<obs, incident, journey, closing, parting>> /\ tx' = NoTx
          /\ spent'.sightings = spent.sightings
      BY <1>2, <1>6, SpendTypes DEF StoreFails
    <2> QED
      BY <1>2, <2>1, RowsKept, TxEnded, HandsKept
  <1>7. CASE IncidentStep \/ CloseIncidentFails \/ JourneyStep \/ CloseJourneyFails \/ RefreshFails
    BY <1>7, FinalizersKeep
  <1>8. CASE Crash
    <2>1. /\ UNCHANGED <<obs, incident, journey>> /\ tx' = NoTx
          /\ spent'.sightings = spent.sightings
      BY <1>2, <1>8, SpendTypes DEF Crash
    <2>2. HandInv'
      BY <1>8 DEF Crash, HandInv, HandOK, NoClosing, NoParting
    <2> QED
      BY <1>2, <2>1, <2>2, RowsKept, TxEnded
  <1>9. CASE Tick \/ UNCHANGED vars
    <2>1. UNCHANGED <<obs, incident, journey, tx, closing, parting, spent>>
      BY <1>9 DEF Tick, vars
    <2> QED
      BY <1>2, <2>1, RowsKept, TxKept, HandsKept
  <1> QED
    BY <1>3, <1>4, <1>5, <1>6, <1>7, <1>8, <1>9 DEF Next

(* The inductive invariant holds: the rows, what the transaction has made  *)
(* of those it read, and what the finalizers have in hand, agree.          *)
THEOREM IInvHolds == Spec => []IInv
  <1>1. Init => IInv
    BY InitInv
  <1>2. IInv /\ [Next]_vars => IInv'
    BY NextInv
  <1> QED
    BY <1>1, <1>2, PTL DEF Spec

(* Every variable keeps its type, whatever the pipeline, the finalizers,   *)
(* failed writes and restarts do.                                          *)
THEOREM TypeCorrect == Spec => []TypeOK
  <1>1. IInv => TypeOK
    BY DEF IInv
  <1> QED
    BY <1>1, IInvHolds, PTL

(* A stored observation is in one incident of each subject it shows, and   *)
(* an incident counts the observations it holds.                           *)
THEOREM EverySightingIsFiled == Spec => []SightingsFiled
  <1>1. IInv => SightingsFiled
    BY DEF IInv, Rows
  <1> QED
    BY <1>1, IInvHolds, PTL

(* No incident is opened within the idle window of another open one.       *)
THEOREM WindowsAreApart == Spec => []OneOpenInWindow
  <1>1. IInv => OneOpenInWindow
    BY DEF IInv, Rows
  <1> QED
    BY <1>1, IInvHolds, PTL

(* A journey is that of its incidents' subject and lasts as long as they.  *)
THEOREM JourneysLast == Spec => []JourneyReaches
  <1>1. IInv => JourneyReaches
    BY DEF IInv, Rows
  <1> QED
    BY <1>1, IInvHolds, PTL

(* A step reopens no row and moves no end.                                 *)
LEMMA NextClosed ==
  ASSUME IInv, [Next]_vars
  PROVE  /\ \A i \in Groups : incident[i].state = "closed" =>
              incident'[i].state = "closed" /\ incident'[i].ended = incident[i].ended
         /\ \A j \in Groups : journey[j].state = "closed" =>
              journey'[j].state = "closed" /\ journey'[j].ended = journey[j].ended
  <1> USE DEF IInv
  <1>1. CASE Commit
    <2>1. ASSUME NEW old \in IncidentRows, NEW new \in IncidentRows, old.state = "closed"
          PROVE  Merge(old, new).state = "closed" /\ Merge(old, new).ended = old.ended
      BY <2>1 DEF Merge, IncidentRows
    <2>2. ASSUME NEW old \in JourneyRows, NEW new \in JourneyRows, old.state = "closed"
          PROVE  Merge(old, new).state = "closed" /\ Merge(old, new).ended = old.ended
      BY <2>2 DEF Merge, JourneyRows
    <2>3. \A i \in Groups : /\ incident[i] \in IncidentRows /\ tx.incs[i] \in IncidentRows
                            /\ incident'[i] = Merge(incident[i], tx.incs[i])
                            /\ journey[i] \in JourneyRows /\ tx.jours[i] \in JourneyRows
                            /\ journey'[i] = Merge(journey[i], tx.jours[i])
      BY <1>1 DEF Commit, TypeOK, Transactions
    <2> QED
      BY <2>1, <2>2, <2>3
  <1>2. CASE CloseIncident
    BY <1>2, IncidentClosed DEF CloseIncident
  <1>3. CASE CloseJourney \/ RefreshFails
    BY <1>3, JourneyClosed DEF CloseJourney, RefreshFails
  <1>4. CASE UNCHANGED <<incident, journey>>
    BY <1>4
  <1>5. Commit \/ CloseIncident \/ CloseJourney \/ RefreshFails \/ UNCHANGED <<incident, journey>>
    BY DEF Next, PipelineStep, IncidentStep, JourneyStep, ExtendScene, Observe, FindIncident,
           LinkJourney, NoJourneyKind, StoreFails, ScanIncidents, TakeIncident,
           CloseIncidentFails, TellEnded, ScanJourneys, TakeJourney, CloseJourneyFails,
           TellDeparted, Crash, Tick, vars
  <1> QED
    BY <1>1, <1>2, <1>3, <1>4, <1>5

(* What a finalizer closed stays closed, with the end it was given.        *)
THEOREM FinalizedForGood == Spec => ClosedForGood
  <1>1. IInv /\ [Next]_vars =>
          [/\ \A i \in Groups : incident[i].state = "closed" =>
                incident'[i].state = "closed" /\ incident'[i].ended = incident[i].ended
           /\ \A j \in Groups : journey[j].state = "closed" =>
                journey'[j].state = "closed" /\ journey'[j].ended = journey[j].ended]_vars
    BY NextClosed
  <1> QED
    BY <1>1, IInvHolds, PTL DEF Spec, ClosedForGood
=============================================================================

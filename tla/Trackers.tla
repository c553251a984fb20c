------------------------------ MODULE Trackers ------------------------------
(***************************************************************************)
(* Incidents and journeys (incident_tracker.py, journey_tracker.py and the *)
(* transaction of _store_observation in pipeline.py).  The pipeline stores *)
(* one observation at a time and files it, in the same transaction, into   *)
(* an incident per subject and each incident into a journey.  Two polling  *)
(* tasks of the same process close what has been quiet.                    *)
(*                                                                         *)
(* An incident or journey is named by the sighting and subject that opened *)
(* it.  Transactions read what is committed and write only the columns     *)
(* they changed; the pipeline and the finalizers change different columns, *)
(* so the row locks decide nothing but the order and are left out.         *)
(***************************************************************************)
EXTENDS Integers, FiniteSets, Sequences

CONSTANTS
  Cameras,
  NumSubjects,    \* subjects 1..NumSubjects
  Followed,       \* those of a kind in _TRACKABLE_KINDS
  Scenes,         \* bound: a camera, and the subjects a new observation of it shows
  NumSightings,   \* bound: observations stored, failed ones included
  IncidentIdle,   \* incident_idle_seconds
  JourneyIdle,    \* journey_idle_seconds
  Debounce,       \* DEBOUNCE_WINDOW
  Skew,           \* how far the frames of two cameras may be out of order
  Batch,          \* rows a finalizer looks at in a tick
  LastSighting,   \* bound: no frame after this time
  MaxTime,        \* bound: where the clock stops
  MaxTroubles     \* bound: failing writes and restarts of the process

Subjects == 1..NumSubjects
Sightings == 1..NumSightings
Away == "away"    \* no camera

ASSUME TrackersAssumption ==
  /\ Away \notin Cameras /\ NumSubjects \in Nat /\ NumSightings \in Nat /\ Followed \subseteq Subjects
  /\ IncidentIdle \in Nat \ {0} /\ JourneyIdle \in Nat \ {0}
  /\ Debounce \in Nat /\ Skew \in Nat /\ Batch \in Nat \ {0}
  /\ LastSighting \in Nat /\ MaxTime \in Nat \ {0} /\ MaxTroubles \in Nat

VARIABLES
  now,
  obs,        \* observations
  incident,   \* incidents, with their observation_incidents
  journey,    \* journeys
  tx,         \* the pipeline's transaction: its frame and the rows it holds
  closing,    \* IncidentFinalizer: rows of its tick, and the one in hand
  parting,    \* JourneyFinalizer, likewise
  guardian,   \* history: where guardians last heard each subject is
  spent       \* sightings, failures and restarts so far

vars == <<now, obs, incident, journey, tx, closing, parting, guardian, spent>>

Groups == Sightings \X Subjects
None == <<0, 0>>

NoObs == [cam |-> Away, subs |-> {}, upto |-> 0]
NoIncident == [state |-> "none", cam |-> Away, first |-> 0, last |-> 0, ended |-> 0,
               count |-> 0, seen |-> {}, journey |-> None]
NoJourney == [state |-> "none", first |-> 0, last |-> 0, ended |-> 0, segs |-> <<>>]
NoTx == [at |-> "idle", obs |-> 0, cam |-> Away, when |-> 0, subs |-> {}, todo |-> {},
         held |-> None,
         incs |-> [i \in Groups |-> NoIncident], jours |-> [j \in Groups |-> NoJourney]]
NoClosing == [at |-> "idle", todo |-> {}, held |-> None, ended |-> 0]
NoParting == [at |-> "idle", todo |-> {}, held |-> None, ended |-> 0]

Init ==
  /\ now = 1
  /\ obs = [o \in Sightings |-> NoObs]
  /\ incident = [i \in Groups |-> NoIncident] /\ journey = [j \in Groups |-> NoJourney]
  /\ tx = NoTx /\ closing = NoClosing /\ parting = NoParting
  /\ guardian = [s \in Subjects |-> Away]
  /\ spent = [sightings |-> 0, faults |-> 0, crashes |-> 0]

Trouble == spent.faults + spent.crashes < MaxTroubles
Spend(what) == spent' = [spent EXCEPT ![what] = @ + 1]
Later(a, b) == IF a > b THEN a ELSE b

(***************************************************************************)
(* The pipeline: _store_observation.                                       *)
(***************************************************************************)
(* The frames of one camera arrive in order.                               *)
InOrder(c, when) == \A o \in Sightings : obs[o].cam = c => obs[o].upto <= when

(* The camera's newest observation, when this frame is close enough to it. *)
Recent(c, when) ==
  {o \in Sightings : /\ obs[o].cam = c /\ when - obs[o].upto <= Debounce
                     /\ \A p \in Sightings : obs[p].cam = c => p <= o}

(* The same scene again: labels fall into the same categories and the same *)
(* people are named, whoever else is there.  The row is extended and no    *)
(* incident hears of it.                                                   *)
ExtendScene(c, when) ==
  /\ tx.at = "idle" /\ InOrder(c, when)
  /\ \E o \in Recent(c, when) : obs' = [obs EXCEPT ![o].upto = when]
  /\ UNCHANGED <<now, incident, journey, tx, closing, parting, guardian, spent>>

(* A new observation, inserted but not committed.                          *)
Observe(c, when, S) ==
  /\ tx.at = "idle" /\ InOrder(c, when) /\ spent.sightings < NumSightings /\ S /= {}
  /\ <<c, S>> \in Scenes
  /\ Spend("sightings")
  /\ tx' = [NoTx EXCEPT !.at = "find", !.obs = spent.sightings + 1, !.cam = c,
                        !.when = when, !.subs = S, !.todo = S]
  /\ UNCHANGED <<now, obs, incident, journey, closing, parting, guardian>>

(* Fault: the window ends a tick early. *)
OpenForLess(s) ==
  {i \in Groups : /\ i[2] = s /\ incident[i].state = "open" /\ incident[i].cam = tx.cam
                  /\ incident[i].last > tx.when - IncidentIdle}

(* Open incidents of the subject on this camera, seen within its window.   *)
OpenFor(s) ==
  {i \in Groups : /\ i[2] = s /\ incident[i].state = "open" /\ incident[i].cam = tx.cam
                  /\ incident[i].last >= tx.when - IncidentIdle}

Newest(S, rows) == {i \in S : \A k \in S : rows[k].last <= rows[i].last}

(* Fault: the loaded list is appended to in place, and so not written. *)
ExtendIncidentInPlace(row) ==
  [row EXCEPT !.last = tx.when, !.count = @ + 1]

ExtendIncident(row) ==
  [row EXCEPT !.last = tx.when, !.count = @ + 1, !.seen = @ \union {tx.obs}]

NewIncident ==
  [NoIncident EXCEPT !.state = "open", !.cam = tx.cam, !.first = tx.when, !.last = tx.when,
                     !.count = 1, !.seen = {tx.obs}]

Hold(i, row) == tx' = [tx EXCEPT !.at = "link", !.held = i, !.incs[i] = row]

(* _assign_one up to the incident: the newest open one, or one more.       *)
FindIncident ==
  /\ tx.at = "find"
  /\ \E s \in tx.todo :
       /\ \A t \in tx.todo : s <= t
       /\ \/ OpenFor(s) = {} /\ Hold(<<tx.obs, s>>, NewIncident)
          \/ \E i \in Newest(OpenFor(s), incident) : Hold(i, ExtendIncident(incident[i]))
  /\ UNCHANGED <<now, obs, incident, journey, closing, parting, guardian, spent>>

(* Open journeys of the subject, on whatever camera.                       *)
JourneysFor(s, last) ==
  {j \in Groups : /\ j[2] = s /\ journey[j].state = "open"
                  /\ journey[j].last >= last - JourneyIdle}

Segment(row) == [cam |-> tx.cam, from |-> row.first, upto |-> row.last]

(* _append_segment.  On the same camera the last segment is changed inside *)
(* the list that was loaded: the new list equals the loaded one, and       *)
(* SQLAlchemy writes no column whose value compares equal.                 *)
AppendSegment(segs, row) ==
  IF segs[Len(segs)].cam = tx.cam THEN segs ELSE Append(segs, Segment(row))

(* Fault: last_seen_at goes back to that of an earlier frame. *)
ExtendJourneyBack(jrow, row) ==
  [jrow EXCEPT !.last = row.last, !.segs = AppendSegment(@, row)]

ExtendJourney(jrow, row) ==
  [jrow EXCEPT !.last = Later(@, row.last), !.segs = AppendSegment(@, row)]

NewJourney(row) ==
  [NoJourney EXCEPT !.state = "open", !.first = row.first, !.last = row.last,
                    !.segs = <<Segment(row)>>]

(* The next subject of the frame.                                          *)
Linked(j, jrow) ==
  tx' = [tx EXCEPT !.at = "find", !.todo = @ \ {tx.held[2]}, !.held = None,
                   !.incs[tx.held].journey = j, !.jours[j] = jrow]

Heard(s, where) == guardian' = [guardian EXCEPT ![s] = where]

(* assign_journey.  Guardians hear of an arrival or of a change of camera  *)
(* at once, before anything is committed.                                  *)
LinkJourney ==
  LET s == tx.held[2]
      row == tx.incs[tx.held] IN
  /\ tx.at = "link" /\ s \in Followed
  /\ \/ /\ JourneysFor(s, row.last) = {}
        /\ Linked(<<tx.obs, s>>, NewJourney(row))
        /\ Heard(s, tx.cam)
     \/ \E j \in Newest(JourneysFor(s, row.last), journey) :
          LET segs == journey[j].segs IN
          /\ Linked(j, ExtendJourney(journey[j], row))
          /\ IF segs[Len(segs)].cam = tx.cam THEN UNCHANGED guardian ELSE Heard(s, tx.cam)
  /\ UNCHANGED <<now, obs, incident, journey, closing, parting, spent>>

(* Objects and unknown faces have no journey.                              *)
NoJourneyKind ==
  /\ tx.at = "link" /\ tx.held[2] \notin Followed
  /\ tx' = [tx EXCEPT !.at = "find", !.todo = @ \ {tx.held[2]}, !.held = None]
  /\ UNCHANGED <<now, obs, incident, journey, closing, parting, guardian, spent>>

(* Fault: the row is written as it was read. *)
MergeWhole(old, new) == IF new.state = "none" THEN old ELSE new

(* The columns the pipeline changed, in the row as it is now.              *)
Merge(old, new) ==
  IF new.state = "none" THEN old
  ELSE IF old.state = "none" THEN new
  ELSE [new EXCEPT !.state = old.state, !.ended = old.ended]

Commit ==
  /\ tx.at = "find" /\ tx.todo = {}
  /\ obs' = [obs EXCEPT ![tx.obs] = [cam |-> tx.cam, subs |-> tx.subs, upto |-> tx.when]]
  /\ incident' = [i \in Groups |-> Merge(incident[i], tx.incs[i])]
  /\ journey' = [j \in Groups |-> Merge(journey[j], tx.jours[j])]
  /\ tx' = NoTx
  /\ UNCHANGED <<now, closing, parting, guardian, spent>>

(* A statement fails: nothing of the observation is stored.                *)
StoreFails ==
  /\ tx.at /= "idle" /\ Trouble
  /\ Spend("faults")
  /\ tx' = NoTx
  /\ UNCHANGED <<now, obs, incident, journey, closing, parting, guardian>>

(***************************************************************************)
(* IncidentFinalizer.                                                      *)
(***************************************************************************)
(* The Batch open rows seen longest ago.                                   *)
Stalest(rows) ==
  LET open == {i \in Groups : rows[i].state = "open"} IN
  {T \in SUBSET open :
     /\ Cardinality(T) = (IF Cardinality(open) < Batch THEN Cardinality(open) ELSE Batch)
     /\ \A i \in T, k \in open \ T : rows[i].last <= rows[k].last}

Quiet(T, rows, idle) == {i \in T : now - rows[i].last >= idle}

(* _tick: which rows are due is decided here, for the whole tick.          *)
ScanIncidents ==
  /\ closing.at = "idle"
  /\ \E T \in Stalest(incident) :
       /\ Quiet(T, incident, IncidentIdle) /= {}
       /\ closing' = [NoClosing EXCEPT !.at = "next", !.todo = Quiet(T, incident, IncidentIdle)]
  /\ UNCHANGED <<now, obs, incident, journey, tx, parting, guardian, spent>>

(* _finalize reads the row again, but not whether it is still quiet.       *)
TakeIncident(i) ==
  /\ closing.at = "next" /\ i \in closing.todo
  /\ closing' = [closing EXCEPT !.at = "mark", !.todo = @ \ {i}, !.held = i,
                                !.ended = incident[i].last]
  /\ UNCHANGED <<now, obs, incident, journey, tx, parting, guardian, spent>>

(* _mark_finalized, in a session of its own.                               *)
CloseIncident ==
  /\ closing.at = "mark"
  /\ incident' = [incident EXCEPT ![closing.held].state = "closed",
                                  ![closing.held].ended = closing.ended]
  /\ closing' = [closing EXCEPT !.at = "tell"]
  /\ UNCHANGED <<now, obs, journey, tx, parting, guardian, spent>>

(* It logs a failure and _finalize goes on as if the row were closed.      *)
CloseIncidentFails ==
  /\ closing.at = "mark" /\ Trouble
  /\ Spend("faults")
  /\ closing' = [closing EXCEPT !.at = "tell"]
  /\ UNCHANGED <<now, obs, incident, journey, tx, parting, guardian>>

(* After the summary, however long it took: incident_ended.                *)
TellEnded ==
  /\ closing.at = "tell"
  /\ closing' = IF closing.todo = {} THEN NoClosing
                ELSE [closing EXCEPT !.at = "next", !.held = None]
  /\ UNCHANGED <<now, obs, incident, journey, tx, parting, guardian, spent>>

(***************************************************************************)
(* JourneyFinalizer.                                                       *)
(***************************************************************************)
ScanJourneys ==
  /\ parting.at = "idle"
  /\ \E T \in Stalest(journey) :
       /\ Quiet(T, journey, JourneyIdle) /= {}
       /\ parting' = [NoParting EXCEPT !.at = "next", !.todo = Quiet(T, journey, JourneyIdle)]
  /\ UNCHANGED <<now, obs, incident, journey, tx, closing, guardian, spent>>

TakeJourney(j) ==
  /\ parting.at = "next" /\ j \in parting.todo
  /\ parting' = [parting EXCEPT !.at = "mark", !.todo = @ \ {j}, !.held = j,
                                !.ended = journey[j].last]
  /\ UNCHANGED <<now, obs, incident, journey, tx, closing, guardian, spent>>

MarkJourney ==
  journey' = [journey EXCEPT ![parting.held].state = "closed",
                             ![parting.held].ended = parting.ended]

CloseJourney ==
  /\ parting.at = "mark"
  /\ MarkJourney
  /\ parting' = [parting EXCEPT !.at = "tell"]
  /\ UNCHANGED <<now, obs, incident, tx, closing, guardian, spent>>

(* Here a failed commit ends the tick.                                     *)
CloseJourneyFails ==
  /\ parting.at = "mark" /\ Trouble
  /\ Spend("faults")
  /\ parting' = NoParting
  /\ UNCHANGED <<now, obs, incident, journey, tx, closing, guardian>>

(* So does a failed refresh of the committed row: it is closed, and nobody *)
(* is told.                                                                *)
RefreshFails ==
  /\ parting.at = "mark" /\ Trouble
  /\ Spend("faults")
  /\ MarkJourney
  /\ parting' = NoParting
  /\ UNCHANGED <<now, obs, incident, tx, closing, guardian>>

(* Fault: no departure for a journey that stayed on one camera. *)
TellDepartedFar ==
  /\ parting.at = "tell"
  /\ IF Len(journey[parting.held].segs) > 1 THEN Heard(parting.held[2], Away) ELSE UNCHANGED guardian
  /\ parting' = IF parting.todo = {} THEN NoParting
                ELSE [parting EXCEPT !.at = "next", !.held = None]
  /\ UNCHANGED <<now, obs, incident, journey, tx, closing, spent>>

(* Guardians hear of the departure; then the summary, and the next row.    *)
TellDeparted ==
  /\ parting.at = "tell"
  /\ Heard(parting.held[2], Away)
  /\ parting' = IF parting.todo = {} THEN NoParting
                ELSE [parting EXCEPT !.at = "next", !.held = None]
  /\ UNCHANGED <<now, obs, incident, journey, tx, closing, spent>>

(***************************************************************************)
(* The process and time.                                                   *)
(***************************************************************************)
(* A restart: transactions are rolled back, ticks forgotten; the keyframe  *)
(* at hand is not delivered again.                                         *)
Crash ==
  /\ Trouble
  /\ Spend("crashes")
  /\ tx' = NoTx /\ closing' = NoClosing /\ parting' = NoParting
  /\ UNCHANGED <<now, obs, incident, journey, guardian>>

Tick ==
  /\ now < MaxTime
  /\ now' = now + 1
  /\ UNCHANGED <<obs, incident, journey, tx, closing, parting, guardian, spent>>

(* When a frame that is processed now may have been taken.                 *)
Stamps == {t \in 1..now : t >= now - Skew /\ now <= LastSighting}

PipelineStep == FindIncident \/ LinkJourney \/ NoJourneyKind \/ Commit
IncidentStep == ScanIncidents \/ (\E i \in Groups : TakeIncident(i)) \/ CloseIncident \/ TellEnded
JourneyStep == ScanJourneys \/ (\E j \in Groups : TakeJourney(j)) \/ CloseJourney \/ TellDeparted

Next ==
  \/ \E c \in Cameras, when \in Stamps : ExtendScene(c, when)
  \/ \E c \in Cameras, when \in Stamps, S \in SUBSET Subjects : Observe(c, when, S)
  \/ PipelineStep \/ StoreFails
  \/ IncidentStep \/ CloseIncidentFails
  \/ JourneyStep \/ CloseJourneyFails \/ RefreshFails
  \/ Crash \/ Tick

(* The event loop runs every task that can go on; both finalizers poll for *)
(* ever and catch what a tick raises.  Frames, faults and restarts are not *)
(* owed.                                                                   *)
Fairness ==
  /\ WF_vars(PipelineStep) /\ WF_vars(IncidentStep) /\ WF_vars(JourneyStep) /\ WF_vars(Tick)

Spec == Init /\ [][Next]_vars /\ Fairness

(***************************************************************************)
(* Properties.                                                             *)
(***************************************************************************)
States == {"none", "open", "closed"}
Times == 0..MaxTime
Places == Cameras \union {Away}
Links == Groups \union {None}
Observations == [cam : Places, subs : SUBSET Subjects, upto : Times]
Segments == [cam : Cameras, from : Times, upto : Times]
IncidentRows == [state : States, cam : Places, first : Times, last : Times, ended : Times,
                 count : Nat, seen : SUBSET Sightings, journey : Links]
JourneyRows == [state : States, first : Times, last : Times, ended : Times,
                segs : Seq(Segments)]
Transactions == [at : {"idle", "find", "link"}, obs : 0..NumSightings, cam : Places,
                 when : Times, subs : SUBSET Subjects, todo : SUBSET Subjects, held : Links,
                 incs : [Groups -> IncidentRows], jours : [Groups -> JourneyRows]]
Hands == [at : {"idle", "next", "mark", "tell"}, todo : SUBSET Groups, held : Links,
          ended : Times]

(* TypeOK: the type invariant.                                             *)
TypeOK ==
  /\ now \in 1..MaxTime
  /\ obs \in [Sightings -> Observations]
  /\ incident \in [Groups -> IncidentRows] /\ journey \in [Groups -> JourneyRows]
  /\ tx \in Transactions /\ closing \in Hands /\ parting \in Hands
  /\ guardian \in [Subjects -> Places]
  /\ spent \in [sightings : 0..NumSightings, faults : 0..MaxTroubles, crashes : 0..MaxTroubles]

Holding(o, s) == {i \in Groups : i[2] = s /\ o \in incident[i].seen}

(* SightingsFiled: a stored observation is in exactly one incident of each *)
(* subject it shows, on its camera, and an incident's occurrence_count is  *)
(* the number of observations in it, whatever the finalizer writes to the  *)
(* row between the pipeline's read and its commit.  Every camera has       *)
(* incident_tracking_enabled: without it observations have no incidents.   *)
SightingsFiled ==
  /\ \A o \in Sightings, s \in Subjects :
       IF s \in obs[o].subs
       THEN \E i \in Groups : Holding(o, s) = {i} /\ incident[i].cam = obs[o].cam
       ELSE Holding(o, s) = {}
  /\ \A i \in Groups : incident[i].count = Cardinality(incident[i].seen)

(* OneOpenInWindow: two open incidents of one subject on one camera are    *)
(* further apart than the idle window: the earlier one only waits to be    *)
(* closed, and no sighting was due in it.                                  *)
OneOpenInWindow ==
  \A i, k \in Groups :
    (/\ i /= k /\ i[2] = k[2] /\ incident[i].cam = incident[k].cam
     /\ incident[i].state = "open" /\ incident[k].state = "open") =>
      \/ incident[k].first > incident[i].last + IncidentIdle
      \/ incident[i].first > incident[k].last + IncidentIdle

(* JourneyReaches: the journey an incident points to is its subject's and  *)
(* lasts until the incident's last sighting at least, though frames of two *)
(* cameras come out of order and a finalizer writes the row meanwhile.     *)
JourneyReaches ==
  \A i \in Groups : incident[i].journey /= None =>
    /\ incident[i].journey[2] = i[2]
    /\ journey[incident[i].journey].state /= "none"
    /\ incident[i].last <= journey[incident[i].journey].last

(* ClosedForGood: what a finalizer has closed stays closed with the end it *)
(* was given, although the pipeline may commit a sighting it began to file *)
(* while the row was open.                                                 *)
ClosedForGood ==
  [][/\ \A i \in Groups : incident[i].state = "closed" =>
          incident'[i].state = "closed" /\ incident'[i].ended = incident[i].ended
     /\ \A j \in Groups : journey[j].state = "closed" =>
          journey'[j].state = "closed" /\ journey'[j].ended = journey[j].ended]_vars

(* DepartureIsTold: guardians are notified of a departure after they were  *)
(* of an arrival, short of a restart, a failed write or a failed refresh.  *)
(* A notification itself may fail unseen (_fire_guardian_event).           *)
DepartureIsTold ==
  \A s \in Followed :
    guardian[s] /= Away ~> (guardian[s] = Away \/ spent.faults + spent.crashes > 0)

(* What the documentation says and the code does not do.                   *)

(* ClosedWasQuiet: an incident is closed only when its subject has not     *)
(* been seen on the camera for the idle window.                            *)
ClosedWasQuiet ==
  [][\A i \in Groups : (incident[i].state = "open" /\ incident'[i].state = "closed") =>
       now - incident[i].last >= IncidentIdle]_vars

(* SceneHoldsIncident: a scene that is still being extended keeps the      *)
(* incidents of its subjects open.                                         *)
SceneHoldsIncident ==
  [][\A i \in Groups : (incident[i].state = "open" /\ incident'[i].state = "closed") =>
       \A o \in incident[i].seen : now - obs[o].upto >= IncidentIdle]_vars

(* GuardianKnows: while a subject's newest journey is open, the last thing *)
(* guardians heard is not that they left.                                  *)
GuardianKnows ==
  \A j \in Groups : (journey[j].state = "open" /\ now - journey[j].last < JourneyIdle) =>
    guardian[j[2]] /= Away

(* ArrivalIsStored: guardians hear of an arrival only when there is a      *)
(* journey, or one about to be stored.                                     *)
ArrivalIsStored ==
  \A s \in Subjects : (guardian[s] /= Away /\ tx.at = "idle") =>
    \E j \in Groups : j[2] = s /\ (journey[j].state = "open" \/ parting.held = j)

(* SegmentsReach: the last segment of a journey lasts as long as it.       *)
SegmentsReach ==
  \A j \in Groups : journey[j].state /= "none" =>
    LET segs == journey[j].segs IN segs[Len(segs)].upto = journey[j].last
=============================================================================

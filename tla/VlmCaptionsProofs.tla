-------------------------- MODULE VlmCaptionsProofs --------------------------
(***************************************************************************)
(* Theorems about VlmCaptions for any queue and any budget of passes: the  *)
(* passes of a row are numbered without a gap or a double, a raw lens is   *)
(* spent once, the summary in force is the one the caption shows, and no   *)
(* pass is edited, whatever live captions and refiners write meanwhile.    *)
(***************************************************************************)
EXTENDS VlmCaptions, VlmQueueProofs

Lenses == {"live", "attributes", "temporal", "anomaly", "summary"}
Passes == [no : 1..MaxPasses, lens : Lenses, authoritative : BOOLEAN]

RowType ==
  /\ row \in [caption : [by : {"nobody", "live", "refined", "summary"}, of : Nat],
              passes : SUBSET Passes, count : 0..MaxPasses]
  /\ refiners \subseteq Jobs
  /\ enrich \in [at : {"idle", "call", "commit"}, publish : BOOLEAN, no : 0..MaxPasses,
                 lens : {"attributes", "temporal", "anomaly", "summary", "none"}]

(* The pass under way: what is published is a summary, a raw lens is not   *)
(* yet on the row, the budget is not spent, and the number read is the     *)
(* next one unless a first live caption has taken it.                      *)
EnrichInv ==
  /\ enrich.at /= "idle" =>
       /\ enrich.lens /= "none"
       /\ enrich.publish => enrich.lens = "summary"
       /\ \A p \in row.passes : p.lens = enrich.lens => p.lens = "summary"
  /\ enrich.at = "call" => row.count < MaxPasses
  /\ enrich.at = "commit" =>
       /\ enrich.no \in 1..MaxPasses
       /\ enrich.no = row.count + 1 \/ (enrich.no = 1 /\ row.count = 1)

(* The inductive invariant on the row.                                     *)
CaptionInv == RowType /\ PassesNumbered /\ SummaryInForce /\ RawLensOnce /\ EnrichInv

(* The job a worker is captioning is a job that was offered.               *)
WorkerInv == worker.at \in {"call", "embed"} => worker.job \in Jobs

(***************************************************************************)
(* Lenses.                                                                 *)
(***************************************************************************)
LEMMA RawLensSet ==
  /\ Range(RawLenses) = {"attributes", "temporal", "anomaly"}
  /\ DOMAIN RawLenses = {1, 2, 3}
  /\ RawLenses[1] = "attributes" /\ RawLenses[2] = "temporal" /\ RawLenses[3] = "anomaly"
  BY DEF Range, RawLenses

(* The next lens is a summary, none, or a raw lens the row does not have.  *)
LEMMA NextLensFacts ==
  ASSUME NEW passes, NEW rec \in BOOLEAN
  PROVE  /\ NextLens(passes, rec) \in {"attributes", "temporal", "anomaly", "summary", "none"}
         /\ \A p \in passes : p.lens = NextLens(passes, rec) => p.lens \in {"summary", "none"}
  <1> DEFINE untaken == {i \in DOMAIN RawLenses :
                           /\ RawLenses[i] = "temporal" => rec
                           /\ RawLenses[i] \notin {p.lens : p \in passes}}
  <1>1. untaken \in SUBSET Nat /\ untaken \in SUBSET {1, 2, 3}
    BY RawLensSet
  <1>2. CASE untaken /= {}
    <2>1. Min(untaken) \in untaken
      BY <1>1, <1>2, MinElement
    <2>2. NextLens(passes, rec) = RawLenses[Min(untaken)]
      BY <1>2 DEF NextLens
    <2>3. RawLenses[Min(untaken)] \notin {p.lens : p \in passes}
      BY <2>1
    <2>4. RawLenses[Min(untaken)] \in {"attributes", "temporal", "anomaly"}
      BY <1>1, <2>1, RawLensSet
    <2> QED
      BY <2>2, <2>3, <2>4
  <1>3. CASE untaken = {}
    <2>1. NextLens(passes, rec) \in {"summary", "none"}
      BY <1>3 DEF NextLens
    <2> QED
      BY <2>1
  <1> QED
    BY <1>2, <1>3

(***************************************************************************)
(* The steps that write the row.                                           *)
(***************************************************************************)
LEMMA CaptionInit == Init => CaptionInv
  <1> SUFFICES ASSUME Init PROVE CaptionInv
    OBVIOUS
  <1>1. /\ row = [caption |-> NoText, passes |-> {}, count |-> 0]
        /\ refiners = {} /\ enrich = NoEnrich
    BY DEF Init
  <1>2. RowType
    BY <1>1, CaptionAssumption DEF RowType, NoText, Text, NoEnrich
  <1>3. PassesNumbered
    <2>1. Numbers = {}
      BY <1>1 DEF Numbers
    <2> QED
      BY <1>1, <2>1 DEF PassesNumbered
  <1>4. SummaryInForce /\ RawLensOnce /\ EnrichInv
    BY <1>1 DEF SummaryInForce, RawLensOnce, EnrichInv, NoEnrich, NoText, Text
  <1> QED
    BY <1>2, <1>3, <1>4 DEF CaptionInv

LEMMA LivePatchInv ==
  ASSUME CaptionInv, worker.job \in Nat, LivePatch
  PROVE  CaptionInv'
  <1> DEFINE live == [no |-> 1, lens |-> "live", authoritative |-> TRUE]
  <1>1. refiners' = refiners /\ enrich' = enrich
    BY DEF LivePatch
  <1>2. Numbers = 1..row.count /\ row.count \in 0..MaxPasses
    BY DEF CaptionInv, PassesNumbered, RowType
  <1>3. live \in Passes
    BY CaptionAssumption DEF Passes, Lenses
  <1>4. CASE 1 \in Numbers
    <2>1. row' = [row EXCEPT !.caption = Text("live", worker.job)]
      BY <1>4 DEF LivePatch, CaptionInv, RowType
    <2>2. row'.passes = row.passes /\ row'.count = row.count /\ row'.caption.by = "live"
      BY <2>1 DEF CaptionInv, RowType, Text
    <2>3. RowType'
      BY <1>1, <2>1 DEF CaptionInv, RowType, Text
    <2>4. PassesNumbered' /\ SummaryInForce' /\ RawLensOnce' /\ EnrichInv'
      BY <1>1, <2>2 DEF CaptionInv, PassesNumbered, Numbers, SummaryInForce, RawLensOnce, EnrichInv
    <2> QED
      BY <2>3, <2>4 DEF CaptionInv
  <1>5. CASE 1 \notin Numbers
    <2>1. row.count = 0 /\ row.passes = {}
      BY <1>2, <1>5 DEF Numbers
    <2>2. Max({0, 1}) = 1
      BY DEF Max
    <2>3. /\ row'.passes = {live} /\ row'.count = 1
          /\ row' = [caption |-> Text("live", worker.job), passes |-> {live}, count |-> 1]
      <3>1. row' = [row EXCEPT !.caption = Text("live", worker.job),
                               !.passes = row.passes \union {live},
                               !.count = Max({row.count, 1})]
        BY <1>5 DEF LivePatch, CaptionInv, RowType
      <3>2. row.passes \union {live} = {live} /\ Max({row.count, 1}) = 1
        BY <2>1, <2>2
      <3>3. row' = [row EXCEPT !.caption = Text("live", worker.job),
                               !.passes = {live}, !.count = 1]
        BY <3>1, <3>2
      <3>4. row \in [caption : [by : {"nobody", "live", "refined", "summary"}, of : Nat],
                     passes : SUBSET Passes, count : 0..MaxPasses]
        BY DEF CaptionInv, RowType
      <3> QED
        BY <3>3, <3>4
    <2>4. RowType'
      <3>1. Text("live", worker.job) \in [by : {"nobody", "live", "refined", "summary"}, of : Nat]
        BY DEF Text
      <3>2. 1 \in 0..MaxPasses /\ {live} \in SUBSET Passes
        BY <1>3, CaptionAssumption
      <3> HIDE DEF live
      <3>3. row' \in [caption : [by : {"nobody", "live", "refined", "summary"}, of : Nat],
                     passes : SUBSET Passes, count : 0..MaxPasses]
        BY <2>3, <3>1, <3>2
      <3> QED
        BY <1>1, <3>3 DEF CaptionInv, RowType
    <2>5. PassesNumbered'
      BY <2>3 DEF PassesNumbered, Numbers
    <2>6. row'.caption.by = "live"
      BY <2>3 DEF CaptionInv, RowType, Text
    <2>7. SummaryInForce' /\ RawLensOnce'
      BY <2>3, <2>6, RawLensSet DEF SummaryInForce, RawLensOnce, IsRaw
    <2>8. EnrichInv'
      BY <1>1, <2>1, <2>3, CaptionAssumption DEF CaptionInv, RowType, EnrichInv
    <2> QED
      BY <2>4, <2>5, <2>7, <2>8 DEF CaptionInv
  <1> QED
    BY <1>4, <1>5

(* A step that at most puts a caption other than a summary on the row.     *)
LEMMA CaptionOnly ==
  ASSUME CaptionInv, refiners' \in SUBSET Jobs, enrich' = enrich,
         \/ row' = row
         \/ \E j \in Nat : row' = [row EXCEPT !.caption = Text("refined", j)]
  PROVE  CaptionInv'
  <1>1. /\ row'.passes = row.passes /\ row'.count = row.count
        /\ row'.caption = row.caption \/ row'.caption.by = "refined"
    BY DEF CaptionInv, RowType, Text
  <1>2. RowType'
    BY DEF CaptionInv, RowType, Text
  <1>3. PassesNumbered' /\ RawLensOnce' /\ EnrichInv'
    BY <1>1 DEF CaptionInv, PassesNumbered, Numbers, RawLensOnce, EnrichInv
  <1>4. SummaryInForce'
    BY <1>1 DEF CaptionInv, SummaryInForce
  <1> QED
    BY <1>2, <1>3, <1>4 DEF CaptionInv

LEMMA EnrichBeginInv ==
  ASSUME CaptionInv, NEW rec \in BOOLEAN, NEW publish \in BOOLEAN, EnrichBegin(rec, publish)
  PROVE  CaptionInv'
  <1> DEFINE lens == NextLens(row.passes, rec)
  <1>1. /\ lens \in {"attributes", "temporal", "anomaly", "summary", "none"}
        /\ \A p \in row.passes : p.lens = lens => p.lens \in {"summary", "none"}
    BY NextLensFacts
  <1>2. /\ enrich' = [at |-> "call", lens |-> lens, publish |-> publish, no |-> 0]
        /\ lens /= "none" /\ (publish => lens = "summary") /\ row.count < MaxPasses
        /\ row' = row /\ refiners' = refiners
    BY DEF EnrichBegin
  <1> HIDE DEF lens
  <1>3. RowType'
    BY <1>1, <1>2, CaptionAssumption DEF CaptionInv, RowType
  <1>4. EnrichInv'
    BY <1>1, <1>2 DEF EnrichInv
  <1>5. PassesNumbered' /\ SummaryInForce' /\ RawLensOnce'
    BY <1>2 DEF CaptionInv, PassesNumbered, Numbers, SummaryInForce, RawLensOnce
  <1> QED
    BY <1>3, <1>4, <1>5 DEF CaptionInv

LEMMA EnrichTouchInv ==
  ASSUME CaptionInv, EnrichTouch
  PROVE  CaptionInv'
  <1>1. enrich' = NoEnrich /\ row' = row /\ refiners' = refiners
    BY DEF EnrichTouch
  <1>2. RowType' /\ EnrichInv'
    BY <1>1, CaptionAssumption DEF CaptionInv, RowType, EnrichInv, NoEnrich
  <1> QED
    BY <1>1, <1>2 DEF CaptionInv, PassesNumbered, Numbers, SummaryInForce, RawLensOnce

LEMMA EnrichReadInv ==
  ASSUME CaptionInv, EnrichRead
  PROVE  CaptionInv'
  <1>1. /\ enrich.at = "call" /\ enrich' = [enrich EXCEPT !.at = "commit", !.no = row.count + 1]
        /\ row' = row /\ refiners' = refiners
    BY DEF EnrichRead
  <1>2. row.count + 1 \in 1..MaxPasses
    BY <1>1, CaptionAssumption DEF CaptionInv, RowType, EnrichInv
  <1>3. RowType'
    <2>1. enrich' = [at |-> "commit", publish |-> enrich.publish, no |-> row.count + 1,
                     lens |-> enrich.lens]
      BY <1>1 DEF CaptionInv, RowType
    <2>2. row.count + 1 \in 0..MaxPasses
      BY <1>2
    <2> QED
      BY <1>1, <2>1, <2>2 DEF CaptionInv, RowType
  <1>4. EnrichInv'
    <2>1. /\ enrich'.at = "commit" /\ enrich'.no = row.count + 1
          /\ enrich'.lens = enrich.lens /\ enrich'.publish = enrich.publish
      BY <1>1 DEF CaptionInv, RowType
    <2> QED
      BY <1>1, <1>2, <2>1 DEF CaptionInv, EnrichInv
  <1>5. PassesNumbered' /\ SummaryInForce' /\ RawLensOnce'
    BY <1>1 DEF CaptionInv, PassesNumbered, Numbers, SummaryInForce, RawLensOnce
  <1> QED
    BY <1>3, <1>4, <1>5 DEF CaptionInv

(* Taking authority back changes neither the number nor the lens.          *)
LEMMA DemotedFacts ==
  ASSUME NEW p \in Passes
  PROVE  /\ Demoted(p) \in Passes /\ Demoted(p).no = p.no /\ Demoted(p).lens = p.lens
         /\ ~(Demoted(p).lens = "summary" /\ Demoted(p).authoritative)
  BY DEF Demoted, Passes

LEMMA EnrichCommitInv ==
  ASSUME CaptionInv, EnrichCommit
  PROVE  CaptionInv'
  <1> DEFINE pass == [no |-> enrich.no, lens |-> enrich.lens, authoritative |-> enrich.publish]
  <1>1. enrich.at = "commit" /\ enrich' = NoEnrich /\ refiners' = refiners
    BY DEF EnrichCommit
  <1>2. /\ enrich' \in [at : {"idle", "call", "commit"}, publish : BOOLEAN, no : 0..MaxPasses,
                        lens : {"attributes", "temporal", "anomaly", "summary", "none"}]
        /\ EnrichInv'
    BY <1>1, CaptionAssumption DEF NoEnrich, EnrichInv
  <1>3. /\ pass \in Passes /\ enrich.no \in 1..MaxPasses
        /\ enrich.publish \in BOOLEAN /\ enrich.publish => pass.lens = "summary"
    BY <1>1 DEF CaptionInv, RowType, EnrichInv, Passes, Lenses
  <1>4. /\ row.passes \in SUBSET Passes /\ row.count \in 0..MaxPasses
        /\ Numbers = 1..row.count /\ Numbers = {p.no : p \in row.passes}
        /\ \A p, q \in row.passes : p.no = q.no => p = q
    BY DEF CaptionInv, RowType, PassesNumbered, Numbers
  <1>5. CASE enrich.no \in Numbers
    <2>1. row' = row
      BY <1>5 DEF EnrichCommit
    <2> QED
      BY <1>1, <1>2, <2>1 DEF CaptionInv, RowType, PassesNumbered, Numbers, SummaryInForce,
         RawLensOnce
  <1>6. ASSUME enrich.no \notin Numbers PROVE CaptionInv'
    <2> DEFINE kept == {IF enrich.publish THEN Demoted(p) ELSE p : p \in row.passes}
    <2>1. enrich.no = row.count + 1
      BY <1>1, <1>4, <1>6 DEF CaptionInv, EnrichInv
    <2>2. /\ \A k \in kept : \E p \in row.passes :
               /\ k.no = p.no /\ k.lens = p.lens
               /\ enrich.publish => ~(k.lens = "summary" /\ k.authoritative)
          /\ \A p \in row.passes : \E k \in kept : k.no = p.no
          /\ \A k, l \in kept : (k.no = l.no => k = l) /\ (IsRaw(k) /\ k.lens = l.lens => k = l)
          /\ kept \in SUBSET Passes
          /\ ~enrich.publish => kept = row.passes
      <3>1. CASE enrich.publish
        <4>1. kept = {Demoted(p) : p \in row.passes}
          BY <3>1
        <4>2. \A p \in row.passes :
                /\ Demoted(p) \in Passes /\ Demoted(p).no = p.no /\ Demoted(p).lens = p.lens
                /\ ~(Demoted(p).lens = "summary" /\ Demoted(p).authoritative)
          BY <1>4, DemotedFacts
        <4>3. \A p, q \in row.passes : IsRaw(p) /\ p.lens = q.lens => p = q
          BY DEF CaptionInv, RawLensOnce
        <4> QED
          BY <1>4, <3>1, <4>1, <4>2, <4>3 DEF IsRaw
      <3>2. CASE ~enrich.publish
        <4>1. kept = row.passes
          BY <3>2
        <4> QED
          BY <1>4, <3>2, <4>1 DEF CaptionInv, RawLensOnce
      <3> QED
        BY <3>1, <3>2
    <2>3. /\ row'.passes = kept \union {pass} /\ row'.count = enrich.no
          /\ row'.caption = IF enrich.publish THEN Text("summary", enrich.no) ELSE row.caption
          /\ row' = [caption |-> row'.caption, passes |-> row'.passes, count |-> row'.count]
      <3>0. row \in [caption : [by : {"nobody", "live", "refined", "summary"}, of : Nat],
                     passes : SUBSET Passes, count : 0..MaxPasses]
        BY DEF CaptionInv, RowType
      <3>1. CASE enrich.publish
        <4>1. kept = {Demoted(p) : p \in row.passes}
          BY <3>1
        <4>2. row' = [row EXCEPT !.passes = {Demoted(p) : p \in row.passes} \union {pass},
                                !.count = enrich.no, !.caption = Text("summary", enrich.no)]
          BY <1>6, <3>1 DEF EnrichCommit
        <4> HIDE DEF kept, pass
        <4>3. row' = [row EXCEPT !.passes = kept \union {pass},
                                !.count = enrich.no, !.caption = Text("summary", enrich.no)]
          BY <4>1, <4>2
        <4> QED
          BY <3>0, <3>1, <4>3
      <3>2. CASE ~enrich.publish
        <4>1. kept = row.passes
          BY <3>2
        <4>2. row' = [row EXCEPT !.passes = row.passes \union {pass}, !.count = enrich.no]
          BY <1>6, <3>2 DEF EnrichCommit
        <4> HIDE DEF kept, pass
        <4>3. row' = [row EXCEPT !.passes = kept \union {pass}, !.count = enrich.no]
          BY <4>1, <4>2
        <4> QED
          BY <3>0, <3>2, <4>3
      <3> QED
        BY <3>1, <3>2
    <2>4. /\ pass.no = enrich.no /\ pass.lens = enrich.lens
          /\ pass.authoritative = enrich.publish
      OBVIOUS
    <2> HIDE DEF kept, pass
    <2>5. RowType'
      <3>1. row'.passes \in SUBSET Passes
        BY <1>3, <2>2, <2>3
      <3>2. row'.caption \in [by : {"nobody", "live", "refined", "summary"}, of : Nat]
        BY <1>3, <2>3 DEF CaptionInv, RowType, Text
      <3> QED
        BY <1>1, <1>2, <1>3, <2>3, <3>1, <3>2 DEF CaptionInv, RowType
    <2>6. PassesNumbered'
      <3>1. {p.no : p \in row'.passes} = {p.no : p \in row.passes} \union {enrich.no}
        BY <2>2, <2>3, <2>4
      <3>2. Numbers' = 1..row'.count
        BY <1>4, <2>1, <2>3, <3>1 DEF Numbers
      <3>3. \A k \in kept : k.no \in Numbers
        BY <1>4, <2>2
      <3>4. \A p, q \in row'.passes : p.no = q.no => p = q
        BY <1>6, <2>2, <2>3, <2>4, <3>3
      <3> QED
        BY <3>2, <3>4 DEF PassesNumbered
    <2>7. RawLensOnce'
      <3>1. \A p \in row.passes : p.lens = pass.lens => p.lens = "summary"
        BY <1>1, <2>4 DEF CaptionInv, EnrichInv
      <3>2. \A p : IsRaw(p) => p.lens /= "summary"
        BY RawLensSet DEF IsRaw
      <3>3. \A k \in kept : IsRaw(k) \/ IsRaw(pass) => k.lens /= pass.lens
        BY <2>2, <3>1, <3>2
      <3> QED
        BY <2>2, <2>3, <3>3 DEF RawLensOnce
    <2>8. SummaryInForce'
      <3>1. CASE enrich.publish
        <4>1. \A p \in row'.passes : p.lens = "summary" /\ p.authoritative => p = pass
          BY <2>2, <2>3, <3>1
        <4>2. pass \in row'.passes /\ pass.lens = "summary" /\ pass.authoritative
          BY <1>3, <2>3, <2>4, <3>1
        <4>3. row'.caption.of = pass.no
          BY <2>3, <2>4, <3>1 DEF Text
        <4> QED
          BY <4>1, <4>2, <4>3 DEF SummaryInForce
      <3>2. CASE ~enrich.publish
        <4>1. row'.passes = row.passes \union {pass} /\ row'.caption = row.caption
          BY <2>2, <2>3, <3>2
        <4>2. ~pass.authoritative
          BY <2>4, <3>2
        <4>3. {p \in row'.passes : p.lens = "summary" /\ p.authoritative}
                = {p \in row.passes : p.lens = "summary" /\ p.authoritative}
          BY <4>1, <4>2
        <4> QED
          BY <4>1, <4>3 DEF CaptionInv, SummaryInForce
      <3> QED
        BY <3>1, <3>2
    <2> QED
      BY <1>2, <2>5, <2>6, <2>7, <2>8 DEF CaptionInv
  <1> QED
    BY <1>5, <1>6

LEMMA RestartInv ==
  ASSUME CaptionInv, Restart
  PROVE  CaptionInv'
  <1>1. row' = row /\ refiners' = {} /\ enrich' = NoEnrich
    BY DEF Restart
  <1>2. RowType' /\ EnrichInv'
    BY <1>1, CaptionAssumption DEF CaptionInv, RowType, EnrichInv, NoEnrich
  <1> QED
    BY <1>1, <1>2 DEF CaptionInv, PassesNumbered, Numbers, SummaryInForce, RawLensOnce

(***************************************************************************)
(* The theorems.                                                           *)
(***************************************************************************)
(* Every step of the composition is a step of the queue.                   *)
LEMMA StepOfQueue == [Next]_vars => [QueueNext]_queueVars
  BY DEF Next, QueueNext, vars, LivePatch, LiveRefine, RefinerPatch, RefinerFails,
     EnrichBegin, EnrichTouch, EnrichRead, EnrichCommit, Restart

LEMMA WorkerInvStep == QueueInv /\ WorkerInv /\ [QueueNext]_queueVars => WorkerInv'
  <1> SUFFICES ASSUME QueueInv, WorkerInv, [QueueNext]_queueVars PROVE WorkerInv'
    OBVIOUS
  <1>1. worker \in WorkerTypes
    BY DEF QueueInv, QueueTypeOK, WorkerTypes
  <1>2. CASE PopJob
    <2>1. Oldest \in Jobs
      BY <1>2, PopFacts DEF QueueInv, PopJob
    <2> QED
      BY <1>1, <1>2, <2>1 DEF PopJob, WorkerInv, WorkerTypes
  <1>3. CASE Described
    BY <1>1, <1>3 DEF Described, WorkerInv, WorkerTypes
  <1>4. CASE StartWorker \/ \E late \in Paces : CountDrop(late)
    BY <1>1, <1>4 DEF CountDrop, StartWorker, StartedWorker, NoWorker, WorkerInv, WorkerTypes
  <1>5. CASE worker' = worker
    BY <1>5 DEF WorkerInv
  <1>6. CASE SkipJob \/ PopFails \/ Idle \/ Close \/ Embedded \/ CallFails \/ Crash
    <2>1. CASE SkipJob \/ PopFails
      BY <2>1 DEF SkipJob, PopFails, WorkerInv
    <2>2. CASE Idle \/ Close \/ Embedded
      BY <1>1, <2>2 DEF Idle, Close, Embedded, NoWorker, WorkerInv, WorkerTypes
    <2>3. CASE CallFails
      <3>1. worker' = [worker EXCEPT !.at = "measure"]
        BY <2>3, Zenon DEF CallFails
      <3> QED
        BY <1>1, <3>1 DEF WorkerInv, WorkerTypes
    <2>4. CASE Crash
      BY <2>4 DEF Crash, NoWorker, WorkerInv
    <2> QED
      BY <1>6, <2>1, <2>2, <2>3, <2>4
  <1>7. ASSUME NEW ok \in BOOLEAN, Measure(ok) PROVE WorkerInv'
    BY <1>1, <1>7 DEF Measure, WorkerInv, WorkerTypes
  <1>8. ASSUME NEW late \in Paces, Settle(late) PROVE WorkerInv'
    BY <1>8 DEF Settle, NoWorker, WorkerInv
  <1> QED
    BY <1>2, <1>3, <1>4, <1>5, <1>6, <1>7, <1>8
    DEF QueueNext, QueueStep, Offer, Refresh, Push, PushUnheard, PushFails, FrameExpires, ProviderDeleted, queueVars

LEMMA CaptionStep == QueueInv /\ WorkerInv /\ CaptionInv /\ [Next]_vars => CaptionInv'
  <1> SUFFICES ASSUME QueueInv, WorkerInv, CaptionInv, [Next]_vars PROVE CaptionInv'
    OBVIOUS
  <1>1. worker.job \in Nat /\ refiners \in SUBSET Jobs
    BY DEF QueueInv, QueueTypeOK, CaptionInv, RowType
  <1>2. CASE LivePatch
    BY <1>1, <1>2, LivePatchInv
  <1>3. CASE LiveRefine
    <2>1. worker.job \in Jobs
      BY <1>3 DEF LiveRefine, Embedded, WorkerInv
    <2> QED
      BY <1>1, <1>3, <2>1, CaptionOnly DEF LiveRefine
  <1>4. ASSUME NEW j \in refiners, RefinerPatch(j) \/ RefinerFails(j) PROVE CaptionInv'
    <2>1. j \in Nat
      BY <1>1, QueueAssumption DEF Jobs
    <2> QED
      BY <1>1, <1>4, <2>1, CaptionOnly DEF RefinerPatch, RefinerFails
  <1>5. CASE UNCHANGED captionVars
    BY <1>1, <1>5, CaptionOnly DEF captionVars
  <1> QED
    BY <1>2, <1>3, <1>4, <1>5, EnrichBeginInv, EnrichTouchInv, EnrichReadInv, EnrichCommitInv, RestartInv
    DEF Next, vars

LEMMA Invariants == Spec => [](QueueInv /\ WorkerInv /\ CaptionInv)
  <1>1. Init => QueueInv /\ WorkerInv /\ CaptionInv
    BY InitInv, CaptionInit DEF Init, QueueInit, NoWorker, WorkerInv
  <1>2. QueueInv /\ WorkerInv /\ CaptionInv /\ [Next]_vars
          => QueueInv' /\ WorkerInv' /\ CaptionInv'
    BY StepInv, StepOfQueue, WorkerInvStep, CaptionStep
  <1> QED
    BY <1>1, <1>2, PTL DEF Spec

(* The passes of a row are numbered 1 to its count, each number once.      *)
THEOREM PassesStayNumbered == Spec => []PassesNumbered
  <1>1. CaptionInv => PassesNumbered
    BY DEF CaptionInv
  <1> QED
    BY <1>1, Invariants, PTL

(* One summary is in force at most, and a caption that is a summary is it. *)
THEOREM SummaryStaysInForce == Spec => []SummaryInForce
  <1>1. CaptionInv => SummaryInForce
    BY DEF CaptionInv
  <1> QED
    BY <1>1, Invariants, PTL

(* A raw lens is spent once on a row.                                      *)
THEOREM RawLensSpentOnce == Spec => []RawLensOnce
  <1>1. CaptionInv => RawLensOnce
    BY DEF CaptionInv
  <1> QED
    BY <1>1, Invariants, PTL

(* The composition is well typed, and within the budget of passes.         *)
THEOREM CaptionTypes == Spec => []TypeOK
  <1>1. QueueInv /\ CaptionInv => TypeOK
    BY DEF QueueInv, CaptionInv, RowType, TypeOK, Passes, Lenses
  <1> QED
    BY <1>1, Invariants, PTL

(* No step edits or removes a pass, but to take a summary's authority back. *)
THEOREM PassesAreImmutable == Spec => PassesImmutable
  <1> DEFINE Keeps == \A p \in row.passes : p \in row'.passes \/ Demoted(p) \in row'.passes
  <1>1. CaptionInv /\ [Next]_vars => [Keeps]_vars
    <2> SUFFICES ASSUME CaptionInv, Next PROVE Keeps
      OBVIOUS
    <2>1. row \in [caption : [by : {"nobody", "live", "refined", "summary"}, of : Nat],
                   passes : SUBSET Passes, count : 0..MaxPasses]
      BY DEF CaptionInv, RowType
    <2>2. CASE LivePatch
      <3>1. row'.passes = row.passes \/ \E x : row'.passes = row.passes \union {x}
        BY <2>1, <2>2 DEF LivePatch
      <3> QED
        BY <3>1
    <2>3. CASE EnrichCommit
      <3>1. \/ row' = row
            \/ \E x : row'.passes = row.passes \union {x}
            \/ \E x : row'.passes = {Demoted(p) : p \in row.passes} \union {x}
        <4> DEFINE pass == [no |-> enrich.no, lens |-> enrich.lens,
                            authoritative |-> enrich.publish]
        <4>1. \/ row' = row
              \/ row' = [row EXCEPT !.passes = row.passes \union {pass}, !.count = enrich.no]
              \/ row' = [row EXCEPT !.passes = {Demoted(p) : p \in row.passes} \union {pass},
                                    !.count = enrich.no,
                                    !.caption = Text("summary", enrich.no)]
          BY <2>3 DEF EnrichCommit
        <4> HIDE DEF pass
        <4> QED
          BY <2>1, <4>1
      <3> QED
        BY <3>1
    <2>4. CASE \E j \in refiners : RefinerPatch(j)
      BY <2>1, <2>4 DEF RefinerPatch
    <2>5. CASE UNCHANGED row
      BY <2>5
    <2> QED
      BY <2>2, <2>3, <2>4, <2>5
      DEF Next, captionVars, LiveRefine, RefinerFails, EnrichBegin, EnrichTouch, EnrichRead, Restart
  <1> QED
    BY <1>1, Invariants, PTL DEF Spec, PassesImmutable
=============================================================================

----------------------------- MODULE VlmCaptions -----------------------------
(***************************************************************************)
(* Who writes the caption of an observation: the queue's worker (live      *)
(* captions), the refiner tasks it leaves behind, and the idle-time        *)
(* enrichment worker, which appends passes and publishes a summary         *)
(* (vlm_queue.py, vlm_enrichment_worker.py, models/observations.py).       *)
(* Every job of the queue is about one observation: while the scene stays  *)
(* the same the pipeline extends the row and queues further frames for it. *)
(***************************************************************************)
EXTENDS VlmQueue

CONSTANT MaxPasses   \* vlm_enrichment_max_passes

(* With a budget of one, a live caption that comes between the check of    *)
(* the budget and the first enrichment pass would make two.                *)
ASSUME CaptionAssumption == MaxPasses \in Nat \ {0, 1}

VARIABLES
  row,       \* the observation and its ledger of passes
  refiners,  \* the jobs whose refiner task is under way
  enrich     \* where the enrichment worker stands, and the pass it makes

captionVars == <<row, refiners, enrich>>
vars == <<queueVars, captionVars>>

(* A text is known by who wrote it, and from which job or pass.            *)
Text(by, of) == [by |-> by, of |-> of]
NoText == Text("nobody", 0)

NoEnrich == [at |-> "idle", lens |-> "none", publish |-> FALSE, no |-> 0]

Init ==
  /\ QueueInit
  /\ row = [caption |-> NoText, passes |-> {}, count |-> 0]
  /\ refiners = {} /\ enrich = NoEnrich

(***************************************************************************)
(* The live caption.                                                       *)
(***************************************************************************)
Numbers == {p.no : p \in row.passes}

(* Fault: pass 1 is written anew by every live caption. *)
LivePatchAnew ==
  /\ Described
  /\ row' = [row EXCEPT
       !.caption = Text("live", worker.job),
       !.passes = {p \in @ : p.no /= 1}
                    \union {[no |-> 1, lens |-> "live", authoritative |-> TRUE]},
       !.count = Max({@, 1})]
  /\ UNCHANGED <<refiners, enrich>>

(* _patch_observation, one transaction: it writes the row before it looks  *)
(* for a first pass, so nobody appends one in between.                     *)
LivePatch ==
  /\ Described
  /\ row' = [row EXCEPT
       !.caption = Text("live", worker.job),
       !.passes = IF 1 \in Numbers THEN @
                  ELSE @ \union {[no |-> 1, lens |-> "live", authoritative |-> TRUE]},
       !.count = IF 1 \in Numbers THEN @ ELSE Max({@, 1})]
  /\ UNCHANGED <<refiners, enrich>>

(* The search embedding follows, which is left out, then _should_refine.   *)
(* The refiner's "refining" replaces "processing" on the tile until the    *)
(* worker settles the job, and counts as it.                               *)
LiveRefine ==
  /\ Embedded
  /\ refiners' \in {refiners, refiners \union {worker.job}}
  /\ UNCHANGED <<row, enrich>>

(***************************************************************************)
(* The refiner: a task of its own, next to the worker's following jobs.    *)
(***************************************************************************)
RefinerPatch(j) ==
  /\ j \in refiners
  /\ row' = [row EXCEPT !.caption = Text("refined", j)]
  /\ refiners' = refiners \ {j}
  /\ UNCHANGED <<queueVars, enrich>>

(* An empty reply or an error.                                             *)
RefinerFails(j) ==
  /\ j \in refiners
  /\ refiners' = refiners \ {j}
  /\ UNCHANGED <<queueVars, row, enrich>>

(***************************************************************************)
(* The enrichment worker.                                                  *)
(***************************************************************************)
RawLenses == <<"attributes", "temporal", "anomaly">>
IsRaw(p) == p.lens \in Range(RawLenses)

Latest(passes) == Max({0} \union {p.no : p \in passes})
Stale(passes) ==
  Latest({p \in passes : IsRaw(p)}) > Latest({p \in passes : p.lens = "summary"})

(* Fault: only the last pass is looked at. *)
NextLensAfterLast(passes, hasRecording) ==
  LET untaken == {i \in DOMAIN RawLenses :
                    /\ RawLenses[i] = "temporal" => hasRecording
                    /\ RawLenses[i] \notin {p.lens : p \in {q \in passes : q.no = Latest(passes)}}}
  IN  IF untaken /= {} THEN RawLenses[Min(untaken)]
      ELSE IF Stale(passes) THEN "summary" ELSE "none"

(* next_lens: the first raw lens not yet taken, without a recording not    *)
(* "temporal"; then a summary if there is none of the latest raw pass.     *)
NextLens(passes, hasRecording) ==
  LET untaken == {i \in DOMAIN RawLenses :
                    /\ RawLenses[i] = "temporal" => hasRecording
                    /\ RawLenses[i] \notin {p.lens : p \in passes}}
  IN  IF untaken /= {} THEN RawLenses[Min(untaken)]
      ELSE IF Stale(passes) THEN "summary" ELSE "none"

(* Faults: one pass too many; only rows with a live caption. *)
EnrichBeginOver(hasRecording, publish) ==
  LET lens == NextLens(row.passes, hasRecording) IN
  /\ enrich.at = "idle" /\ Laned = {}
  /\ row.count <= MaxPasses
  /\ lens /= "none" /\ (publish => lens = "summary")
  /\ enrich' = [at |-> "call", lens |-> lens, publish |-> publish, no |-> 0]
  /\ UNCHANGED <<queueVars, row, refiners>>
EnrichBeginLive(hasRecording, publish) ==
  LET lens == NextLens(row.passes, hasRecording) IN
  /\ enrich.at = "idle" /\ Laned = {}
  /\ row.count < MaxPasses /\ row.caption.by = "live"
  /\ lens /= "none" /\ (publish => lens = "summary")
  /\ enrich' = [at |-> "call", lens |-> lens, publish |-> publish, no |-> 0]
  /\ UNCHANGED <<queueVars, row, refiners>>

(* run and _enrich_one: no lane holds work, the row has passes to go, and  *)
(* a lens is due.  What the calls that follow will bring is chosen here:   *)
(* a summary is published, or withheld when no text passes its check.      *)
(* Whether a pass brings a text is left to chance.                         *)
EnrichBegin(hasRecording, publish) ==
  LET lens == NextLens(row.passes, hasRecording) IN
  /\ enrich.at = "idle" /\ Laned = {}
  /\ row.count < MaxPasses
  /\ lens /= "none" /\ (publish => lens = "summary")
  /\ enrich' = [at |-> "call", lens |-> lens, publish |-> publish, no |-> 0]
  /\ UNCHANGED <<queueVars, row, refiners>>

(* An attempt that only touches the row: the budget refuses it, the frame  *)
(* is gone, there is nothing to sum up, the model has no summary, or       *)
(* anything raises.  The lens is due again when the row has cooled down.   *)
EnrichTouch ==
  /\ enrich.at = "call"
  /\ enrich' = NoEnrich
  /\ UNCHANGED <<queueVars, row, refiners>>

(* _append_pass and _write_summary number the pass from the row they read. *)
EnrichRead ==
  /\ enrich.at = "call"
  /\ enrich' = [enrich EXCEPT !.at = "commit", !.no = row.count + 1]
  /\ UNCHANGED <<queueVars, row, refiners>>

(* Fault: the old summary is not taken back. *)
DemotedNot(p) == p

Demoted(p) == IF p.lens = "summary" THEN [p EXCEPT !.authoritative = FALSE] ELSE p

(* Fault: nothing refuses a number that was taken. *)
EnrichCommitAnyway ==
  LET pass == [no |-> enrich.no, lens |-> enrich.lens, authoritative |-> enrich.publish] IN
  /\ enrich.at = "commit"
  /\ enrich' = NoEnrich
  /\ row' = [row EXCEPT !.passes = {IF enrich.publish THEN Demoted(p) ELSE p : p \in @} \union {pass},
                        !.count = enrich.no,
                        !.caption = IF enrich.publish THEN Text("summary", enrich.no) ELSE @]
  /\ UNCHANGED <<queueVars, refiners>>

(* The commit, which ux_obs_pass_no refuses when the number was taken.     *)
EnrichCommit ==
  LET pass == [no |-> enrich.no, lens |-> enrich.lens, authoritative |-> enrich.publish] IN
  /\ enrich.at = "commit"
  /\ enrich' = NoEnrich
  /\ \/ enrich.no \in Numbers /\ UNCHANGED row
     \/ /\ enrich.no \notin Numbers /\ ~enrich.publish
        /\ row' = [row EXCEPT !.passes = @ \union {pass}, !.count = enrich.no]
     \/ /\ enrich.no \notin Numbers /\ enrich.publish
        /\ row' = [row EXCEPT !.passes = {Demoted(p) : p \in @} \union {pass},
                              !.count = enrich.no,
                              !.caption = Text("summary", enrich.no)]
  /\ UNCHANGED <<queueVars, refiners>>

(* All of it is one process.                                               *)
Restart == Crash /\ refiners' = {} /\ enrich' = NoEnrich /\ UNCHANGED row

Next ==
  \/ QueueStep /\ UNCHANGED captionVars
  \/ LivePatch \/ LiveRefine
  \/ \E j \in refiners : RefinerPatch(j) \/ RefinerFails(j)
  \/ \E rec, publish \in BOOLEAN : EnrichBegin(rec, publish)
  \/ EnrichTouch \/ EnrichRead \/ EnrichCommit
  \/ Restart

Spec == Init /\ [][Next]_vars

(* The event loop is fair to the queue's tasks and to the enrichment       *)
(* worker, which is enabled, has a provider, and finds the row each time it *)
(* has cooled down.                                                        *)
EnrichStep ==
  \/ \E rec, publish \in BOOLEAN : EnrichBegin(rec, publish)
  \/ EnrichTouch \/ EnrichRead \/ EnrichCommit

FairSpec ==
  /\ Spec
  /\ WF_vars((WorkerStep /\ UNCHANGED captionVars) \/ LivePatch \/ LiveRefine)
  /\ WF_vars(EnqueueStep /\ UNCHANGED captionVars)
  /\ WF_vars(EnrichStep)

(***************************************************************************)
(* Properties.                                                             *)
(***************************************************************************)
(* TypeOK: the type invariant, with the queue's.                           *)
TypeOK ==
  /\ QueueTypeOK
  /\ refiners \subseteq Jobs
  /\ enrich \in [at : {"idle", "call", "commit"}, publish : BOOLEAN, no : 0..MaxPasses,
                 lens : {"attributes", "temporal", "anomaly", "summary", "none"}]
  /\ row.passes \subseteq [no : 1..MaxPasses, authoritative : BOOLEAN,
                 lens : {"live", "attributes", "temporal", "anomaly", "summary"}]
  /\ row.count \in 0..MaxPasses

(* PassesNumbered: the passes of a row are numbered 1 to enrich_pass_count *)
(* without a gap or a double, whoever appended them.                       *)
PassesNumbered ==
  /\ Numbers = 1..row.count
  /\ \A p, q \in row.passes : p.no = q.no => p = q

(* SummaryInForce: at most one summary is in force, and a caption that is  *)
(* a summary is that one: publishing moves caption and authority together. *)
SummaryInForce ==
  LET inForce == {p \in row.passes : p.lens = "summary" /\ p.authoritative} IN
  /\ \A p, q \in inForce : p = q
  /\ row.caption.by = "summary" => row.caption.of \in {p.no : p \in inForce}

(* RawLensOnce: a raw lens is spent once on a row, lost numbers included.  *)
RawLensOnce ==
  \A p, q \in row.passes : (IsRaw(p) /\ p.lens = q.lens) => p = q

(* PassesImmutable: no step edits or removes a pass; only the authority of *)
(* a summary is ever taken back.                                           *)
PassesImmutable ==
  [][\A p \in row.passes : p \in row'.passes \/ Demoted(p) \in row'.passes]_vars

(* EnrichmentFinishes: once the lanes stay empty, and unless attempts keep *)
(* ending with no more than a touch of the row, the row gets every lens    *)
(* that needs no recording and a summary of them, or runs out of passes:   *)
(* a pass whose number a live caption took is made again, and a summary    *)
(* made stale by a later pass is renewed.                                  *)
EnrichmentFinishes ==
  (<>[](Laned = {}) /\ <>[][~EnrichTouch]_vars) =>
    <>[](row.count = MaxPasses \/ NextLens(row.passes, FALSE) = "none")

(* What the documentation says and the code does not do.                   *)

(* OneAuthoritative: at most one pass of a row is marked as the caption.   *)
OneAuthoritative ==
  Cardinality({p \in row.passes : p.authoritative}) <= 1

(* LiveIsPassOne: once a live caption was written, pass 1 is it.           *)
LiveIsPassOne ==
  row.caption.by = "live" => \E p \in row.passes : p.no = 1 /\ p.lens = "live"

=============================================================================

---------------------------- MODULE SequenceRules ----------------------------
(***************************************************************************)
(* Sequence rules (services/events/sequences.py): one rule whose trigger   *)
(* starts an instance per correlation key, whose steps must follow one     *)
(* another in time, and whose chain fires when the last step is seen       *)
(* (on_complete) or when a step's deadline passes (on_timeout).            *)
(*                                                                         *)
(* Several evaluators (the perception pipeline, the audio worker, the      *)
(* camera watcher) and one sweeper work on the table of instances.  Every  *)
(* database helper opens a session of its own, so between any two of them, *)
(* and between the read and the write of one of them, the others may act.  *)
(***************************************************************************)
EXTENDS Integers, FiniteSets

CONSTANTS
  Evaluators,       \* processes that evaluate rules
  Keys,             \* correlation keys
  NumSteps,         \* length of sequence.steps
  Confirm,          \* confirm_frames of every step
  Within,           \* within_seconds of every step, in clock ticks
  MaxActive,        \* max_active
  OnRefire,         \* on_refire
  MaxInstances,     \* bound: rows ever created
  LastObservation,  \* bound: nothing is observed after this time
  MaxCrashes        \* bound: how often a process dies

ASSUME SequenceAssumption ==
  /\ IsFiniteSet(Evaluators)
  /\ Keys # {}
  /\ {NumSteps, Confirm, Within, MaxActive} \subseteq Nat \ {0}
  /\ {MaxInstances, LastObservation, MaxCrashes} \subseteq Nat
  /\ OnRefire \in {"ignore", "restart"}

Instances == 1..MaxInstances
MaxTime   == LastObservation + Within + 1

VARIABLES
  inst,      \* the table: the committed columns of each instance
  now,       \* wall clock
  ev,        \* each evaluator: the observation it evaluates and how far it is
  sweep,     \* the sweeper: its stage and the instances it works on
  completed, \* history: how often on_complete was fired for an instance
  timedOut,  \* history: how often on_timeout was fired for an instance
  crashes

vars == <<inst, now, ev, sweep, completed, timedOut, crashes>>

Statuses == {"unused", "active", "completed", "expired"}
Ops      == {"none", "bump", "advance", "complete", "restart"}

(* The vars column holds the step snapshots (here: how many) and the       *)
(* confirming frames seen so far.                                          *)
InstanceRows == [status: Statuses, key: Keys, step: Nat, deadline: Nat,
                 steps: Nat, hits: Nat]

Active    == {i \in Instances : inst[i].status = "active"}
ActiveOf(k) == {i \in Active : inst[i].key = k}

AnyKey == CHOOSE k \in Keys : TRUE
NoInstance == [status |-> "unused", key |-> AnyKey, step |-> 0,
               deadline |-> 0, steps |-> 0, hits |-> 0]
NoSnapshot == [id |-> 0, row |-> NoInstance]

Idle == [stage |-> "idle", now |-> 0, keys |-> {}, left |-> {},
         key |-> AnyKey, seen |-> {}, start |-> FALSE, todo |-> {},
         cur |-> NoSnapshot, op |-> "none", read |-> NoInstance, count |-> 0]

EvStages == {"idle", "find", "check", "load", "write", "fire", "count",
             "lookup", "create"}

Snapshots == [id: Instances, row: InstanceRows]

(* keys are those the observation binds to, left the ones still to go in   *)
(* the present loop, key the one at hand; todo the snapshots of its active *)
(* instances that are still to be looked at, cur the one being changed.    *)
Evaluations == [stage: EvStages, now: Nat, keys: SUBSET Keys,
                left: SUBSET Keys, key: Keys,
                seen: SUBSET (0..(NumSteps - 1)), start: BOOLEAN,
                todo: SUBSET Snapshots, cur: Snapshots \cup {NoSnapshot},
                op: Ops, read: InstanceRows, count: Nat]

TypeOK ==
  /\ inst \in [Instances -> InstanceRows]
  /\ now \in 0..MaxTime
  /\ ev \in [Evaluators -> Evaluations]
  /\ sweep \in [stage: {"idle", "commit", "fire"}, todo: SUBSET Instances]
  /\ completed \in [Instances -> Nat]
  /\ timedOut \in [Instances -> Nat]
  /\ crashes \in 0..MaxCrashes

Init ==
  /\ inst = [i \in Instances |-> NoInstance]
  /\ now = 0
  /\ ev = [e \in Evaluators |-> Idle]
  /\ sweep = [stage |-> "idle", todo |-> {}]
  /\ completed = [i \in Instances |-> 0]
  /\ timedOut = [i \in Instances |-> 0]
  /\ crashes = 0

Tick ==
  /\ now < MaxTime
  /\ now' = now + 1
  /\ UNCHANGED <<inst, ev, sweep, completed, timedOut, crashes>>

-----------------------------------------------------------------------------
(* evaluate_sequence *)

(* An evaluator at stage from moves on; others and the history keep still. *)
Moves(e, from) ==
  /\ ev[e].stage = from
  /\ UNCHANGED <<now, sweep, timedOut, crashes>>

(* An observation arrives: its keys (a frame can show several subjects),   *)
(* the steps whose check it satisfies and whether it matches the start     *)
(* trigger.  The clock is read once, here.                                 *)
Observe(e) ==
  /\ Moves(e, "idle")
  /\ now <= LastObservation
  /\ \E keys \in SUBSET Keys \ {{}}, seen \in SUBSET (0..(NumSteps - 1)),
        start \in BOOLEAN :
       ev' = [ev EXCEPT ![e] = [Idle EXCEPT !.stage = "find", !.now = now,
                !.keys = keys, !.left = keys, !.seen = seen, !.start = start]]
  /\ UNCHANGED <<inst, completed>>

(* _find_active_for_key, for the next key *)
Find(e) ==
  /\ Moves(e, "find")
  /\ \E k \in ev[e].left :
       ev' = [ev EXCEPT ![e].stage = "check", ![e].key = k,
                ![e].left = @ \ {k},
                ![e].todo = {[id |-> i, row |-> inst[i]] : i \in ActiveOf(k)}]
  /\ UNCHANGED <<inst, completed>>

(* Fault: an overdue instance still counts. *)
CountsLate(e, s) == s.row.step < NumSteps /\ s.row.step \in ev[e].seen

(* The snapshot is overdue, or the observation does not satisfy its step.  *)
Counts(e, s) == /\ s.row.deadline >= ev[e].now
                /\ s.row.step < NumSteps
                /\ s.row.step \in ev[e].seen

PassOver(e) ==
  /\ Moves(e, "check")
  /\ \E s \in ev[e].todo :
       /\ ~Counts(e, s)
       /\ ev' = [ev EXCEPT ![e].todo = @ \ {s}]
  /\ UNCHANGED <<inst, completed>>

(* One more frame agrees; enough of them pass the step, the last one       *)
(* completes the sequence.                                                 *)
Verdict(s) == CASE s.row.hits + 1 < Confirm       -> "bump"
                [] s.row.hits + 1 >= Confirm
                   /\ s.row.step + 1 < NumSteps   -> "advance"
                [] OTHER                          -> "complete"

Satisfy(e) ==
  /\ Moves(e, "check")
  /\ \E s \in ev[e].todo :
       /\ Counts(e, s)
       /\ ev' = [ev EXCEPT ![e].stage = "load", ![e].cur = s,
                           ![e].op = Verdict(s), ![e].todo = @ \ {s}]
  /\ UNCHANGED <<inst, completed>>

(* The loop that starts instances goes on with the next key, if any.       *)
NextStart(x) == IF x.left = {} THEN Idle ELSE [x EXCEPT !.stage = "lookup"]

(* Where an evaluator goes when its database helper returns.  on_complete  *)
(* is fired whether or not the helper found the instance still active.     *)
Returned(e) ==
  LET done == [ev[e] EXCEPT !.op = "none", !.read = NoInstance,
                            !.cur = NoSnapshot] IN
  CASE ev[e].op = "restart"  -> NextStart(done)
    [] ev[e].op = "complete" -> [done EXCEPT !.stage = "fire",
                                             !.cur = ev[e].cur]
    [] OTHER                 -> [done EXCEPT !.stage = "check"]

(* The helpers get the row and do nothing unless it is active ... *)
Load(e) ==
  LET row == inst[ev[e].cur.id] IN
  /\ Moves(e, "load")
  /\ ev' = [ev EXCEPT ![e] =
              IF row.status = "active"
              THEN [@ EXCEPT !.stage = "write", !.read = row]
              ELSE Returned(e)]
  /\ UNCHANGED <<inst, completed>>

(* ... change it: _bump_hits, _advance, _set_status, _restart ... *)
Changed(e) ==
  LET row == ev[e].read
      s   == ev[e].cur.row IN
  CASE ev[e].op = "bump"     -> [row EXCEPT !.hits = s.hits + 1]
    [] ev[e].op = "advance"  -> [row EXCEPT !.step = s.step + 1, !.hits = 0,
                                            !.deadline = ev[e].now + Within,
                                            !.steps = row.steps + 1]
    [] ev[e].op = "complete" -> [row EXCEPT !.status = "completed"]
    [] ev[e].op = "restart"  -> [row EXCEPT !.step = 0, !.steps = 0, !.hits = 0,
                                            !.deadline = ev[e].now + Within]

(* Fault: the whole row is written back. *)
MergeWhole(row, read, new, restarted) == new

(* Fault: the status is not saved. *)
MergeNoStatus(row, read, new, restarted) == [new EXCEPT !.status = row.status]

(* ... and commit the columns that differ from what was read.  The vars    *)
(* column (steps and hits) is written as a whole, and a restart always     *)
(* gives it a new trigger snapshot.                                        *)
Merge(row, read, new, restarted) ==
  LET varsDiffer == \/ restarted
                    \/ new.steps # read.steps \/ new.hits # read.hits IN
  [row EXCEPT
     !.status   = IF new.status # read.status THEN new.status ELSE @,
     !.step     = IF new.step # read.step THEN new.step ELSE @,
     !.deadline = IF new.deadline # read.deadline THEN new.deadline ELSE @,
     !.steps    = IF varsDiffer THEN new.steps ELSE @,
     !.hits     = IF varsDiffer THEN new.hits ELSE @]

Write(e) ==
  /\ Moves(e, "write")
  /\ inst' = [inst EXCEPT ![ev[e].cur.id] =
               Merge(@, ev[e].read, Changed(e), ev[e].op = "restart")]
  /\ ev' = [ev EXCEPT ![e] = Returned(e)]
  /\ UNCHANGED completed

(* fire_cb(): the rule's on_complete chain. *)
Fire(e) ==
  /\ Moves(e, "fire")
  /\ completed' = [completed EXCEPT ![ev[e].cur.id] = @ + 1]
  /\ ev' = [ev EXCEPT ![e].stage = "check", ![e].cur = NoSnapshot]
  /\ UNCHANGED inst

(* All snapshots of this key are dealt with: the next key, and after the   *)
(* last one the start trigger, is looked at.                               *)
EndAdvance(e) ==
  /\ Moves(e, "check")
  /\ ev[e].todo = {}
  /\ ev' = [ev EXCEPT ![e] = CASE @.left # {} -> [@ EXCEPT !.stage = "find"]
                               [] @.left = {} /\ @.start
                                             -> [@ EXCEPT !.stage = "count"]
                               [] OTHER      -> Idle]
  /\ UNCHANGED <<inst, completed>>

(* _count_active, once; then, for each key, _find_active_for_key again *)
Count(e) ==
  /\ Moves(e, "count")
  /\ ev' = [ev EXCEPT ![e].stage = "lookup", ![e].left = ev[e].keys,
                      ![e].count = Cardinality(Active)]
  /\ UNCHANGED <<inst, completed>>

(* Evaluator e takes up key k in the loop that starts instances. *)
AtKey(e, k) == [ev[e] EXCEPT !.key = k, !.left = @ \ {k}]

LookupRefire(e) ==
  /\ Moves(e, "lookup")
  /\ \E k \in ev[e].left : \E i \in ActiveOf(k) :
       ev' = [ev EXCEPT ![e] =
                IF OnRefire = "restart"
                THEN [AtKey(e, k) EXCEPT !.stage = "load", !.op = "restart",
                                         !.cur = [id |-> i, row |-> inst[i]]]
                ELSE NextStart(AtKey(e, k))]
  /\ UNCHANGED <<inst, completed>>

LookupStart(e) ==
  /\ Moves(e, "lookup")
  /\ \E k \in ev[e].left :
       /\ ActiveOf(k) = {}
       /\ ev' = [ev EXCEPT ![e] = IF ev[e].count < MaxActive
                                  THEN [AtKey(e, k) EXCEPT !.stage = "create"]
                                  ELSE NextStart(AtKey(e, k))]
  /\ UNCHANGED <<inst, completed>>

Unused == {i \in Instances : inst[i].status = "unused"}

(* Fault: the instances this loop started do not count towards the cap. *)
CreateUncounted(e) ==
  /\ Moves(e, "create")
  /\ \E i \in Unused :
       /\ \A j \in Unused : i <= j
       /\ inst' = [inst EXCEPT ![i] = [NoInstance EXCEPT !.status = "active",
                     !.key = ev[e].key, !.deadline = ev[e].now + Within]]
  /\ ev' = [ev EXCEPT ![e] = NextStart(@)]
  /\ UNCHANGED completed

Create(e) ==
  /\ Moves(e, "create")
  /\ \E i \in Unused :
       /\ \A j \in Unused : i <= j
       /\ inst' = [inst EXCEPT ![i] = [NoInstance EXCEPT !.status = "active",
                     !.key = ev[e].key, !.deadline = ev[e].now + Within]]
  /\ ev' = [ev EXCEPT ![e] = NextStart([ev[e] EXCEPT !.count = @ + 1])]
  /\ UNCHANGED completed

(* MaxInstances is reached: the bound, not the code, drops the start.      *)
OutOfRows(e) ==
  /\ Moves(e, "create")
  /\ Unused = {}
  /\ ev' = [ev EXCEPT ![e] = NextStart(@)]
  /\ UNCHANGED <<inst, completed>>

Evaluate(e) ==
  \/ Find(e) \/ PassOver(e) \/ Satisfy(e) \/ Load(e) \/ Write(e) \/ Fire(e)
  \/ EndAdvance(e) \/ Count(e) \/ LookupRefire(e) \/ LookupStart(e)
  \/ Create(e) \/ OutOfRows(e)

-----------------------------------------------------------------------------
(* expire_due, called by the sweeper of the API process every few seconds  *)

(* Fault: only instances that wait for their first step are looked at. *)
SweepSelectFirst ==
  /\ sweep.stage = "idle"
  /\ LET due == {i \in Active : inst[i].deadline < now /\ inst[i].step = 0} IN
       /\ due # {}
       /\ sweep' = [stage |-> "commit", todo |-> due]
  /\ UNCHANGED <<inst, now, ev, completed, timedOut, crashes>>

SweepSelect ==
  /\ sweep.stage = "idle"
  /\ LET due == {i \in Active : inst[i].deadline < now} IN
       /\ due # {}
       /\ sweep' = [stage |-> "commit", todo |-> due]
  /\ UNCHANGED <<inst, now, ev, completed, timedOut, crashes>>

(* Fault: the chains are fired, but nothing is committed. *)
SweepForgets ==
  /\ sweep.stage = "commit"
  /\ sweep' = [sweep EXCEPT !.stage = "fire"]
  /\ UNCHANGED <<inst, now, ev, completed, timedOut, crashes>>

(* Fault: the expiry is committed, but no chain is fired. *)
SweepSilently ==
  /\ sweep.stage = "commit"
  /\ inst' = [i \in Instances |-> IF i \in sweep.todo
                                  THEN [inst[i] EXCEPT !.status = "expired"]
                                  ELSE inst[i]]
  /\ sweep' = [stage |-> "idle", todo |-> {}]
  /\ UNCHANGED <<now, ev, completed, timedOut, crashes>>

(* The rows were read as active; the update names only their ids. *)
SweepCommit ==
  /\ sweep.stage = "commit"
  /\ inst' = [i \in Instances |-> IF i \in sweep.todo
                                  THEN [inst[i] EXCEPT !.status = "expired"]
                                  ELSE inst[i]]
  /\ sweep' = [sweep EXCEPT !.stage = "fire"]
  /\ UNCHANGED <<now, ev, completed, timedOut, crashes>>

SweepFire ==
  /\ sweep.stage = "fire"
  /\ \E i \in sweep.todo :
       /\ timedOut' = [timedOut EXCEPT ![i] = @ + 1]
       /\ sweep' = [stage |-> IF sweep.todo = {i} THEN "idle" ELSE "fire",
                    todo  |-> sweep.todo \ {i}]
  /\ UNCHANGED <<inst, now, ev, completed, crashes>>

Sweep == SweepSelect \/ SweepCommit \/ SweepFire

(* The process of the sweeper, or of an evaluator, dies and restarts. *)
Crash ==
  /\ crashes < MaxCrashes
  /\ crashes' = crashes + 1
  /\ \/ sweep' = [stage |-> "idle", todo |-> {}] /\ UNCHANGED ev
     \/ \E e \in Evaluators : ev' = [ev EXCEPT ![e] = Idle] /\ UNCHANGED sweep
  /\ UNCHANGED <<inst, now, completed, timedOut>>

Next ==
  \/ Tick
  \/ \E e \in Evaluators : Observe(e)
  \/ \E e \in Evaluators : Evaluate(e)
  \/ Sweep
  \/ Crash

Spec == Init /\ [][Next]_vars

(* Time passes, an evaluation that began goes on, the sweeper keeps        *)
(* running.  Nothing says that anything is ever observed.                  *)
Fairness ==
  /\ WF_vars(Tick)
  /\ \A e \in Evaluators : WF_vars(Evaluate(e))
  /\ WF_vars(Sweep)

FairSpec == Spec /\ Fairness

-----------------------------------------------------------------------------
(* Properties *)

(* There is never more than one active instance of a key, although it is   *)
(* looked up in one transaction and created in another                     *)
(* (docs/sequence-rules-design.md: "One `active` instance per              *)
(* `(rule, key)`").                                                        *)
OneActivePerKey == \A k \in Keys : Cardinality(ActiveOf(k)) <= 1

(* The cap on active instances holds, although they are counted before     *)
(* they are created (docs/sequence-rules-design.md: "at the cap, new       *)
(* starts are dropped").                                                   *)
CapHolds == Cardinality(Active) <= MaxActive

(* An instance completes once: its on_complete chain is not run twice.     *)
CompletesOnce == \A i \in Instances : completed[i] <= 1

(* The absence alert of an instance is raised at most once.                *)
TimesOutOnce == \A i \in Instances : timedOut[i] <= 1

(* An instance ends one way: it completes, or it times out                 *)
(* (docs/sequence-rules-design.md: "Separate so success vs absence can do  *)
(* different things").                                                     *)
OneOutcome == \A i \in Instances : completed[i] + timedOut[i] <= 1

(* A finished instance is never active again, so that no later look-up     *)
(* finds it.  An evaluator that loaded the row while it was active may     *)
(* still write its own columns into it: a step and a deadline, or          *)
(* completed over expired; its merge must not write back active.           *)
NeverReactivated ==
  [][\A i \in Instances :
       inst[i].status \in {"completed", "expired"}
         => inst'[i].status \in {"completed", "expired"}]_vars

(* A step only counts when it was observed within the deadline the         *)
(* instance has when it moves on.                                          *)
StepsInTime ==
  [][\A i \in Instances :
       inst'[i].step > inst[i].step
         => \E e \in Evaluators : /\ ev[e].cur.id = i
                                  /\ ev[e].now <= inst[i].deadline]_vars

(* Every instance ends, by completion or by the sweeper.                   *)
EveryInstanceEnds ==
  \A i \in Instances :
    inst[i].status = "active" ~> inst[i].status \in {"completed", "expired"}

(* What the sweeper expires is announced: unless the process dies first,   *)
(* each expired instance it is done with has run on_timeout                *)
(* (docs/sequence-rules-design.md: "if `on_timeout` actions exist, run     *)
(* them").                                                                 *)
ExpiryIsAnnounced ==
  \A i \in Instances :
    inst[i].status = "expired" /\ i \notin sweep.todo /\ crashes = 0
      => timedOut[i] > 0
=============================================================================

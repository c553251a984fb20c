------------------------- MODULE SequenceRulesProofs -------------------------
(***************************************************************************)
(* Theorems about SequenceRules for any number of evaluators, keys, steps  *)
(* and instances: a finished instance never comes back to life, its        *)
(* absence alert is raised, and at most once, whatever the evaluators read *)
(* before the sweeper acted; each evaluator completes an instance once at  *)
(* most, and all together they stay within the cap times their number.     *)
(* One evaluator alone completes once, keeps the cap and counts in time.   *)
(***************************************************************************)
EXTENDS SequenceRules, FiniteSetTheorems, TLAPS

(* A helper that works on a row has a row and an operation to carry out.   *)
HasOp ==
  \A e \in Evaluators :
    ev[e].stage \in {"load", "write"}
      => ev[e].op # "none" /\ ev[e].cur \in Snapshots

(* What the sweeper still has to announce was not announced before, and    *)
(* only instances that are over were.                                      *)
SweepInv ==
  /\ \A i \in sweep.todo : timedOut[i] = 0
  /\ sweep.stage = "fire" => \A i \in sweep.todo : inst[i].status \in {"completed", "expired"}
  /\ \A i \in Instances : timedOut[i] > 0 => inst[i].status \in {"completed", "expired"}
  /\ TimesOutOnce

(* The inductive invariant.  TimesOutOnce alone is not inductive: it does  *)
(* not say that what the sweeper selected was not announced before.        *)
IInv == TypeOK /\ HasOp /\ SweepInv

Over(i) == inst[i].status \in {"completed", "expired"}

(* The idle records are well typed.                                        *)
LEMMA Constants ==
  /\ AnyKey \in Keys /\ NoInstance \in InstanceRows
  /\ Idle \in Evaluations
  <1>1. AnyKey \in Keys
    BY SequenceAssumption DEF AnyKey
  <1>2. NoInstance \in InstanceRows
    BY <1>1 DEF NoInstance, InstanceRows, Statuses
  <1> QED
    BY <1>1, <1>2 DEF Idle, Evaluations, EvStages, Ops

(* The number of active instances is a number.                             *)
LEMMA ActiveFinite ==
  TypeOK => Cardinality(Active) \in Nat
  <1>1. IsFiniteSet(Instances)
    BY FS_Interval, SequenceAssumption DEF Instances
  <1>2. IsFiniteSet(Active)
    BY <1>1, FS_Subset DEF Active
  <1> QED
    BY <1>2, FS_CardinalityType

(* What a helper writes is a row. *)
LEMMA ChangedType ==
  ASSUME TypeOK, NEW e \in Evaluators, ev[e].op # "none", ev[e].cur \in Snapshots
  PROVE  /\ Changed(e) \in InstanceRows
         /\ Changed(e).status \in {ev[e].read.status, "completed"}
  <1> DEFINE row == ev[e].read
             s == ev[e].cur.row
  <1>1. ev[e] \in Evaluations
    BY DEF TypeOK
  <1>2. /\ row \in InstanceRows /\ ev[e].now \in Nat
        /\ ev[e].op \in Ops
    BY <1>1 DEF Evaluations
  <1>3. s \in InstanceRows
    BY <1>2 DEF Snapshots
  <1>4. /\ s.hits + 1 \in Nat /\ s.step + 1 \in Nat /\ row.steps + 1 \in Nat
        /\ ev[e].now + Within \in Nat
    BY <1>2, <1>3, SequenceAssumption DEF InstanceRows
  <1>5. CASE ev[e].op = "bump"
    BY <1>2, <1>4, <1>5 DEF Changed, InstanceRows
  <1>6. CASE ev[e].op = "advance"
    BY <1>2, <1>4, <1>6 DEF Changed, InstanceRows
  <1>7. CASE ev[e].op = "complete"
    BY <1>2, <1>7 DEF Changed, InstanceRows, Statuses
  <1>8. CASE ev[e].op = "restart"
    BY <1>2, <1>4, <1>8 DEF Changed, InstanceRows
  <1> QED
    BY <1>2, <1>5, <1>6, <1>7, <1>8 DEF Ops

(* Writing the differing columns leaves a row, whose status is the         *)
(* committed one or "completed".                                           *)
LEMMA MergeType ==
  ASSUME NEW row \in InstanceRows, NEW read \in InstanceRows,
         NEW new \in InstanceRows, NEW restarted \in BOOLEAN,
         new.status \in {read.status, "completed"}
  PROVE  /\ Merge(row, read, new, restarted) \in InstanceRows
         /\ Merge(row, read, new, restarted).status \in {row.status, "completed"}
  BY DEF Merge, InstanceRows

(* A helper's commit leaves every status as it is or completes it.         *)
LEMMA WriteEffect ==
  ASSUME TypeOK, HasOp, NEW e \in Evaluators, Write(e)
  PROVE  /\ inst' \in [Instances -> InstanceRows]
         /\ \A i \in Instances :
              inst'[i].status \in {inst[i].status, "completed"}
  <1> DEFINE id == ev[e].cur.id
             new == Merge(inst[id], ev[e].read, Changed(e), ev[e].op = "restart")
  <1>1. ev[e].op # "none" /\ ev[e].cur \in Snapshots /\ ev[e].read \in InstanceRows
    BY DEF Write, Moves, HasOp, TypeOK, Evaluations
  <1>2. inst' = [inst EXCEPT ![id] = new]
    BY DEF Write
  <1>3. CASE id \in Instances
    <2>1. inst[id] \in InstanceRows
      BY <1>3 DEF TypeOK
    <2>2. /\ new \in InstanceRows
          /\ new.status \in {inst[id].status, "completed"}
      BY <1>1, <2>1, ChangedType, MergeType
    <2> HIDE DEF new
    <2> QED
      BY <1>2, <1>3, <2>2 DEF TypeOK
  <1>4. CASE id \notin Instances
    BY <1>2, <1>4 DEF TypeOK
  <1> QED
    BY <1>3, <1>4

(* A step of one evaluator keeps the invariant when its new record is well *)
(* formed and the table keeps its finished instances finished.             *)
LEMMA EvaluatorKeeps ==
  ASSUME IInv, NEW e \in Evaluators, NEW x \in Evaluations,
         x.stage \in {"load", "write"} => x.op # "none" /\ x.cur \in Snapshots,
         ev' = [ev EXCEPT ![e] = x],
         inst' \in [Instances -> InstanceRows],
         \A i \in Instances : Over(i) => Over(i)',
         completed' \in [Instances -> Nat],
         UNCHANGED <<now, sweep, timedOut, crashes>>
  PROVE  IInv'
  <1>1. ev' \in [Evaluators -> Evaluations]
    BY DEF IInv, TypeOK
  <1>2. TypeOK'
    BY <1>1 DEF IInv, TypeOK
  <1>3. HasOp'
    BY DEF IInv, HasOp, TypeOK
  <1>4. SweepInv'
    <2>1. sweep.todo \subseteq Instances
      BY DEF IInv, TypeOK
    <2> QED
      BY <2>1 DEF IInv, SweepInv, Over, TimesOutOnce
  <1> QED
    BY <1>2, <1>3, <1>4 DEF IInv

(* The same for a step that leaves the table alone. *)
LEMMA EvaluatorReads ==
  ASSUME IInv, NEW e \in Evaluators, NEW x \in Evaluations,
         x.stage \in {"load", "write"} => x.op # "none" /\ x.cur \in Snapshots,
         ev' = [ev EXCEPT ![e] = x],
         UNCHANGED <<inst, completed, now, sweep, timedOut, crashes>>
  PROVE  IInv'
  BY EvaluatorKeeps DEF IInv, TypeOK, Over

(* Going on with the next key, or ending, is well typed.                   *)
LEMMA NextStartType ==
  ASSUME NEW x \in Evaluations
  PROVE  /\ NextStart(x) \in Evaluations
         /\ NextStart(x).stage \in {"lookup", "idle"}
  <1>1. CASE x.left = {}
    BY <1>1, Constants DEF NextStart, Idle
  <1>2. CASE x.left # {}
    BY <1>2 DEF NextStart, Evaluations, EvStages
  <1> QED
    BY <1>1, <1>2

(* Taking up a key of the second loop is well typed.                       *)
LEMMA AtKeyType ==
  ASSUME TypeOK, NEW e \in Evaluators, NEW k \in ev[e].left
  PROVE  AtKey(e, k) \in Evaluations
  <1>1. ev[e] \in Evaluations
    BY DEF TypeOK
  <1> QED
    BY <1>1 DEF AtKey, Evaluations

(* Where an evaluator goes after a helper is well typed.                   *)
LEMMA ReturnedType ==
  ASSUME TypeOK, NEW e \in Evaluators
  PROVE  /\ Returned(e) \in Evaluations
         /\ Returned(e).stage \notin {"load", "write"}
  <1> DEFINE done == [ev[e] EXCEPT !.op = "none", !.read = NoInstance,
                                   !.cur = NoSnapshot]
  <1>1. ev[e] \in Evaluations
    BY DEF TypeOK
  <1>2. done \in Evaluations
    BY <1>1, Constants DEF Evaluations, Ops
  <1>3. [done EXCEPT !.stage = "fire", !.cur = ev[e].cur] \in Evaluations
    BY <1>1, <1>2 DEF Evaluations, EvStages
  <1>4. [done EXCEPT !.stage = "check"] \in Evaluations
    BY <1>2 DEF Evaluations, EvStages
  <1>5. CASE ev[e].op = "restart"
    <2>1. Returned(e) = NextStart(done)
      BY <1>5 DEF Returned
    <2> HIDE DEF done
    <2> QED
      BY <1>2, <2>1, NextStartType
  <1>6. CASE ev[e].op = "complete"
    BY <1>2, <1>3, <1>6 DEF Returned, Evaluations
  <1>7. CASE ev[e].op \notin {"restart", "complete"}
    BY <1>2, <1>4, <1>7 DEF Returned, Evaluations
  <1> QED
    BY <1>5, <1>6, <1>7

(* A new observation keeps the invariant.                                  *)
LEMMA ObserveStep ==
  ASSUME IInv, NEW e \in Evaluators, Observe(e)
  PROVE  IInv'
  <1>1. PICK keys \in SUBSET Keys \ {{}}, seen \in SUBSET (0..(NumSteps - 1)),
            start \in BOOLEAN :
          ev' = [ev EXCEPT ![e] = [Idle EXCEPT !.stage = "find", !.now = now,
                   !.keys = keys, !.left = keys, !.seen = seen, !.start = start]]
    BY DEF Observe
  <1> DEFINE x == [Idle EXCEPT !.stage = "find", !.now = now, !.keys = keys,
                     !.left = keys, !.seen = seen, !.start = start]
  <1>2. now \in Nat
    BY SequenceAssumption DEF IInv, TypeOK, MaxTime
  <1>3. x \in Evaluations /\ x.stage = "find"
    BY <1>2, Constants DEF Evaluations, EvStages, Idle
  <1> HIDE DEF x
  <1> QED
    BY <1>1, <1>3, EvaluatorReads DEF Observe, Moves, x

(* Reading the active instances keeps the invariant.                       *)
LEMMA FindStep ==
  ASSUME IInv, NEW e \in Evaluators, Find(e)
  PROVE  IInv'
  <1>1. PICK k \in ev[e].left :
          ev' = [ev EXCEPT ![e].stage = "check", ![e].key = k,
                   ![e].left = @ \ {k},
                   ![e].todo = {[id |-> i, row |-> inst[i]] : i \in ActiveOf(k)}]
    BY DEF Find
  <1> DEFINE S == {[id |-> i, row |-> inst[i]] : i \in ActiveOf(k)}
             x == [ev[e] EXCEPT !.stage = "check", !.key = k,
                                !.left = @ \ {k}, !.todo = S]
  <1>2. ev[e] \in Evaluations
    BY DEF IInv, TypeOK
  <1>3. S \in SUBSET Snapshots
    BY DEF IInv, TypeOK, Snapshots, ActiveOf, Active
  <1>4. x \in Evaluations /\ x.stage = "check"
    <2> HIDE DEF S
    <2> QED
      BY <1>2, <1>3 DEF Evaluations, EvStages
  <1>5. ev' = [ev EXCEPT ![e] = x]
    BY <1>1 DEF IInv, TypeOK
  <1> HIDE DEF x
  <1> QED
    BY <1>4, <1>5, EvaluatorReads DEF Find, Moves

(* Passing over an instance keeps the invariant.                           *)
LEMMA PassOverStep ==
  ASSUME IInv, NEW e \in Evaluators, PassOver(e)
  PROVE  IInv'
  <1>1. PICK s \in ev[e].todo : ev' = [ev EXCEPT ![e].todo = @ \ {s}]
    BY DEF PassOver
  <1> DEFINE x == [ev[e] EXCEPT !.todo = @ \ {s}]
  <1>2. ev[e] \in Evaluations /\ ev[e].stage = "check"
    BY DEF IInv, TypeOK, PassOver, Moves
  <1>3. x \in Evaluations /\ x.stage = "check"
    BY <1>2 DEF Evaluations
  <1>4. ev' = [ev EXCEPT ![e] = x]
    BY <1>1 DEF IInv, TypeOK
  <1> HIDE DEF x
  <1> QED
    BY <1>3, <1>4, EvaluatorReads DEF PassOver, Moves

(* Deciding on an instance keeps the invariant.                            *)
LEMMA SatisfyStep ==
  ASSUME IInv, NEW e \in Evaluators, Satisfy(e)
  PROVE  IInv'
  <1>1. PICK s \in ev[e].todo :
          ev' = [ev EXCEPT ![e].stage = "load", ![e].cur = s,
                           ![e].op = Verdict(s), ![e].todo = @ \ {s}]
    BY DEF Satisfy
  <1> DEFINE x == [ev[e] EXCEPT !.stage = "load", !.cur = s,
                                !.op = Verdict(s), !.todo = @ \ {s}]
  <1>2. ev[e] \in Evaluations
    BY DEF IInv, TypeOK
  <1>3. s \in Snapshots
    BY <1>2 DEF Evaluations
  <1>4. Verdict(s) \in {"bump", "advance", "complete"}
    BY DEF Verdict
  <1>5. x \in Evaluations /\ x.op # "none" /\ x.cur \in Snapshots
    BY <1>2, <1>3, <1>4 DEF Evaluations, EvStages, Ops
  <1>6. ev' = [ev EXCEPT ![e] = x]
    BY <1>1 DEF IInv, TypeOK
  <1> HIDE DEF x
  <1> QED
    BY <1>5, <1>6, EvaluatorReads DEF Satisfy, Moves

(* Getting the row keeps the invariant.                                    *)
LEMMA LoadStep ==
  ASSUME IInv, NEW e \in Evaluators, Load(e)
  PROVE  IInv'
  <1> DEFINE row == inst[ev[e].cur.id]
             x == [ev[e] EXCEPT !.stage = "write", !.read = row]
  <1>1. ev[e] \in Evaluations /\ ev[e].op # "none" /\ ev[e].cur \in Snapshots
    BY DEF IInv, TypeOK, HasOp, Load, Moves
  <1>2. row \in InstanceRows
    BY <1>1 DEF IInv, TypeOK, Snapshots
  <1>3. CASE row.status = "active"
    <2>1. x \in Evaluations /\ x.op # "none" /\ x.cur \in Snapshots
      <3> HIDE DEF row
      <3> QED
        BY <1>1, <1>2 DEF Evaluations, EvStages
    <2>2. ev' = [ev EXCEPT ![e] = x]
      BY <1>3 DEF Load
    <2> HIDE DEF x
    <2> QED
      BY <2>1, <2>2, EvaluatorReads DEF Load, Moves
  <1>4. CASE row.status # "active"
    <2>1. ev' = [ev EXCEPT ![e] = Returned(e)]
      BY <1>4 DEF Load
    <2> QED
      BY <2>1, ReturnedType, EvaluatorReads DEF Load, Moves, IInv
  <1> QED
    BY <1>3, <1>4

(* Committing a row keeps the invariant.                                   *)
LEMMA WriteStep ==
  ASSUME IInv, NEW e \in Evaluators, Write(e)
  PROVE  IInv'
  <1>1. /\ inst' \in [Instances -> InstanceRows]
        /\ \A i \in Instances : inst'[i].status \in {inst[i].status, "completed"}
    BY WriteEffect DEF IInv
  <1>2. ev' = [ev EXCEPT ![e] = Returned(e)]
    BY DEF Write
  <1>3. completed' \in [Instances -> Nat]
    BY DEF Write, IInv, TypeOK
  <1>4. \A i \in Instances : Over(i) => Over(i)'
    BY <1>1 DEF Over
  <1> QED
    BY <1>1, <1>2, <1>3, <1>4, ReturnedType, EvaluatorKeeps DEF Write, Moves, IInv

(* Firing on_complete keeps the invariant.                                 *)
LEMMA FireStep ==
  ASSUME IInv, NEW e \in Evaluators, Fire(e)
  PROVE  IInv'
  <1> DEFINE x == [ev[e] EXCEPT !.stage = "check", !.cur = NoSnapshot]
  <1>1. ev[e] \in Evaluations
    BY DEF IInv, TypeOK
  <1>2. x \in Evaluations /\ x.stage = "check"
    BY <1>1, Constants DEF Evaluations, EvStages
  <1>3. ev' = [ev EXCEPT ![e] = x]
    BY DEF Fire, IInv, TypeOK
  <1>4. completed' \in [Instances -> Nat]
    <2>1. completed \in [Instances -> Nat]
      BY DEF IInv, TypeOK
    <2>2. completed' = [completed EXCEPT ![ev[e].cur.id] = @ + 1]
      BY DEF Fire
    <2>3. CASE ev[e].cur.id \in Instances
      BY <2>1, <2>2, <2>3
    <2>4. CASE ev[e].cur.id \notin Instances
      BY <2>1, <2>2, <2>4
    <2> QED
      BY <2>3, <2>4
  <1>5. inst' \in [Instances -> InstanceRows] /\ UNCHANGED inst
    BY DEF Fire, IInv, TypeOK
  <1>6. \A i \in Instances : Over(i) => Over(i)'
    BY <1>5 DEF Over
  <1> HIDE DEF x
  <1> QED
    BY <1>2, <1>3, <1>4, <1>5, <1>6, EvaluatorKeeps DEF Fire, Moves

(* Turning to the next key or the start trigger keeps the invariant.       *)
LEMMA EndAdvanceStep ==
  ASSUME IInv, NEW e \in Evaluators, EndAdvance(e)
  PROVE  IInv'
  <1>1. ev[e] \in Evaluations
    BY DEF IInv, TypeOK
  <1>2. /\ [ev[e] EXCEPT !.stage = "find"] \in Evaluations
        /\ [ev[e] EXCEPT !.stage = "count"] \in Evaluations
    BY <1>1 DEF Evaluations, EvStages
  <1>3. PICK x \in Evaluations :
          x.stage \in {"find", "count", "idle"} /\ ev' = [ev EXCEPT ![e] = x]
    <2>1. CASE ev[e].left # {}
      <3>1. ev' = [ev EXCEPT ![e] = [ev[e] EXCEPT !.stage = "find"]]
        BY <2>1 DEF EndAdvance, IInv, TypeOK
      <3>2. [ev[e] EXCEPT !.stage = "find"].stage = "find"
        BY <1>1 DEF Evaluations
      <3> QED
        BY <1>2, <3>1, <3>2
    <2>2. CASE ev[e].left = {} /\ ev[e].start
      <3>1. ev' = [ev EXCEPT ![e] = [ev[e] EXCEPT !.stage = "count"]]
        BY <2>2 DEF EndAdvance, IInv, TypeOK
      <3>2. [ev[e] EXCEPT !.stage = "count"].stage = "count"
        BY <1>1 DEF Evaluations
      <3> QED
        BY <1>2, <3>1, <3>2
    <2>3. CASE ev[e].left = {} /\ ~ev[e].start
      <3>1. ev' = [ev EXCEPT ![e] = Idle]
        BY <2>3 DEF EndAdvance, IInv, TypeOK
      <3> QED
        BY <3>1, Constants DEF Idle
    <2> QED
      BY <2>1, <2>2, <2>3
  <1> QED
    BY <1>3, EvaluatorReads DEF EndAdvance, Moves

(* Counting the active instances keeps the invariant.                      *)
LEMMA CountStep ==
  ASSUME IInv, NEW e \in Evaluators, Count(e)
  PROVE  IInv'
  <1> DEFINE c == Cardinality(Active)
             x == [ev[e] EXCEPT !.stage = "lookup", !.left = ev[e].keys,
                                !.count = c]
  <1>1. ev[e] \in Evaluations /\ c \in Nat
    BY ActiveFinite DEF IInv, TypeOK
  <1>2. x \in Evaluations /\ x.stage = "lookup"
    <2> HIDE DEF c
    <2> QED
      BY <1>1 DEF Evaluations, EvStages
  <1>3. ev' = [ev EXCEPT ![e] = x]
    BY DEF Count, IInv, TypeOK
  <1> HIDE DEF x
  <1> QED
    BY <1>2, <1>3, EvaluatorReads DEF Count, Moves

(* Finding an instance to restart or ignore keeps the invariant.           *)
LEMMA LookupRefireStep ==
  ASSUME IInv, NEW e \in Evaluators, LookupRefire(e)
  PROVE  IInv'
  <1>0. PICK k \in ev[e].left : \E i \in ActiveOf(k) :
          ev' = [ev EXCEPT ![e] =
                IF OnRefire = "restart"
                THEN [AtKey(e, k) EXCEPT !.stage = "load", !.op = "restart",
                                         !.cur = [id |-> i, row |-> inst[i]]]
                ELSE NextStart(AtKey(e, k))]
    BY DEF LookupRefire
  <1>1. PICK i \in ActiveOf(k) :
          ev' = [ev EXCEPT ![e] =
                IF OnRefire = "restart"
                THEN [AtKey(e, k) EXCEPT !.stage = "load", !.op = "restart",
                                         !.cur = [id |-> i, row |-> inst[i]]]
                ELSE NextStart(AtKey(e, k))]
    BY <1>0
  <1> DEFINE s == [id |-> i, row |-> inst[i]]
             a == AtKey(e, k)
             y == [a EXCEPT !.stage = "load", !.op = "restart", !.cur = s]
  <1>2. a \in Evaluations
    BY AtKeyType DEF IInv
  <1>3. s \in Snapshots
    BY DEF IInv, TypeOK, ActiveOf, Active, Snapshots
  <1>4. CASE OnRefire = "restart"
    <2>1. y \in Evaluations /\ y.op = "restart" /\ y.cur \in Snapshots
      <3> HIDE DEF s, a
      <3> QED
        BY <1>2, <1>3 DEF Evaluations, EvStages, Ops
    <2>2. ev' = [ev EXCEPT ![e] = y]
      BY <1>1, <1>4
    <2> HIDE DEF y
    <2> QED
      BY <2>1, <2>2, EvaluatorReads DEF LookupRefire, Moves
  <1>5. CASE OnRefire # "restart"
    <2>1. ev' = [ev EXCEPT ![e] = NextStart(a)]
      BY <1>1, <1>5
    <2>2. NextStart(a) \in Evaluations /\ NextStart(a).stage \in {"lookup", "idle"}
      BY <1>2, NextStartType
    <2> QED
      BY <2>1, <2>2, EvaluatorReads DEF LookupRefire, Moves
  <1> QED
    BY <1>4, <1>5

(* Finding none keeps the invariant.                                       *)
LEMMA LookupStartStep ==
  ASSUME IInv, NEW e \in Evaluators, LookupStart(e)
  PROVE  IInv'
  <1>1. PICK k \in ev[e].left :
          ev' = [ev EXCEPT ![e] = IF ev[e].count < MaxActive
                                  THEN [AtKey(e, k) EXCEPT !.stage = "create"]
                                  ELSE NextStart(AtKey(e, k))]
    BY DEF LookupStart
  <1> DEFINE a == AtKey(e, k)
             y == [a EXCEPT !.stage = "create"]
  <1>2. a \in Evaluations
    BY AtKeyType DEF IInv
  <1>3. CASE ev[e].count < MaxActive
    <2>1. y \in Evaluations /\ y.stage = "create"
      <3> HIDE DEF a
      <3> QED
        BY <1>2 DEF Evaluations, EvStages
    <2>2. ev' = [ev EXCEPT ![e] = y]
      BY <1>1, <1>3
    <2> HIDE DEF y
    <2> QED
      BY <2>1, <2>2, EvaluatorReads DEF LookupStart, Moves
  <1>4. CASE ~(ev[e].count < MaxActive)
    <2>1. ev' = [ev EXCEPT ![e] = NextStart(a)]
      BY <1>1, <1>4
    <2>2. NextStart(a) \in Evaluations /\ NextStart(a).stage \in {"lookup", "idle"}
      BY <1>2, NextStartType
    <2> QED
      BY <2>1, <2>2, EvaluatorReads DEF LookupStart, Moves
  <1> QED
    BY <1>3, <1>4

(* Creating an instance keeps the invariant.                               *)
LEMMA CreateStep ==
  ASSUME IInv, NEW e \in Evaluators, Create(e)
  PROVE  IInv'
  <1>1. PICK i \in Unused :
          inst' = [inst EXCEPT ![i] = [NoInstance EXCEPT !.status = "active",
                     !.key = ev[e].key, !.deadline = ev[e].now + Within]]
    BY DEF Create
  <1> DEFINE new == [NoInstance EXCEPT !.status = "active",
                       !.key = ev[e].key, !.deadline = ev[e].now + Within]
  <1>2. ev[e] \in Evaluations
    BY DEF IInv, TypeOK
  <1>3. ev[e].key \in Keys /\ ev[e].now + Within \in Nat
    BY <1>2, SequenceAssumption DEF Evaluations
  <1>4. new \in InstanceRows
    BY <1>3, Constants DEF InstanceRows, Statuses
  <1>5. i \in Instances /\ inst[i].status = "unused"
    BY DEF Unused
  <1>6. inst' \in [Instances -> InstanceRows]
    <2> HIDE DEF new
    <2> QED
      BY <1>1, <1>4 DEF IInv, TypeOK, new
  <1>7. \A j \in Instances : Over(j) => Over(j)'
    BY <1>1, <1>5 DEF IInv, TypeOK, Over
  <1> DEFINE x == [ev[e] EXCEPT !.count = @ + 1]
  <1>8. x \in Evaluations
    BY <1>2 DEF Evaluations
  <1>9. ev' = [ev EXCEPT ![e] = NextStart(x)]
    BY DEF Create
  <1>10. NextStart(x) \in Evaluations /\ NextStart(x).stage \in {"lookup", "idle"}
    BY <1>8, NextStartType
  <1>11. completed' \in [Instances -> Nat]
    BY DEF Create, IInv, TypeOK
  <1> HIDE DEF x
  <1> QED
    BY <1>6, <1>7, <1>9, <1>10, <1>11, EvaluatorKeeps DEF Create, Moves

(* The bound on instances keeps the invariant.                             *)
LEMMA OutOfRowsStep ==
  ASSUME IInv, NEW e \in Evaluators, OutOfRows(e)
  PROVE  IInv'
  <1>1. ev[e] \in Evaluations
    BY DEF IInv, TypeOK
  <1>2. ev' = [ev EXCEPT ![e] = NextStart(ev[e])]
    BY DEF OutOfRows, IInv, TypeOK
  <1> QED
    BY <1>1, <1>2, NextStartType, EvaluatorReads DEF OutOfRows, Moves

(* Every step of an evaluation keeps the invariant.                        *)
LEMMA EvaluateStep ==
  ASSUME IInv, NEW e \in Evaluators, Evaluate(e)
  PROVE  IInv'
  BY FindStep, PassOverStep, SatisfyStep, LoadStep, WriteStep, FireStep,
     EndAdvanceStep, CountStep, LookupRefireStep, LookupStartStep, CreateStep,
     OutOfRowsStep DEF Evaluate

(* What is selected is active, so it was not announced yet. *)
LEMMA SweepSelectStep ==
  ASSUME IInv, SweepSelect
  PROVE  IInv'
  <1> DEFINE due == {i \in Active : inst[i].deadline < now}
  <1>1. sweep' = [stage |-> "commit", todo |-> due]
    BY DEF SweepSelect
  <1>2. due \subseteq Instances
    BY DEF Active
  <1>3. \A i \in due : timedOut[i] = 0
    BY DEF Active, IInv, SweepInv, TypeOK
  <1> HIDE DEF due
  <1>4. TypeOK'
    BY <1>1, <1>2 DEF SweepSelect, IInv, TypeOK
  <1>5. HasOp'
    BY DEF SweepSelect, IInv, HasOp
  <1>6. SweepInv'
    BY <1>1, <1>3 DEF SweepSelect, IInv, SweepInv, TimesOutOnce
  <1> QED
    BY <1>4, <1>5, <1>6 DEF IInv

(* Whatever became of them since, the selected instances are over now. *)
LEMMA SweepCommitStep ==
  ASSUME IInv, SweepCommit
  PROVE  IInv'
  <1>1. inst \in [Instances -> InstanceRows] /\ sweep.todo \subseteq Instances
    BY DEF IInv, TypeOK
  <1>2. \A i \in Instances :
          inst'[i] = IF i \in sweep.todo THEN [inst[i] EXCEPT !.status = "expired"]
                                         ELSE inst[i]
    BY DEF SweepCommit
  <1>3. \A i \in Instances : inst'[i] \in InstanceRows
    BY <1>1, <1>2 DEF InstanceRows, Statuses
  <1>4. inst' \in [Instances -> InstanceRows]
    BY <1>3 DEF SweepCommit
  <1>5. \A i \in Instances : Over(i) => Over(i)'
    BY <1>1, <1>2 DEF Over, InstanceRows
  <1>6. \A i \in sweep.todo : inst'[i].status = "expired"
    BY <1>1, <1>2 DEF InstanceRows
  <1>7. sweep' = [stage |-> "fire", todo |-> sweep.todo]
    BY DEF SweepCommit, IInv, TypeOK
  <1>8. TypeOK'
    BY <1>1, <1>4, <1>7 DEF SweepCommit, IInv, TypeOK
  <1>9. HasOp'
    BY DEF SweepCommit, IInv, HasOp
  <1>10. SweepInv'
    BY <1>1, <1>5, <1>6, <1>7 DEF SweepCommit, IInv, SweepInv, TimesOutOnce, Over
  <1> QED
    BY <1>8, <1>9, <1>10 DEF IInv

(* Announcing an expiry keeps the invariant: it was not announced yet.     *)
LEMMA SweepFireStep ==
  ASSUME IInv, SweepFire
  PROVE  IInv'
  <1>1. PICK i \in sweep.todo :
          /\ timedOut' = [timedOut EXCEPT ![i] = @ + 1]
          /\ sweep' = [stage |-> IF sweep.todo = {i} THEN "idle" ELSE "fire",
                       todo  |-> sweep.todo \ {i}]
    BY DEF SweepFire
  <1>2. /\ i \in Instances /\ timedOut[i] = 0 /\ Over(i)
        /\ timedOut \in [Instances -> Nat]
        /\ sweep.todo \subseteq Instances /\ sweep.stage = "fire"
    BY DEF SweepFire, IInv, TypeOK, SweepInv, Over
  <1>3. \A j \in Instances : timedOut'[j] = IF j = i THEN 1 ELSE timedOut[j]
    BY <1>1, <1>2
  <1>4. timedOut' \in [Instances -> Nat]
    BY <1>1, <1>2
  <1>5. TypeOK'
    BY <1>1, <1>2, <1>4 DEF SweepFire, IInv, TypeOK
  <1>6. HasOp'
    BY DEF SweepFire, IInv, HasOp
  <1>7. SweepInv'
    <2>1. /\ \A j \in sweep'.todo : j \in sweep.todo /\ j # i
          /\ sweep.todo \subseteq Instances
      BY <1>1, <1>2
    <2> QED
      BY <1>2, <1>3, <2>1 DEF SweepFire, IInv, SweepInv, TimesOutOnce, Over
  <1> QED
    BY <1>5, <1>6, <1>7 DEF IInv

(* A crash keeps the invariant: what was selected is selected again.       *)
LEMMA CrashStep ==
  ASSUME IInv, Crash
  PROVE  IInv'
  <1>1. crashes' \in 0..MaxCrashes
    BY SequenceAssumption DEF Crash, IInv, TypeOK
  <1>2. CASE sweep' = [stage |-> "idle", todo |-> {}] /\ UNCHANGED ev
    <2>1. TypeOK'
      BY <1>1, <1>2 DEF Crash, IInv, TypeOK
    <2> QED
      BY <1>2, <2>1 DEF Crash, IInv, HasOp, SweepInv, TimesOutOnce
  <1>3. CASE UNCHANGED sweep /\ \E e \in Evaluators : ev' = [ev EXCEPT ![e] = Idle]
    <2>1. PICK e \in Evaluators : ev' = [ev EXCEPT ![e] = Idle]
      BY <1>3
    <2>2. TypeOK'
      BY <1>1, <1>3, <2>1, Constants DEF Crash, IInv, TypeOK
    <2>3. HasOp'
      BY <2>1 DEF IInv, TypeOK, HasOp, Idle
    <2> QED
      BY <1>3, <2>2, <2>3 DEF Crash, IInv, SweepInv, TimesOutOnce
  <1> QED
    BY <1>2, <1>3 DEF Crash

(* Time keeps the invariant.                                               *)
LEMMA TickStep ==
  ASSUME IInv, Tick
  PROVE  IInv'
  <1>1. now' \in 0..MaxTime
    BY SequenceAssumption DEF Tick, IInv, TypeOK, MaxTime
  <1> QED
    BY <1>1 DEF Tick, IInv, TypeOK, HasOp, SweepInv, TimesOutOnce

(* The invariant holds initially.                                          *)
LEMMA InitIInv == Init => IInv
  <1> SUFFICES ASSUME Init PROVE IInv
    OBVIOUS
  <1>1. TypeOK
    BY Constants, SequenceAssumption DEF Init, TypeOK, MaxTime
  <1>2. HasOp
    BY DEF Init, HasOp, Idle
  <1>3. SweepInv
    BY DEF Init, SweepInv, TimesOutOnce
  <1> QED
    BY <1>1, <1>2, <1>3 DEF IInv

(* Every step preserves the invariant.                                     *)
LEMMA NextIInv == IInv /\ [Next]_vars => IInv'
  <1> SUFFICES ASSUME IInv, [Next]_vars PROVE IInv'
    OBVIOUS
  <1>1. CASE Next
    BY <1>1, TickStep, ObserveStep, EvaluateStep, SweepSelectStep,
       SweepCommitStep, SweepFireStep, CrashStep DEF Next, Sweep
  <1>2. CASE UNCHANGED vars
    BY <1>2 DEF vars, IInv, TypeOK, HasOp, SweepInv, TimesOutOnce
  <1> QED
    BY <1>1, <1>2

(* The inductive invariant holds in every reachable state. *)
THEOREM IInvHolds == Spec => []IInv
  BY InitIInv, NextIInv, PTL DEF Spec

(* Every row, every evaluator's position and the sweeper's keep their types. *)
THEOREM TypeCorrect == Spec => []TypeOK
  <1>1. IInv => TypeOK
    BY DEF IInv
  <1> QED
    BY <1>1, IInvHolds, PTL

(* The absence alert of an instance is raised at most once, although the   *)
(* sweeper updates by id, in a transaction of its own, rows that the       *)
(* evaluators may have finished since it selected them (expire_due).       *)
THEOREM AlertsOnce == Spec => []TimesOutOnce
  <1>1. IInv => TimesOutOnce
    BY DEF IInv, SweepInv
  <1> QED
    BY <1>1, IInvHolds, PTL

(* A finished instance never becomes active again: every helper that       *)
(* writes one committed on a row it read as active and only changes the    *)
(* columns that differ, so a late write cannot undo the sweeper's.         *)
LEMMA FinishedStays ==
  ASSUME IInv, [Next]_vars, NEW i \in Instances, Over(i)
  PROVE  Over(i)'
  <1>1. ASSUME NEW e \in Evaluators, Evaluate(e) PROVE Over(i)'
    <2>1. CASE Write(e)
      BY <2>1, WriteEffect DEF IInv, Over
    <2>2. CASE Create(e)
      <3>1. PICK j \in Unused :
              inst' = [inst EXCEPT ![j] = [NoInstance EXCEPT !.status = "active",
                         !.key = ev[e].key, !.deadline = ev[e].now + Within]]
        BY <2>2 DEF Create
      <3> QED
        BY <3>1 DEF Unused, Over, IInv, TypeOK
    <2>3. CASE UNCHANGED inst
      BY <2>3 DEF Over
    <2> QED
      BY <1>1, <2>1, <2>2, <2>3 DEF Evaluate, Find, PassOver, Satisfy, Load,
         Fire, EndAdvance, Count, LookupRefire, LookupStart, OutOfRows
  <1>2. CASE SweepCommit
    BY <1>2 DEF SweepCommit, Over, IInv, TypeOK, InstanceRows
  <1>3. CASE UNCHANGED inst
    BY <1>3 DEF Over
  <1> QED
    BY <1>1, <1>2, <1>3 DEF Next, Sweep, Tick, Observe, SweepSelect, SweepFire,
       Crash, vars

(* Spec implies NeverReactivated: an instance that completed or expired is *)
(* never active again, although an evaluator that loaded it before may     *)
(* still write a step, a deadline or completed into it (FinishedStays).    *)
THEOREM FinishedForGood == Spec => NeverReactivated
  <1>1. IInv /\ [Next]_vars =>
          [\A i \in Instances :
             inst[i].status \in {"completed", "expired"}
               => inst'[i].status \in {"completed", "expired"}]_vars
    BY FinishedStays DEF Over
  <1> QED
    BY <1>1, IInvHolds, PTL DEF Spec, NeverReactivated

-----------------------------------------------------------------------------
(* What an evaluator has in hand                                           *)

(* The evaluator record x is at an instance of the pass that advances      *)
(* instances; or it is in the loop that starts them.                       *)
InPass(x)   == \/ x.stage \in {"load", "write"} /\ x.op # "restart"
               \/ x.stage = "fire"
Starting(x) == \/ x.stage \in {"lookup", "create"}
               \/ x.stage \in {"load", "write"} /\ x.op = "restart"

(* In that pass, x still has to deal with instance i.                      *)
Holds(x, i) == \/ \E s \in x.todo : s.id = i
               \/ InPass(x) /\ x.cur.id = i

(* A pass deals with each instance once: its snapshots are of different    *)
(* rows, and the one at hand is not among those still to come.             *)
PassForm(x) ==
  /\ x.todo # {} => x.stage = "check" \/ InPass(x)
  /\ \A s, t \in x.todo : s.id = t.id => s = t
  /\ InPass(x) => x.cur \in Snapshots /\ \A s \in x.todo : s.id # x.cur.id
  /\ x.stage = "write" => x.read.status = "active"
  /\ x.stage = "create" => x.count < MaxActive

(* The instances it holds were created, and the one whose chain it is      *)
(* about to fire is over.                                                  *)
PassRows(x) ==
  /\ \A i \in Instances : Holds(x, i) => inst[i].status # "unused"
  /\ x.stage = "fire" => Over(x.cur.id)

PassInv == \A e \in Evaluators : PassForm(ev[e]) /\ PassRows(ev[e])

(* An evaluator that holds instance i may yet complete it, once; when it   *)
(* lets go of i, i is over and it does not take it up again.               *)
Handlers(i) == {e \in Evaluators : Holds(ev[e], i)}

CompletionInv ==
  \A i \in Instances :
    /\ completed[i] > 0 => Over(i)
    /\ completed[i] + Cardinality(Handlers(i)) <= Cardinality(Evaluators)

(* The instances that the evaluators in the loop may still start, by what  *)
(* they counted before: their free slots.                                  *)
Slots == {p \in Evaluators \X (1..MaxActive) :
            Starting(ev[p[1]]) /\ ev[p[1]].count < p[2]}

CapInv == Cardinality(Active) + Cardinality(Slots)
            <= Cardinality(Evaluators) * MaxActive

(* A step takes an evaluator from x to y: it takes up active instances     *)
(* only, fires for the instance it completed, and has no more room to      *)
(* start instances than before, unless it counts them anew.                *)
Follows(x, y) ==
  /\ PassForm(y)
  /\ \A i \in Instances : Holds(y, i) => Holds(x, i) \/ inst[i].status = "active"
  /\ y.stage = "fire" => /\ x.stage \in {"load", "write"} /\ x.op = "complete"
                         /\ y.cur = x.cur
  /\ Starting(y) => x.stage = "count" \/ (Starting(x) /\ x.count <= y.count)

(* Nothing is held after NextStart. *)
LEMMA NextStartFollows ==
  ASSUME NEW x \in Evaluations, x.todo = {}
  PROVE  /\ PassForm(NextStart(x)) /\ NextStart(x).stage # "fire"
         /\ \A i \in Instances : ~Holds(NextStart(x), i)
         /\ Starting(NextStart(x)) => NextStart(x).count = x.count
  <1>1. CASE x.left = {}
    BY <1>1 DEF NextStart, Idle, PassForm, InPass, Holds, Starting
  <1>2. CASE x.left # {}
    <2> DEFINE y == [x EXCEPT !.stage = "lookup"]
    <2>1. y.stage = "lookup" /\ y.todo = {} /\ y.count = x.count
      BY DEF Evaluations
    <2>2. NextStart(x) = y
      BY <1>2 DEF NextStart
    <2> HIDE DEF y
    <2> QED
      BY <2>1, <2>2 DEF PassForm, InPass, Holds, Starting
  <1> QED
    BY <1>1, <1>2

(* An evaluator goes on from a helper with what it held, or less. *)
LEMMA ReturnedFollows ==
  ASSUME TypeOK, NEW e \in Evaluators, ev[e].stage \in {"load", "write"},
         PassForm(ev[e])
  PROVE  Follows(ev[e], Returned(e))
  <1> DEFINE x == ev[e]
             done == [ev[e] EXCEPT !.op = "none", !.read = NoInstance,
                                   !.cur = NoSnapshot]
             y == Returned(e)
  <1>1. x \in Evaluations
    BY DEF TypeOK
  <1>2. /\ done \in Evaluations /\ done.todo = x.todo /\ done.count = x.count
    BY <1>1, Constants DEF Evaluations, Ops
  <1>3. CASE x.op = "restart"
    <2>1. x.todo = {} /\ Starting(x) /\ x.count \in Nat
      BY <1>1, <1>3 DEF PassForm, InPass, Starting, Evaluations
    <2>2. y = NextStart(done)
      BY <1>3 DEF Returned
    <2> HIDE DEF done, x, y
    <2> QED
      BY <1>2, <2>1, <2>2, NextStartFollows DEF Follows, x, y
  <1>4. CASE x.op = "complete"
    <2>1. y = [done EXCEPT !.stage = "fire", !.cur = x.cur]
      BY <1>4 DEF Returned
    <2>2. y.stage = "fire" /\ y.cur = x.cur /\ y.todo = x.todo
      BY <1>2, <2>1 DEF Evaluations
    <2>3. InPass(x)
      BY <1>4 DEF InPass
    <2> HIDE DEF y
    <2> QED
      BY <1>4, <2>2, <2>3 DEF Follows, PassForm, InPass, Holds, Starting, y
  <1>5. CASE x.op \notin {"restart", "complete"}
    <2>1. y = [done EXCEPT !.stage = "check"]
      BY <1>5 DEF Returned
    <2>2. y.stage = "check" /\ y.todo = x.todo
      BY <1>2, <2>1 DEF Evaluations
    <2> HIDE DEF y
    <2> QED
      BY <2>2 DEF Follows, PassForm, InPass, Holds, Starting, y
  <1> QED
    BY <1>3, <1>4, <1>5

(* Going on with the next key of the second loop. *)
LEMMA AtKeyFollows ==
  ASSUME TypeOK, NEW e \in Evaluators, PassForm(ev[e]),
         ev[e].stage = "lookup", NEW k \in ev[e].left
  PROVE  /\ AtKey(e, k) \in Evaluations /\ AtKey(e, k).todo = {}
         /\ AtKey(e, k).count = ev[e].count
         /\ Follows(ev[e], NextStart(AtKey(e, k)))
  <1> DEFINE a == AtKey(e, k)
  <1>1. ev[e] \in Evaluations /\ ev[e].todo = {} /\ Starting(ev[e])
    BY DEF TypeOK, PassForm, InPass, Starting
  <1>2. a \in Evaluations /\ a.todo = {} /\ a.count = ev[e].count
    BY <1>1, AtKeyType DEF AtKey, Evaluations
  <1>3. ev[e].count \in Nat
    BY <1>1 DEF Evaluations
  <1> HIDE DEF a
  <1> QED
    BY <1>1, <1>2, <1>3, NextStartFollows DEF Follows, a

(* Each step of an evaluator follows on what it held.                      *)
LEMMA FindFollows ==
  ASSUME IInv, NEW e \in Evaluators, Find(e)
  PROVE  Follows(ev[e], ev'[e])
  <1>1. PICK k \in ev[e].left :
          ev' = [ev EXCEPT ![e].stage = "check", ![e].key = k,
                   ![e].left = @ \ {k},
                   ![e].todo = {[id |-> i, row |-> inst[i]] : i \in ActiveOf(k)}]
    BY DEF Find
  <1> DEFINE S == {[id |-> i, row |-> inst[i]] : i \in ActiveOf(k)}
             y == ev'[e]
  <1>2. y.stage = "check" /\ y.todo = S
    BY <1>1 DEF IInv, TypeOK, Evaluations
  <1>3. /\ \A s, t \in S : s.id = t.id => s = t
        /\ \A s \in S : inst[s.id].status = "active"
    BY DEF ActiveOf, Active
  <1> HIDE DEF S, y
  <1> QED
    BY <1>2, <1>3 DEF Follows, PassForm, InPass, Holds, Starting, y

LEMMA PassOverFollows ==
  ASSUME IInv, NEW e \in Evaluators, PassForm(ev[e]), PassOver(e)
  PROVE  Follows(ev[e], ev'[e])
  <1> DEFINE y == ev'[e]
  <1>1. y.stage = "check" /\ y.todo \subseteq ev[e].todo
    BY DEF PassOver, Moves, IInv, TypeOK, Evaluations
  <1> HIDE DEF y
  <1> QED
    BY <1>1 DEF Follows, PassForm, InPass, Holds, Starting, y

LEMMA SatisfyFollows ==
  ASSUME IInv, NEW e \in Evaluators, PassForm(ev[e]), Satisfy(e)
  PROVE  Follows(ev[e], ev'[e])
  <1> DEFINE y == ev'[e]
  <1>1. PICK s \in ev[e].todo :
          ev' = [ev EXCEPT ![e].stage = "load", ![e].cur = s,
                           ![e].op = Verdict(s), ![e].todo = @ \ {s}]
    BY DEF Satisfy
  <1>2. y.stage = "load" /\ y.cur = s /\ y.op = Verdict(s) /\ y.todo = ev[e].todo \ {s}
    BY <1>1 DEF IInv, TypeOK, Evaluations
  <1>3. Verdict(s) \in {"bump", "advance", "complete"}
    BY DEF Verdict
  <1>4. s \in Snapshots
    BY DEF IInv, TypeOK, Evaluations
  <1> HIDE DEF y
  <1> QED
    BY <1>2, <1>3, <1>4 DEF Follows, PassForm, InPass, Holds, Starting, y

LEMMA LoadFollows ==
  ASSUME IInv, NEW e \in Evaluators, PassForm(ev[e]), Load(e)
  PROVE  Follows(ev[e], ev'[e])
  <1> DEFINE row == inst[ev[e].cur.id]
             y == ev'[e]
  <1>0. ev[e] \in Evaluations /\ ev[e].stage = "load"
    BY DEF IInv, TypeOK, Load, Moves
  <1>1. CASE row.status = "active"
    <2>1. ev' = [ev EXCEPT ![e] = [ev[e] EXCEPT !.stage = "write", !.read = row]]
      BY <1>1 DEF Load, IInv, TypeOK
    <2>2. /\ y.stage = "write" /\ y.read = row /\ y.todo = ev[e].todo
          /\ y.op = ev[e].op /\ y.cur = ev[e].cur /\ y.count = ev[e].count
          /\ y.count \in Nat
      BY <1>0, <2>1 DEF IInv, TypeOK, Evaluations
    <2> HIDE DEF y, row
    <2> QED
      BY <1>0, <1>1, <2>2 DEF Follows, PassForm, InPass, Holds, Starting, y
  <1>2. CASE row.status # "active"
    <2>1. y = Returned(e)
      BY <1>2 DEF Load, IInv, TypeOK
    <2> QED
      BY <1>0, <2>1, ReturnedFollows DEF IInv
  <1> QED
    BY <1>1, <1>2

LEMMA WriteFollows ==
  ASSUME IInv, NEW e \in Evaluators, PassForm(ev[e]), Write(e)
  PROVE  Follows(ev[e], ev'[e])
  <1>1. ev'[e] = Returned(e) /\ ev[e].stage = "write"
    BY DEF Write, Moves, IInv, TypeOK
  <1> QED
    BY <1>1, ReturnedFollows DEF IInv

LEMMA FireFollows ==
  ASSUME IInv, NEW e \in Evaluators, PassForm(ev[e]), Fire(e)
  PROVE  /\ Follows(ev[e], ev'[e])
         /\ Holds(ev[e], ev[e].cur.id) /\ ~Holds(ev'[e], ev[e].cur.id)
  <1> DEFINE y == ev'[e]
  <1>1. y.stage = "check" /\ y.todo = ev[e].todo /\ ev[e].stage = "fire"
    BY DEF Fire, Moves, IInv, TypeOK, Evaluations
  <1> HIDE DEF y
  <1> QED
    BY <1>1 DEF Follows, PassForm, InPass, Holds, Starting, y

LEMMA EndAdvanceFollows ==
  ASSUME IInv, NEW e \in Evaluators, PassForm(ev[e]), EndAdvance(e)
  PROVE  Follows(ev[e], ev'[e])
  <1> DEFINE y == ev'[e]
  <1>1. y.stage \in {"find", "count", "idle"} /\ y.todo = {}
    <2>1. ev[e] \in Evaluations /\ ev[e].todo = {}
      BY DEF EndAdvance, IInv, TypeOK
    <2>2. y = CASE ev[e].left # {} -> [ev[e] EXCEPT !.stage = "find"]
                [] ev[e].left = {} /\ ev[e].start -> [ev[e] EXCEPT !.stage = "count"]
                [] OTHER -> Idle
      BY DEF EndAdvance, IInv, TypeOK
    <2> HIDE DEF y
    <2> QED
      BY <2>1, <2>2 DEF Idle, Evaluations
  <1> HIDE DEF y
  <1> QED
    BY <1>1 DEF Follows, PassForm, InPass, Holds, Starting, y

LEMMA CountFollows ==
  ASSUME IInv, NEW e \in Evaluators, PassForm(ev[e]), Count(e)
  PROVE  Follows(ev[e], ev'[e])
  <1> DEFINE y == ev'[e]
  <1>1. y.stage = "lookup" /\ y.todo = ev[e].todo /\ ev[e].stage = "count"
    BY DEF Count, Moves, IInv, TypeOK, Evaluations
  <1> HIDE DEF y
  <1> QED
    BY <1>1 DEF Follows, PassForm, InPass, Holds, Starting, y

LEMMA LookupRefireFollows ==
  ASSUME IInv, NEW e \in Evaluators, PassForm(ev[e]), LookupRefire(e)
  PROVE  Follows(ev[e], ev'[e])
  <1> DEFINE y == ev'[e]
  <1>0. PICK k \in ev[e].left : \E i \in ActiveOf(k) :
          ev' = [ev EXCEPT ![e] =
                IF OnRefire = "restart"
                THEN [AtKey(e, k) EXCEPT !.stage = "load", !.op = "restart",
                                         !.cur = [id |-> i, row |-> inst[i]]]
                ELSE NextStart(AtKey(e, k))]
    BY DEF LookupRefire
  <1> DEFINE a == AtKey(e, k)
  <1>1. PICK i \in ActiveOf(k) :
          y = IF OnRefire = "restart"
              THEN [a EXCEPT !.stage = "load", !.op = "restart",
                             !.cur = [id |-> i, row |-> inst[i]]]
              ELSE NextStart(a)
    BY <1>0 DEF IInv, TypeOK
  <1>2. ev[e].stage = "lookup"
    BY DEF LookupRefire, Moves
  <1>3. /\ a \in Evaluations /\ a.todo = {} /\ a.count = ev[e].count
        /\ Follows(ev[e], NextStart(a))
    BY <1>2, AtKeyFollows DEF IInv
  <1>4. CASE OnRefire = "restart"
    <2> DEFINE s == [id |-> i, row |-> inst[i]]
    <2>1. y = [a EXCEPT !.stage = "load", !.op = "restart", !.cur = s]
      BY <1>1, <1>4
    <2> HIDE DEF a, y, s
    <2>2. y.stage = "load" /\ y.op = "restart" /\ y.todo = {} /\ y.count = ev[e].count
      BY <1>3, <2>1 DEF Evaluations
    <2>3. y.count \in Nat
      BY <1>3, <2>2 DEF Evaluations
    <2> QED
      BY <1>2, <2>2, <2>3 DEF Follows, PassForm, InPass, Holds, Starting, y
  <1>5. CASE OnRefire # "restart"
    BY <1>1, <1>3, <1>5
  <1> QED
    BY <1>4, <1>5

LEMMA LookupStartFollows ==
  ASSUME IInv, NEW e \in Evaluators, PassForm(ev[e]), LookupStart(e)
  PROVE  Follows(ev[e], ev'[e])
  <1> DEFINE y == ev'[e]
  <1>0. PICK k \in ev[e].left :
          ev' = [ev EXCEPT ![e] = IF ev[e].count < MaxActive
                                  THEN [AtKey(e, k) EXCEPT !.stage = "create"]
                                  ELSE NextStart(AtKey(e, k))]
    BY DEF LookupStart
  <1> DEFINE a == AtKey(e, k)
  <1>1. y = IF ev[e].count < MaxActive THEN [a EXCEPT !.stage = "create"]
                                       ELSE NextStart(a)
    BY <1>0 DEF IInv, TypeOK
  <1>2. ev[e].stage = "lookup"
    BY DEF LookupStart, Moves
  <1>3. /\ a \in Evaluations /\ a.todo = {} /\ a.count = ev[e].count
        /\ Follows(ev[e], NextStart(a))
    BY <1>2, AtKeyFollows DEF IInv
  <1>4. CASE ev[e].count < MaxActive
    <2>1. y = [a EXCEPT !.stage = "create"]
      BY <1>1, <1>4
    <2> HIDE DEF a, y
    <2>2. y.stage = "create" /\ y.todo = {} /\ y.count = ev[e].count
      BY <1>3, <2>1 DEF Evaluations
    <2>3. y.count \in Nat
      BY <1>3, <2>2 DEF Evaluations
    <2> QED
      BY <1>2, <1>4, <2>2, <2>3 DEF Follows, PassForm, InPass, Holds, Starting, y
  <1>5. CASE ~(ev[e].count < MaxActive)
    BY <1>1, <1>3, <1>5
  <1> QED
    BY <1>4, <1>5

(* A start uses up one of the free slots.                                  *)
LEMMA CreateFollows ==
  ASSUME IInv, NEW e \in Evaluators, PassForm(ev[e]), Create(e)
  PROVE  /\ Follows(ev[e], ev'[e])
         /\ Starting(ev'[e]) => ev'[e].count = ev[e].count + 1
  <1> DEFINE x == [ev[e] EXCEPT !.count = @ + 1]
             y == ev'[e]
  <1>1. ev[e] \in Evaluations /\ ev[e].stage = "create"
    BY DEF Create, Moves, IInv, TypeOK
  <1>2. /\ x \in Evaluations /\ x.todo = {} /\ x.count = ev[e].count + 1
        /\ ev[e].count \in Nat
    BY <1>1 DEF PassForm, InPass, Evaluations
  <1>3. y = NextStart(x)
    BY DEF Create, IInv, TypeOK
  <1> HIDE DEF x, y
  <1>4. /\ PassForm(y) /\ y.stage # "fire" /\ \A i \in Instances : ~Holds(y, i)
        /\ Starting(y) => y.count = ev[e].count + 1
    BY <1>2, <1>3, NextStartFollows
  <1>5. Starting(ev[e])
    BY <1>1 DEF Starting
  <1>6. ev[e].count <= ev[e].count + 1
    BY <1>2
  <1> QED
    BY <1>4, <1>5, <1>6 DEF Follows, y

LEMMA OutOfRowsFollows ==
  ASSUME IInv, NEW e \in Evaluators, PassForm(ev[e]), OutOfRows(e)
  PROVE  Follows(ev[e], ev'[e])
  <1>1. ev[e] \in Evaluations /\ ev[e].stage = "create" /\ ev'[e] = NextStart(ev[e])
    BY DEF OutOfRows, Moves, IInv, TypeOK
  <1>2. ev[e].todo = {} /\ Starting(ev[e]) /\ ev[e].count \in Nat
    BY <1>1 DEF PassForm, InPass, Starting, Evaluations
  <1> QED
    BY <1>1, <1>2, NextStartFollows DEF Follows

LEMMA ObserveFollows ==
  ASSUME IInv, NEW e \in Evaluators, Observe(e)
  PROVE  Follows(ev[e], ev'[e])
  <1> DEFINE y == ev'[e]
  <1>1. y.stage = "find" /\ y.todo = {}
    BY DEF Observe, IInv, TypeOK, Idle
  <1> HIDE DEF y
  <1> QED
    BY <1>1 DEF Follows, PassForm, InPass, Holds, Starting, y

(* An evaluator's step follows on what it held and leaves the others'.     *)
LEMMA EvaluatorFollows ==
  ASSUME IInv, PassInv, NEW e \in Evaluators, Observe(e) \/ Evaluate(e)
  PROVE  /\ Follows(ev[e], ev'[e])
         /\ \A f \in Evaluators : f # e => ev'[f] = ev[f]
  <1>1. PassForm(ev[e])
    BY DEF PassInv
  <1>2. Follows(ev[e], ev'[e])
    BY <1>1, ObserveFollows, FindFollows, PassOverFollows, SatisfyFollows,
       LoadFollows, WriteFollows, FireFollows, EndAdvanceFollows, CountFollows,
       LookupRefireFollows, LookupStartFollows, CreateFollows,
       OutOfRowsFollows DEF Evaluate
  <1>3. \A f \in Evaluators : f # e => ev'[f] = ev[f]
    BY DEF Evaluate, Observe, Find, PassOver, Satisfy, Load, Write, Fire,
       EndAdvance, Count, LookupRefire, LookupStart, Create, OutOfRows,
       IInv, TypeOK
  <1> QED
    BY <1>2, <1>3

(* An evaluator whose record a step leaves alone. *)
LEMMA SameFollows ==
  ASSUME TypeOK, PassInv, NEW e \in Evaluators, ev[e].stage # "fire"
  PROVE  Follows(ev[e], ev[e])
  <1>1. ev[e].count \in Nat /\ PassForm(ev[e])
    BY DEF PassInv, TypeOK, Evaluations
  <1> QED
    BY <1>1 DEF Follows

(* An idle evaluator holds nothing. *)
LEMMA IdleHolds ==
  PassForm(Idle) /\ ~Starting(Idle) /\ \A i \in Instances : ~Holds(Idle, i)
  BY DEF Idle, PassForm, InPass, Starting, Holds

(* A created instance stays created; only Create makes one active.         *)
LEMMA CreatedStays ==
  ASSUME IInv, [Next]_vars, NEW i \in Instances
  PROVE  /\ inst[i].status # "unused" => inst'[i].status # "unused"
         /\ inst'[i].status = "active" /\ (\A e \in Evaluators : ~Create(e))
              => inst[i].status = "active"
  <1>1. ASSUME NEW e \in Evaluators, Create(e)
        PROVE  inst[i].status # "unused" => inst'[i].status # "unused"
    BY <1>1 DEF Create, Unused, IInv, TypeOK
  <1>2. ASSUME NEW e \in Evaluators, Write(e)
        PROVE  inst'[i].status \in {inst[i].status, "completed"}
    BY <1>2, WriteEffect DEF IInv
  <1>3. CASE SweepCommit
    BY <1>3 DEF SweepCommit, IInv, TypeOK, InstanceRows
  <1>4. CASE UNCHANGED inst
    BY <1>4
  <1> QED
    BY <1>1, <1>2, <1>3, <1>4 DEF Next, Sweep, Tick, Observe, Evaluate, Find,
       PassOver, Satisfy, Load, Fire, EndAdvance, Count, LookupRefire,
       LookupStart, OutOfRows, SweepSelect, SweepFire, Crash, vars

(* What a helper was asked to complete is over when it returns: it found   *)
(* it so, or completed it.                                                 *)
LEMMA CompleteIsOver ==
  ASSUME IInv, PassInv, NEW e \in Evaluators, Load(e) \/ Write(e),
         ev[e].op = "complete", ev'[e].stage = "fire"
  PROVE  inst'[ev[e].cur.id].status \in {"completed", "expired"}
  <1> DEFINE i == ev[e].cur.id
  <1>1. /\ ev[e] \in Evaluations /\ ev[e].cur \in Snapshots /\ i \in Instances
        /\ ev[e].stage \in {"load", "write"} /\ InPass(ev[e])
    BY DEF IInv, TypeOK, HasOp, Load, Write, Moves, Snapshots, InPass
  <1>2. Holds(ev[e], i)
    BY <1>1 DEF Holds
  <1>3. /\ inst[i] \in InstanceRows /\ inst[i].status # "unused"
        /\ ev[e].read \in InstanceRows
        /\ ev[e].stage = "write" => ev[e].read.status = "active"
    BY <1>1, <1>2 DEF PassInv, PassRows, PassForm, IInv, TypeOK, Evaluations
  <1>4. CASE Load(e)
    <2>1. inst[i].status # "active"
      BY <1>4 DEF Load, IInv, TypeOK, Evaluations
    <2> QED
      BY <1>3, <1>4, <2>1 DEF Load, Over, InstanceRows, Statuses
  <1>5. CASE Write(e)
    <2> DEFINE new == Merge(inst[i], ev[e].read, Changed(e), ev[e].op = "restart")
    <2>1. Changed(e).status = "completed"
      BY <1>3 DEF Changed, InstanceRows
    <2>2. new.status = "completed"
      BY <1>3, <1>5, <2>1 DEF Merge, InstanceRows, Write, Moves
    <2>3. inst' = [inst EXCEPT ![i] = new]
      BY <1>5 DEF Write
    <2> HIDE DEF new
    <2>4. inst'[i].status = "completed"
      BY <1>1, <2>2, <2>3 DEF IInv, TypeOK
    <2> QED
      BY <2>4 DEF Over
  <1> QED
    BY <1>4, <1>5

(* The pass over the instances keeps its form. *)
LEMMA NextPassInv ==
  ASSUME IInv, PassInv, [Next]_vars
  PROVE  PassInv'
  <1> SUFFICES ASSUME NEW e \in Evaluators
               PROVE  PassForm(ev'[e]) /\ PassRows(ev[e])'
    BY DEF PassInv, PassForm, InPass
  <1>1. ASSUME \A i \in Instances :
                 Holds(ev'[e], i) => Holds(ev[e], i) \/ inst[i].status = "active",
               ev'[e].stage = "fire"
                 => inst'[ev'[e].cur.id].status \in {"completed", "expired"}
        PROVE  PassRows(ev[e])'
    <2>1. \A i \in Instances : Holds(ev'[e], i) => inst[i].status # "unused"
      BY <1>1 DEF PassInv, PassRows
    <2>2. \A i \in Instances : Holds(ev'[e], i) => inst'[i].status # "unused"
      BY <2>1, CreatedStays
    <2> QED
      BY <1>1, <2>2 DEF PassRows, Holds, InPass, Over
  <1>2. CASE ev'[e] = ev[e]
    <2>1. ev[e].stage = "fire" => inst'[ev[e].cur.id].status \in {"completed", "expired"}
      <3> SUFFICES ASSUME ev[e].stage = "fire" PROVE inst'[ev[e].cur.id].status \in {"completed", "expired"}
        OBVIOUS
      <3>1. ev[e].cur.id \in Instances /\ Over(ev[e].cur.id)
        BY DEF PassInv, PassForm, PassRows, InPass, Snapshots
      <3> QED
        BY <3>1, FinishedStays DEF Over
    <2> QED
      BY <1>1, <1>2, <2>1 DEF PassInv
  <1>3. CASE ev'[e] = Idle
    <2>1. Idle.stage # "fire"
      BY DEF Idle
    <2> HIDE DEF Idle
    <2>2. PassForm(ev'[e])
      BY <1>3, IdleHolds
    <2> QED
      BY <1>1, <1>3, <2>1, <2>2, IdleHolds
  <1>4. CASE Observe(e) \/ Evaluate(e)
    <2>1. Follows(ev[e], ev'[e])
      BY <1>4, EvaluatorFollows
    <2>2. ev'[e].stage = "fire" => inst'[ev'[e].cur.id].status \in {"completed", "expired"}
      <3> SUFFICES ASSUME ev'[e].stage = "fire" PROVE inst'[ev'[e].cur.id].status \in {"completed", "expired"}
        OBVIOUS
      <3>1. /\ ev[e].stage \in {"load", "write"} /\ ev[e].op = "complete"
            /\ ev'[e].cur = ev[e].cur
        BY <2>1 DEF Follows
      <3>2. Load(e) \/ Write(e)
        BY <1>4, <3>1 DEF Observe, Evaluate, Find, PassOver, Satisfy, Fire,
           EndAdvance, Count, LookupRefire, LookupStart, Create, OutOfRows, Moves
      <3> QED
        BY <3>1, <3>2, CompleteIsOver
    <2> QED
      BY <1>1, <2>1, <2>2 DEF Follows
  <1>5. CASE UNCHANGED ev
    BY <1>2, <1>5
  <1>6. CASE Crash
    <2>1. ev'[e] = ev[e] \/ ev'[e] = Idle
      BY <1>6 DEF Crash, IInv, TypeOK
    <2> QED
      BY <1>2, <1>3, <2>1
  <1>7. ASSUME NEW f \in Evaluators, Observe(f) \/ Evaluate(f), f # e
        PROVE  ev'[e] = ev[e]
    BY <1>7, EvaluatorFollows
  <1> QED
    BY <1>2, <1>4, <1>5, <1>6, <1>7 DEF Next, Sweep, Tick, SweepSelect,
       SweepCommit, SweepFire, vars

LEMMA InitPassInv == Init => PassInv
  BY IdleHolds DEF Init, PassInv, PassRows, Idle, InPass, Holds

(* As evaluators let go of an instance that is over, none of them takes it *)
(* up again.                                                               *)
LEMMA NoNewHandlers ==
  ASSUME IInv, PassInv, [Next]_vars, NEW i \in Instances, Over(i)
  PROVE  /\ Handlers(i)' \subseteq Handlers(i)
         /\ \A e \in Evaluators : Fire(e) /\ ev[e].cur.id = i
              => e \in Handlers(i) /\ e \notin Handlers(i)'
  <1>1. ASSUME NEW e \in Evaluators, Holds(ev'[e], i)
        PROVE  Holds(ev[e], i)
    <2>1. CASE Observe(e) \/ Evaluate(e)
      <3>1. inst[i].status # "active"
        BY DEF Over
      <3> QED
        BY <1>1, <2>1, <3>1, EvaluatorFollows DEF Follows
    <2>2. CASE Crash
      <3>1. ev'[e] = ev[e] \/ ev'[e] = Idle
        BY <2>2 DEF Crash, IInv, TypeOK
      <3> QED
        BY <1>1, <3>1, IdleHolds
    <2>3. ASSUME NEW f \in Evaluators, Observe(f) \/ Evaluate(f), f # e
          PROVE  ev'[e] = ev[e]
      BY <2>3, EvaluatorFollows
    <2>4. CASE UNCHANGED ev
      BY <1>1, <2>4
    <2> QED
      BY <1>1, <2>1, <2>2, <2>3, <2>4 DEF Next, Sweep, Tick, SweepSelect,
         SweepCommit, SweepFire, vars
  <1>2. Handlers(i)' \subseteq Handlers(i)
    BY <1>1 DEF Handlers, Holds, InPass
  <1>3. ASSUME NEW e \in Evaluators, Fire(e), ev[e].cur.id = i
        PROVE  Holds(ev[e], i) /\ ~Holds(ev'[e], i)
    BY <1>3, FireFollows DEF PassInv
  <1> QED
    BY <1>2, <1>3 DEF Handlers, Holds, InPass

(* Only Fire runs an on_complete chain. *)
LEMMA CompletedBy ==
  ASSUME IInv, [Next]_vars
  PROVE  \/ UNCHANGED completed
         \/ \E e \in Evaluators :
              /\ Fire(e)
              /\ completed' = [completed EXCEPT ![ev[e].cur.id] = @ + 1]
  BY DEF Next, Sweep, Tick, Observe, Evaluate, Find, PassOver, Satisfy, Load,
     Write, Fire, EndAdvance, Count, LookupRefire, LookupStart, Create,
     OutOfRows, SweepSelect, SweepCommit, SweepFire, Crash, vars

(* Each completion takes the instance out of an evaluator's hands.         *)
LEMMA NextCompletionInv ==
  ASSUME IInv, PassInv, CompletionInv, [Next]_vars
  PROVE  CompletionInv'
  <1> SUFFICES ASSUME NEW i \in Instances
               PROVE  /\ completed'[i] > 0 => Over(i)'
                      /\ completed'[i] + Cardinality(Handlers(i)')
                           <= Cardinality(Evaluators)
    BY DEF CompletionInv, Handlers, Holds, InPass
  <1>1. IsFiniteSet(Evaluators) /\ Cardinality(Evaluators) \in Nat
    BY SequenceAssumption, FS_CardinalityType
  <1>2. /\ IsFiniteSet(Handlers(i)) /\ IsFiniteSet(Handlers(i)')
        /\ Cardinality(Handlers(i)) \in Nat /\ Cardinality(Handlers(i)') \in Nat
        /\ Cardinality(Handlers(i)) <= Cardinality(Evaluators)
        /\ Cardinality(Handlers(i)') <= Cardinality(Evaluators)
    <2>1. Handlers(i) \subseteq Evaluators /\ Handlers(i)' \subseteq Evaluators
      BY DEF Handlers
    <2> QED
      BY <1>1, <2>1, FS_Subset, FS_CardinalityType
  <1>3. completed \in [Instances -> Nat] /\ completed[i] \in Nat
    BY DEF IInv, TypeOK
  <1>4. /\ completed[i] > 0 => Over(i)
        /\ completed[i] + Cardinality(Handlers(i)) <= Cardinality(Evaluators)
    BY DEF CompletionInv
  <1>5. Over(i) => Over(i)'
    BY FinishedStays
  <1>6. CASE completed'[i] = completed[i]
    <2>1. CASE Over(i)
      <3>1. Cardinality(Handlers(i)') <= Cardinality(Handlers(i))
        BY <1>2, <2>1, NoNewHandlers, FS_Subset
      <3> QED
        BY <1>1, <1>2, <1>3, <1>4, <1>5, <1>6, <2>1, <3>1
    <2>2. CASE ~Over(i)
      BY <1>1, <1>2, <1>3, <1>4, <1>6, <2>2
    <2> QED
      BY <2>1, <2>2
  <1>7. ASSUME NEW e \in Evaluators, Fire(e), ev[e].cur.id = i,
               completed'[i] = completed[i] + 1
        PROVE  /\ completed'[i] > 0 => Over(i)'
               /\ completed'[i] + Cardinality(Handlers(i)')
                    <= Cardinality(Evaluators)
    <2>1. Over(i)
      BY <1>7 DEF PassInv, PassRows, Fire, Moves
    <2>2. /\ Handlers(i)' \subseteq Handlers(i) \ {e}
          /\ e \in Handlers(i)
      BY <1>7, <2>1, NoNewHandlers
    <2>3. /\ Cardinality(Handlers(i) \ {e}) = Cardinality(Handlers(i)) - 1
          /\ IsFiniteSet(Handlers(i) \ {e})
      BY <1>2, <2>2, FS_RemoveElement
    <2>4. Cardinality(Handlers(i)') <= Cardinality(Handlers(i)) - 1
      BY <2>2, <2>3, FS_Subset
    <2> QED
      BY <1>1, <1>2, <1>3, <1>4, <1>5, <1>7, <2>1, <2>4
  <1>8. CASE completed'[i] # completed[i]
    <2>1. PICK e \in Evaluators :
            Fire(e) /\ completed' = [completed EXCEPT ![ev[e].cur.id] = @ + 1]
      BY <1>8, CompletedBy
    <2>2. ev[e].cur.id = i /\ completed'[i] = completed[i] + 1
      BY <1>3, <1>8, <2>1
    <2> QED
      BY <1>7, <2>1, <2>2
  <1> QED
    BY <1>6, <1>8

LEMMA InitCompletionInv == Init => CompletionInv
  <1> SUFFICES ASSUME Init, NEW i \in Instances
               PROVE  /\ completed[i] > 0 => Over(i)
                      /\ completed[i] + Cardinality(Handlers(i))
                           <= Cardinality(Evaluators)
    BY DEF CompletionInv
  <1>1. completed[i] = 0 /\ Handlers(i) = {}
    BY IdleHolds DEF Init, Handlers
  <1>2. Cardinality({}) = 0 /\ Cardinality(Evaluators) \in Nat
    BY SequenceAssumption, FS_EmptySet, FS_CardinalityType
  <1> QED
    BY <1>1, <1>2

(* The sets that are counted are finite, before a step and after it.       *)
LEMMA Counted ==
  /\ IsFiniteSet(Active) /\ Cardinality(Active) \in Nat
  /\ IsFiniteSet(Slots) /\ Cardinality(Slots) \in Nat
  /\ IsFiniteSet(Active') /\ Cardinality(Active') \in Nat
  /\ IsFiniteSet(Slots') /\ Cardinality(Slots') \in Nat
  /\ Cardinality(Evaluators) \in Nat
  <1>0. 1 \in Int /\ MaxInstances \in Int /\ MaxActive \in Int
    BY SequenceAssumption
  <1>1. IsFiniteSet(Instances) /\ IsFiniteSet(1..MaxActive)
    BY <1>0, FS_Interval DEF Instances
  <1>2. IsFiniteSet(Active) /\ IsFiniteSet(Active')
    <2>1. Active \subseteq Instances /\ Active' \subseteq Instances
      BY DEF Active
    <2> QED
      BY <1>1, <2>1, FS_Subset
  <1>3. IsFiniteSet(Evaluators \X (1..MaxActive))
    BY <1>1, SequenceAssumption, FS_Product
  <1>4. /\ Slots \subseteq Evaluators \X (1..MaxActive)
        /\ Slots' \subseteq Evaluators \X (1..MaxActive)
    BY DEF Slots
  <1>5. IsFiniteSet(Slots) /\ IsFiniteSet(Slots')
    BY <1>3, <1>4, FS_Subset
  <1> QED
    BY <1>2, <1>5, SequenceAssumption, FS_CardinalityType

(* The numbers above n and up to m. *)
LEMMA IntervalSize ==
  ASSUME NEW n \in Nat, NEW m \in Nat, n < m
  PROVE  IsFiniteSet((n + 1)..m) /\ Cardinality((n + 1)..m) = m - n
  <1>1. n + 1 \in Int /\ m \in Int /\ ~(n + 1 > m)
    OBVIOUS
  <1>2. Cardinality((n + 1)..m) = m - (n + 1) + 1 /\ IsFiniteSet((n + 1)..m)
    BY <1>1, FS_Interval
  <1> QED
    BY <1>2

(* Counting anew gives an evaluator as many slots as the cap leaves.       *)
LEMMA CountSlots ==
  ASSUME IInv, PassInv, CapInv, NEW e \in Evaluators, Count(e), TypeOK'
  PROVE  CapInv'
  <1> DEFINE c == Cardinality(Active)
             mine == {e} \X ((c + 1)..MaxActive)
             others == (Evaluators \ {e}) \X (1..MaxActive)
             kept == {p \in Slots : p[1] # e}
  <1>1. /\ c \in Nat /\ Cardinality(Slots) \in Nat /\ IsFiniteSet(Slots)
        /\ IsFiniteSet(Slots') /\ Cardinality(Slots') \in Nat
        /\ Cardinality(Evaluators) \in Nat /\ MaxActive \in Nat
    BY Counted, SequenceAssumption DEF IInv
  <1>2. ev'[e].count = c /\ \A f \in Evaluators : f # e => ev'[f] = ev[f]
    BY DEF Count, IInv, TypeOK, Evaluations
  <1>3. Slots' \subseteq kept \cup mine
    <2> SUFFICES ASSUME NEW p \in Slots' PROVE p \in kept \cup mine
      OBVIOUS
    <2>1. /\ p \in Evaluators \X (1..MaxActive)
          /\ Starting(ev'[p[1]]) /\ ev'[p[1]].count < p[2]
      BY DEF Slots, Starting
    <2>2. CASE p[1] = e
      BY <1>1, <1>2, <2>1, <2>2
    <2>3. CASE p[1] # e
      BY <1>2, <2>1, <2>3 DEF Slots
    <2> QED
      BY <2>2, <2>3
  <1>4. /\ IsFiniteSet(kept) /\ Cardinality(kept) \in Nat
        /\ Cardinality(kept) <= Cardinality(Slots)
    BY <1>1, FS_Subset, FS_CardinalityType
  <1>5. Active' = Active
    BY DEF Count, Active
  <1>6. CASE c >= MaxActive
    <2>1. mine = {}
      BY <1>1, <1>6
    <2>2. Cardinality(Slots') <= Cardinality(kept)
      BY <1>3, <1>4, <2>1, FS_Subset
    <2> HIDE DEF kept
    <2>3. Cardinality(Active)' = c
      BY <1>5
    <2> QED
      BY <1>1, <1>4, <2>2, <2>3, Counted DEF CapInv
  <1>7. CASE c < MaxActive
    <2>1. IsFiniteSet(mine) /\ Cardinality(mine) = MaxActive - c
      <3>1. /\ IsFiniteSet((c + 1)..MaxActive)
            /\ Cardinality((c + 1)..MaxActive) = MaxActive - c
        <4> HIDE DEF c
        <4> QED
          BY <1>1, <1>7, IntervalSize
      <3>2. IsFiniteSet({e}) /\ Cardinality({e}) = 1
        BY FS_Singleton
      <3>3. /\ IsFiniteSet(mine)
            /\ Cardinality(mine) = Cardinality({e}) * Cardinality((c + 1)..MaxActive)
        BY <3>1, <3>2, FS_Product
      <3> HIDE DEF c, mine
      <3> QED
        BY <1>1, <3>1, <3>2, <3>3
    <2>2. /\ IsFiniteSet(others)
          /\ Cardinality(others) = (Cardinality(Evaluators) - 1) * MaxActive
      <3>1. IsFiniteSet(1..MaxActive) /\ Cardinality(1..MaxActive) = MaxActive
        <4>1. 0 < MaxActive
          BY SequenceAssumption
        <4>2. 0 + 1 = 1 /\ MaxActive - 0 = MaxActive
          BY <1>1
        <4> QED
          BY <1>1, <4>1, <4>2, IntervalSize
      <3>2. /\ IsFiniteSet(Evaluators \ {e})
            /\ Cardinality(Evaluators \ {e}) = Cardinality(Evaluators) - 1
        BY SequenceAssumption, FS_RemoveElement
      <3> QED
        BY <3>1, <3>2, FS_Product
    <2>3. kept \subseteq others
      BY DEF Slots
    <2>4. Cardinality(kept) <= Cardinality(others)
      BY <2>2, <2>3, FS_Subset
    <2>5. /\ IsFiniteSet(kept \cup mine)
          /\ Cardinality(kept \cup mine) <= Cardinality(kept) + Cardinality(mine)
      <3>1. kept \cap mine = {}
        OBVIOUS
      <3> HIDE DEF kept, mine
      <3>2. /\ IsFiniteSet(kept \cup mine)
            /\ Cardinality(kept \cup mine)
                 = Cardinality(kept) + Cardinality(mine) - Cardinality(kept \cap mine)
        BY <1>4, <2>1, FS_Union
      <3>3. Cardinality({}) = 0
        BY FS_EmptySet
      <3>4. Cardinality(kept \cap mine) = 0
        BY <3>1, <3>3
      <3> QED
        BY <3>2, <3>4, <1>4, <2>1, FS_CardinalityType
    <2>6. Cardinality(Slots') <= Cardinality(kept \cup mine)
      BY <1>3, <2>5, FS_Subset
    <2>7. \A n, m \in Nat : (n - 1) * m + m = n * m
      OBVIOUS
    <2>8. Cardinality(Active)' = c
      BY <1>5
    <2>9. Cardinality(kept \cup mine) \in Nat
      BY <2>5, FS_CardinalityType
    <2> HIDE DEF c, kept, mine, others
    <2>10. Cardinality(Slots)' <= (Cardinality(Evaluators) - 1) * MaxActive + (MaxActive - c)
      BY <1>1, <1>4, <2>1, <2>2, <2>4, <2>5, <2>6, <2>9
    <2>11. (Cardinality(Evaluators) - 1) * MaxActive + MaxActive
              = Cardinality(Evaluators) * MaxActive
      BY <1>1, <2>7
    <2>12. (Cardinality(Evaluators) - 1) * MaxActive \in Int
      BY <1>1
    <2> QED
      BY <1>1, <2>8, <2>10, <2>11, <2>12 DEF CapInv
  <1> QED
    BY <1>1, <1>6, <1>7

(* A start takes one free slot for the instance it makes active.           *)
LEMMA CreateSlots ==
  ASSUME IInv, PassInv, CapInv, NEW e \in Evaluators, Create(e), TypeOK'
  PROVE  CapInv'
  <1> DEFINE n == ev[e].count
             slot == <<e, n + 1>>
  <1>1. /\ n \in Nat /\ ev[e].stage = "create" /\ n < MaxActive
        /\ MaxActive \in Nat
    BY SequenceAssumption DEF Create, Moves, PassInv, PassForm, IInv, TypeOK,
       Evaluations
  <1>2. slot \in Slots
    BY <1>1 DEF Slots, Starting
  <1>3. Starting(ev'[e]) => ev'[e].count = n + 1
    BY CreateFollows DEF PassInv
  <1>4. \A f \in Evaluators : f # e => ev'[f] = ev[f]
    BY DEF Create, IInv, TypeOK
  <1>5. Slots' \subseteq Slots \ {slot}
    <2> SUFFICES ASSUME NEW p \in Slots' PROVE p \in Slots \ {slot}
      OBVIOUS
    <2>1. /\ p \in Evaluators \X (1..MaxActive)
          /\ Starting(ev'[p[1]]) /\ ev'[p[1]].count < p[2]
      BY DEF Slots, Starting
    <2>2. CASE p[1] = e
      <3>1. n + 1 < p[2]
        BY <1>3, <2>1, <2>2
      <3>2. Starting(ev[e])
        BY <1>1 DEF Starting
      <3>3. n < p[2]
        BY <1>1, <2>1, <3>1
      <3> QED
        BY <1>1, <2>1, <2>2, <3>1, <3>2, <3>3 DEF Slots
    <2>3. CASE p[1] # e
      BY <1>4, <2>1, <2>3 DEF Slots
    <2> QED
      BY <2>2, <2>3
  <1>6. PICK i \in Unused :
          inst' = [inst EXCEPT ![i] = [NoInstance EXCEPT !.status = "active",
                     !.key = ev[e].key, !.deadline = ev[e].now + Within]]
    BY DEF Create
  <1>7. Active' \subseteq Active \cup {i}
    BY <1>6 DEF Active, IInv, TypeOK
  <1>8. /\ IsFiniteSet(Active) /\ Cardinality(Active) \in Nat
        /\ IsFiniteSet(Slots) /\ Cardinality(Slots) \in Nat
        /\ Cardinality(Active)' \in Nat /\ Cardinality(Slots)' \in Nat
        /\ Cardinality(Evaluators) \in Nat
    BY Counted DEF IInv
  <1>9. /\ IsFiniteSet(Active \cup {i})
        /\ Cardinality(Active \cup {i}) <= Cardinality(Active) + 1
    <2>1. Cardinality(Active) \in Nat /\ IsFiniteSet(Active)
      BY <1>8
    <2>2. Cardinality(Active) <= Cardinality(Active) + 1
      BY <2>1
    <2>3. \/ Cardinality(Active \cup {i}) = Cardinality(Active)
          \/ Cardinality(Active \cup {i}) = Cardinality(Active) + 1
      BY <2>1, FS_AddElement
    <2>4. IsFiniteSet(Active \cup {i})
      BY <2>1, FS_AddElement
    <2>5. Cardinality(Active) + 1 <= Cardinality(Active) + 1
      BY <2>1
    <2> QED
      BY <2>2, <2>3, <2>4, <2>5
  <1>10. Cardinality(Active') <= Cardinality(Active) + 1
    <2>1. /\ Cardinality(Active') <= Cardinality(Active \cup {i})
          /\ Cardinality(Active \cup {i}) \in Nat
      BY <1>7, <1>9, FS_Subset, FS_CardinalityType
    <2> QED
      BY <1>8, <1>9, <2>1
  <1>11. Cardinality(Slots') <= Cardinality(Slots) - 1
    <2> HIDE DEF slot
    <2>1. /\ IsFiniteSet(Slots \ {slot})
          /\ Cardinality(Slots \ {slot}) = Cardinality(Slots) - 1
      BY <1>2, <1>8, FS_RemoveElement
    <2> QED
      BY <1>5, <2>1, FS_Subset
  <1>12. Cardinality(Evaluators) * MaxActive \in Int
    BY <1>1, <1>8
  <1> QED
    BY <1>8, <1>10, <1>11, <1>12 DEF CapInv

(* Other steps make nothing active and free no slot.                       *)
LEMMA OtherSlots ==
  ASSUME IInv, PassInv, CapInv, [Next]_vars, TypeOK',
         \A e \in Evaluators : ~Create(e) /\ ~Count(e)
  PROVE  CapInv'
  <1>1. Active' \subseteq Active
    BY CreatedStays DEF Active
  <1>2. ASSUME NEW e \in Evaluators, Starting(ev'[e])
        PROVE  Starting(ev[e]) /\ ev[e].count <= ev'[e].count
    <2>0. ev[e].count \in Nat
      BY DEF IInv, TypeOK, Evaluations
    <2>1. CASE Observe(e) \/ Evaluate(e)
      <3>1. Follows(ev[e], ev'[e])
        BY <2>1, EvaluatorFollows
      <3>2. ev[e].stage = "count" => Count(e)
        BY <2>1 DEF Observe, Evaluate, Find, PassOver, Satisfy, Load, Write,
           Fire, EndAdvance, LookupRefire, LookupStart, Create, OutOfRows, Moves
      <3> QED
        BY <1>2, <3>1, <3>2 DEF Follows
    <2>2. CASE Crash
      <3>1. ev'[e] = ev[e] \/ ev'[e] = Idle
        BY <2>2 DEF Crash, IInv, TypeOK
      <3>2. ev'[e] # Idle
        BY <1>2, IdleHolds
      <3> QED
        BY <1>2, <2>0, <3>1, <3>2
    <2>3. ASSUME NEW f \in Evaluators, Observe(f) \/ Evaluate(f), f # e
          PROVE  ev'[e] = ev[e]
      BY <2>3, EvaluatorFollows
    <2>4. CASE ev'[e] = ev[e]
      BY <1>2, <2>0, <2>4
    <2> QED
      BY <2>1, <2>2, <2>3, <2>4 DEF Next, Sweep, Tick, SweepSelect,
         SweepCommit, SweepFire, vars
  <1>3. Slots' \subseteq Slots
    <2> SUFFICES ASSUME NEW p \in Slots' PROVE p \in Slots
      OBVIOUS
    <2>1. /\ p \in Evaluators \X (1..MaxActive)
          /\ Starting(ev'[p[1]]) /\ ev'[p[1]].count < p[2]
      BY DEF Slots, Starting
    <2>2. Starting(ev[p[1]]) /\ ev[p[1]].count <= ev'[p[1]].count
      BY <1>2, <2>1
    <2>3. ev[p[1]].count \in Nat /\ ev'[p[1]].count \in Nat
      BY <2>1 DEF IInv, TypeOK, Evaluations
    <2> QED
      BY <2>1, <2>2, <2>3 DEF Slots
  <1>4. /\ IsFiniteSet(Active) /\ Cardinality(Active) \in Nat
        /\ IsFiniteSet(Slots) /\ Cardinality(Slots) \in Nat
        /\ Cardinality(Active)' \in Nat /\ Cardinality(Slots)' \in Nat
        /\ Cardinality(Evaluators) * MaxActive \in Int
    BY Counted, SequenceAssumption DEF IInv
  <1>5. /\ Cardinality(Active') <= Cardinality(Active)
        /\ Cardinality(Slots') <= Cardinality(Slots)
    BY <1>1, <1>3, <1>4, FS_Subset
  <1> QED
    BY <1>4, <1>5 DEF CapInv

LEMMA InitCapInv == Init => CapInv
  <1> SUFFICES ASSUME Init PROVE CapInv
    OBVIOUS
  <1>1. Active = {} /\ Slots = {}
    BY IdleHolds DEF Init, Active, Slots, NoInstance
  <1>2. Cardinality({}) = 0
    BY FS_EmptySet
  <1>3. Cardinality(Evaluators) \in Nat /\ MaxActive \in Nat
    BY SequenceAssumption, FS_CardinalityType
  <1>4. Cardinality(Evaluators) * MaxActive >= 0
    BY <1>3
  <1> QED
    BY <1>1, <1>2, <1>4 DEF CapInv

(* The invariants of the evaluators together are inductive.                *)
EvInv == IInv /\ PassInv /\ CompletionInv /\ CapInv

LEMMA NextEvInv == EvInv /\ [Next]_vars => EvInv'
  <1> SUFFICES ASSUME EvInv, [Next]_vars PROVE EvInv'
    OBVIOUS
  <1>1. IInv' /\ TypeOK'
    BY NextIInv DEF EvInv, IInv
  <1>2. CapInv'
    BY <1>1, CountSlots, CreateSlots, OtherSlots DEF EvInv
  <1> QED
    BY <1>1, <1>2, NextPassInv, NextCompletionInv DEF EvInv

LEMMA EvInvHolds == Spec => []EvInv
  <1>1. Init => EvInv
    BY InitIInv, InitPassInv, InitCompletionInv, InitCapInv DEF EvInv
  <1> QED
    BY <1>1, NextEvInv, PTL DEF Spec

(* However many evaluators share the rule, each completes an instance once *)
(* at most: it holds one snapshot of it per pass, and of one that is over  *)
(* it takes no other (_find_active_for_key).                               *)
CompletesPerEvaluator ==
  \A i \in Instances : completed[i] <= Cardinality(Evaluators)

THEOREM OnceByEach == Spec => []CompletesPerEvaluator
  <1>1. EvInv => CompletesPerEvaluator
    <2> SUFFICES ASSUME EvInv, NEW i \in Instances
                 PROVE  completed[i] <= Cardinality(Evaluators)
      BY DEF CompletesPerEvaluator
    <2>1. IsFiniteSet(Handlers(i))
      BY SequenceAssumption, FS_Subset DEF Handlers
    <2>2. /\ Cardinality(Handlers(i)) \in Nat /\ Cardinality(Evaluators) \in Nat
          /\ completed[i] \in Nat
      BY <2>1, SequenceAssumption, FS_CardinalityType DEF EvInv, IInv, TypeOK
    <2> QED
      BY <2>2 DEF EvInv, CompletionInv
  <1> QED
    BY <1>1, EvInvHolds, PTL

(* One evaluator alone never runs the on_complete chain of an instance     *)
(* twice, CompletesOnce, whatever the sweeper does to the rows between its *)
(* read and its commit.  Two evaluators may each run it once.              *)
THEOREM OnceByOne == (\E one : Evaluators = {one}) => (Spec => []CompletesOnce)
  <1> SUFFICES ASSUME \E one : Evaluators = {one}
               PROVE  Spec => []CompletesOnce
    OBVIOUS
  <1>1. Cardinality(Evaluators) = 1
    BY FS_Singleton
  <1>2. CompletesPerEvaluator => CompletesOnce
    BY <1>1 DEF CompletesPerEvaluator, CompletesOnce
  <1> QED
    BY <1>2, OnceByEach, PTL

(* Each evaluator counts before it starts, so together they fill the cap   *)
(* once each: no more than max_active instances per evaluator are active.  *)
CapPerEvaluator == Cardinality(Active) <= Cardinality(Evaluators) * MaxActive

THEOREM CapByEach == Spec => []CapPerEvaluator
  <1>1. EvInv => CapPerEvaluator
    <2> SUFFICES ASSUME EvInv PROVE CapPerEvaluator
      OBVIOUS
    <2>1. /\ Cardinality(Active) \in Nat /\ Cardinality(Slots) \in Nat
          /\ Cardinality(Evaluators) * MaxActive \in Int
      BY Counted, SequenceAssumption DEF EvInv, IInv
    <2> QED
      BY <2>1 DEF EvInv, CapInv, CapPerEvaluator
  <1> QED
    BY <1>1, EvInvHolds, PTL

(* One evaluator alone keeps within max_active, whatever the sweeper and   *)
(* the crashes do between its count and its inserts: CapHolds.             *)
THEOREM CapByOne == (\E one : Evaluators = {one}) => (Spec => []CapHolds)
  <1> SUFFICES ASSUME \E one : Evaluators = {one}
               PROVE  Spec => []CapHolds
    OBVIOUS
  <1>1. Cardinality(Evaluators) = 1 /\ MaxActive \in Nat
    BY FS_Singleton, SequenceAssumption
  <1>2. CapPerEvaluator => CapHolds
    BY <1>1 DEF CapPerEvaluator, CapHolds
  <1> QED
    BY <1>2, CapByEach, PTL

-----------------------------------------------------------------------------
(* The sweeper's announcements                                             *)

(* An idle sweeper has nothing left to announce. *)
AnnounceInv == ExpiryIsAnnounced /\ (sweep.stage = "idle" => sweep.todo = {})

(* Only the sweeper's commit makes an instance expire. *)
LEMMA ExpiredBySweep ==
  ASSUME IInv, [Next]_vars, ~SweepCommit, NEW i \in Instances,
         inst'[i].status = "expired"
  PROVE  inst[i].status = "expired"
  <1>1. ASSUME NEW e \in Evaluators, Create(e)
        PROVE  inst[i].status = "expired"
    <2>1. PICK j \in Unused :
            inst' = [inst EXCEPT ![j] = [NoInstance EXCEPT !.status = "active",
                       !.key = ev[e].key, !.deadline = ev[e].now + Within]]
      BY <1>1 DEF Create
    <2> QED
      BY <2>1 DEF IInv, TypeOK, NoInstance
  <1>2. ASSUME NEW e \in Evaluators, Write(e)
        PROVE  inst[i].status = "expired"
    BY <1>2, WriteEffect DEF IInv
  <1>3. CASE UNCHANGED inst
    BY <1>3
  <1> QED
    BY <1>1, <1>2, <1>3 DEF Next, Sweep, Tick, Observe, Evaluate, Find,
       PassOver, Satisfy, Load, Fire, EndAdvance, Count, LookupRefire,
       LookupStart, OutOfRows, SweepSelect, SweepFire, Crash, vars

LEMMA NextAnnounceInv ==
  ASSUME IInv, AnnounceInv, [Next]_vars
  PROVE  AnnounceInv'
  <1> SUFFICES /\ \A i \in Instances :
                    inst'[i].status = "expired" /\ i \notin sweep'.todo
                      /\ crashes' = 0 => timedOut'[i] > 0
               /\ sweep'.stage = "idle" => sweep'.todo = {}
    BY DEF AnnounceInv, ExpiryIsAnnounced
  <1>0. /\ inst \in [Instances -> InstanceRows]
        /\ timedOut \in [Instances -> Nat]
    BY DEF IInv, TypeOK
  <1>1. CASE SweepSelect
    <2>1. /\ sweep.todo = {} /\ sweep'.stage = "commit"
          /\ UNCHANGED <<inst, timedOut, crashes>>
      BY <1>1 DEF SweepSelect, AnnounceInv
    <2> QED
      BY <2>1 DEF AnnounceInv, ExpiryIsAnnounced
  <1>2. CASE SweepCommit
    <2>1. /\ sweep'.stage = "fire" /\ sweep'.todo = sweep.todo
          /\ UNCHANGED <<timedOut, crashes>>
          /\ \A i \in Instances : i \notin sweep.todo => inst'[i] = inst[i]
      BY <1>2 DEF SweepCommit, IInv, TypeOK
    <2> QED
      BY <2>1 DEF AnnounceInv, ExpiryIsAnnounced
  <1>3. CASE SweepFire
    <2>1. PICK i \in sweep.todo :
            /\ timedOut' = [timedOut EXCEPT ![i] = @ + 1]
            /\ sweep' = [stage |-> IF sweep.todo = {i} THEN "idle" ELSE "fire",
                         todo  |-> sweep.todo \ {i}]
            /\ UNCHANGED <<inst, crashes>>
      BY <1>3 DEF SweepFire
    <2>2. i \in Instances
      BY DEF IInv, TypeOK
    <2>3. \A j \in Instances :
            timedOut'[j] = IF j = i THEN timedOut[j] + 1 ELSE timedOut[j]
      BY <1>0, <2>1, <2>2
    <2>4. sweep'.todo = sweep.todo \ {i}
      BY <2>1
    <2>5. timedOut'[i] > 0
      BY <1>0, <2>2, <2>3
    <2>6. sweep'.stage = "idle" => sweep'.todo = {}
      BY <2>1
    <2> QED
      BY <2>1, <2>3, <2>4, <2>5, <2>6 DEF AnnounceInv, ExpiryIsAnnounced
  <1>4. CASE Crash
    <2>1. crashes' # 0
      BY <1>4 DEF Crash, IInv, TypeOK
    <2>2. sweep'.stage = "idle" => sweep'.todo = {}
      BY <1>4 DEF Crash, AnnounceInv
    <2> QED
      BY <2>1, <2>2
  <1>5. CASE UNCHANGED <<sweep, timedOut, crashes>>
    <2>1. ~SweepCommit
      BY <1>5 DEF SweepCommit, IInv, TypeOK
    <2> QED
      BY <1>5, <2>1, ExpiredBySweep DEF AnnounceInv, ExpiryIsAnnounced
  <1> QED
    BY <1>1, <1>2, <1>3, <1>4, <1>5 DEF Next, Sweep, Tick, Observe, Evaluate,
       Find, PassOver, Satisfy, Load, Write, Fire, EndAdvance, Count,
       LookupRefire, LookupStart, Create, OutOfRows, Moves, vars

(* An absence is announced: unless a process dies between the commit of    *)
(* the expiry and the loop over the rows it returned (expire_due), every   *)
(* expired instance the sweeper is done with has run on_timeout,           *)
(* ExpiryIsAnnounced, however many evaluators write to the rows meanwhile. *)
THEOREM ExpiryAnnounced == Spec => []ExpiryIsAnnounced
  <1>1. Init => AnnounceInv
    BY DEF Init, AnnounceInv, ExpiryIsAnnounced, NoInstance
  <1>2. IInv /\ AnnounceInv /\ [Next]_vars => AnnounceInv'
    BY NextAnnounceInv
  <1>3. AnnounceInv => ExpiryIsAnnounced
    BY DEF AnnounceInv
  <1> QED
    BY <1>1, <1>2, <1>3, IInvHolds, PTL DEF Spec

-----------------------------------------------------------------------------
(* Steps in time, with one evaluator                                       *)

(* The deadlines in a lone evaluator's snapshots are the committed ones,   *)
(* and what it counts was observed within them.                            *)
InTime(x) ==
  /\ \A s \in x.todo : s.row.deadline = inst[s.id].deadline
  /\ x.stage \in {"load", "write"} /\ x.op # "restart"
       => /\ x.cur.row.deadline = inst[x.cur.id].deadline
          /\ x.now <= x.cur.row.deadline

TimeInv == \A e \in Evaluators : InTime(ev[e])

(* The sweeper does not move a deadline. *)
LEMMA SweepKeepsDeadlines ==
  ASSUME TypeOK, SweepCommit, NEW i \in Instances
  PROVE  inst'[i].deadline = inst[i].deadline /\ inst'[i].step = inst[i].step
  BY DEF TypeOK, SweepCommit, InstanceRows

(* Only the instance at hand gets a new deadline or step. *)
LEMMA WriteKeepsOthers ==
  ASSUME TypeOK, NEW e \in Evaluators, Write(e), NEW i \in Instances,
         i # ev[e].cur.id
  PROVE  inst'[i] = inst[i]
  BY DEF TypeOK, Write

(* Where the returning evaluator goes, it has no row at hand to change. *)
LEMMA ReturnedInTime ==
  ASSUME TypeOK, NEW e \in Evaluators
  PROVE  /\ Returned(e).todo \subseteq ev[e].todo
         /\ Returned(e).stage \notin {"load", "write"}
  <1> DEFINE done == [ev[e] EXCEPT !.op = "none", !.read = NoInstance,
                                   !.cur = NoSnapshot]
  <1>1. ev[e] \in Evaluations /\ done \in Evaluations /\ done.todo = ev[e].todo
    BY Constants DEF TypeOK, Evaluations, Ops
  <1>2. NextStart(done).todo \subseteq done.todo
    <2> HIDE DEF done
    <2> QED
      BY <1>1 DEF NextStart, Idle, Evaluations
  <1>3. /\ [done EXCEPT !.stage = "fire", !.cur = ev[e].cur].todo = done.todo
        /\ [done EXCEPT !.stage = "check"].todo = done.todo
    <2> HIDE DEF done
    <2> QED
      BY <1>1 DEF Evaluations
  <1>4. Returned(e).todo \subseteq ev[e].todo
    <2>1. \/ Returned(e) = NextStart(done)
          \/ Returned(e) = [done EXCEPT !.stage = "fire", !.cur = ev[e].cur]
          \/ Returned(e) = [done EXCEPT !.stage = "check"]
      BY DEF Returned
    <2> HIDE DEF done
    <2> QED
      BY <1>1, <1>2, <1>3, <2>1
  <1> QED
    BY <1>4, ReturnedType

(* Only reading the table, satisfying a step and getting its row give an   *)
(* evaluator something to change; other steps drop snapshots.              *)
LEMMA EvaluatorInTime ==
  ASSUME IInv, PassInv, TimeInv, NEW e \in Evaluators, Observe(e) \/ Evaluate(e)
  PROVE  InTime(ev[e])'
  <1> DEFINE x == ev[e]
             y == ev'[e]
  <1>0. /\ x \in Evaluations /\ InTime(x) /\ PassForm(x)
        /\ inst \in [Instances -> InstanceRows]
    BY DEF IInv, TypeOK, TimeInv, PassInv
  <1> SUFFICES /\ \A s \in y.todo : s.row.deadline = inst'[s.id].deadline
               /\ y.stage \in {"load", "write"} /\ y.op # "restart"
                    => /\ y.cur.row.deadline = inst'[y.cur.id].deadline
                       /\ y.now <= y.cur.row.deadline
    BY DEF InTime
  <1>1. CASE Find(e)
    <2>1. PICK k \in x.left :
            ev' = [ev EXCEPT ![e].stage = "check", ![e].key = k,
                     ![e].left = @ \ {k},
                     ![e].todo = {[id |-> i, row |-> inst[i]] : i \in ActiveOf(k)}]
      BY <1>1 DEF Find
    <2>2. /\ y.stage = "check" /\ UNCHANGED inst
          /\ y.todo = {[id |-> i, row |-> inst[i]] : i \in ActiveOf(k)}
      BY <1>0, <1>1, <2>1 DEF Find, IInv, TypeOK, Evaluations
    <2> HIDE DEF y
    <2> QED
      BY <2>2
  <1>2. CASE Satisfy(e)
    <2>1. PICK s \in x.todo :
            /\ Counts(e, s)
            /\ ev' = [ev EXCEPT ![e].stage = "load", ![e].cur = s,
                                ![e].op = Verdict(s), ![e].todo = @ \ {s}]
      BY <1>2 DEF Satisfy
    <2>2. /\ y.cur = s /\ y.todo = x.todo \ {s} /\ y.now = x.now
          /\ UNCHANGED inst
      BY <1>0, <1>2, <2>1 DEF Satisfy, IInv, TypeOK, Evaluations
    <2>3. s \in Snapshots /\ x.now \in Nat
      BY <1>0 DEF Evaluations
    <2>4. x.now <= s.row.deadline
      BY <2>1, <2>3 DEF Counts, Snapshots, InstanceRows
    <2> HIDE DEF x, y
    <2> QED
      BY <1>0, <2>2, <2>4 DEF InTime
  <1>3. CASE Load(e)
    <2>1. CASE inst[x.cur.id].status = "active"
      <3>1. ev' = [ev EXCEPT ![e] = [ev[e] EXCEPT !.stage = "write",
                                                  !.read = inst[x.cur.id]]]
        BY <1>3, <2>1 DEF Load
      <3>2. y = [x EXCEPT !.stage = "write", !.read = inst[x.cur.id]]
        BY <3>1 DEF IInv, TypeOK
      <3>3. x.stage = "load" /\ UNCHANGED inst
        BY <1>3 DEF Load, Moves
      <3> HIDE DEF x, y
      <3>4. /\ y.todo = x.todo /\ y.cur = x.cur /\ y.now = x.now /\ y.op = x.op
        BY <1>0, <3>2 DEF Evaluations
      <3> QED
        BY <1>0, <3>3, <3>4 DEF InTime
    <2>2. CASE inst[x.cur.id].status # "active"
      <3>1. y = Returned(e) /\ UNCHANGED inst
        BY <1>3, <2>2 DEF Load, IInv, TypeOK
      <3>2. y.todo \subseteq x.todo /\ y.stage \notin {"load", "write"}
        BY <3>1, ReturnedInTime DEF IInv
      <3> HIDE DEF x, y
      <3> QED
        BY <1>0, <3>1, <3>2 DEF InTime
    <2> QED
      BY <2>1, <2>2
  <1>4. CASE Write(e)
    <2>1. y = Returned(e) /\ x.stage = "write"
      BY <1>4 DEF Write, Moves, IInv, TypeOK
    <2>2. y.todo \subseteq x.todo /\ y.stage \notin {"load", "write"}
      BY <2>1, ReturnedInTime DEF IInv
    <2>3. ASSUME NEW s \in x.todo PROVE s.id \in Instances /\ s.id # x.cur.id
      BY <1>0, <2>1, <2>3 DEF PassForm, InPass, Evaluations, Snapshots
    <2>4. \A s \in x.todo : inst'[s.id] = inst[s.id]
      BY <1>4, <2>3, WriteKeepsOthers DEF IInv
    <2> HIDE DEF x, y
    <2> QED
      BY <1>0, <2>2, <2>4 DEF InTime
  <1>5. CASE PassOver(e) \/ Fire(e)
    <2>1. /\ y.todo \subseteq x.todo /\ y.stage = "check" /\ UNCHANGED inst
      BY <1>0, <1>5 DEF PassOver, Fire, Moves, IInv, TypeOK, Evaluations
    <2> HIDE DEF x, y
    <2> QED
      BY <1>0, <2>1 DEF InTime
  <1>6. CASE Observe(e)
    <2>1. y.todo = {} /\ y.stage = "find"
      <3>1. PICK keys \in SUBSET Keys \ {{}}, seen \in SUBSET (0..(NumSteps - 1)),
                start \in BOOLEAN :
              y = [Idle EXCEPT !.stage = "find", !.now = now, !.keys = keys,
                               !.left = keys, !.seen = seen, !.start = start]
        BY <1>6 DEF Observe, IInv, TypeOK
      <3> HIDE DEF y
      <3> QED
        BY <3>1 DEF Idle
    <2> HIDE DEF y
    <2> QED
      BY <2>1
  <1>7. CASE EndAdvance(e) \/ Count(e) \/ LookupRefire(e) \/ LookupStart(e)
             \/ Create(e) \/ OutOfRows(e)
    <2>1. Follows(x, y)
      BY <1>7, EvaluatorFollows DEF Evaluate
    <2>2. \/ y.stage \in {"idle", "find", "count", "lookup", "create"}
          \/ y.stage = "load" /\ y.op = "restart"
      <3>1. CASE EndAdvance(e)
        <4>1. y \in {[x EXCEPT !.stage = "find"], [x EXCEPT !.stage = "count"], Idle}
          BY <3>1 DEF EndAdvance, IInv, TypeOK
        <4> HIDE DEF x, y
        <4> QED
          BY <1>0, <4>1 DEF Idle, Evaluations
      <3>2. CASE Count(e)
        BY <3>2 DEF Count, IInv, TypeOK, Evaluations
      <3>3. CASE LookupRefire(e) \/ LookupStart(e)
        <4>1. PICK k \in x.left :
                \/ \E i \in Instances :
                     y = [AtKey(e, k) EXCEPT !.stage = "load", !.op = "restart",
                                             !.cur = [id |-> i, row |-> inst[i]]]
                \/ y = [AtKey(e, k) EXCEPT !.stage = "create"]
                \/ y = NextStart(AtKey(e, k))
          BY <3>3 DEF LookupRefire, LookupStart, IInv, TypeOK, ActiveOf, Active
        <4>2. AtKey(e, k) \in Evaluations
          BY AtKeyType DEF IInv
        <4> HIDE DEF y
        <4> QED
          BY <4>1, <4>2, NextStartType DEF Evaluations
      <3>4. CASE Create(e) \/ OutOfRows(e)
        <4>1. PICK z \in Evaluations : y = NextStart(z)
          BY <1>0, <3>4 DEF Create, OutOfRows, IInv, TypeOK, Evaluations
        <4> HIDE DEF y
        <4> QED
          BY <4>1, NextStartType
      <3> QED
        BY <1>7, <3>1, <3>2, <3>3, <3>4
    <2> HIDE DEF y
    <2> QED
      BY <2>1, <2>2 DEF Follows, PassForm, InPass
  <1> QED
    BY <1>1, <1>2, <1>3, <1>4, <1>5, <1>6, <1>7 DEF Evaluate

(* With one evaluator the snapshots stay true to the deadlines. *)
LEMMA NextTimeInv ==
  ASSUME IInv, PassInv, TimeInv, [Next]_vars, \E one : Evaluators = {one}
  PROVE  TimeInv'
  <1> SUFFICES ASSUME NEW e \in Evaluators PROVE InTime(ev[e])'
    BY DEF TimeInv
  <1>0. /\ InTime(ev[e]) /\ PassForm(ev[e]) /\ HasOp /\ TypeOK
        /\ ev[e] \in Evaluations
        /\ \A f \in Evaluators : f = e
    BY DEF TimeInv, PassInv, IInv, TypeOK
  <1>1. ASSUME NEW f \in Evaluators, Observe(f) \/ Evaluate(f)
        PROVE  InTime(ev[e])'
    BY <1>0, <1>1, EvaluatorInTime
  <1>2. CASE ev'[e] = Idle
    BY <1>2 DEF InTime, Idle
  <1>3. CASE ev'[e] = ev[e] /\ (\A i \in Instances : inst'[i].deadline = inst[i].deadline)
    <2>1. \A s \in ev[e].todo : s.id \in Instances
      BY <1>0 DEF Evaluations, Snapshots
    <2>2. ev[e].stage \in {"load", "write"} => ev[e].cur.id \in Instances
      BY <1>0 DEF HasOp, Snapshots
    <2> QED
      BY <1>0, <1>3, <2>1, <2>2 DEF InTime
  <1>4. CASE SweepCommit
    <2>1. UNCHANGED ev
      BY <1>4 DEF SweepCommit
    <2> QED
      BY <1>0, <1>3, <1>4, <2>1, SweepKeepsDeadlines
  <1>5. CASE Crash
    <2>1. (ev'[e] = ev[e] \/ ev'[e] = Idle) /\ UNCHANGED inst
      BY <1>5 DEF Crash, IInv, TypeOK
    <2> QED
      BY <1>2, <1>3, <2>1
  <1>6. CASE UNCHANGED <<inst, ev>>
    BY <1>3, <1>6
  <1> QED
    BY <1>1, <1>4, <1>5, <1>6 DEF Next, Sweep, Tick, SweepSelect, SweepFire, vars

(* A step of an instance only goes up by the evaluator that has it at hand *)
(* and found it satisfied.                                                 *)
LEMMA AdvancedBy ==
  ASSUME IInv, PassInv, [Next]_vars, NEW i \in Instances,
         inst'[i].step > inst[i].step
  PROVE  \E e \in Evaluators : /\ ev[e].cur.id = i /\ ev[e].stage = "write"
                               /\ ev[e].op # "restart"
  <1>0. inst \in [Instances -> InstanceRows] /\ inst[i].step \in Nat
    BY DEF IInv, TypeOK, InstanceRows
  <1>1. ASSUME NEW e \in Evaluators, Create(e) PROVE FALSE
    <2>1. PICK j \in Unused :
            inst' = [inst EXCEPT ![j] = [NoInstance EXCEPT !.status = "active",
                       !.key = ev[e].key, !.deadline = ev[e].now + Within]]
      BY <1>1 DEF Create
    <2>2. inst'[i] = inst[i] \/ inst'[i].step = 0
      BY <1>0, <2>1 DEF NoInstance
    <2> QED
      BY <1>0, <2>2
  <1>2. ASSUME NEW e \in Evaluators, Write(e)
        PROVE  ev[e].cur.id = i /\ ev[e].stage = "write" /\ ev[e].op # "restart"
    <2>1. ev[e].cur.id = i
      BY <1>0, <1>2, WriteKeepsOthers DEF IInv
    <2>2. ASSUME ev[e].op = "restart" PROVE FALSE
      <3>1. inst' = [inst EXCEPT ![i] = Merge(inst[i], ev[e].read, Changed(e), TRUE)]
        BY <1>2, <2>1, <2>2 DEF Write
      <3>2. ev[e].read \in InstanceRows /\ Changed(e).step = 0
        BY <2>2 DEF Changed, IInv, TypeOK, Evaluations, InstanceRows
      <3>3. inst'[i].step = inst[i].step \/ inst'[i].step = 0
        BY <1>0, <3>1, <3>2 DEF Merge, InstanceRows
      <3> QED
        BY <1>0, <3>3
    <2> QED
      BY <1>2, <2>1, <2>2 DEF Write, Moves
  <1>3. CASE SweepCommit
    BY <1>0, <1>3, SweepKeepsDeadlines DEF IInv
  <1>4. CASE UNCHANGED inst
    BY <1>0, <1>4
  <1> QED
    BY <1>1, <1>2, <1>3, <1>4 DEF Next, Sweep, Tick, Observe, Evaluate, Find,
       PassOver, Satisfy, Load, Fire, EndAdvance, Count, LookupRefire,
       LookupStart, OutOfRows, SweepSelect, SweepFire, Crash, vars

(* With one evaluator a step counts only when it was observed within the   *)
(* deadline the instance has at the moment it moves on, StepsInTime:       *)
(* nothing moves the deadline between the check of the snapshot and the    *)
(* commit of _advance.                                                     *)
THEOREM InTimeByOne == (\E one : Evaluators = {one}) => (Spec => StepsInTime)
  <1> SUFFICES ASSUME \E one : Evaluators = {one} PROVE Spec => StepsInTime
    OBVIOUS
  <1>1. Init => TimeInv
    BY DEF Init, TimeInv, InTime, Idle
  <1>2. EvInv /\ TimeInv /\ [Next]_vars => TimeInv'
    BY NextTimeInv DEF EvInv
  <1>3. EvInv /\ TimeInv /\ [Next]_vars =>
          [\A i \in Instances :
             inst'[i].step > inst[i].step
               => \E e \in Evaluators : /\ ev[e].cur.id = i
                                        /\ ev[e].now <= inst[i].deadline]_vars
    <2> SUFFICES ASSUME EvInv, TimeInv, [Next]_vars, NEW i \in Instances,
                        inst'[i].step > inst[i].step
                 PROVE  \E e \in Evaluators : /\ ev[e].cur.id = i
                                              /\ ev[e].now <= inst[i].deadline
      OBVIOUS
    <2>1. PICK e \in Evaluators : /\ ev[e].cur.id = i /\ ev[e].stage = "write"
                                  /\ ev[e].op # "restart"
      BY AdvancedBy DEF EvInv
    <2> QED
      BY <2>1 DEF TimeInv, InTime
  <1> QED
    BY <1>1, <1>2, <1>3, EvInvHolds, PTL DEF Spec, StepsInTime
=============================================================================

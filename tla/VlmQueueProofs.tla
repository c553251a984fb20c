--------------------------- MODULE VlmQueueProofs ---------------------------
(***************************************************************************)
(* Theorems about VlmQueue for any number of jobs, capacities, failures    *)
(* and restarts: the lanes stay within their capacity, every skipped or    *)
(* knowingly evicted job is counted, and the tile is not idle while jobs   *)
(* wait without a worker.                                                  *)
(***************************************************************************)
EXTENDS VlmQueue, FiniteSetTheorems, WellFoundedInduction, TLAPS

(* What enqueue read before its push is no less than what is there now:    *)
(* only the worker has touched the lanes since.                            *)
SizeInv == pipe.at = "push" => Cardinality(Laned) <= pipe.size

(* What the tile says of waiting jobs; a look at the statistics may make   *)
(* "slow" or "stalled" of "queued", and nothing of "idle".                 *)
Waiting == {"queued", "slow", "stalled"}

(* A worker that is gone or about to go leaves the tile idle or waiting,   *)
(* and waiting when there is something in a lane, but for the moment       *)
(* between a push and the count that follows it.                           *)
TileInv ==
  (worker.at \in {"none", "closing"} /\ spent.crashes = 0) =>
    /\ stats.status \in Waiting \union {"idle"}
    /\ (Laned /= {} /\ pipe.at /= "count") => stats.status \in Waiting

(* The pipeline on its way through enqueue holds a job.                    *)
JobInv == pipe.at /= "idle" => pipe.job \in Jobs

(* The inductive invariant.  DropsCounted needs SizeInv: the eviction is   *)
(* judged by a size that was read before the push.                         *)
QueueInv == QueueTypeOK /\ JobInv /\ SizeInv /\ DropsCounted /\ TileInv

(***************************************************************************)
(* Sets of jobs.                                                           *)
(***************************************************************************)
(* A nonempty set of numbers has a least one.                              *)
LEMMA MinElement ==
  ASSUME NEW S \in SUBSET Nat, S /= {}
  PROVE  Min(S) \in S
  <1> DEFINE R == OpToRel(<, Nat)
  <1>1. R = {ss \in Nat \X Nat : ss[1] < ss[2]}
    BY Zenon DEF OpToRel
  <1>2. PICK x \in S : \A y \in S : ~ (<<y, x>> \in R)
    BY NatLessThanWellFounded, WFMin, Zenon
  <1>3. \A a, b \in Nat : a < b => <<a, b>> \in R
    BY <1>1
  <1> HIDE DEF R
  <1>4. \A y \in S : ~ (y < x)
    BY <1>2, <1>3, Zenon
  <1>5. \A y \in S : x <= y
    BY <1>4
  <1> QED
    BY <1>5 DEF Min

LEMMA JobsFinite ==
  ASSUME NEW S \in SUBSET Jobs
  PROVE  IsFiniteSet(S) /\ Cardinality(S) \in Nat
  <1>1. IsFiniteSet(Jobs)
    BY FS_Interval, QueueAssumption DEF Jobs
  <1> QED
    BY <1>1, FS_Subset, FS_CardinalityType

LEMMA LanedType ==
  ASSUME QueueTypeOK
  PROVE  /\ Laned \in SUBSET Jobs
         /\ Cardinality(Laned) \in Nat
         /\ \A p \in Priorities : Cardinality(lanes[p]) <= Cardinality(Laned)
  <1>1. Laned \in SUBSET Jobs
    BY DEF QueueTypeOK, Laned, Priorities
  <1>2. \A p \in Priorities : lanes[p] \in SUBSET Laned
    BY DEF Laned, Priorities
  <1> QED
    BY <1>1, <1>2, JobsFinite, FS_Subset

(* The trimmed lane: within capacity, and at most one job shorter, which   *)
(* only happens to a lane that was full.                                   *)
LEMMA TrimFacts ==
  ASSUME NEW S \in SUBSET Jobs, Cardinality(S) <= Capacity, NEW j \in Jobs
  PROVE  LET lane == S \union {j} IN
         /\ Trim(lane) \in SUBSET lane
         /\ Cardinality(Trim(lane)) <= Capacity
         /\ \/ Trim(lane) = lane
            \/ /\ Cardinality(S) >= Capacity
               /\ \E m \in Jobs : lane \ Trim(lane) = {m}
  <1> DEFINE lane == S \union {j}
  <1>1. /\ lane \in SUBSET Jobs /\ lane \in SUBSET Nat /\ lane /= {}
    BY QueueAssumption DEF Jobs
  <1>2. /\ IsFiniteSet(S) /\ IsFiniteSet(lane)
        /\ Cardinality(S) \in Nat /\ Cardinality(lane) \in Nat
    BY <1>1, JobsFinite
  <1>3. Cardinality(lane) <= Cardinality(S) + 1
    BY <1>2, FS_AddElement
  <1> HIDE DEF lane
  <1>4. Min(lane) \in lane
    BY <1>1, MinElement
  <1>5. Cardinality(lane \ {Min(lane)}) = Cardinality(lane) - 1
    <2>1. \A m \in lane : Cardinality(lane \ {m}) = Cardinality(lane) - 1
      BY <1>2, FS_RemoveElement
    <2> QED
      BY <1>4, <2>1
  <1>6. lane \ (lane \ {Min(lane)}) = {Min(lane)} /\ Min(lane) \in Jobs
    BY <1>1, <1>4
  <1> DEFINE Good == /\ Trim(lane) \in SUBSET lane
                     /\ Cardinality(Trim(lane)) <= Capacity
                     /\ \/ Trim(lane) = lane
                        \/ /\ Cardinality(S) >= Capacity
                           /\ \E m \in Jobs : lane \ Trim(lane) = {m}
  <1>7. ASSUME Cardinality(lane) > Capacity PROVE Good
    <2>1. Trim(lane) = lane \ {Min(lane)}
      BY <1>7 DEF Trim
    <2>2. Cardinality(lane) - 1 <= Capacity /\ Cardinality(S) >= Capacity
      BY <1>2, <1>3, <1>7, QueueAssumption
    <2> QED
      BY <1>5, <1>6, <2>1, <2>2
  <1>8. ASSUME ~(Cardinality(lane) > Capacity) PROVE Good
    <2>1. Trim(lane) = lane
      BY <1>8 DEF Trim
    <2> QED
      BY <1>2, <1>8, <2>1, QueueAssumption
  <1>9. Good
    BY <1>7, <1>8
  <1> QED
    BY <1>9 DEF lane

(* BRPOP takes a job of the lane whose turn it is.                         *)
LEMMA PopFacts ==
  ASSUME QueueTypeOK, Laned /= {}, Popped
  PROVE  /\ Oldest \in Jobs
         /\ lanes' \in [Priorities -> SUBSET Jobs]
         /\ Laned' \in SUBSET Laned
         /\ \A p \in Priorities : Cardinality(lanes'[p]) <= Capacity
         /\ Cardinality(Laned') <= Cardinality(Laned)
  <1>1. /\ Turn \in Priorities /\ lanes[Turn] /= {}
        /\ lanes \in [Priorities -> SUBSET Jobs]
    BY DEF QueueTypeOK, Turn, Laned, Priorities
  <1>2. Oldest \in lanes[Turn]
    <2>1. lanes[Turn] \in SUBSET Nat
      BY <1>1, QueueAssumption DEF Jobs
    <2> QED
      BY <1>1, <2>1, MinElement DEF Oldest
  <1>3. /\ lanes' \in [Priorities -> SUBSET Jobs]
        /\ \A p \in Priorities : lanes'[p] \in SUBSET lanes[p]
    BY <1>1 DEF Popped
  <1>4. Laned' \in SUBSET Laned
    BY <1>3 DEF Laned, Priorities
  <1>5. \A p \in Priorities : /\ Cardinality(lanes'[p]) <= Cardinality(lanes[p])
                              /\ Cardinality(lanes'[p]) \in Nat
                              /\ Cardinality(lanes[p]) \in Nat
    BY <1>1, <1>3, JobsFinite, FS_Subset
  <1>6. \A p \in Priorities : Cardinality(lanes'[p]) <= Capacity
    BY <1>5, QueueAssumption DEF QueueTypeOK
  <1>7. Cardinality(Laned') <= Cardinality(Laned)
    BY <1>4, LanedType, JobsFinite, FS_Subset
  <1> QED
    BY <1>1, <1>2, <1>3, <1>4, <1>6, <1>7

(* One more job that is gone is counted at most once.                      *)
LEMMA GoneGrows ==
  ASSUME NEW S \in SUBSET Jobs, NEW j \in Jobs
  PROVE  /\ S \union {j} \in SUBSET Jobs
         /\ Cardinality(S \union {j}) <= Cardinality(S) + 1
         /\ Cardinality(S) \in Nat /\ Cardinality(S \union {j}) \in Nat
  BY JobsFinite, FS_AddElement

(***************************************************************************)
(* The invariant.                                                          *)
(***************************************************************************)
(* The types of the records, and of their values at rest.                  *)
PipeTypes == [at : {"idle", "push", "count", "start"}, job : 0..NumJobs,
              lane : Priorities, size : Nat]
WorkerTypes == [at : {"none", "pop", "call", "embed", "measure", "settle", "closing"},
                job : 0..NumJobs]
StatusTypes == {"idle", "queued", "processing", "failed", "slow", "stalled"}
StatsTypes == [status : StatusTypes, backlog : Nat, dropped : Nat,
               called : BOOLEAN, slow : BOOLEAN]
SpentTypes == [jobs : 0..NumJobs, faults : 0..MaxFaults, crashes : 0..MaxCrashes]

LEMMA IdleTypes ==
  /\ NoPipe \in PipeTypes /\ NoWorker \in WorkerTypes /\ NoStats \in StatsTypes
  /\ worker \in WorkerTypes => StartedWorker \in WorkerTypes
  <1>1. 0 \in 0..NumJobs
    BY QueueAssumption
  <1>2. /\ NoPipe \in PipeTypes /\ NoWorker \in WorkerTypes /\ NoStats \in StatsTypes
    BY <1>1 DEF NoPipe, NoWorker, NoStats, PipeTypes, WorkerTypes, StatsTypes, StatusTypes, Priorities
  <1> QED
    BY <1>1, <1>2 DEF StartedWorker, NoWorker, WorkerTypes

(* A look at the statistics: "idle" and "failed" stay, a waiting status    *)
(* stays one, and nothing else than "idle" becomes "idle".                 *)
LEMMA ToldFacts ==
  ASSUME NEW status \in StatusTypes, NEW late \in BOOLEAN
  PROVE  /\ Told(stats, status, late) \in StatusTypes
         /\ status = "idle" => Told(stats, status, late) = "idle"
         /\ status \in Waiting => Told(stats, status, late) \in Waiting
  BY DEF Told, StatusTypes, Waiting

(* The same of the statistics a look leaves behind.                        *)
LEMMA RefreshedFacts ==
  ASSUME stats \in StatsTypes, NEW late \in Paces
  PROVE  /\ Refreshed(late) \in StatsTypes
         /\ Refreshed(late).dropped = stats.dropped
         /\ stats.status = "idle" => Refreshed(late).status = "idle"
         /\ stats.status \in Waiting => Refreshed(late).status \in Waiting
  <1>1. late \in BOOLEAN /\ stats.status \in StatusTypes
    BY QueueAssumption DEF StatsTypes
  <1> DEFINE told == Told(stats, stats.status, late)
  <1>2. /\ told \in StatusTypes
        /\ stats.status = "idle" => told = "idle"
        /\ stats.status \in Waiting => told \in Waiting
    BY <1>1, ToldFacts
  <1>3. Refreshed(late) = [stats EXCEPT !.status = told]
    BY DEF Refreshed
  <1> HIDE DEF told
  <1> QED
    BY <1>2, <1>3 DEF StatsTypes

LEMMA InitInv == QueueInit => QueueInv
  <1> SUFFICES ASSUME QueueInit PROVE QueueInv
    OBVIOUS
  <1>1. Laned = {} /\ Cardinality(Laned) = 0 /\ Cardinality(gone) = 0
    BY FS_EmptySet DEF QueueInit, Laned, Priorities
  <1>2. QueueTypeOK
    BY QueueAssumption, FS_EmptySet
    DEF QueueInit, QueueTypeOK, NoPipe, NoWorker, NoStats, Priorities
  <1> QED
    BY <1>1, <1>2 DEF QueueInv, QueueInit, JobInv, SizeInv, DropsCounted, TileInv,
       NoPipe, NoWorker, NoStats

LEMMA OfferInv ==
  ASSUME QueueInv, NEW p \in Priorities, NEW late \in Paces, Offer(p, late)
  PROVE  QueueInv'
  <1>1. Cardinality(Laned) \in Nat /\ Laned' = Laned
    BY LanedType DEF QueueInv, Offer, Laned
  <1>2. /\ stats' \in StatsTypes /\ stats'.dropped = stats.dropped
        /\ stats.status = "idle" => stats'.status = "idle"
        /\ stats.status \in Waiting => stats'.status \in Waiting
    BY RefreshedFacts DEF Offer, QueueInv, QueueTypeOK, StatsTypes, StatusTypes
  <1>3. /\ pipe' \in PipeTypes /\ pipe'.at = "push" /\ pipe'.job \in Jobs
        /\ pipe'.size = Cardinality(Laned) /\ pipe.at = "idle"
    BY <1>1, QueueAssumption DEF QueueInv, QueueTypeOK, Jobs, Offer, PipeTypes
  <1>4. spent' \in SpentTypes /\ spent'.crashes = spent.crashes
    BY QueueAssumption DEF QueueInv, QueueTypeOK, Offer, Spend, SpentTypes
  <1>5. QueueTypeOK' /\ JobInv'
    BY <1>2, <1>3, <1>4
    DEF QueueInv, QueueTypeOK, JobInv, Offer, PipeTypes, StatsTypes, StatusTypes, SpentTypes
  <1>6. SizeInv'
    BY <1>1, <1>3 DEF SizeInv
  <1>7. TileInv'
    BY <1>1, <1>2, <1>3, <1>4 DEF QueueInv, TileInv, Offer
  <1>8. DropsCounted'
    BY <1>2, <1>3 DEF QueueInv, DropsCounted, Offer
  <1> QED
    BY <1>5, <1>6, <1>7, <1>8 DEF QueueInv

LEMMA PushInv ==
  ASSUME QueueInv, Push
  PROVE  QueueInv'
  <1> DEFINE S == lanes[pipe.lane]
             pushed == S \union {pipe.job}
  <1>1. /\ S \in SUBSET Jobs /\ Cardinality(S) <= Capacity /\ pipe.lane \in Priorities
        /\ pipe.job \in Jobs
    BY DEF QueueInv, QueueTypeOK, JobInv, Push
  <1>2. /\ Trim(pushed) \in SUBSET pushed
        /\ Cardinality(Trim(pushed)) <= Capacity
        /\ \/ Trim(pushed) = pushed
           \/ /\ Cardinality(S) >= Capacity
              /\ \E m \in Jobs : pushed \ Trim(pushed) = {m}
    BY <1>1, TrimFacts
  <1>3. /\ lanes' = [lanes EXCEPT ![pipe.lane] = Trim(pushed)]
        /\ gone' = gone \union (pushed \ Trim(pushed))
    BY DEF Push
  <1>4. gone \in SUBSET Jobs /\ Cardinality(gone) \in Nat
    BY JobsFinite DEF QueueInv, QueueTypeOK
  <1>5. /\ gone' \in SUBSET Jobs /\ Cardinality(gone') \in Nat
        /\ \/ gone' = gone
           \/ Cardinality(S) >= Capacity /\ Cardinality(gone') <= Cardinality(gone) + 1
    BY <1>2, <1>3, <1>4, GoneGrows
  <1>6. pipe.at = "push" /\ pipe' = [pipe EXCEPT !.at = "count"]
    BY DEF Push
  <1>7. QueueTypeOK'
    <2>1. lanes' \in [Priorities -> SUBSET Jobs] /\ fresh' \subseteq Jobs
      <3>1. Trim(pushed) \in SUBSET Jobs /\ lanes \in [Priorities -> SUBSET Jobs]
        BY <1>1, <1>2 DEF QueueInv, QueueTypeOK
      <3>2. lanes' \in [Priorities -> SUBSET Jobs]
        BY <1>1, <1>3, <3>1
      <3>3. fresh' = fresh \union {pipe.job}
        BY DEF Push
      <3> QED
        BY <1>1, <3>2, <3>3 DEF QueueInv, QueueTypeOK
    <2>2. \A p \in Priorities : Cardinality(lanes'[p]) <= Capacity
      BY <1>1, <1>2, <1>3 DEF QueueInv, QueueTypeOK
    <2> QED
      BY <1>5, <1>6, <2>1, <2>2 DEF QueueInv, QueueTypeOK, Push
  <1>8. DropsCounted'
    <2>1. Cardinality(S) <= Cardinality(Laned) /\ Cardinality(Laned) <= pipe.size
      BY <1>1, <1>6, LanedType DEF QueueInv, SizeInv
    <2>2. Cardinality(S) \in Nat /\ Cardinality(Laned) \in Nat /\ pipe.size \in Nat
      BY <1>1, JobsFinite, LanedType DEF QueueInv, QueueTypeOK
    <2>3. Cardinality(S) >= Capacity => Evicts'
      BY <1>6, <2>1, <2>2, QueueAssumption DEF QueueInv, QueueTypeOK, Evicts
    <2>4. Cardinality(gone) <= stats.dropped /\ stats.dropped \in Nat
      BY <1>6 DEF QueueInv, DropsCounted, QueueTypeOK
    <2>5. stats' = stats /\ pipe'.at = "count"
      BY <1>6 DEF Push, QueueInv, QueueTypeOK
    <2> QED
      BY <1>4, <1>5, <2>3, <2>4, <2>5 DEF DropsCounted
  <1>9. SizeInv' /\ TileInv'
    BY <1>6 DEF QueueInv, SizeInv, TileInv, QueueTypeOK, Push
  <1>10. JobInv'
    BY <1>6 DEF JobInv, QueueInv, QueueTypeOK, Push
  <1> QED
    BY <1>7, <1>8, <1>9, <1>10 DEF QueueInv

LEMMA PushUnheardInv ==
  ASSUME QueueInv, PushUnheard
  PROVE  QueueInv'
  <1> DEFINE S == lanes[pipe.lane]
             pushed == S \union {pipe.job}
  <1>1. /\ S \in SUBSET Jobs /\ Cardinality(S) <= Capacity /\ pipe.lane \in Priorities
        /\ pipe.job \in Jobs
    BY DEF QueueInv, QueueTypeOK, JobInv, PushUnheard
  <1>2. Trim(pushed) \in SUBSET pushed /\ Cardinality(Trim(pushed)) <= Capacity
    BY <1>1, TrimFacts
  <1>3. lanes' = [lanes EXCEPT ![pipe.lane] = Trim(pushed)]
    BY DEF PushUnheard
  <1>4. pipe' = [pipe EXCEPT !.at = "count", !.size = 0] /\ pipe'.at = "count"
    BY DEF PushUnheard, QueueInv, QueueTypeOK
  <1>5. /\ lanes' \in [Priorities -> SUBSET Jobs]
        /\ \A p \in Priorities : Cardinality(lanes'[p]) <= Capacity
    <2>1. Trim(pushed) \in SUBSET Jobs /\ lanes \in [Priorities -> SUBSET Jobs]
      BY <1>1, <1>2 DEF QueueInv, QueueTypeOK
    <2> QED
      BY <1>1, <1>2, <1>3, <2>1 DEF QueueInv, QueueTypeOK
  <1>6. QueueTypeOK' /\ JobInv'
    <2>1. pipe' \in PipeTypes /\ pipe'.job \in Jobs
      BY <1>1, <1>4 DEF QueueInv, QueueTypeOK, PipeTypes
    <2>2. spent' \in SpentTypes
      BY QueueAssumption DEF QueueInv, QueueTypeOK, PushUnheard, Fault, Spend, SpentTypes
    <2>3. fresh' \subseteq Jobs /\ memory' \subseteq Jobs
      BY <1>1 DEF QueueInv, QueueTypeOK, PushUnheard
    <2> QED
      BY <1>5, <2>1, <2>2, <2>3
      DEF QueueInv, QueueTypeOK, JobInv, PushUnheard, PipeTypes, SpentTypes
  <1>7. DropsCounted'
    <2>1. Cardinality(gone) <= stats.dropped
      BY DEF QueueInv, QueueTypeOK, DropsCounted, PushUnheard
    <2>2. ~Evicts' /\ gone' = gone /\ stats' = stats
      BY <1>4, QueueAssumption DEF Evicts, PushUnheard, QueueInv, QueueTypeOK
    <2>3. Cardinality(gone) \in Nat /\ stats.dropped \in Nat
      BY JobsFinite DEF QueueInv, QueueTypeOK
    <2> QED
      BY <2>1, <2>2, <2>3 DEF DropsCounted
  <1>8. SizeInv' /\ TileInv'
    BY <1>4 DEF QueueInv, SizeInv, TileInv, QueueTypeOK, PushUnheard, Fault, Spend
  <1> QED
    BY <1>6, <1>7, <1>8 DEF QueueInv

LEMMA PushFailsInv ==
  ASSUME QueueInv, PushFails
  PROVE  QueueInv'
  <1>1. pipe' = [pipe EXCEPT !.at = "count", !.size = 0] /\ pipe.job \in Jobs
    BY DEF PushFails, QueueInv, JobInv
  <1>2. QueueTypeOK' /\ JobInv'
    <2>1. pipe' \in PipeTypes /\ pipe'.job \in Jobs
      BY <1>1 DEF QueueInv, QueueTypeOK, PipeTypes
    <2>2. spent' \in SpentTypes
      BY QueueAssumption DEF QueueInv, QueueTypeOK, PushFails, Fault, Spend, SpentTypes
    <2> QED
      BY <1>1, <2>1, <2>2 DEF QueueInv, QueueTypeOK, JobInv, PushFails, PipeTypes, SpentTypes
  <1>3. DropsCounted'
    <2>1. Cardinality(gone) <= stats.dropped /\ stats.dropped \in Nat
      BY DEF QueueInv, DropsCounted, QueueTypeOK, PushFails
    <2>2. ~Evicts' /\ gone' = gone /\ stats' = stats
      BY <1>1, QueueAssumption DEF Evicts, PushFails, QueueInv, QueueTypeOK
    <2>3. Cardinality(gone) \in Nat
      BY JobsFinite DEF QueueInv, QueueTypeOK
    <2> QED
      BY <2>1, <2>2, <2>3 DEF DropsCounted
  <1>4. SizeInv' /\ TileInv'
    BY <1>1 DEF QueueInv, SizeInv, TileInv, QueueTypeOK, PushFails, Fault, Spend
  <1> QED
    BY <1>2, <1>3, <1>4 DEF QueueInv

LEMMA CountDropInv ==
  ASSUME QueueInv, NEW late \in Paces, CountDrop(late)
  PROVE  QueueInv'
  <1>1. Cardinality(gone) \in Nat
    BY JobsFinite DEF QueueInv, QueueTypeOK
  <1> DEFINE status == IF stats.status = "idle" THEN Told(stats, "queued", late)
                                                ELSE stats.status
  <1>2. /\ stats'.dropped = stats.dropped + (IF Evicts THEN 1 ELSE 0)
        /\ stats'.dropped \in Nat
        /\ stats'.status = status
        /\ stats' \in StatsTypes
    <2>1. stats' = [stats EXCEPT
                      !.dropped = @ + (IF Evicts THEN 1 ELSE 0),
                      !.status = status]
      BY DEF CountDrop
    <2>2. stats.dropped + (IF Evicts THEN 1 ELSE 0) \in Nat
      BY DEF QueueInv, QueueTypeOK
    <2>3. status \in StatusTypes
      BY ToldFacts, QueueAssumption DEF StatusTypes, QueueInv, QueueTypeOK
    <2> HIDE DEF status
    <2> QED
      BY <2>1, <2>2, <2>3 DEF QueueInv, QueueTypeOK, StatsTypes, StatusTypes
  <1>3. \/ /\ stats.status = "idle" /\ worker' = worker
           /\ pipe' = [pipe EXCEPT !.at = "start"]
        \/ stats.status /= "idle" /\ worker' = StartedWorker /\ pipe' = NoPipe
    BY DEF CountDrop
  <1>4. QueueTypeOK' /\ JobInv'
    <2>1. pipe' \in PipeTypes /\ (pipe'.at /= "idle" => pipe'.job \in Jobs)
      BY <1>3, IdleTypes DEF QueueInv, QueueTypeOK, JobInv, CountDrop, PipeTypes, NoPipe
    <2>2. worker' \in WorkerTypes
      BY <1>3, IdleTypes DEF QueueInv, QueueTypeOK, WorkerTypes
    <2> QED
      BY <1>2, <2>1, <2>2
      DEF QueueInv, QueueTypeOK, JobInv, CountDrop, PipeTypes, WorkerTypes, StatsTypes,
          StatusTypes
  <1>5. pipe'.at \in {"start", "idle"}
    BY <1>3 DEF NoPipe, QueueInv, QueueTypeOK
  <1>6. DropsCounted'
    BY <1>1, <1>2, <1>5 DEF DropsCounted, QueueInv, CountDrop
  <1>7. SizeInv'
    BY <1>5 DEF SizeInv
  <1>8. TileInv'
    <2>1. stats.status \in Waiting \union {"idle"} => stats'.status \in Waiting
      <3>1. Told(stats, "queued", late) \in Waiting
        BY ToldFacts, QueueAssumption DEF StatusTypes, Waiting
      <3> QED
        BY <1>2, <3>1
    <2>2. worker'.at \in {"none", "closing"} => worker' = worker
      BY <1>3 DEF StartedWorker, NoWorker
    <2>3. spent' = spent
      BY DEF CountDrop
    <2> QED
      BY <2>1, <2>2, <2>3 DEF TileInv, QueueInv
  <1> QED
    BY <1>4, <1>6, <1>7, <1>8 DEF QueueInv

LEMMA StartWorkerInv ==
  ASSUME QueueInv, StartWorker
  PROVE  QueueInv'
  <1>1. worker' = StartedWorker /\ pipe' = NoPipe /\ pipe.at = "start"
    BY DEF StartWorker
  <1>2. QueueTypeOK' /\ JobInv'
    BY <1>1, IdleTypes DEF QueueInv, QueueTypeOK, JobInv, StartWorker, NoPipe, PipeTypes, WorkerTypes
  <1>3. DropsCounted' /\ SizeInv'
    BY <1>1 DEF DropsCounted, SizeInv, QueueInv, StartWorker, NoPipe
  <1>4. TileInv'
    BY <1>1 DEF TileInv, QueueInv, QueueTypeOK, StartWorker, StartedWorker, NoWorker, NoPipe, Laned
  <1> QED
    BY <1>2, <1>3, <1>4 DEF QueueInv

(* A step that takes the oldest job and makes it gone, or not.             *)
LEMMA PoppedInv ==
  ASSUME QueueInv, Laned /= {}, Popped, pipe' = pipe,
         worker.at = "pop", worker'.at \in {"pop", "call"}, worker' \in WorkerTypes,
         fresh' \in SUBSET fresh, memory' = memory,
         stats' \in StatsTypes, spent' \in SpentTypes,
         \/ gone' = gone /\ stats'.dropped = stats.dropped
         \/ gone' = gone \union {Oldest} /\ stats'.dropped = stats.dropped + 1
  PROVE  QueueInv'
  <1>1. /\ Oldest \in Jobs /\ lanes' \in [Priorities -> SUBSET Jobs]
        /\ \A p \in Priorities : Cardinality(lanes'[p]) <= Capacity
        /\ Laned' \in SUBSET Laned
        /\ Cardinality(Laned') <= Cardinality(Laned)
    BY PopFacts DEF QueueInv
  <1>2. gone \in SUBSET Jobs
    BY DEF QueueInv, QueueTypeOK
  <1>3. /\ gone' \in SUBSET Jobs /\ Cardinality(gone) \in Nat /\ Cardinality(gone') \in Nat
        /\ \/ gone' = gone
           \/ gone' = gone \union {Oldest} /\ Cardinality(gone') <= Cardinality(gone) + 1
    BY <1>1, <1>2, GoneGrows
  <1>4. QueueTypeOK' /\ JobInv'
    BY <1>1, <1>3 DEF QueueInv, QueueTypeOK, JobInv, WorkerTypes, StatsTypes, StatusTypes, SpentTypes
  <1>5. SizeInv'
    <2>1. Cardinality(Laned') \in Nat /\ Cardinality(Laned) \in Nat
      BY <1>1, LanedType, JobsFinite DEF QueueInv
    <2> QED
      BY <1>1, <2>1 DEF SizeInv, QueueInv, QueueTypeOK
  <1>6. DropsCounted'
    <2>1. Cardinality(gone') - Cardinality(gone) <= stats'.dropped - stats.dropped
      <3>1. stats.dropped \in Nat
        BY DEF QueueInv, QueueTypeOK
      <3> QED
        BY <1>2, <1>3, <3>1
    <2>2. Evicts' <=> Evicts
      BY DEF Evicts
    <2> QED
      BY <1>3, <2>1, <2>2 DEF DropsCounted, QueueInv, QueueTypeOK, StatsTypes
  <1>7. TileInv'
    BY DEF TileInv
  <1> QED
    BY <1>4, <1>5, <1>6, <1>7 DEF QueueInv

LEMMA PopJobInv ==
  ASSUME QueueInv, PopJob
  PROVE  QueueInv'
  <1>1. Oldest \in Jobs
    BY PopFacts DEF QueueInv, PopJob
  <1>2. worker' = [worker EXCEPT !.at = "call", !.job = Oldest]
        /\ stats' = [stats EXCEPT !.called = TRUE, !.status = Told(stats, "processing", FALSE)]
    BY DEF PopJob
  <1>3. /\ worker' \in WorkerTypes /\ worker'.at = "call"
        /\ stats' \in StatsTypes /\ stats'.dropped = stats.dropped
    <2>1. Oldest \in 0..NumJobs
      BY <1>1, QueueAssumption DEF Jobs
    <2>2. worker \in WorkerTypes /\ stats \in StatsTypes
      BY DEF QueueInv, QueueTypeOK, WorkerTypes, StatsTypes, StatusTypes
    <2>3. worker' \in WorkerTypes /\ worker'.at = "call"
      BY <1>2, <2>1, <2>2 DEF WorkerTypes
    <2>4. Told(stats, "processing", FALSE) \in StatusTypes
      BY ToldFacts DEF StatusTypes
    <2> QED
      BY <1>2, <2>2, <2>3, <2>4 DEF StatsTypes
  <1> QED
    BY <1>3, PoppedInv DEF PopJob, QueueInv, QueueTypeOK, SpentTypes

LEMMA SkipJobInv ==
  ASSUME QueueInv, SkipJob
  PROVE  QueueInv'
  <1>1. stats' = [stats EXCEPT !.dropped = @ + 1]
    BY DEF SkipJob
  <1>2. stats' \in StatsTypes /\ stats'.dropped = stats.dropped + 1
    BY <1>1 DEF QueueInv, QueueTypeOK, StatsTypes, StatusTypes
  <1> QED
    BY <1>2, PoppedInv DEF SkipJob, QueueInv, QueueTypeOK, SpentTypes, WorkerTypes

LEMMA PopFailsInv ==
  ASSUME QueueInv, PopFails
  PROVE  QueueInv'
  <1>1. spent' \in SpentTypes
    BY QueueAssumption DEF QueueInv, QueueTypeOK, PopFails, Fault, Spend, SpentTypes
  <1> QED
    BY <1>1, PoppedInv DEF PopFails, QueueInv, QueueTypeOK, WorkerTypes, StatsTypes, StatusTypes

(* A step of the worker that leaves the lanes and the drops as they are,   *)
(* and the tile in order if the worker ends.                               *)
LEMMA WorkerStepInv ==
  ASSUME QueueInv, lanes' = lanes, pipe' = pipe, memory' = memory, gone' = gone,
         fresh' = fresh, worker' \in WorkerTypes, stats' \in StatsTypes,
         spent' \in SpentTypes, stats'.dropped = stats.dropped, TileInv'
  PROVE  QueueInv'
  <1>1. QueueTypeOK' /\ JobInv'
    BY DEF QueueInv, QueueTypeOK, JobInv, WorkerTypes, StatsTypes, StatusTypes, SpentTypes
  <1>2. SizeInv' /\ DropsCounted'
    BY DEF QueueInv, SizeInv, DropsCounted, Evicts, Laned
  <1> QED
    BY <1>1, <1>2 DEF QueueInv

LEMMA IdleInv ==
  ASSUME QueueInv, Idle
  PROVE  QueueInv'
  <1>1. /\ worker' \in WorkerTypes /\ stats' \in StatsTypes /\ spent' \in SpentTypes
        /\ stats'.dropped = stats.dropped
    BY DEF Idle, QueueInv, QueueTypeOK, WorkerTypes, StatsTypes, StatusTypes, SpentTypes
  <1>2. TileInv'
    BY DEF Idle, TileInv, Laned, QueueInv, QueueTypeOK
  <1> QED
    BY <1>1, <1>2, WorkerStepInv DEF Idle

LEMMA CloseInv ==
  ASSUME QueueInv, Close
  PROVE  QueueInv'
  <1>1. TileInv'
    BY DEF Close, TileInv, Laned, QueueInv, QueueTypeOK
  <1> QED
    BY <1>1, IdleTypes, WorkerStepInv
    DEF Close, QueueInv, QueueTypeOK, StatsTypes, StatusTypes, SpentTypes

(* Calling the provider, storing its caption, measuring and settling; and  *)
(* a look at the statistics.                                               *)
LEMMA CallInv ==
  ASSUME QueueInv,
         \/ Described \/ Embedded \/ CallFails
         \/ \E ok \in BOOLEAN : Measure(ok)
         \/ \E late \in Paces : Settle(late)
  PROVE  QueueInv'
  <1> USE DEF QueueInv, QueueTypeOK, WorkerTypes, StatsTypes, StatusTypes, SpentTypes, TileInv
  <1>1. ASSUME Described \/ Embedded \/ CallFails
        PROVE  QueueInv'
    <2>1. stats' \in StatsTypes /\ stats'.dropped = stats.dropped
      <3>1. CASE Embedded
        BY <3>1 DEF Embedded
      <3>2. CASE Described
        <4>1. PICK slow \in Paces : stats' = [stats EXCEPT !.slow = slow]
          BY <3>2, Zenon DEF Described
        <4> QED
          BY <4>1, QueueAssumption
      <3>3. CASE CallFails
        <4>1. PICK slow \in Paces :
                stats' = [stats EXCEPT !.status = "failed", !.slow = slow]
          BY <3>3, Zenon DEF CallFails
        <4> QED
          BY <4>1, QueueAssumption
      <3> QED
        BY <1>1, <3>1, <3>2, <3>3
    <2>2. worker' \in WorkerTypes /\ worker'.at \in {"embed", "measure"}
      BY <1>1 DEF Described, Embedded, CallFails
    <2> QED
      BY <1>1, <2>1, <2>2, WorkerStepInv DEF Described, Embedded, CallFails
  <1>2. ASSUME NEW ok \in BOOLEAN, Measure(ok)
        PROVE  QueueInv'
    <2>1. Cardinality(Laned) \in Nat
      BY LanedType
    <2>2. stats' \in StatsTypes /\ stats'.dropped = stats.dropped /\ spent' \in SpentTypes
      BY <1>2, <2>1, QueueAssumption DEF Measure, Fault, Spend
    <2>3. worker' \in WorkerTypes /\ worker'.at = "settle"
      BY <1>2 DEF Measure
    <2> QED
      BY <1>2, <2>2, <2>3, WorkerStepInv DEF Measure
  <1>3. ASSUME NEW late \in Paces, Settle(late)
        PROVE  QueueInv'
    <2>1. worker' \in WorkerTypes /\ worker'.at = "pop"
      BY <1>3, QueueAssumption DEF Settle, NoWorker
    <2> DEFINE status == IF stats.slow THEN "slow"
                         ELSE IF Laned /= {} THEN "processing" ELSE "idle"
               told == Told(stats, status, late)
    <2>2. told \in StatusTypes
      BY ToldFacts, QueueAssumption
    <2>3. stats' = [stats EXCEPT !.status = told]
      BY <1>3 DEF Settle
    <2> HIDE DEF told
    <2>4. stats' \in StatsTypes /\ stats'.dropped = stats.dropped
      BY <2>2, <2>3
    <2> QED
      BY <1>3, <2>1, <2>4, WorkerStepInv DEF Settle
  <1> QED
    BY <1>1, <1>2, <1>3

LEMMA RefreshInv ==
  ASSUME QueueInv, NEW late \in Paces, Refresh(late)
  PROVE  QueueInv'
  <1>1. /\ stats' \in StatsTypes /\ stats'.dropped = stats.dropped
        /\ stats.status = "idle" => stats'.status = "idle"
        /\ stats.status \in Waiting => stats'.status \in Waiting
    BY RefreshedFacts DEF Refresh, QueueInv, QueueTypeOK, StatsTypes, StatusTypes
  <1>2. TileInv'
    BY <1>1 DEF Refresh, TileInv, QueueInv, Laned
  <1>3. worker' \in WorkerTypes /\ spent' \in SpentTypes
    BY DEF Refresh, QueueInv, QueueTypeOK, WorkerTypes, SpentTypes
  <1> QED
    BY <1>1, <1>2, <1>3, WorkerStepInv DEF Refresh

(* What happens to the frames, and a restart.                              *)
LEMMA FrameInv ==
  ASSUME QueueInv, (\E j \in Jobs : FrameExpires(j)) \/ ProviderDeleted
  PROVE  QueueInv'
  <1>1. /\ fresh' \in SUBSET Jobs
        /\ UNCHANGED <<lanes, memory, pipe, worker, stats, gone>>
    BY DEF QueueInv, QueueTypeOK, FrameExpires, ProviderDeleted
  <1>2. spent' \in SpentTypes /\ spent'.crashes = spent.crashes
    BY QueueAssumption
    DEF QueueInv, QueueTypeOK, FrameExpires, ProviderDeleted, Fault, Spend, SpentTypes
  <1>3. QueueTypeOK' /\ JobInv'
    BY <1>1, <1>2 DEF QueueInv, QueueTypeOK, JobInv, SpentTypes
  <1>4. SizeInv' /\ DropsCounted' /\ TileInv'
    BY <1>1, <1>2 DEF QueueInv, SizeInv, DropsCounted, Evicts, TileInv, Laned
  <1> QED
    BY <1>3, <1>4 DEF QueueInv

LEMMA CrashInv ==
  ASSUME QueueInv, Crash
  PROVE  QueueInv'
  <1>1. /\ memory' = {} /\ pipe' = NoPipe /\ worker' = NoWorker /\ stats' = NoStats
        /\ gone' = {} /\ lanes' = lanes /\ fresh' = fresh
    BY DEF Crash
  <1>2. spent' \in SpentTypes /\ spent'.crashes > 0
    BY QueueAssumption DEF QueueInv, QueueTypeOK, Crash, Spend, SpentTypes
  <1>3. QueueTypeOK' /\ JobInv'
    BY <1>1, <1>2, IdleTypes
    DEF QueueInv, QueueTypeOK, JobInv, NoPipe, PipeTypes, WorkerTypes, StatsTypes, StatusTypes,
        SpentTypes
  <1>4. SizeInv' /\ DropsCounted' /\ TileInv'
    BY <1>1, <1>2, FS_EmptySet DEF SizeInv, DropsCounted, TileInv, NoPipe, NoStats, SpentTypes
  <1> QED
    BY <1>3, <1>4 DEF QueueInv

LEMMA StutterInv ==
  ASSUME QueueInv, UNCHANGED queueVars
  PROVE  QueueInv'
  BY DEF QueueInv, QueueTypeOK, JobInv, SizeInv, DropsCounted, Evicts, TileInv, Laned, queueVars

LEMMA StepInv == QueueInv /\ [QueueNext]_queueVars => QueueInv'
  BY OfferInv, PushInv, PushUnheardInv, PushFailsInv, RefreshInv, CountDropInv, StartWorkerInv, PopJobInv, SkipJobInv,
     PopFailsInv, IdleInv, CloseInv, CallInv, FrameInv, CrashInv, StutterInv
  DEF QueueNext, QueueStep

(***************************************************************************)
(* The theorems.                                                           *)
(***************************************************************************)
(* The queue always is well typed, and no lane is over its capacity.       *)
THEOREM QueueTypes == QueueSpec => []QueueTypeOK
  <1>1. QueueInv => QueueTypeOK
    BY DEF QueueInv
  <1> QED
    BY <1>1, InitInv, StepInv, PTL DEF QueueSpec

(* Every job evicted or skipped is in the dropped counter, though enqueue  *)
(* decides from a size it read before it pushed.                           *)
THEOREM EveryDropCounts == QueueSpec => []DropsCounted
  <1>1. QueueInv => DropsCounted
    BY DEF QueueInv
  <1> QED
    BY <1>1, InitInv, StepInv, PTL DEF QueueSpec

(* Until the first restart, the tile of a camera whose jobs wait while no  *)
(* worker runs or is about to be started does not say "idle", whoever      *)
(* looked at the statistics, and after answers of any latency.             *)
THEOREM WaitingIsShown == QueueSpec => []StrandedIsNotIdle
  <1>1. QueueInv => StrandedIsNotIdle
    BY DEF QueueInv, TileInv, StrandedIsNotIdle, Waiting
  <1> QED
    BY <1>1, InitInv, StepInv, PTL DEF QueueSpec
=============================================================================

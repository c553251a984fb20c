------------------------------ MODULE VlmQueue ------------------------------
(***************************************************************************)
(* The live caption queue of one camera (vlm_queue.py, vlm_backlog.py,     *)
(* vlm_pacing.py and the gate in pipeline.py).  One pipeline offers frames *)
(* in order, so a job is its number and a lane, which is a Redis list, is  *)
(* the set of its jobs: the oldest is the least.  Lanes and frame blobs    *)
(* are in Redis and outlive the perception process; the worker, the        *)
(* in-memory queue and the statistics do not.                              *)
(***************************************************************************)
EXTENDS Integers, FiniteSets, FiniteSetsExt, Functions

CONSTANTS
  NumJobs,      \* bound: frames the pipeline offers
  Capacity,     \* vlm_backlog_capacity_per_camera, of each lane
  NormalCap,    \* NORMAL_BACKLOG_CAP
  HighCap,      \* HIGH_BACKLOG_CAP
  Paces,        \* bound: whether answers may be slow, and calls long ago
  MaxFaults,    \* bound: Redis, database and provider failures
  MaxCrashes    \* bound: restarts of the perception process

ASSUME QueueAssumption ==
  /\ NumJobs \in Nat /\ Capacity \in Nat \ {0, 1}
  /\ NormalCap \in Nat \ {0} /\ HighCap \in Nat \ {0}
  /\ Paces \subseteq BOOLEAN /\ MaxFaults \in Nat /\ MaxCrashes \in Nat

VARIABLES
  lanes,    \* the two Redis lists
  fresh,    \* the jobs whose frame blob and provider row still exist
  memory,   \* the in-memory queue enqueue falls back to
  pipe,     \* the pipeline: where it stands in enqueue, and the job it holds
  worker,   \* the camera's worker task and the job it holds
  stats,    \* CameraVLMStats
  gone,     \* history: jobs known to be evicted or skipped since the process started
  spent     \* offered jobs, failures and restarts so far

queueVars == <<lanes, fresh, memory, pipe, worker, stats, gone, spent>>

Jobs == 1..NumJobs
Priorities == {"high", "normal"}
Laned == lanes["high"] \union lanes["normal"]

NoPipe == [at |-> "idle", job |-> 0, lane |-> "normal", size |-> 0]
NoWorker == [at |-> "none", job |-> 0]
NoStats == [status |-> "idle", backlog |-> 0, dropped |-> 0,
            called |-> FALSE,  \* last_call_at is set
            slow |-> FALSE]    \* avg_latency is over ten seconds

Fault == spent.faults < MaxFaults
Spend(what) == spent' = [spent EXCEPT ![what] = @ + 1]

(* After set_backlog: a process that has just started.                     *)
QueueInit ==
  /\ lanes = [p \in Priorities |-> {}] /\ fresh = {} /\ memory = {}
  /\ pipe = NoPipe /\ worker = NoWorker /\ stats = NoStats /\ gone = {}
  /\ spent = [jobs |-> 0, faults |-> 0, crashes |-> 0]

(***************************************************************************)
(* The pipeline.                                                           *)
(***************************************************************************)
(* update_status, which to_dict runs for every broadcast, every look at    *)
(* the pacing signals and every published snapshot: what it makes of a     *)
(* status, when the last call began five minutes ago (late) or not.        *)
Told(s, status, late) ==
  IF status \in {"idle", "failed"} THEN status
  ELSE IF late /\ s.called THEN "stalled"
  ELSE IF s.slow THEN "slow" ELSE status

Refreshed(late) == [stats EXCEPT !.status = Told(stats, @, late)]

(* publish_stats_forever, or a frame that does not pass the pacing gate.   *)
Refresh(late) ==
  /\ stats' = Refreshed(late)
  /\ UNCHANGED <<lanes, fresh, memory, pipe, worker, gone, spent>>

(* should_enqueue, on the depth the statistics last recorded.  The cadence *)
(* of normal frames is left to chance.                                     *)
ShouldEnqueue(p) == stats.backlog < (IF p = "high" THEN HighCap ELSE NormalCap)

(* _process_keyframe calls enqueue for a frame that passes the gate.  The  *)
(* duplicate and zero-shot filters may still drop it, which is the same as *)
(* not offering it, and so is a size lookup that fails.                    *)
Offer(p, late) ==
  /\ pipe.at = "idle" /\ spent.jobs < NumJobs
  /\ ShouldEnqueue(p)
  /\ Spend("jobs")
  /\ pipe' = [at |-> "push", job |-> spent.jobs + 1, lane |-> p,
              size |-> Cardinality(Laned)]
  /\ stats' = Refreshed(late)
  /\ UNCHANGED <<lanes, fresh, memory, worker, gone>>

(* Fault: LTRIM takes an inclusive index. *)
TrimInclusive(lane) ==
  IF Cardinality(lane) > Capacity + 1 THEN lane \ {Min(lane)} ELSE lane

(* LTRIM keeps the newest Capacity entries.                                *)
Trim(lane) == IF Cardinality(lane) > Capacity THEN lane \ {Min(lane)} ELSE lane

(* VLMBacklog.enqueue: the blob, then LPUSH and LTRIM in one transaction.  *)
Push ==
  LET pushed == lanes[pipe.lane] \union {pipe.job} IN
  /\ pipe.at = "push"
  /\ fresh' = fresh \union {pipe.job}
  /\ lanes' = [lanes EXCEPT ![pipe.lane] = Trim(pushed)]
  /\ gone' = gone \union (pushed \ Trim(pushed))
  /\ pipe' = [pipe EXCEPT !.at = "count"]
  /\ UNCHANGED <<memory, worker, stats, spent>>

(* The reply of the transaction is lost: the job is queued twice, and what *)
(* LTRIM evicted is not known to enqueue, which counts nothing.            *)
PushUnheard ==
  /\ pipe.at = "push" /\ Fault
  /\ Spend("faults")
  /\ fresh' = fresh \union {pipe.job}
  /\ lanes' = [lanes EXCEPT ![pipe.lane] = Trim(@ \union {pipe.job})]
  /\ memory' = memory \union {pipe.job}
  /\ pipe' = [pipe EXCEPT !.at = "count", !.size = 0]
  /\ UNCHANGED <<worker, stats, gone>>

(* Redis fails: the job goes to the in-memory queue (never full here).     *)
PushFails ==
  /\ pipe.at = "push" /\ Fault
  /\ Spend("faults")
  /\ memory' = memory \union {pipe.job}
  /\ pipe' = [pipe EXCEPT !.at = "count", !.size = 0]
  /\ UNCHANGED <<lanes, fresh, worker, stats, gone>>

(* Fault: the size it read is taken for the one after the push. *)
EvictsLater == pipe.size > Capacity

Evicts == pipe.size >= Capacity
StartedWorker == IF worker.at = "none" THEN [NoWorker EXCEPT !.at = "pop"] ELSE worker

(* Back in enqueue: count the drop and, unless the tile must first be told *)
(* of a queued job, start a worker when none runs.  The broadcast may turn *)
(* "queued" into "slow" or "stalled" as it goes.                           *)
CountDrop(late) ==
  /\ pipe.at = "count"
  /\ stats' = [stats EXCEPT
                 !.dropped = @ + (IF Evicts THEN 1 ELSE 0),
                 !.status = IF @ = "idle" THEN Told(stats, "queued", late) ELSE @]
  /\ IF stats.status = "idle"
     THEN pipe' = [pipe EXCEPT !.at = "start"] /\ UNCHANGED worker
     ELSE pipe' = NoPipe /\ worker' = StartedWorker
  /\ UNCHANGED <<lanes, fresh, memory, gone, spent>>

StartWorker ==
  /\ pipe.at = "start"
  /\ worker' = StartedWorker
  /\ pipe' = NoPipe
  /\ UNCHANGED <<lanes, fresh, memory, stats, gone, spent>>

(***************************************************************************)
(* The worker.                                                             *)
(***************************************************************************)
(* BRPOP serves the high lane first.                                       *)
Turn == IF lanes["high"] /= {} THEN "high" ELSE "normal"
Oldest == Min(lanes[Turn])
Popped == lanes' = [lanes EXCEPT ![Turn] = @ \ {Oldest}]

(* Fault: only the high lane is asked. *)
PopHigh ==
  /\ worker.at = "pop" /\ lanes["high"] /= {} /\ Oldest \in fresh
  /\ Popped
  /\ fresh' = fresh \ {Oldest}
  /\ worker' = [worker EXCEPT !.at = "call", !.job = Oldest]
  /\ stats' = [stats EXCEPT !.called = TRUE, !.status = Told(stats, "processing", FALSE)]
  /\ UNCHANGED <<memory, pipe, gone, spent>>

(* A job with its frame and its provider: the tile says "processing", or   *)
(* "slow" when the answers have been.                                      *)
PopJob ==
  /\ worker.at = "pop" /\ Laned /= {} /\ Oldest \in fresh
  /\ Popped
  /\ fresh' = fresh \ {Oldest}
  /\ worker' = [worker EXCEPT !.at = "call", !.job = Oldest]
  /\ stats' = [stats EXCEPT !.called = TRUE, !.status = Told(stats, "processing", FALSE)]
  /\ UNCHANGED <<memory, pipe, gone, spent>>

(* The frame blob has expired, or the provider is gone: a counted drop, and *)
(* on to the next without the bookkeeping that ends a job.                  *)
SkipJob ==
  /\ worker.at = "pop" /\ Laned /= {} /\ Oldest \notin fresh
  /\ Popped
  /\ fresh' = fresh \ {Oldest}
  /\ gone' = gone \union {Oldest}
  /\ stats' = [stats EXCEPT !.dropped = @ + 1]
  /\ UNCHANGED <<memory, pipe, worker, spent>>

(* Redis fails between BRPOP and GETDEL: the worker sleeps and goes on; the *)
(* popped entry is lost.                                                    *)
PopFails ==
  /\ worker.at = "pop" /\ Laned /= {} /\ Fault
  /\ Spend("faults")
  /\ Popped
  /\ UNCHANGED <<fresh, memory, pipe, worker, stats, gone>>

(* BRPOP timed out: status, then a broadcast to await, then the task ends.  *)
Idle ==
  /\ worker.at = "pop" /\ Laned = {}
  /\ stats' = [stats EXCEPT !.status = "idle"]
  /\ worker' = [worker EXCEPT !.at = "closing"]
  /\ UNCHANGED <<lanes, fresh, memory, pipe, gone, spent>>

(* Fault: the tile goes idle with the task, after the broadcast. *)
CloseIdle ==
  /\ worker.at = "closing"
  /\ worker' = NoWorker
  /\ stats' = [stats EXCEPT !.status = "idle"]
  /\ UNCHANGED <<lanes, fresh, memory, pipe, gone, spent>>

Close ==
  /\ worker.at = "closing"
  /\ worker' = NoWorker
  /\ UNCHANGED <<lanes, fresh, memory, pipe, stats, gone, spent>>

(* describe() returned text, and its latency entered the average: the      *)
(* observation is patched, then embedded.                                  *)
Described ==
  /\ worker.at = "call"
  /\ worker' = [worker EXCEPT !.at = "embed"]
  /\ \E slow \in Paces : stats' = [stats EXCEPT !.slow = slow]
  /\ UNCHANGED <<lanes, fresh, memory, pipe, gone, spent>>

Embedded ==
  /\ worker.at = "embed"
  /\ worker' = [worker EXCEPT !.at = "measure"]
  /\ UNCHANGED <<lanes, fresh, memory, pipe, stats, gone, spent>>

(* An error or VLM_CALL_TIMEOUT_SECONDS, which leave the average alone, or  *)
(* an empty reply, which enters it: the tile is told.                       *)
CallFails ==
  /\ worker.at = "call"
  /\ worker' = [worker EXCEPT !.at = "measure"]
  /\ \E slow \in Paces : stats' = [stats EXCEPT !.status = "failed", !.slow = slow]
  /\ UNCHANGED <<lanes, fresh, memory, pipe, gone, spent>>

(* size_by_priority, which may fail and leave the recorded depth as it was. *)
Measure(ok) ==
  /\ worker.at = "measure"
  /\ IF ok THEN stats' = [stats EXCEPT !.backlog = Cardinality(Laned)] /\ UNCHANGED spent
           ELSE Fault /\ Spend("faults") /\ UNCHANGED stats
  /\ worker' = [worker EXCEPT !.at = "settle"]
  /\ UNCHANGED <<lanes, fresh, memory, pipe, gone>>

(* "slow" when the average latency is over ten seconds, else by            *)
(* _has_pending; then the broadcast.                                       *)
Settle(late) ==
  LET status == IF stats.slow THEN "slow" ELSE IF Laned /= {} THEN "processing" ELSE "idle" IN
  /\ worker.at = "settle"
  /\ stats' = [stats EXCEPT !.status = Told(stats, status, late)]
  /\ worker' = [NoWorker EXCEPT !.at = "pop"]
  /\ UNCHANGED <<lanes, fresh, memory, pipe, gone, spent>>

(***************************************************************************)
(* The world around them.                                                  *)
(***************************************************************************)
(* A queued frame blob reaches its TTL.                                    *)
FrameExpires(j) ==
  /\ j \in fresh \intersect Laned /\ Fault
  /\ Spend("faults")
  /\ fresh' = fresh \ {j}
  /\ UNCHANGED <<lanes, memory, pipe, worker, stats, gone>>

(* The provider row every queued job names is deleted; later jobs name     *)
(* another.                                                                *)
ProviderDeleted ==
  /\ Laned \intersect fresh /= {} /\ Fault
  /\ Spend("faults")
  /\ fresh' = fresh \ Laned
  /\ UNCHANGED <<lanes, memory, pipe, worker, stats, gone>>

(* The perception process restarts: whatever is not in Redis is gone, and  *)
(* nothing starts a worker before the next enqueue.                        *)
Crash ==
  /\ spent.crashes < MaxCrashes
  /\ Spend("crashes")
  /\ memory' = {} /\ pipe' = NoPipe /\ worker' = NoWorker
  /\ stats' = NoStats /\ gone' = {}
  /\ UNCHANGED <<lanes, fresh>>

(* What the queue does whatever becomes of its captions.                   *)
QueueStep ==
  \/ \E p \in Priorities, late \in Paces : Offer(p, late)
  \/ \E late \in Paces : Refresh(late) \/ CountDrop(late) \/ Settle(late)
  \/ Push \/ PushUnheard \/ PushFails \/ StartWorker
  \/ PopJob \/ SkipJob \/ PopFails \/ Idle \/ Close \/ CallFails
  \/ \E ok \in BOOLEAN : Measure(ok)
  \/ \E j \in Jobs : FrameExpires(j)
  \/ ProviderDeleted

QueueNext == QueueStep \/ Described \/ Embedded \/ Crash

(* The event loop runs every task that can go on; describe() is bounded by *)
(* VLM_CALL_TIMEOUT_SECONDS and BRPOP by its own timeout.  Frames, faults  *)
(* and restarts are not owed.                                              *)
WorkerStep ==
  \/ PopJob \/ SkipJob \/ Idle \/ Close \/ CallFails \/ Measure(TRUE)
  \/ \E late \in Paces : Settle(late)
EnqueueStep == Push \/ StartWorker \/ \E late \in Paces : CountDrop(late)

QueueSpec ==
  /\ QueueInit /\ [][QueueNext]_queueVars
  /\ WF_queueVars(WorkerStep \/ Described \/ Embedded) /\ WF_queueVars(EnqueueStep)

(***************************************************************************)
(* Properties.                                                             *)
(***************************************************************************)
(* QueueTypeOK: the type invariant; no lane is over its capacity.          *)
QueueTypeOK ==
  /\ lanes \in [Priorities -> SUBSET Jobs] /\ fresh \subseteq Jobs
  /\ \A p \in Priorities : Cardinality(lanes[p]) <= Capacity
  /\ memory \subseteq Jobs /\ gone \subseteq Jobs
  /\ pipe \in [at : {"idle", "push", "count", "start"}, job : 0..NumJobs,
               lane : Priorities, size : Nat]
  /\ worker \in [at : {"none", "pop", "call", "embed", "measure", "settle", "closing"},
                 job : 0..NumJobs]
  /\ stats \in [status : {"idle", "queued", "processing", "failed", "slow", "stalled"},
                backlog : Nat, dropped : Nat, called : BOOLEAN, slow : BOOLEAN]
  /\ spent \in [jobs : 0..NumJobs, faults : 0..MaxFaults, crashes : 0..MaxCrashes]

(* DropsCounted: every job the worker skipped, and every job LTRIM evicted *)
(* in a push whose reply came, is in the dropped counter, though enqueue   *)
(* decides from a size it read before it pushed, with the worker popping   *)
(* in between.  What a lost reply or a lost pop loses is not counted.      *)
DropsCounted ==
  Cardinality(gone) <= stats.dropped + (IF pipe.at = "count" /\ Evicts THEN 1 ELSE 0)

(* StrandedIsNotIdle: until the first restart, when jobs wait and no       *)
(* worker runs or is about to be started, the tile does not say "idle",    *)
(* but "queued", or what update_status makes of it: the idle status is set *)
(* before the broadcast an enqueue can overtake, never after it.           *)
StrandedIsNotIdle ==
  (Laned /= {} /\ worker.at = "none" /\ pipe.at \in {"idle", "push"} /\ spent.crashes = 0)
    => stats.status \in {"queued", "slow", "stalled"}

(* WorkerDrains: while a worker runs and the process stays up, a job that  *)
(* waits in a lane leaves it, when the pipeline offers finitely many       *)
(* frames: an endless stream of high ones would hold the normal lane back. *)
WorkerDrains ==
  \A j \in Jobs : (j \in Laned /\ worker.at = "pop") ~> (j \notin Laned \/ worker.at = "none")

(* What the documentation says and the code does not do.                   *)

(* SurvivorsAreDrained: whatever happens, a queued job leaves its lane.    *)
SurvivorsAreDrained == \A j \in Jobs : j \in Laned ~> j \notin Laned

(* PacingReopens: with nothing queued and nobody at work, the recorded     *)
(* depth does not turn a routine frame away.                               *)
PacingReopens ==
  (Laned = {} /\ worker.at = "none" /\ pipe.at = "idle") => ShouldEnqueue("normal")

(* CeilingHolds: the queue never grows past HIGH_BACKLOG_CAP.              *)
CeilingHolds == Cardinality(Laned) <= HighCap
=============================================================================

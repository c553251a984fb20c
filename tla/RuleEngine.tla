----------------------------- MODULE RuleEngine -----------------------------
(***************************************************************************)
(* The rule engine of the perception process (services/events/engine.py,   *)
(* firing.py), for one rule on one camera: the cached list of rules, the   *)
(* cooldown in a microcache over Redis, and the gates that keep a rule     *)
(* from alerting again and again.  The camera's keyframes are evaluated    *)
(* one after the other, and next to them the events that other workers     *)
(* feed the engine (incidents, camera status).  A step ends where the code *)
(* awaits.                                                                 *)
(***************************************************************************)
EXTENDS Integers, Sequences, FiniteSets

CONSTANTS
  Tracks,       \* track ids of the camera
  Untracked,    \* the key shared by detections that have no track id
  Incidents,    \* incident ids
  NoIncident,
  Rules,        \* the rules to choose from: their gate and cooldown
  CacheTTL,     \* _cache_ttl
  MinFrames,    \* min_frames of a rule
  Window,       \* within_seconds of a rule
  IncidentCap,  \* _INCIDENT_FIRED_MAX
  MaxEval,      \* no evaluation lasts longer than this
  MaxTime,      \* bound: the clock, for a rule of each gate
  Budgets       \* bounds: frames, events, edits, faults and crashes, for a rule of
                \* each gate a set of combinations

ASSUME RuleAssumption ==
  /\ Untracked \notin Tracks /\ NoIncident \notin Incidents
  /\ Rules \subseteq [gate : {"none", "visit", "incident", "frames"}, cooldown : Nat]
  /\ {CacheTTL, MinFrames, Window, IncidentCap, MaxEval} \subseteq Nat \ {0}
  /\ IncidentCap > 1
  /\ \A r \in Rules :
       Budgets[r.gate] \subseteq [frames : Nat, events : Nat, edits : Nat, faults : Nat,
                                 crashes : Nat]

VARIABLES
  clock,
  rule,     \* the rule, as created
  db,       \* whether it is enabled, and since when
  redis,    \* its cooldown key: when it last fired
  engine,   \* the RuleEngine object
  task,     \* the two evaluations that can be under way
  admin,    \* where an edit of the rule stands, and its message to the engine
  left,     \* the tracks that have left the camera, and those on it
  alert,    \* history: the last alert
  history,  \* history: what the engine saw since the process started
  budget    \* what is left of the bounds

vars == <<clock, rule, db, redis, engine, task, admin, left, alert, history, budget>>

Tasks == {"keyframes", "events"}
Keys == Tracks \union {Untracked}
Never == -1000

NoFrame == [present |-> {}, match |-> {}, twice |-> FALSE, incident |-> NoIncident]
Idle == [at |-> "idle", frame |-> NoFrame, begun |-> 0, now |-> 0,
         listed |-> FALSE, stale |-> FALSE, blind |-> FALSE, kept |-> FALSE]

NoStreak == [first |-> Never, count |-> 0]
NewEngine ==
  [listed |-> FALSE, loadedAt |-> Never, micro |-> [at |-> Never, fired |-> Never],
   visits |-> {}, incidents |-> <<>>, streaks |-> [k \in Keys |-> NoStreak]]

NewHistory ==
  [noticed |-> {},  \* the tracks in frames that passed,
   alerted |-> {},  \* in frames whose alert was made,
   unheard |-> {},  \* and in frames whose event could not be stored
   untracked |-> FALSE,  \* a match without a track was in a frame that passed
   others |-> [i \in Incidents |-> Never], seen |-> [k \in Keys |-> <<>>]]

Spend(what) == budget[what] > 0 /\ budget' = [budget EXCEPT ![what] = @ - 1]
Fault == Spend("faults")

Init ==
  /\ clock = 0 /\ rule \in Rules
  /\ db = [enabled |-> TRUE, since |-> 0] /\ redis = Never
  /\ engine = NewEngine /\ task = [t \in Tasks |-> Idle]
  /\ admin = [at |-> "idle", mail |-> FALSE]
  /\ left = [gone |-> {}, here |-> {}]
  /\ alert = [now |-> Never, kept |-> FALSE] /\ history = NewHistory
  /\ budget \in Budgets[rule.gate]

(***************************************************************************)
(* What is evaluated.                                                      *)
(***************************************************************************)
(* A keyframe: the tracks the tracker holds, which may have been missed in  *)
(* this frame, the keys of the detections the trigger matches, of which two *)
(* may have no track (the tracker follows some labels only), the incident.  *)
(* A track id that has left does not come back.  What the rule's gate does  *)
(* not read is not varied.                                                  *)
Keyframes ==
  {f \in [present : SUBSET (Tracks \ left.gone), match : SUBSET Keys, twice : BOOLEAN,
          incident : Incidents \union {NoIncident}] :
     /\ f.match \subseteq f.present \union {Untracked}
     /\ f.twice => Untracked \in f.match
     /\ CASE rule.gate = "visit" -> ~f.twice /\ f.incident = NoIncident
          [] rule.gate = "frames" -> f.present = f.match \ {Untracked} /\ f.incident = NoIncident
          [] rule.gate = "incident" -> f.match = {Untracked} /\ f.present = {} /\ ~f.twice
          [] rule.gate = "none" -> f = [NoFrame EXCEPT !.match = {Untracked}]}

Set(t, changes) == task' = [task EXCEPT ![t] = changes]
GoTo(t, at) == Set(t, [task[t] EXCEPT !.at = at])

(* evaluate begins: the rules are loaded again when the list is too old.   *)
Begin(t, f) ==
  /\ task[t].at = "idle"
  /\ Set(t, [Idle EXCEPT !.frame = f, !.begun = clock,
               !.at = IF clock - engine.loadedAt < CacheTTL THEN "loop" ELSE "query"])
  /\ UNCHANGED <<clock, rule, db, redis, engine, admin, alert, history>>

EvaluateKeyframe(f) ==
  /\ Spend("frames")
  /\ Begin("keyframes", f)
  /\ left' = [gone |-> left.gone \union (left.here \ f.present), here |-> f.present]

(* The payload of an event names the camera and carries no tracks.         *)
EvaluateEvent ==
  /\ Spend("events")
  /\ Begin("events", NoFrame)
  /\ UNCHANGED left

(***************************************************************************)
(* _maybe_reload_rules.                                                    *)
(***************************************************************************)
Query(t) ==
  /\ task[t].at = "query"
  /\ Set(t, [task[t] EXCEPT !.at = "install", !.listed = db.enabled])
  /\ UNCHANGED <<clock, rule, db, redis, engine, admin, left, alert, history, budget>>

(* Fault: the failed load counts as one. *)
QueryFailsStamped(t) ==
  /\ task[t].at = "query" /\ Fault
  /\ Set(t, [task[t] EXCEPT !.at = "loop", !.stale = TRUE])
  /\ engine' = [engine EXCEPT !.loadedAt = task[t].begun]
  /\ UNCHANGED <<clock, rule, db, redis, admin, left, alert, history>>

(* "Failed to load rules": on with the list there is.                      *)
QueryFails(t) ==
  /\ task[t].at = "query" /\ Fault
  /\ Set(t, [task[t] EXCEPT !.at = "loop", !.stale = TRUE])
  /\ UNCHANGED <<clock, rule, db, redis, engine, admin, left, alert, history>>

Install(t) ==
  /\ task[t].at = "install"
  /\ engine' = [engine EXCEPT !.listed = task[t].listed]
  /\ Set(t, [task[t] EXCEPT !.at = "stamp", !.listed = FALSE])
  /\ UNCHANGED <<clock, rule, db, redis, admin, left, alert, history, budget>>

(* The session is closed in between; the time is that of the beginning.    *)
Stamp(t) ==
  /\ task[t].at = "stamp"
  /\ engine' = [engine EXCEPT !.loadedAt = task[t].begun]
  /\ GoTo(t, "loop")
  /\ UNCHANGED <<clock, rule, db, redis, admin, left, alert, history, budget>>

(* The loop is over the list as it is now; other rules come first.         *)
Loop(t) ==
  /\ task[t].at = "loop"
  /\ Set(t, IF engine.listed THEN [task[t] EXCEPT !.at = "match"] ELSE Idle)
  /\ UNCHANGED <<clock, rule, db, redis, engine, admin, left, alert, history, budget>>

(***************************************************************************)
(* The trigger and the gates.                                              *)
(***************************************************************************)
(* _prune_visit_state: whoever the payload does not show has left.         *)
Pruned(e, f) ==
  IF rule.gate = "visit" THEN [e EXCEPT !.visits = @ \intersect f.present] ELSE e

(* _check_persistence, for each detection that matches.                    *)
Sightings(f, k) == IF k \notin f.match THEN 0 ELSE IF k = Untracked /\ f.twice THEN 2 ELSE 1
Lapsed(streak) == clock - streak.first > Window
(* Fault: the window never ends a streak. *)
ExtendForever(streak, n) ==
  IF streak = NoStreak THEN [first |-> clock, count |-> n] ELSE [streak EXCEPT !.count = @ + n]

Extend(streak, n) ==
  IF streak = NoStreak \/ Lapsed(streak) THEN [first |-> clock, count |-> n]
  ELSE [streak EXCEPT !.count = @ + n]
Counted(e, f) ==
  IF rule.gate = "frames"
  THEN [e EXCEPT !.streaks = [k \in Keys |-> IF k \in f.match
                                             THEN Extend(@[k], Sightings(f, k)) ELSE @[k]]]
  ELSE e

Matches(e, f) ==
  /\ f.match /= {}
  /\ rule.gate = "frames" => \E k \in f.match : e.streaks[k].count >= MinFrames

InCooldown(now, last) ==
  rule.cooldown > 0 /\ last /= Never /\ now - last < rule.cooldown

(* Fault: one subject alerted for is enough to mute the frame. *)
MutedByAny(e, f) ==
  \/ rule.gate = "visit" /\ f.present \intersect e.visits /= {}
  \/ rule.gate = "incident" /\ \E n \in DOMAIN e.incidents : e.incidents[n] = f.incident

(* _visit_already_fired and _incident_already_fired: is the frame muted,   *)
(* and what is recorded when it is not.                                    *)
Muted(e, f) ==
  \/ rule.gate = "visit" /\ f.present /= {} /\ f.present \subseteq e.visits
  \/ rule.gate = "incident" /\ \E n \in DOMAIN e.incidents : e.incidents[n] = f.incident

(* Fault: cleared. *)
TrimmedWhole(s) == IF Len(s) >= IncidentCap THEN <<>> ELSE s

Trimmed(s) ==
  IF Len(s) >= IncidentCap THEN SubSeq(s, Len(s) \div 2 + 1, Len(s)) ELSE s
Recorded(e, f) ==
  CASE rule.gate = "visit" -> [e EXCEPT !.visits = @ \union f.present]
    [] rule.gate = "incident" /\ f.incident /= NoIncident ->
         [e EXCEPT !.incidents = Append(Trimmed(@), f.incident)]
    [] OTHER -> e

Noted(h, f) ==
  [h EXCEPT !.noticed = @ \union f.present,
            !.untracked = @ \/ Untracked \in f.match,
            !.others = [i \in Incidents |->
                          IF i = f.incident THEN 0
                          ELSE IF @[i] = Never \/ f.incident = NoIncident THEN @[i] ELSE @[i] + 1]]
Witnessed(h, f) ==
  IF rule.gate = "frames"
  THEN [h EXCEPT !.seen = [k \in Keys |->
                             @[k] \o [n \in 1..Sightings(f, k) |-> clock]]]
  ELSE h

(* From the cooldown to the gates no task takes over.  last is when the    *)
(* rule last fired, as far as the engine could tell.                       *)
Decide(t, e, h, now, last, blind) ==
  LET f == task[t].frame IN
  IF InCooldown(now, last) \/ Muted(e, f)
  THEN Set(t, Idle) /\ engine' = e /\ history' = h
  ELSE /\ Set(t, [task[t] EXCEPT !.at = "claim", !.now = now, !.blind = blind])
       /\ engine' = Recorded(e, f)
       /\ history' = Noted(h, f)

MicroHit == clock = engine.micro.at

(* The trigger; without a cooldown, or when the microcache answers, the    *)
(* decision follows at once.                                               *)
Match(t) ==
  LET f == task[t].frame
      e == Counted(Pruned(engine, f), f)
      h == Witnessed(history, f)
  IN /\ task[t].at = "match"
     /\ \/ /\ ~Matches(e, f)
           /\ Set(t, Idle) /\ engine' = e /\ history' = h
        \/ /\ Matches(e, f) /\ (rule.cooldown = 0 \/ MicroHit)
           /\ Decide(t, e, h, clock, e.micro.fired, FALSE)
        \/ /\ Matches(e, f) /\ rule.cooldown > 0 /\ ~MicroHit
           /\ Set(t, [task[t] EXCEPT !.at = "read", !.now = clock])
           /\ engine' = e /\ history' = h
     /\ UNCHANGED <<clock, rule, db, redis, admin, left, alert, budget>>

(* _read_cooldown: Redis decides, and having nothing clears the microcache. *)
ReadCooldown(t) ==
  LET micro == IF redis = Never THEN NewEngine.micro ELSE [at |-> clock, fired |-> redis] IN
  /\ task[t].at = "read"
  /\ Decide(t, [engine EXCEPT !.micro = micro], history, task[t].now, redis, FALSE)
  /\ UNCHANGED <<clock, rule, db, redis, admin, left, alert, budget>>

(* Redis fails: the microcache, however old.                               *)
ReadFails(t) ==
  /\ task[t].at = "read" /\ Fault
  /\ Decide(t, engine, history, task[t].now, engine.micro.fired, engine.micro.fired = Never)
  /\ UNCHANGED <<clock, rule, db, redis, admin, left, alert>>

(***************************************************************************)
(* Firing.                                                                 *)
(***************************************************************************)
(* Fault: the microcache keeps what it last read. *)
ClaimRedisOnly(t) ==
  /\ task[t].at = "claim"
  /\ GoTo(t, IF rule.cooldown > 0 THEN "set" ELSE "fire")
  /\ UNCHANGED <<clock, rule, db, redis, engine, admin, left, alert, history, budget>>

(* The evaluation is recorded; _write_cooldown begins with the microcache. *)
Claim(t) ==
  /\ task[t].at = "claim"
  /\ IF rule.cooldown > 0
     THEN /\ engine' = [engine EXCEPT !.micro = [at |-> task[t].now, fired |-> task[t].now]]
          /\ GoTo(t, "set")
     ELSE UNCHANGED engine /\ GoTo(t, "fire")
  /\ UNCHANGED <<clock, rule, db, redis, admin, left, alert, history, budget>>

SetCooldown(t) ==
  /\ task[t].at = "set"
  /\ redis' = task[t].now
  /\ Set(t, [task[t] EXCEPT !.at = "fire", !.kept = TRUE])
  /\ UNCHANGED <<clock, rule, db, engine, admin, left, alert, history, budget>>

SetFails(t) ==
  /\ task[t].at = "set" /\ Fault
  /\ GoTo(t, "fire")
  /\ UNCHANGED <<clock, rule, db, redis, engine, admin, left, alert, history>>

(* _fire: the event is stored and the action chain runs.                   *)
Fire(t) ==
  /\ task[t].at = "fire"
  /\ alert' = [now |-> task[t].now, kept |-> task[t].kept]
  /\ history' = [history EXCEPT !.alerted = @ \union task[t].frame.present]
  /\ Set(t, Idle)
  /\ UNCHANGED <<clock, rule, db, redis, engine, admin, left, budget>>

(* store_event fails: no actions, and no alert; the gates keep what they   *)
(* recorded.                                                               *)
StoreFails(t) ==
  /\ task[t].at = "fire" /\ Fault
  /\ history' = [history EXCEPT !.unheard = @ \union task[t].frame.present]
  /\ Set(t, Idle)
  /\ UNCHANGED <<clock, rule, db, redis, engine, admin, left, alert>>

(***************************************************************************)
(* Edits of the rule, in the API process; the world.                       *)
(***************************************************************************)
Edit(enabled) ==
  /\ admin.at = "idle" /\ Spend("edits")
  /\ db' = IF enabled = db.enabled THEN db ELSE [enabled |-> enabled, since |-> clock]
  /\ admin' = [admin EXCEPT !.at = "publish"]
  /\ UNCHANGED <<clock, rule, redis, engine, task, left, alert, history>>

(* _publish_invalidation, best effort: the message, then the cooldown key. *)
Publish ==
  /\ admin.at = "publish"
  /\ admin' = [at |-> "delete", mail |-> TRUE]
  /\ UNCHANGED <<clock, rule, db, redis, engine, task, left, alert, history, budget>>

PublishFails ==
  /\ admin.at = "publish" /\ Fault
  /\ admin' = [admin EXCEPT !.at = "idle"]
  /\ UNCHANGED <<clock, rule, db, redis, engine, task, left, alert, history>>

(* An edited rule starts from a clean slate.                               *)
DeleteCooldown ==
  /\ admin.at = "delete"
  /\ admin' = [admin EXCEPT !.at = "idle"]
  /\ redis' = Never
  /\ alert' = [alert EXCEPT !.kept = FALSE]
  /\ task' = [t \in Tasks |-> [task[t] EXCEPT !.kept = FALSE]]
  /\ UNCHANGED <<clock, rule, db, engine, left, history, budget>>

(* _invalidation_loop.                                                     *)
Invalidate ==
  /\ admin.mail
  /\ admin' = [admin EXCEPT !.mail = FALSE]
  /\ engine' = [engine EXCEPT !.loadedAt = Never]
  /\ UNCHANGED <<clock, rule, db, redis, task, left, alert, history, budget>>

Tick ==
  /\ clock < MaxTime[rule.gate]
  /\ \A t \in Tasks : task[t].at /= "idle" => clock - task[t].begun < MaxEval
  /\ clock' = clock + 1
  /\ UNCHANGED <<rule, db, redis, engine, task, admin, left, alert, history, budget>>

(* The process restarts, and the trackers with it.                         *)
Crash ==
  /\ Spend("crashes")
  /\ engine' = NewEngine /\ task' = [t \in Tasks |-> Idle]
  /\ admin' = [admin EXCEPT !.mail = FALSE]
  /\ left' = [gone |-> {}, here |-> {}]
  /\ history' = NewHistory
  /\ UNCHANGED <<clock, rule, db, redis, alert>>

Evaluation(t) ==
  \/ Query(t) \/ QueryFails(t) \/ Install(t) \/ Stamp(t) \/ Loop(t) \/ Match(t)
  \/ ReadCooldown(t) \/ ReadFails(t) \/ Claim(t) \/ SetCooldown(t) \/ SetFails(t)
  \/ Fire(t) \/ StoreFails(t)

Next ==
  \/ \E f \in Keyframes : EvaluateKeyframe(f)
  \/ EvaluateEvent
  \/ \E t \in Tasks : Evaluation(t)
  \/ \E enabled \in BOOLEAN : Edit(enabled)
  \/ Publish \/ PublishFails \/ DeleteCooldown \/ Invalidate
  \/ Tick \/ Crash

Spec == Init /\ [][Next]_vars

(***************************************************************************)
(* Properties.                                                             *)
(***************************************************************************)
(* TypeOK: the type invariant.                                             *)
Moments == Nat \union {Never}
Frames ==
  [present : SUBSET Tracks, match : SUBSET Keys, twice : BOOLEAN,
   incident : Incidents \union {NoIncident}]
Engines ==
  [listed : BOOLEAN, loadedAt : Moments, micro : [at : Moments, fired : Moments],
   visits : SUBSET Tracks, incidents : Seq(Incidents),
   streaks : [Keys -> [first : Moments, count : Nat]]]
Evaluations ==
  [at : {"idle", "query", "install", "stamp", "loop", "match", "read", "claim", "set", "fire"},
   frame : Frames, begun : Nat, now : Nat, listed : BOOLEAN, stale : BOOLEAN,
   blind : BOOLEAN, kept : BOOLEAN]
Histories ==
  [noticed : SUBSET Tracks, alerted : SUBSET Tracks, unheard : SUBSET Tracks,
   untracked : BOOLEAN, others : [Incidents -> Moments], seen : [Keys -> Seq(Nat)]]

TypeOK ==
  /\ clock \in Nat /\ rule \in Rules
  /\ db \in [enabled : BOOLEAN, since : Nat] /\ redis \in Moments
  /\ engine \in Engines /\ task \in [Tasks -> Evaluations]
  /\ admin \in [at : {"idle", "publish", "delete"}, mail : BOOLEAN]
  /\ left \in [gone : SUBSET Tracks, here : SUBSET Tracks]
  /\ alert \in [now : Moments, kept : BOOLEAN] /\ history \in Histories
  /\ budget \in [frames : Nat, events : Nat, edits : Nat, faults : Nat, crashes : Nat]

(* The last steps of an evaluation the properties speak of.                *)
Passes(t) == task[t].at \in {"match", "read"} /\ task'[t].at = "claim"
Drops(t) ==
  /\ task[t].at \in {"match", "read"} /\ task'[t].at = "idle"
  /\ budget'.crashes = budget.crashes
Alerts(t) == task[t].at = "fire" /\ task'[t].at = "idle" /\ budget' = budget

(* CooldownHolds: two alerts of a rule are a cooldown apart, across         *)
(* restarts and failed reads, unless the rule was edited in between, the    *)
(* first one's SET failed, or a new process could not read the key.         *)
CooldownHolds ==
  [][\A t \in Tasks :
       (Alerts(t) /\ alert.kept /\ ~task[t].blind) => task[t].now - alert.now >= rule.cooldown]_vars

(* IncidentOnce: an incident a rule has passed is not passed again before   *)
(* so many others that half of a full map cannot hold them.                 *)
IncidentOnce ==
  [][\A t \in Tasks : (Passes(t) /\ rule.gate = "incident" /\ task[t].frame.incident /= NoIncident) =>
       LET others == history.others[task[t].frame.incident] IN
       others = Never \/ others > IncidentCap - IncidentCap \div 2]_vars

(* VisitMutesOnlyAlerted: a frame the visit gate drops shows tracks, and    *)
(* each of them was there when an alert was made, or when one could not be  *)
(* stored: the gate remembers a track long before the alert it stands for,  *)
(* and events that show no tracks prune its memory in between.  A subject   *)
(* without a track is muted with the tracks around it.                      *)
VisitMutesOnlyAlerted ==
  [][\A t \in Tasks :
       (Drops(t) /\ task[t].frame.match /= {} /\ rule.gate = "visit" /\ rule.cooldown = 0) =>
         /\ task[t].frame.present /= {}
         /\ task[t].frame.present \subseteq history.alerted \union history.unheard]_vars

(* RuleFreshness: a rule that was disabled does not alert for an evaluation *)
(* begun later than the cache's age and one evaluation after that, however  *)
(* invalidations are lost or overwritten and reloads overtake each other.   *)
(* Evaluations whose own reload failed are excepted.                        *)
RuleFreshness ==
  [][\A t \in Tasks : (Alerts(t) /\ ~db.enabled /\ ~task[t].stale) =>
       task[t].begun < db.since + CacheTTL + MaxEval]_vars

(* FramesInWindow: an alert of a min_frames rule has that many sightings of *)
(* one key within the window, none of them counted from an older streak.    *)
FramesInWindow ==
  [][\A t \in Tasks : (Passes(t) /\ rule.gate = "frames") =>
       \E k \in task[t].frame.match :
         Cardinality({n \in DOMAIN history'.seen[k] :
                        task'[t].now - history'.seen[k][n] <= Window}) >= MinFrames]_vars

(* What the comments say and the code does not do.                         *)

(* VisitOnce: a rule that alerts once per visit passes a frame with tracks  *)
(* only for somebody who was not there when an earlier frame passed.        *)
VisitOnce ==
  [][\A t \in Tasks :
       (Passes(t) /\ rule.gate = "visit" /\ task[t].frame.present /= {}) =>
         ~(task[t].frame.present \subseteq history.noticed)]_vars

(* VisitHearsTheUntracked: a subject without a track is not muted by the    *)
(* tracks around it before a frame with such a subject has passed.          *)
VisitHearsTheUntracked ==
  [][\A t \in Tasks :
       (Drops(t) /\ Untracked \in task[t].frame.match /\ rule.gate = "visit" /\ rule.cooldown = 0)
         => history.untracked]_vars

(* HotFrameIsNotEnough: sightings of one keyframe do not make an alert.     *)
HotFrameIsNotEnough ==
  [][\A t \in Tasks : (Passes(t) /\ rule.gate = "frames" /\ MinFrames > 1) =>
       \E k \in task[t].frame.match : Len(history.seen[k]) > 0]_vars
=============================================================================

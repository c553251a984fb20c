-------------------------- MODULE RuleEngineProofs --------------------------
(***************************************************************************)
(* The rule engine, for any rules, tracks, incidents, windows and bounds.  *)
(* Its action properties speak of what an evaluation does in the end; IInv *)
(* carries what the evaluation read, and what the engine remembers, from   *)
(* the beginning to there.                                                 *)
(***************************************************************************)
EXTENDS RuleEngine, SequenceTheorems, FiniteSetTheorems, TLAPS

Firing == {"claim", "set", "fire"}

(* Only the camera's keyframes match: events reload and prune, no more.    *)
SerialInv ==
  /\ task["events"].frame.match = {}
  /\ task["events"].at \notin Firing \union {"read"}

(* Nothing is dated later than now, and no evaluation is overdue.          *)
TimeInv ==
  /\ db.since <= clock /\ engine.loadedAt <= clock /\ alert.now <= clock
  /\ \A t \in Tasks :
       /\ task[t].begun <= clock /\ task[t].now <= clock
       /\ task[t].at /= "idle" => clock - task[t].begun <= MaxEval

(* What an engine e remembers, against the history h.                      *)
(* Visits: whoever is muted has been on camera when a frame passed.        *)
(* Incidents: one that passed is still in the map, with no more behind it  *)
(* than have passed since, or has been followed by half a map of others.   *)
(* Frames: a streak has counted sightings no older than its first.         *)
Outlived(others) == others > IncidentCap - IncidentCap \div 2
Placed(s, i, others) == \E n \in 1..Len(s) : s[n] = i /\ others >= Len(s) - n
Backed(streak, s) ==
  /\ streak.first <= clock /\ streak.count <= Len(s)
  /\ \A n \in 1..Len(s) : n > Len(s) - streak.count => s[n] >= streak.first

VisitInv(e, h) == rule.gate = "visit" => e.visits \subseteq h.noticed
IncidentInv(e, h) ==
  rule.gate = "incident" =>
    /\ Len(e.incidents) <= IncidentCap
    /\ \A i \in Incidents : \/ h.others[i] = Never \/ Outlived(h.others[i])
                            \/ Placed(e.incidents, i, h.others[i])
FramesInv(e, h) ==
  rule.gate = "frames" => \A k \in Keys : Backed(e.streaks[k], h.seen[k])
GateInv(e, h) == VisitInv(e, h) /\ IncidentInv(e, h) /\ FramesInv(e, h)

(* An evaluation that waits for the cooldown has matched, with enough      *)
(* sightings behind it.                                                    *)
Enough(s, now) ==
  \E i \in 0..Len(s) : /\ i + MinFrames <= Len(s)
                       /\ \A n \in (i + 1)..(i + MinFrames) : now - s[n] <= Window
Matched(f, h, now) ==
  /\ f.match /= {}
  /\ rule.gate = "frames" => \E k \in f.match : Enough(h.seen[k], now)
ReadInv ==
  \A t \in Tasks :
    /\ task[t].at \in {"read", "set"} => rule.cooldown > 0
    /\ task[t].at = "read" => Matched(task[t].frame, history, task[t].now)

(* What the engine and Redis know of the last alert that was recorded.     *)
CooldownInv ==
  LET K == task["keyframes"] IN
  /\ engine.micro.at = Never <=> engine.micro.fired = Never
  /\ alert.kept => /\ redis /= Never /\ redis >= alert.now
                   /\ engine.micro.fired = Never \/ engine.micro.fired >= alert.now
  /\ K.at \in Firing \union {"read"} => alert.now <= K.now
  /\ (K.at \in Firing /\ alert.kept /\ ~K.blind) => K.now - alert.now >= rule.cooldown
  /\ (K.at \in {"set", "fire"} /\ rule.cooldown > 0) => engine.micro.fired = K.now
  /\ K.kept => K.at = "fire" /\ redis = K.now /\ rule.cooldown > 0

(* A list loaded before the rule was disabled is dated, or will be, before *)
(* the last evaluation that could have read it has ended.                  *)
InTime(begun) == begun < db.since + CacheTTL + MaxEval
FreshInv ==
  ~db.enabled =>
    /\ \A t \in Tasks :
         /\ task[t].at = "install" /\ task[t].listed => task[t].begun <= db.since
         /\ task[t].at \in Firing \union {"match", "read"} /\ ~task[t].stale =>
              InTime(task[t].begun)
    /\ engine.listed =>
         /\ engine.loadedAt <= db.since + MaxEval
         /\ \A t \in Tasks :
              /\ task[t].at = "stamp" => task[t].begun <= db.since + MaxEval
              /\ task[t].at = "loop" /\ ~task[t].stale => InTime(task[t].begun)

RestInv ==
  SerialInv /\ TimeInv /\ GateInv(engine, history) /\ ReadInv /\ CooldownInv /\ FreshInv

(* IInv: the inductive invariant.                                          *)
IInv == TypeOK /\ RestInv

(***************************************************************************)
(* Types.                                                                  *)
(***************************************************************************)
LEMMA IdleType == Idle \in Evaluations
BY DEF Idle, Evaluations, NoFrame, Frames, Keys

LEMMA NewEngineType ==
  NewEngine \in Engines
<1>1. <<>> \in Seq(Incidents)
  OBVIOUS
<1> QED
  BY <1>1 DEF NewEngine, Engines, NoStreak, Moments, Never, Keys

LEMMA NewHistoryType == NewHistory \in Histories
<1>1. <<>> \in Seq(Nat)
  OBVIOUS
<1> QED
  BY <1>1 DEF NewHistory, Histories, Moments, Never

LEMMA KeyframeType ==
  ASSUME NEW f \in Keyframes
  PROVE  f \in Frames
BY DEF Keyframes, Frames

(* What the trigger and the gates make of an engine and a history.         *)
LEMMA PrunedType ==
  ASSUME NEW e \in Engines, NEW f \in Frames
  PROVE  Pruned(e, f) \in Engines
BY DEF Pruned, Engines

LEMMA SightingsType ==
  ASSUME NEW f \in Frames, NEW k
  PROVE  Sightings(f, k) \in Nat
BY DEF Sightings

LEMMA ExtendType ==
  ASSUME clock \in Nat, NEW n \in Nat, NEW streak \in [first : Moments, count : Nat]
  PROVE  Extend(streak, n) \in [first : Moments, count : Nat]
BY DEF Extend, Moments

LEMMA CountedType ==
  ASSUME clock \in Nat, NEW e \in Engines, NEW f \in Frames
  PROVE  Counted(e, f) \in Engines
<1> DEFINE next(k) == IF k \in f.match THEN Extend(e.streaks[k], Sightings(f, k))
                      ELSE e.streaks[k]
<1>1. ASSUME NEW k \in Keys
      PROVE  next(k) \in [first : Moments, count : Nat]
  <2>1. e.streaks[k] \in [first : Moments, count : Nat]
    BY <1>1 DEF Engines
  <2> QED
    BY <2>1, SightingsType, ExtendType
<1> HIDE DEF next
<1>2. [k \in Keys |-> next(k)] \in [Keys -> [first : Moments, count : Nat]]
  BY <1>1
<1>3. Counted(e, f) = IF rule.gate = "frames"
                      THEN [e EXCEPT !.streaks = [k \in Keys |-> next(k)]] ELSE e
  BY DEF Counted, next
<1> QED
  BY <1>2, <1>3 DEF Engines

LEMMA TrimmedFacts ==
  ASSUME NEW s \in Seq(Incidents)
  PROVE  /\ Trimmed(s) \in Seq(Incidents)
         /\ Len(s) < IncidentCap => Trimmed(s) = s
         /\ Len(s) >= IncidentCap =>
              /\ Len(Trimmed(s)) = Len(s) - Len(s) \div 2
              /\ \A n \in 1..Len(Trimmed(s)) : Trimmed(s)[n] = s[n + Len(s) \div 2]
<1> DEFINE half == Len(s) \div 2
<1>1. Len(s) \in Nat /\ IncidentCap \in Nat /\ half \in Nat /\ half <= Len(s)
  BY LenProperties, RuleAssumption
<1> HIDE DEF half
<1>2. CASE Len(s) < IncidentCap
  <2>1. Trimmed(s) = s
    BY <1>1, <1>2 DEF Trimmed
  <2> QED
    BY <1>1, <1>2, <2>1
<1>3. CASE Len(s) >= IncidentCap
  <2>1. Trimmed(s) = SubSeq(s, half + 1, Len(s))
    BY <1>3 DEF Trimmed, half
  <2>2. /\ SubSeq(s, half + 1, Len(s)) \in Seq(Incidents)
        /\ Len(SubSeq(s, half + 1, Len(s))) = Len(s) - half
        /\ \A n \in 1..(Len(s) - half) :
             SubSeq(s, half + 1, Len(s))[n] = s[n + half]
    BY <1>1
  <2>3. half = Len(s) \div 2
    BY DEF half
  <2>4. \A n \in 1..Len(Trimmed(s)) : Trimmed(s)[n] = s[n + half]
    BY <1>1, <2>1, <2>2
  <2>5. Len(Trimmed(s)) = Len(s) - half
    BY <2>1, <2>2
  <2>6. Trimmed(s) \in Seq(Incidents) /\ ~(Len(s) < IncidentCap)
    BY <1>1, <1>3, <2>1, <2>2
  <2> QED
    BY <2>3, <2>4, <2>5, <2>6, Zenon
<1> QED
  BY <1>1, <1>2, <1>3

LEMMA RecordedType ==
  ASSUME NEW e \in Engines, NEW f \in Frames
  PROVE  Recorded(e, f) \in Engines
<1>1. CASE rule.gate = "incident" /\ f.incident /= NoIncident
  <2>1. f.incident \in Incidents
    BY <1>1 DEF Frames
  <2>2. e.incidents \in Seq(Incidents)
    BY DEF Engines
  <2>3. Append(Trimmed(e.incidents), f.incident) \in Seq(Incidents)
    BY <2>1, <2>2, TrimmedFacts, AppendProperties
  <2>4. Recorded(e, f) = [e EXCEPT !.incidents = Append(Trimmed(@), f.incident)]
    BY <1>1 DEF Recorded
  <2> QED
    BY <2>3, <2>4 DEF Engines
<1>2. CASE rule.gate = "visit"
  BY <1>2 DEF Recorded, Engines, Frames
<1>3. CASE rule.gate /= "visit" /\ ~(rule.gate = "incident" /\ f.incident /= NoIncident)
  <2>1. Recorded(e, f) = e
    BY <1>3 DEF Recorded
  <2> QED
    BY <2>1
<1> QED
  BY <1>1, <1>2, <1>3

LEMMA NotedType ==
  ASSUME NEW h \in Histories, NEW f \in Frames
  PROVE  Noted(h, f) \in Histories
<1> DEFINE next(i) == IF i = f.incident THEN 0
                      ELSE IF h.others[i] = Never \/ f.incident = NoIncident
                           THEN h.others[i] ELSE h.others[i] + 1
<1>1. \A i \in Incidents : h.others[i] \in Moments
  BY DEF Histories
<1>2. \A i \in Incidents : next(i) \in Moments
  BY <1>1 DEF Moments, Never
<1> HIDE DEF next
<1>3. [i \in Incidents |-> next(i)] \in [Incidents -> Moments]
  BY <1>2
<1>4. Noted(h, f) = [h EXCEPT !.noticed = @ \union f.present,
                              !.untracked = @ \/ Untracked \in f.match,
                              !.others = [i \in Incidents |-> next(i)]]
  BY DEF Noted, next
<1>5. h.noticed \union f.present \in SUBSET Tracks
  BY DEF Histories, Frames
<1> DEFINE untracked == h.untracked \/ Untracked \in f.match
<1>6. untracked \in BOOLEAN
  BY Zenon DEF Histories
<1>7. Noted(h, f) = [h EXCEPT !.noticed = @ \union f.present, !.untracked = untracked,
                              !.others = [i \in Incidents |-> next(i)]]
  BY <1>4, Zenon
<1> HIDE DEF untracked
<1> QED
  BY <1>3, <1>5, <1>6, <1>7 DEF Histories

LEMMA WitnessedFacts ==
  ASSUME clock \in Nat, NEW h \in Histories, NEW f \in Frames
  PROVE  /\ Witnessed(h, f) \in Histories
         /\ Witnessed(h, f).noticed = h.noticed /\ Witnessed(h, f).others = h.others
         /\ Witnessed(h, f).alerted = h.alerted /\ Witnessed(h, f).unheard = h.unheard
         /\ rule.gate = "frames" =>
              \A k \in Keys :
                LET s == Witnessed(h, f).seen[k] IN
                /\ Len(s) = Len(h.seen[k]) + Sightings(f, k)
                /\ \A n \in 1..Len(h.seen[k]) : s[n] = h.seen[k][n]
                /\ \A n \in 1..Len(s) : n > Len(h.seen[k]) => s[n] = clock
<1> DEFINE more(k) == [n \in 1..Sightings(f, k) |-> clock]
           next(k) == h.seen[k] \o more(k)
<1>1. ASSUME NEW k \in Keys
      PROVE  /\ next(k) \in Seq(Nat)
             /\ Len(next(k)) = Len(h.seen[k]) + Sightings(f, k)
             /\ \A n \in 1..Len(h.seen[k]) : next(k)[n] = h.seen[k][n]
             /\ \A n \in 1..Len(next(k)) : n > Len(h.seen[k]) => next(k)[n] = clock
  <2>1. h.seen[k] \in Seq(Nat)
    BY <1>1 DEF Histories
  <2>2. Sightings(f, k) \in Nat
    BY SightingsType
  <2>3. more(k) \in Seq(Nat) /\ Len(more(k)) = Sightings(f, k)
    BY <2>2
  <2>4. \A n \in 1..Sightings(f, k) : more(k)[n] = clock
    BY <2>2
  <2> HIDE DEF more
  <2>5. /\ next(k) \in Seq(Nat)
        /\ Len(next(k)) = Len(h.seen[k]) + Len(more(k))
        /\ \A n \in 1..(Len(h.seen[k]) + Len(more(k))) :
             next(k)[n] = IF n <= Len(h.seen[k]) THEN h.seen[k][n]
                          ELSE more(k)[n - Len(h.seen[k])]
    BY <2>1, <2>3, ConcatProperties
  <2>6. Len(h.seen[k]) \in Nat
    BY <2>1, LenProperties
  <2> HIDE DEF next
  <2>7. Len(next(k)) = Len(h.seen[k]) + Sightings(f, k)
    BY <2>3, <2>5
  <2>8. ASSUME NEW n \in 1..Len(h.seen[k])
        PROVE  next(k)[n] = h.seen[k][n]
    <3>1. n \in 1..(Len(h.seen[k]) + Len(more(k))) /\ n <= Len(h.seen[k])
      BY <2>2, <2>3, <2>6
    <3> QED
      BY <2>5, <3>1
  <2>9. ASSUME NEW n \in 1..Len(next(k)), n > Len(h.seen[k])
        PROVE  next(k)[n] = clock
    <3>1. n - Len(h.seen[k]) \in 1..Sightings(f, k)
      BY <2>2, <2>6, <2>7, <2>9
    <3>2. next(k)[n] = more(k)[n - Len(h.seen[k])]
      BY <2>2, <2>3, <2>5, <2>6, <2>7, <2>9
    <3> QED
      BY <2>4, <3>1, <3>2
  <2> QED
    BY <2>5, <2>7, <2>8, <2>9
<1> HIDE DEF next
<1>2. [k \in Keys |-> next(k)] \in [Keys -> Seq(Nat)]
  BY <1>1
<1>3. Witnessed(h, f) = IF rule.gate = "frames"
                        THEN [h EXCEPT !.seen = [k \in Keys |-> next(k)]] ELSE h
  BY DEF Witnessed, next, more
<1>4. Witnessed(h, f) \in Histories
  BY <1>2, <1>3 DEF Histories
<1>5. /\ Witnessed(h, f).noticed = h.noticed /\ Witnessed(h, f).others = h.others
      /\ Witnessed(h, f).alerted = h.alerted /\ Witnessed(h, f).unheard = h.unheard
  BY <1>3 DEF Histories
<1>6. rule.gate = "frames" => \A k \in Keys : Witnessed(h, f).seen[k] = next(k)
  BY <1>3 DEF Histories
<1> QED
  BY <1>1, <1>4, <1>5, <1>6

LEMMA DecideFacts ==
  ASSUME TypeOK, NEW t \in Tasks, NEW e \in Engines, NEW h \in Histories,
         NEW now \in Nat, NEW last, NEW blind \in BOOLEAN,
         Decide(t, e, h, now, last, blind)
  PROVE  /\ task' \in [Tasks -> Evaluations]
         /\ engine' \in Engines /\ history' \in Histories
<1> DEFINE f == task[t].frame
<1>1. task[t] \in Evaluations /\ f \in Frames
  BY DEF TypeOK, Evaluations
<1>2. CASE Set(t, Idle) /\ engine' = e /\ history' = h
  BY <1>2, IdleType DEF Set, TypeOK
<1>3. CASE /\ Set(t, [task[t] EXCEPT !.at = "claim", !.now = now, !.blind = blind])
           /\ engine' = Recorded(e, f) /\ history' = Noted(h, f)
  <2>1. [task[t] EXCEPT !.at = "claim", !.now = now, !.blind = blind] \in Evaluations
    BY <1>1 DEF Evaluations
  <2> QED
    BY <1>1, <1>3, <2>1, RecordedType, NotedType DEF Set, TypeOK
<1> QED
  BY <1>2, <1>3 DEF Decide

LEMMA GoToType ==
  ASSUME TypeOK, NEW t \in Tasks, NEW at \in {"loop", "set", "fire"}, GoTo(t, at)
  PROVE  task' \in [Tasks -> Evaluations]
<1>1. task[t] \in Evaluations
  BY DEF TypeOK
<1>2. [task[t] EXCEPT !.at = at] \in Evaluations
  BY <1>1 DEF Evaluations
<1> QED
  BY <1>2 DEF GoTo, Set, TypeOK

LEMMA SpendType ==
  ASSUME TypeOK, NEW what \in {"frames", "events", "edits", "faults", "crashes"}, Spend(what)
  PROVE  /\ budget' \in [frames : Nat, events : Nat, edits : Nat, faults : Nat, crashes : Nat]
         /\ budget'[what] = budget[what] - 1 /\ budget[what] \in Nat
BY DEF TypeOK, Spend

LEMMA BeginType ==
  ASSUME TypeOK, NEW t \in Tasks, NEW f \in Frames, Begin(t, f)
  PROVE  task' \in [Tasks -> Evaluations]
<1> DEFINE at == IF clock - engine.loadedAt < CacheTTL THEN "loop" ELSE "query"
<1>1. [Idle EXCEPT !.frame = f, !.begun = clock, !.at = at] \in Evaluations
  BY IdleType DEF TypeOK, Evaluations
<1> QED
  BY <1>1 DEF Begin, Set, TypeOK

LEMMA MatchedType ==
  ASSUME TypeOK, NEW t \in Tasks
  PROVE  /\ task[t].frame \in Frames
         /\ Counted(Pruned(engine, task[t].frame), task[t].frame) \in Engines
         /\ Witnessed(history, task[t].frame) \in Histories
<1>1. clock \in Nat /\ engine \in Engines /\ history \in Histories /\ task[t].frame \in Frames
  BY DEF TypeOK, Evaluations
<1> QED
  BY <1>1, PrunedType, CountedType, WitnessedFacts

LEMMA InitTypes == Init => TypeOK
<1> SUFFICES ASSUME Init
             PROVE  TypeOK
  OBVIOUS
<1>1. budget \in [frames : Nat, events : Nat, edits : Nat, faults : Nat, crashes : Nat]
  BY RuleAssumption DEF Init
<1> QED
  BY <1>1, IdleType, NewEngineType, NewHistoryType DEF Init, TypeOK, Moments, Never

LEMMA TypesStep ==
  ASSUME TypeOK, [Next]_vars
  PROVE  TypeOK'
<1> USE DEF TypeOK
<1>1. ASSUME NEW f \in Keyframes, EvaluateKeyframe(f)
      PROVE  TypeOK'
  <2>1. f \in Frames
    BY KeyframeType
  <2>2. task' \in [Tasks -> Evaluations]
    BY <1>1, <2>1, BeginType DEF EvaluateKeyframe, Tasks
  <2>3. left' \in [gone : SUBSET Tracks, here : SUBSET Tracks]
    BY <1>1, <2>1 DEF EvaluateKeyframe, Frames
  <2> QED
    BY <1>1, <2>2, <2>3, SpendType DEF EvaluateKeyframe, Begin
<1>2. CASE EvaluateEvent
  <2>1. NoFrame \in Frames
    BY DEF NoFrame, Frames
  <2>2. task' \in [Tasks -> Evaluations]
    BY <1>2, <2>1, BeginType DEF EvaluateEvent, Tasks
  <2> QED
    BY <1>2, <2>2, SpendType DEF EvaluateEvent, Begin
<1>3. ASSUME NEW t \in Tasks, Evaluation(t)
      PROVE  TypeOK'
  <2>0. task[t] \in Evaluations
    OBVIOUS
  <2>1. CASE Query(t)
    <3>1. [task[t] EXCEPT !.at = "install", !.listed = db.enabled] \in Evaluations
      BY <2>0 DEF Evaluations
    <3> QED
      BY <2>1, <3>1 DEF Query, Set
  <2>2. CASE QueryFails(t)
    <3>1. [task[t] EXCEPT !.at = "loop", !.stale = TRUE] \in Evaluations
      BY <2>0 DEF Evaluations
    <3> QED
      BY <2>2, <3>1, SpendType DEF QueryFails, Set, Fault
  <2>3. CASE Install(t)
    <3>1. [task[t] EXCEPT !.at = "stamp", !.listed = FALSE] \in Evaluations
      BY <2>0 DEF Evaluations
    <3>2. engine' \in Engines
      BY <2>0, <2>3 DEF Install, Engines, Evaluations
    <3> QED
      BY <2>3, <3>1, <3>2 DEF Install, Set
  <2>4. CASE Stamp(t)
    <3>1. task[t].begun \in Moments
      BY <2>0 DEF Evaluations, Moments
    <3>2. engine' \in Engines
      BY <2>4, <3>1 DEF Stamp, Engines
    <3> QED
      BY <2>4, <3>2, GoToType DEF Stamp
  <2>5. CASE Loop(t)
    <3>1. [task[t] EXCEPT !.at = "match"] \in Evaluations
      BY <2>0 DEF Evaluations
    <3> QED
      BY <2>5, <3>1, IdleType DEF Loop, Set
  <2>6. CASE Match(t)
    <3> DEFINE f == task[t].frame
               e == Counted(Pruned(engine, f), f)
               h == Witnessed(history, f)
    <3>1. e \in Engines /\ h \in Histories
      BY MatchedType
    <3>2. UNCHANGED <<clock, rule, db, redis, admin, left, alert, budget>>
      BY <2>6 DEF Match
    <3>3. CASE Set(t, Idle) /\ engine' = e /\ history' = h
      BY <3>1, <3>2, <3>3, IdleType DEF Set
    <3>4. CASE Decide(t, e, h, clock, e.micro.fired, FALSE)
      BY <3>1, <3>2, <3>4, DecideFacts
    <3>5. CASE /\ Set(t, [task[t] EXCEPT !.at = "read", !.now = clock])
               /\ engine' = e /\ history' = h
      <4>1. [task[t] EXCEPT !.at = "read", !.now = clock] \in Evaluations
        BY <2>0 DEF Evaluations
      <4> QED
        BY <3>1, <3>2, <3>5, <4>1 DEF Set
    <3> QED
      BY <2>6, <3>3, <3>4, <3>5 DEF Match
  <2>7. CASE ReadCooldown(t)
    <3> DEFINE micro == IF redis = Never THEN NewEngine.micro
                        ELSE [at |-> clock, fired |-> redis]
    <3>1. micro \in [at : Moments, fired : Moments]
      BY NewEngineType DEF Engines, Moments
    <3>2. [engine EXCEPT !.micro = micro] \in Engines
      BY <3>1 DEF Engines
    <3>3. task[t].now \in Nat
      BY <2>0 DEF Evaluations
    <3>4. Decide(t, [engine EXCEPT !.micro = micro], history, task[t].now, redis, FALSE)
      BY <2>7 DEF ReadCooldown
    <3> QED
      BY <2>7, <3>2, <3>3, <3>4, DecideFacts DEF ReadCooldown
  <2>8. CASE ReadFails(t)
    <3>1. task[t].now \in Nat
      BY <2>0 DEF Evaluations
    <3> QED
      BY <2>8, <3>1, DecideFacts, SpendType DEF ReadFails, Fault
  <2>9. CASE Claim(t)
    <3>1. task' \in [Tasks -> Evaluations]
      BY <2>9, GoToType DEF Claim
    <3>2. task[t].now \in Moments
      BY <2>0 DEF Evaluations, Moments
    <3>3. [engine EXCEPT !.micro = [at |-> task[t].now, fired |-> task[t].now]] \in Engines
      BY <3>2 DEF Engines
    <3> QED
      BY <2>9, <3>1, <3>3 DEF Claim
  <2>10. CASE SetCooldown(t)
    <3>1. [task[t] EXCEPT !.at = "fire", !.kept = TRUE] \in Evaluations
      BY <2>0 DEF Evaluations
    <3>2. task[t].now \in Moments
      BY <2>0 DEF Evaluations, Moments
    <3> QED
      BY <2>10, <3>1, <3>2 DEF SetCooldown, Set
  <2>11. CASE SetFails(t)
    BY <2>11, GoToType, SpendType DEF SetFails, Fault
  <2>12. CASE Fire(t)
    <3>1. task[t].now \in Moments /\ task[t].kept \in BOOLEAN
      BY <2>0 DEF Evaluations, Moments
    <3>2. history' = [history EXCEPT !.alerted = @ \union task[t].frame.present]
      BY <2>12 DEF Fire
    <3>3. history' \in Histories
      BY <2>0, <3>2 DEF Histories, Evaluations, Frames
    <3> QED
      BY <2>12, <3>1, <3>3, IdleType DEF Fire, Set
  <2>13. CASE StoreFails(t)
    <3>1. history' = [history EXCEPT !.unheard = @ \union task[t].frame.present]
      BY <2>13 DEF StoreFails
    <3>2. history' \in Histories
      BY <2>0, <3>1 DEF Histories, Evaluations, Frames
    <3> QED
      BY <2>13, <3>2, IdleType, SpendType DEF StoreFails, Set, Fault
  <2> QED
    BY <1>3, <2>1, <2>2, <2>3, <2>4, <2>5, <2>6, <2>7, <2>8, <2>9, <2>10, <2>11, <2>12, <2>13
       DEF Evaluation
<1>4. ASSUME NEW enabled \in BOOLEAN, Edit(enabled)
      PROVE  TypeOK'
  BY <1>4, SpendType DEF Edit
<1>5. CASE Publish
  BY <1>5 DEF Publish
<1>6. CASE PublishFails
  BY <1>6, SpendType DEF PublishFails, Fault
<1>7. CASE DeleteCooldown
  <2>1. ASSUME NEW t \in Tasks
        PROVE  [task[t] EXCEPT !.kept = FALSE] \in Evaluations
    <3>1. task[t] \in Evaluations
      OBVIOUS
    <3> QED
      BY <3>1 DEF Evaluations
  <2> QED
    BY <1>7, <2>1 DEF DeleteCooldown, Moments
<1>8. CASE Invalidate
  <2>1. engine' \in Engines
    BY <1>8 DEF Invalidate, Engines, Moments
  <2> QED
    BY <1>8, <2>1 DEF Invalidate
<1>9. CASE Tick
  BY <1>9 DEF Tick
<1>10. CASE Crash
  BY <1>10, IdleType, NewEngineType, NewHistoryType, SpendType DEF Crash
<1>11. CASE UNCHANGED vars
  BY <1>11 DEF vars
<1> QED
  BY <1>1, <1>2, <1>3, <1>4, <1>5, <1>6, <1>7, <1>8, <1>9, <1>10, <1>11 DEF Next

(***************************************************************************)
(* The gates: what a frame adds to the memory of the engine is in the      *)
(* history as well.                                                        *)
(***************************************************************************)
LEMMA RuleFacts ==
  ASSUME TypeOK
  PROVE  /\ rule.gate \in {"none", "visit", "incident", "frames"} /\ rule.cooldown \in Nat
         /\ {CacheTTL, MinFrames, Window, IncidentCap, MaxEval} \subseteq Nat \ {0}
         /\ IncidentCap > 1 /\ clock \in Nat
BY RuleAssumption DEF TypeOK

LEMMA ExtendBacked ==
  ASSUME TypeOK, NEW streak \in [first : Moments, count : Nat], NEW s \in Seq(Nat),
         NEW n \in Nat, NEW r \in Seq(Nat), Backed(streak, s),
         Len(r) = Len(s) + n, \A m \in 1..Len(s) : r[m] = s[m],
         \A m \in 1..Len(r) : m > Len(s) => r[m] = clock
  PROVE  /\ Backed(Extend(streak, n), r)
         /\ clock - Extend(streak, n).first <= Window
<1>1. /\ Len(s) \in Nat /\ clock \in Nat /\ Window \in Nat
      /\ streak.first \in Int /\ streak.count \in Nat
  BY RuleFacts, LenProperties DEF Moments, Never
<1>2. CASE streak = NoStreak \/ Lapsed(streak)
  <2>1. Extend(streak, n) = [first |-> clock, count |-> n]
    BY <1>2 DEF Extend
  <2> QED
    BY <1>1, <2>1 DEF Backed
<1>3. CASE ~(streak = NoStreak \/ Lapsed(streak))
  <2>1. Extend(streak, n) = [first |-> streak.first, count |-> streak.count + n]
    BY <1>3 DEF Extend
  <2>2. clock - streak.first <= Window
    BY <1>1, <1>3 DEF Lapsed
  <2>3. /\ streak.first <= clock /\ streak.count <= Len(s)
        /\ \A m \in 1..Len(s) : m > Len(s) - streak.count => s[m] >= streak.first
    BY DEF Backed
  <2>4. ASSUME NEW m \in 1..Len(r), m > Len(r) - (streak.count + n)
        PROVE  r[m] >= streak.first
    <3>1. CASE m <= Len(s)
      <4>1. m \in 1..Len(s) /\ m > Len(s) - streak.count
        BY <1>1, <2>4, <3>1
      <4> QED
        BY <2>3, <4>1
    <3>2. CASE m > Len(s)
      BY <1>1, <2>3, <2>4, <3>2
    <3> QED
      BY <1>1, <3>1, <3>2
  <2> QED
    BY <1>1, <2>1, <2>2, <2>3, <2>4 DEF Backed
<1> QED
  BY <1>2, <1>3

LEMMA StreakIsEnough ==
  ASSUME TypeOK, NEW streak \in [first : Moments, count : Nat], NEW r \in Seq(Nat),
         Backed(streak, r), clock - streak.first <= Window, streak.count >= MinFrames
  PROVE  Enough(r, clock)
<1>1. /\ Len(r) \in Nat /\ clock \in Nat /\ Window \in Nat /\ MinFrames \in Nat
      /\ streak.first \in Int /\ streak.count \in Nat
  BY RuleFacts, LenProperties DEF Moments, Never
<1> DEFINE i == Len(r) - MinFrames
<1>2. i \in 0..Len(r) /\ i + MinFrames <= Len(r)
  BY <1>1 DEF Backed
<1>3. ASSUME NEW n \in (i + 1)..(i + MinFrames)
      PROVE  clock - r[n] <= Window
  <2>1. n \in 1..Len(r) /\ n > Len(r) - streak.count
    BY <1>1, <1>2
  <2>2. r[n] >= streak.first /\ r[n] \in Nat
    BY <2>1, ElementOfSeq DEF Backed
  <2> QED
    BY <1>1, <2>2
<1> QED
  BY <1>2, <1>3 DEF Enough

LEMMA EnoughGrows ==
  ASSUME NEW s \in Seq(Nat), NEW r \in Seq(Nat), NEW now, Enough(s, now), MinFrames \in Nat,
         Len(s) <= Len(r), \A m \in 1..Len(s) : r[m] = s[m]
  PROVE  Enough(r, now)
<1>1. Len(s) \in Nat /\ Len(r) \in Nat
  BY LenProperties
<1>2. PICK i \in 0..Len(s) :
        i + MinFrames <= Len(s) /\ \A n \in (i + 1)..(i + MinFrames) : now - s[n] <= Window
  BY DEF Enough
<1>3. \A n \in (i + 1)..(i + MinFrames) : n \in 1..Len(s)
  BY <1>1, <1>2
<1>4. \A n \in (i + 1)..(i + MinFrames) : now - r[n] <= Window
  BY <1>2, <1>3
<1>5. i \in 0..Len(r) /\ i + MinFrames <= Len(r)
  BY <1>1, <1>2
<1> QED
  BY <1>4, <1>5 DEF Enough

(* The sightings of a frame, in the engine and in the history.             *)
LEMMA WitnessedGates ==
  ASSUME TypeOK, NEW f \in Frames, GateInv(engine, history)
  PROVE  LET e == Counted(Pruned(engine, f), f)
             h == Witnessed(history, f)
         IN /\ GateInv(e, h)
            /\ Matches(e, f) => Matched(f, h, clock)
<1> DEFINE p == Pruned(engine, f)
           e == Counted(p, f)
           h == Witnessed(history, f)
<1>1. /\ p \in Engines /\ e \in Engines /\ h \in Histories
      /\ engine \in Engines /\ history \in Histories /\ clock \in Nat
  BY PrunedType, CountedType, WitnessedFacts DEF TypeOK
<1>2. /\ e.visits = p.visits /\ e.incidents = p.incidents
      /\ p.incidents = engine.incidents /\ p.streaks = engine.streaks
      /\ p.visits \subseteq engine.visits
  BY <1>1 DEF Counted, Pruned, Engines
<1>3. h.noticed = history.noticed /\ h.others = history.others
  BY <1>1, WitnessedFacts
<1>4. VisitInv(e, h)
  BY <1>2, <1>3 DEF GateInv, VisitInv
<1>5. IncidentInv(e, h)
  BY <1>2, <1>3 DEF GateInv, IncidentInv
<1>6. ASSUME rule.gate = "frames", NEW k \in Keys
      PROVE  /\ Backed(e.streaks[k], h.seen[k])
             /\ k \in f.match => clock - e.streaks[k].first <= Window
  <2> DEFINE n == Sightings(f, k)
             s == history.seen[k]
             r == h.seen[k]
             streak == engine.streaks[k]
  <2>1. /\ s \in Seq(Nat) /\ r \in Seq(Nat) /\ n \in Nat
        /\ streak \in [first : Moments, count : Nat]
    BY <1>1, <1>6, SightingsType DEF Histories, Engines
  <2>2. /\ Len(r) = Len(s) + n /\ \A m \in 1..Len(s) : r[m] = s[m]
        /\ \A m \in 1..Len(r) : m > Len(s) => r[m] = clock
    BY <1>1, <1>6, WitnessedFacts
  <2>3. Backed(streak, s)
    BY <1>6 DEF GateInv, FramesInv
  <2>4. e.streaks[k] = IF k \in f.match THEN Extend(streak, n) ELSE streak
    BY <1>1, <1>2, <1>6 DEF Counted, Engines
  <2>5. CASE k \in f.match
    <3> HIDE DEF n, s, r, streak
    <3>1. /\ Backed(Extend(streak, n), r)
          /\ clock - Extend(streak, n).first <= Window
      BY <2>1, <2>2, <2>3, ExtendBacked
    <3>2. e.streaks[k] = Extend(streak, n) /\ h.seen[k] = r
      BY <2>4, <2>5 DEF r
    <3> QED
      BY <3>1, <3>2
  <2>6. CASE k \notin f.match
    <3>1. n = 0
      BY <2>6 DEF Sightings
    <3> HIDE DEF n, s, streak, r
    <3>2. Len(s) \in Nat /\ Len(r) = Len(s)
      BY <2>1, <2>2, <3>1, LenProperties
    <3>3. Backed(streak, r)
      BY <2>2, <2>3, <3>2 DEF Backed
    <3>4. e.streaks[k] = streak /\ h.seen[k] = r
      BY <2>4, <2>6 DEF r
    <3> QED
      BY <2>6, <3>3, <3>4
  <2> QED
    BY <2>5, <2>6
<1>7. FramesInv(e, h)
  BY <1>6 DEF FramesInv
<1>8. ASSUME Matches(e, f)
      PROVE  Matched(f, h, clock)
  <2>1. f.match /= {}
    BY <1>8 DEF Matches
  <2>2. ASSUME rule.gate = "frames"
        PROVE  \E k \in f.match : Enough(h.seen[k], clock)
    <3>1. PICK k \in f.match : e.streaks[k].count >= MinFrames
      BY <1>8, <2>2 DEF Matches
    <3>2. k \in Keys
      BY DEF Frames
    <3>3. e.streaks[k] \in [first : Moments, count : Nat] /\ h.seen[k] \in Seq(Nat)
      BY <1>1, <3>2 DEF Engines, Histories
    <3>4. Backed(e.streaks[k], h.seen[k]) /\ clock - e.streaks[k].first <= Window
      BY <1>6, <2>2, <3>2
    <3> HIDE DEF e, h
    <3> QED
      BY <3>1, <3>3, <3>4, StreakIsEnough
  <2> QED
    BY <2>1, <2>2 DEF Matched
<1> QED
  BY <1>4, <1>5, <1>7, <1>8 DEF GateInv

LEMMA HalfFacts ==
  ASSUME NEW n \in Nat
  PROVE  n \div 2 \in Nat /\ n \div 2 <= n /\ (n > 1 => n \div 2 > 0)
OBVIOUS

(* What the gates record of a frame that is not muted.                     *)
LEMMA RecordedGates ==
  ASSUME TypeOK, NEW e \in Engines, NEW h \in Histories, NEW f \in Frames,
         GateInv(e, h), ~Muted(e, f)
  PROVE  GateInv(Recorded(e, f), Noted(h, f))
<1> DEFINE d == Recorded(e, f)
           g == Noted(h, f)
<1>1. d \in Engines /\ g \in Histories
  BY RecordedType, NotedType
<1>2. VisitInv(d, g)
  <2> SUFFICES ASSUME rule.gate = "visit"
               PROVE  d.visits \subseteq g.noticed
    BY DEF VisitInv
  <2>1. d.visits = e.visits \union f.present
    BY DEF Recorded, Engines
  <2>2. g.noticed = h.noticed \union f.present
    BY DEF Noted, Histories
  <2>3. e.visits \subseteq h.noticed
    BY DEF GateInv, VisitInv
  <2> QED
    BY <2>1, <2>2, <2>3
<1>3. IncidentInv(d, g)
  <2> SUFFICES ASSUME rule.gate = "incident"
               PROVE  /\ Len(d.incidents) <= IncidentCap
                      /\ \A i \in Incidents :
                           \/ g.others[i] = Never \/ Outlived(g.others[i])
                           \/ Placed(d.incidents, i, g.others[i])
    BY DEF IncidentInv
  <2> DEFINE s == e.incidents
             half == Len(s) \div 2
             cut == Trimmed(s)
             r == d.incidents
             by == IF Len(s) >= IncidentCap THEN half ELSE 0
  <2>1. /\ Len(s) <= IncidentCap
        /\ \A i \in Incidents : \/ h.others[i] = Never \/ Outlived(h.others[i])
                                \/ Placed(s, i, h.others[i])
    BY DEF GateInv, IncidentInv
  <2>2. \A i \in Incidents :
          g.others[i] = IF i = f.incident THEN 0
                        ELSE IF h.others[i] = Never \/ f.incident = NoIncident
                             THEN h.others[i] ELSE h.others[i] + 1
    BY DEF Noted, Histories
  <2>3. CASE f.incident = NoIncident
    <3>1. d = e
      BY <2>3 DEF Recorded
    <3>2. \A i \in Incidents : g.others[i] = h.others[i]
      BY <2>2, <2>3, RuleAssumption
    <3> QED
      BY <2>1, <3>1, <3>2
  <2>4. CASE f.incident /= NoIncident
    <3>1. /\ s \in Seq(Incidents) /\ Len(s) \in Nat /\ f.incident \in Incidents
          /\ IncidentCap \in Nat /\ IncidentCap > 1
      BY <2>4, RuleFacts, LenProperties DEF Engines, Frames
    <3>2. half \in Nat /\ half <= Len(s) /\ (Len(s) > 1 => half > 0)
      <4>1. Len(s) \in Nat
        BY <3>1
      <4> HIDE DEF s
      <4> QED
        BY <4>1, HalfFacts
    <3>3. /\ Len(s) >= IncidentCap => by = half
          /\ Len(s) < IncidentCap => by = 0
      <4>1. Len(s) \in Nat /\ IncidentCap \in Nat
        BY <3>1
      <4> HIDE DEF s, half
      <4> QED
        BY <4>1
    <3>4. by \in Nat /\ by <= Len(s) /\ half \in Nat /\ (Len(s) > 1 => half > 0)
      <4> HIDE DEF s, half, by
      <4>1. Len(s) >= IncidentCap \/ Len(s) < IncidentCap
        BY <3>1
      <4>2. by = half \/ by = 0
        BY <3>3, <4>1, Zenon
      <4> QED
        BY <3>1, <3>2, <4>2
    <3>5. /\ cut \in Seq(Incidents) /\ Len(cut) = Len(s) - by
          /\ \A n \in 1..Len(cut) : cut[n] = s[n + by]
      <4>1. /\ cut \in Seq(Incidents)
            /\ Len(s) < IncidentCap => cut = s
            /\ Len(s) >= IncidentCap =>
                 /\ Len(cut) = Len(s) - half
                 /\ \A n \in 1..Len(cut) : cut[n] = s[n + half]
        BY <3>1, TrimmedFacts
      <4> HIDE DEF s, half, cut, by
      <4>2. CASE Len(s) < IncidentCap
        <5>1. cut = s /\ by = 0
          BY <3>3, <4>1, <4>2, Zenon
        <5> QED
          BY <3>1, <4>1, <5>1
      <4>3. CASE Len(s) >= IncidentCap
        <5>1. by = half
          BY <3>3, <4>3, Zenon
        <5> QED
          BY <4>1, <4>3, <5>1
      <4> QED
        BY <3>1, <4>2, <4>3
    <3>6. r = Append(cut, f.incident)
      BY <2>4 DEF Recorded, Engines
    <3>7. /\ Len(r) = Len(s) - by + 1 /\ r[Len(r)] = f.incident
          /\ \A n \in 1..(Len(s) - by) : r[n] = s[n + by]
      <4> HIDE DEF s, half, cut, r, by
      <4>1. /\ Len(r) = Len(cut) + 1
            /\ \A n \in 1..Len(cut) : r[n] = cut[n]
            /\ r[Len(r)] = f.incident
        BY <3>1, <3>5, <3>6, AppendProperties
      <4> QED
        BY <3>5, <4>1
    <3>8. Len(s) >= IncidentCap => by = half /\ Len(s) = IncidentCap
      <4> HIDE DEF s, half, by
      <4>1. Len(s) \in Int /\ IncidentCap \in Int /\ Len(s) <= IncidentCap
        BY <2>1, <3>1
      <4>2. Len(s) >= IncidentCap => Len(s) = IncidentCap
        BY <4>1
      <4> QED
        BY <3>3, <4>2, Zenon
    <3>9. Len(r) <= IncidentCap
      <4> HIDE DEF s, half, cut, r, by
      <4> QED
        BY <2>1, <3>1, <3>4, <3>7, <3>8, <3>3
    <3>10. ASSUME NEW i \in Incidents
          PROVE  \/ g.others[i] = Never \/ Outlived(g.others[i]) \/ Placed(r, i, g.others[i])
      <4>1. /\ h.others[i] \in Int /\ g.others[i] \in Int
        BY <1>1 DEF Histories, Moments, Never
      <4>2. CASE i = f.incident
        <5>1. g.others[i] = 0
          BY <2>2, <4>2
        <5> HIDE DEF s, half, cut, r, by
        <5>2. Len(r) \in 1..Len(r) /\ Len(r) \in Nat
          BY <3>1, <3>4, <3>7
        <5>3. r[Len(r)] = i /\ 0 >= Len(r) - Len(r)
          BY <3>7, <4>2, <5>2
        <5> QED
          BY <5>1, <5>2, <5>3 DEF Placed
      <4>3. CASE i /= f.incident /\ h.others[i] = Never
        BY <2>2, <4>3
      <4>4. CASE i /= f.incident /\ h.others[i] /= Never
        <5>1. g.others[i] = h.others[i] + 1
          BY <2>2, <2>4, <4>4
        <5>2. CASE Outlived(h.others[i])
          BY <3>1, <4>1, <5>1, <5>2 DEF Outlived
        <5>3. CASE Placed(s, i, h.others[i])
          <6> HIDE DEF s, half, cut, r, by
          <6>1. PICK n \in 1..Len(s) : s[n] = i /\ h.others[i] >= Len(s) - n
            BY <5>3 DEF Placed
          <6>2. CASE n > by
            <7>1. /\ n - by \in 1..(Len(s) - by) /\ n - by \in 1..Len(r)
                  /\ (n - by) + by = n
              BY <3>1, <3>4, <3>7, <6>2
            <7>2. r[n - by] = i
              BY <3>7, <6>1, <7>1
            <7>3. g.others[i] >= Len(r) - (n - by)
              BY <3>1, <3>4, <3>7, <4>1, <5>1, <6>1
            <7> QED
              BY <7>1, <7>2, <7>3 DEF Placed
          <6>3. CASE n <= by
            <7>1. Len(s) = IncidentCap /\ by = half
              BY <3>1, <3>8, <3>3, <6>3
            <7>2. g.others[i] > IncidentCap - half
              BY <3>1, <3>4, <4>1, <5>1, <6>1, <6>3, <7>1
            <7>3. half = IncidentCap \div 2
              BY <7>1 DEF half
            <7> QED
              BY <7>2, <7>3 DEF Outlived
          <6> QED
            BY <3>1, <3>4, <6>2, <6>3
        <5> QED
          BY <2>1, <4>4, <5>2, <5>3
      <4> QED
        BY <4>2, <4>3, <4>4
    <3> QED
      BY <3>9, <3>10
  <2> QED
    BY <2>3, <2>4
<1>4. FramesInv(d, g)
  <2> SUFFICES ASSUME rule.gate = "frames"
               PROVE  FramesInv(d, g)
    BY DEF FramesInv
  <2>1. d = e
    BY DEF Recorded
  <2>2. g.seen = h.seen
    BY DEF Noted, Histories
  <2> QED
    BY <2>1, <2>2 DEF GateInv, FramesInv
<1> QED
  BY <1>2, <1>3, <1>4 DEF GateInv

(* Time and the cooldown are none of the gates' business.                  *)
LEMMA GatesKept ==
  ASSUME TypeOK, TypeOK', clock <= clock', rule' = rule,
         NEW e \in Engines, NEW h \in Histories, GateInv(e, h),
         engine'.visits = e.visits, engine'.incidents = e.incidents,
         engine'.streaks = e.streaks, history'.noticed = h.noticed,
         history'.others = h.others, history'.seen = h.seen
  PROVE  GateInv(engine, history)'
<1>1. VisitInv(engine, history)' /\ IncidentInv(engine, history)'
  BY DEF GateInv, VisitInv, IncidentInv
<1>2. FramesInv(engine, history)'
  <2> SUFFICES ASSUME rule.gate = "frames", NEW k \in Keys
               PROVE  Backed(engine.streaks[k], history.seen[k])'
    BY DEF FramesInv
  <2>1. Backed(e.streaks[k], h.seen[k])
    BY DEF GateInv, FramesInv
  <2>2. clock \in Nat /\ clock' \in Nat
    BY DEF TypeOK
  <2>3. e.streaks[k].first \in Moments
    BY DEF Engines
  <2>4. e.streaks[k].first \in Int
    BY <2>3 DEF Moments, Never
  <2> QED
    BY <2>1, <2>2, <2>4 DEF Backed
<1> QED
  BY <1>1, <1>2 DEF GateInv

LEMMA DecideGates ==
  ASSUME TypeOK, NEW t \in Tasks, NEW e \in Engines, NEW h \in Histories,
         NEW now \in Nat, NEW last, NEW blind \in BOOLEAN, GateInv(e, h),
         Decide(t, e, h, now, last, blind), TypeOK', clock' = clock, rule' = rule
  PROVE  GateInv(engine, history)'
<1> DEFINE f == task[t].frame
<1>1. f \in Frames
  BY DEF TypeOK, Evaluations
<1>2. CASE engine' = e /\ history' = h
  BY <1>2, GatesKept DEF TypeOK
<1>3. CASE ~Muted(e, f) /\ engine' = Recorded(e, f) /\ history' = Noted(h, f)
  <2>1. /\ GateInv(Recorded(e, f), Noted(h, f))
        /\ Recorded(e, f) \in Engines /\ Noted(h, f) \in Histories
    BY <1>1, <1>3, RecordedGates, RecordedType, NotedType
  <2> QED
    BY <1>3, <2>1, GatesKept DEF TypeOK
<1> QED
  BY <1>2, <1>3 DEF Decide

(***************************************************************************)
(* The steps.                                                              *)
(***************************************************************************)
LEMMA InitRest == Init => RestInv
<1> SUFFICES ASSUME Init
             PROVE  RestInv
  OBVIOUS
<1>1. GateInv(engine, history)
  <2>1. VisitInv(engine, history)
    BY DEF Init, NewEngine, VisitInv
  <2>2. IncidentInv(engine, history)
    BY RuleAssumption DEF Init, NewEngine, NewHistory, IncidentInv
  <2>3. FramesInv(engine, history)
    BY DEF Init, NewEngine, NewHistory, NoStreak, Never, FramesInv, Backed
  <2> QED
    BY <2>1, <2>2, <2>3 DEF GateInv
<1>2. SerialInv /\ TimeInv /\ ReadInv /\ CooldownInv /\ FreshInv
  BY DEF Init, NewEngine, Idle, NoFrame, Never, Tasks, Firing, SerialInv, TimeInv, ReadInv,
         CooldownInv, FreshInv
<1> QED
  BY <1>1, <1>2 DEF RestInv

LEMMA SetFacts ==
  ASSUME TypeOK, NEW t \in Tasks, NEW x, Set(t, x)
  PROVE  task'[t] = x /\ \A s \in Tasks : s /= t => task'[s] = task[s]
BY DEF TypeOK, Set

(* Loading the list of rules.                                              *)
LEMMA QueryStep ==
  ASSUME TypeOK, RestInv, TypeOK', NEW t \in Tasks, Query(t) \/ QueryFails(t)
  PROVE  RestInv'
<1>1. /\ \/ task'[t] = [task[t] EXCEPT !.at = "install", !.listed = db.enabled]
         \/ task'[t] = [task[t] EXCEPT !.at = "loop", !.stale = TRUE]
      /\ \A s \in Tasks : s /= t => task'[s] = task[s]
      /\ task[t].at = "query"
      /\ UNCHANGED <<clock, rule, db, redis, engine, admin, left, alert, history>>
  BY SetFacts DEF Query, QueryFails
<1>2. task[t] \in Evaluations
  BY DEF TypeOK
<1>3. /\ \/ task'[t].at = "install" /\ task'[t].listed = db.enabled
         \/ task'[t].at = "loop" /\ task'[t].stale
      /\ task'[t].begun = task[t].begun /\ task'[t].now = task[t].now
      /\ task'[t].frame = task[t].frame /\ task'[t].kept = task[t].kept
  BY <1>1, <1>2 DEF Evaluations
<1>4. SerialInv'
  BY <1>1, <1>3 DEF RestInv, SerialInv, Firing, Tasks
<1>5. TimeInv'
  BY <1>1, <1>3 DEF RestInv, TimeInv
<1>6. GateInv(engine, history)'
  BY <1>1, GatesKept DEF RestInv, TypeOK
<1>7. ReadInv'
  BY <1>1, <1>3 DEF RestInv, ReadInv, Matched
<1>8. CooldownInv'
  BY <1>1, <1>3 DEF RestInv, CooldownInv, Firing, Tasks
<1>9. FreshInv'
  BY <1>1, <1>3 DEF RestInv, FreshInv, InTime, Firing
<1> QED
  BY <1>4, <1>5, <1>6, <1>7, <1>8, <1>9 DEF RestInv

LEMMA InstallStep ==
  ASSUME TypeOK, RestInv, TypeOK', NEW t \in Tasks, Install(t)
  PROVE  RestInv'
<1>1. /\ task'[t] = [task[t] EXCEPT !.at = "stamp", !.listed = FALSE]
      /\ \A s \in Tasks : s /= t => task'[s] = task[s]
      /\ task[t].at = "install" /\ engine' = [engine EXCEPT !.listed = task[t].listed]
      /\ UNCHANGED <<clock, rule, db, redis, admin, left, alert, history>>
  BY SetFacts DEF Install
<1>2. task[t] \in Evaluations /\ engine \in Engines
  BY DEF TypeOK
<1>3. /\ task'[t].at = "stamp" /\ ~task'[t].listed
      /\ task'[t].begun = task[t].begun /\ task'[t].now = task[t].now
      /\ task'[t].frame = task[t].frame /\ task'[t].kept = task[t].kept
  BY <1>1, <1>2 DEF Evaluations
<1>4. /\ engine'.listed = task[t].listed /\ engine'.loadedAt = engine.loadedAt
      /\ engine'.micro = engine.micro /\ engine'.visits = engine.visits
      /\ engine'.incidents = engine.incidents /\ engine'.streaks = engine.streaks
  BY <1>1, <1>2 DEF Engines
<1>5. SerialInv'
  BY <1>1, <1>3 DEF RestInv, SerialInv, Firing, Tasks
<1>6. TimeInv'
  BY <1>1, <1>3, <1>4 DEF RestInv, TimeInv
<1>7. GateInv(engine, history)'
  BY <1>1, <1>4, GatesKept DEF RestInv, TypeOK
<1>8. ReadInv'
  BY <1>1, <1>3 DEF RestInv, ReadInv, Matched
<1>9. CooldownInv'
  BY <1>1, <1>3, <1>4 DEF RestInv, CooldownInv, Firing, Tasks
<1>10. FreshInv'
  <2> SUFFICES ASSUME ~db.enabled
               PROVE  FreshInv'
    BY <1>1 DEF FreshInv
  <2>1. ASSUME NEW s \in Tasks
        PROVE  /\ task[s] \in Evaluations /\ task'[s].begun = task[s].begun
               /\ task'[s].stale = task[s].stale /\ task[s].begun <= clock
    BY <1>1, <1>2 DEF RestInv, TimeInv, TypeOK, Evaluations
  <2>2. /\ db.since \in Nat /\ CacheTTL \in Nat \ {0} /\ MaxEval \in Nat /\ clock \in Nat
        /\ engine.loadedAt \in Int
    <3>1. db.since \in Nat /\ engine.loadedAt \in Int
      BY DEF TypeOK, Engines, Moments, Never
    <3> QED
      BY <3>1, RuleFacts
  <2>3. ASSUME task[t].listed
        PROVE  clock <= db.since + MaxEval
    <3>1. task[t].begun <= db.since /\ clock - task[t].begun <= MaxEval /\ task[t].begun \in Nat
      BY <1>1, <1>2, <2>3 DEF RestInv, FreshInv, TimeInv, Evaluations
    <3> QED
      BY <2>2, <3>1
  <2>4. engine.loadedAt <= clock
    BY DEF RestInv, TimeInv
  <2>5. ASSUME NEW s \in Tasks, task[t].listed
        PROVE  task[s].begun <= db.since + MaxEval /\ InTime(task[s].begun)
    BY <2>1, <2>2, <2>3, <2>5 DEF InTime, Evaluations
  <2>6. ASSUME NEW s \in Tasks
        PROVE  /\ task'[s].at = "install" /\ task'[s].listed => task[s].begun <= db.since
               /\ task'[s].at \in Firing \union {"match", "read"} /\ ~task[s].stale =>
                    InTime(task[s].begun)
    BY <1>1, <1>3 DEF RestInv, FreshInv, Firing
  <2>7. ASSUME task[t].listed
        PROVE  engine.loadedAt <= db.since + MaxEval
    BY <2>2, <2>3, <2>4, <2>7
  <2> QED
    BY <1>1, <1>4, <2>1, <2>5, <2>6, <2>7 DEF FreshInv, InTime
<1> QED
  BY <1>5, <1>6, <1>7, <1>8, <1>9, <1>10 DEF RestInv

LEMMA StampStep ==
  ASSUME TypeOK, RestInv, TypeOK', NEW t \in Tasks, Stamp(t)
  PROVE  RestInv'
<1>1. /\ task'[t] = [task[t] EXCEPT !.at = "loop"]
      /\ \A s \in Tasks : s /= t => task'[s] = task[s]
      /\ task[t].at = "stamp" /\ engine' = [engine EXCEPT !.loadedAt = task[t].begun]
      /\ UNCHANGED <<clock, rule, db, redis, admin, left, alert, history>>
  BY SetFacts DEF Stamp, GoTo
<1>2. task[t] \in Evaluations /\ engine \in Engines
  BY DEF TypeOK
<1>3. /\ task'[t].at = "loop" /\ task'[t].stale = task[t].stale
      /\ task'[t].begun = task[t].begun /\ task'[t].now = task[t].now
      /\ task'[t].frame = task[t].frame /\ task'[t].kept = task[t].kept
  BY <1>1, <1>2 DEF Evaluations
<1>4. /\ engine'.listed = engine.listed /\ engine'.loadedAt = task[t].begun
      /\ engine'.micro = engine.micro /\ engine'.visits = engine.visits
      /\ engine'.incidents = engine.incidents /\ engine'.streaks = engine.streaks
  BY <1>1, <1>2 DEF Engines
<1>5. SerialInv'
  BY <1>1, <1>3 DEF RestInv, SerialInv, Firing, Tasks
<1>6. TimeInv'
  BY <1>1, <1>3, <1>4 DEF RestInv, TimeInv
<1>7. GateInv(engine, history)'
  BY <1>1, <1>4, GatesKept DEF RestInv, TypeOK
<1>8. ReadInv'
  BY <1>1, <1>3 DEF RestInv, ReadInv, Matched
<1>9. CooldownInv'
  BY <1>1, <1>3, <1>4 DEF RestInv, CooldownInv, Firing, Tasks
<1>10. FreshInv'
  <2>1. ASSUME ~db.enabled, engine.listed
        PROVE  task[t].begun <= db.since + MaxEval /\ InTime(task[t].begun)
    <3>1. task[t].begun <= db.since + MaxEval
      BY <1>1, <2>1 DEF RestInv, FreshInv
    <3>2. /\ db.since \in Nat /\ CacheTTL \in Nat \ {0} /\ MaxEval \in Nat
          /\ task[t].begun \in Nat
      BY <1>2, RuleFacts DEF TypeOK, Evaluations
    <3> QED
      BY <3>1, <3>2 DEF InTime
  <2> QED
    BY <1>1, <1>3, <1>4, <2>1 DEF RestInv, FreshInv, InTime, Firing
<1> QED
  BY <1>5, <1>6, <1>7, <1>8, <1>9, <1>10 DEF RestInv

LEMMA LoopStep ==
  ASSUME TypeOK, RestInv, TypeOK', NEW t \in Tasks, Loop(t)
  PROVE  RestInv'
<1>1. /\ \/ engine.listed /\ task'[t] = [task[t] EXCEPT !.at = "match"]
         \/ task'[t] = Idle
      /\ \A s \in Tasks : s /= t => task'[s] = task[s]
      /\ task[t].at = "loop"
      /\ UNCHANGED <<clock, rule, db, redis, engine, admin, left, alert, history>>
  BY SetFacts DEF Loop
<1>2. task[t] \in Evaluations /\ clock \in Nat
  BY DEF TypeOK
<1>3. \/ /\ engine.listed /\ task'[t].at = "match" /\ task'[t].stale = task[t].stale
         /\ task'[t].begun = task[t].begun /\ task'[t].now = task[t].now
         /\ task'[t].frame = task[t].frame /\ task'[t].kept = task[t].kept
      \/ /\ task'[t].at = "idle" /\ task'[t].begun = 0 /\ task'[t].now = 0
         /\ task'[t].frame.match = {} /\ ~task'[t].kept
  BY <1>1, <1>2 DEF Evaluations, Idle, NoFrame
<1>4. SerialInv'
  BY <1>1, <1>3 DEF RestInv, SerialInv, Firing, Tasks
<1>5. TimeInv'
  BY <1>1, <1>2, <1>3 DEF RestInv, TimeInv
<1>6. GateInv(engine, history)'
  BY <1>1, GatesKept DEF RestInv, TypeOK
<1>7. ReadInv'
  BY <1>1, <1>3 DEF RestInv, ReadInv, Matched
<1>8. CooldownInv'
  BY <1>1, <1>3 DEF RestInv, CooldownInv, Firing, Tasks
<1>9. FreshInv'
  BY <1>1, <1>3 DEF RestInv, FreshInv, InTime, Firing
<1> QED
  BY <1>4, <1>5, <1>6, <1>7, <1>8, <1>9 DEF RestInv

(* The decision to fire, whatever it was taken on.                         *)
LEMMA DecideRest ==
  ASSUME TypeOK, RestInv, TypeOK', NEW e \in Engines, NEW h \in Histories, NEW now \in Nat,
         NEW last, NEW blind \in BOOLEAN,
         Decide("keyframes", e, h, now, last, blind), GateInv(e, h),
         UNCHANGED <<clock, rule, db, redis, alert>>,
         task["keyframes"].at \in {"match", "read"},
         e.listed = engine.listed, e.loadedAt = engine.loadedAt,
         now <= clock, alert.now <= now,
         e.micro.at = Never <=> e.micro.fired = Never,
         alert.kept => e.micro.fired = Never \/ e.micro.fired >= alert.now,
         (alert.kept /\ ~blind /\ ~InCooldown(now, last)) => now - alert.now >= rule.cooldown
  PROVE  RestInv'
<1> DEFINE t == "keyframes"
           K == task[t]
<1>0. t \in Tasks /\ "events" \in Tasks /\ Tasks = {t, "events"} /\ t /= "events"
  BY DEF Tasks
<1>1. K \in Evaluations /\ clock \in Nat /\ K.frame \in Frames
  BY <1>0 DEF TypeOK, Evaluations
<1>2. \A s \in Tasks : s /= t => task'[s] = task[s]
  BY <1>0, SetFacts DEF Decide
<1>3. \/ /\ ~InCooldown(now, last)
         /\ task'[t].at = "claim" /\ task'[t].now = now /\ task'[t].blind = blind
         /\ task'[t].stale = K.stale /\ task'[t].begun = K.begun /\ task'[t].kept = K.kept
      \/ /\ task'[t].at = "idle" /\ task'[t].begun = 0 /\ task'[t].now = 0 /\ ~task'[t].kept
  <2>1. CASE InCooldown(now, last) \/ Muted(e, K.frame)
    <3>1. task'[t] = Idle
      BY <1>0, <2>1, SetFacts DEF Decide
    <3> QED
      BY <3>1 DEF Idle
  <2>2. CASE ~(InCooldown(now, last) \/ Muted(e, K.frame))
    <3>1. task'[t] = [K EXCEPT !.at = "claim", !.now = now, !.blind = blind]
      BY <1>0, <2>2, SetFacts DEF Decide
    <3> QED
      BY <1>1, <2>2, <3>1 DEF Evaluations
  <2> QED
    BY <2>1, <2>2
<1>4. /\ engine'.listed = e.listed /\ engine'.loadedAt = e.loadedAt
      /\ engine'.micro = e.micro
  <2>1. engine' = e \/ engine' = Recorded(e, K.frame)
    BY DEF Decide
  <2>2. /\ Recorded(e, K.frame).listed = e.listed /\ Recorded(e, K.frame).micro = e.micro
        /\ Recorded(e, K.frame).loadedAt = e.loadedAt
    BY DEF Recorded, Engines
  <2> QED
    BY <2>1, <2>2
<1> HIDE DEF t
<1>5. SerialInv'
  BY <1>0, <1>2 DEF RestInv, SerialInv, Firing
<1>6. TimeInv'
  BY <1>0, <1>1, <1>2, <1>3, <1>4 DEF RestInv, TimeInv, t
<1>7. GateInv(engine, history)'
  BY <1>0, DecideGates DEF t
<1>8. ReadInv'
  BY <1>0, <1>2, <1>3 DEF RestInv, ReadInv, SerialInv
<1>9. CooldownInv'
  <2>1. ~K.kept
    BY <1>0 DEF RestInv, CooldownInv, t
  <2>2. ~task'[t].kept
    BY <1>3, <2>1
  <2> QED
    BY <1>3, <1>4, <2>2 DEF RestInv, CooldownInv, Firing, t
<1>10. FreshInv'
  BY <1>0, <1>1, <1>2, <1>3, <1>4 DEF RestInv, FreshInv, InTime, Firing, t
<1> QED
  BY <1>5, <1>6, <1>7, <1>8, <1>9, <1>10 DEF RestInv

LEMMA ReadCooldownStep ==
  ASSUME TypeOK, RestInv, TypeOK', NEW t \in Tasks, ReadCooldown(t) \/ ReadFails(t)
  PROVE  RestInv'
<1>1. t = "keyframes" /\ task[t].at = "read" /\ task[t] \in Evaluations
  BY DEF ReadCooldown, ReadFails, RestInv, SerialInv, Tasks, TypeOK
<1>2. UNCHANGED <<clock, rule, db, redis, alert>>
  BY DEF ReadCooldown, ReadFails
<1>3. /\ rule.cooldown > 0 /\ rule.cooldown \in Nat
      /\ task[t].now \in Nat /\ task[t].now <= clock /\ alert.now <= task[t].now
      /\ GateInv(engine, history) /\ clock \in Nat
  BY <1>1, RuleFacts DEF RestInv, ReadInv, TimeInv, CooldownInv, Evaluations
<1>4. /\ redis \in Moments /\ alert.now \in Int /\ alert.kept \in BOOLEAN
      /\ engine \in Engines /\ history \in Histories
      /\ engine.micro.fired \in Int
  <2>1. redis \in Moments /\ alert.now \in Int /\ alert.kept \in BOOLEAN
    BY DEF TypeOK, Moments, Never
  <2>2. engine \in Engines /\ history \in Histories
    BY DEF TypeOK
  <2> QED
    BY <2>1, <2>2 DEF Engines, Moments, Never
<1>5. /\ engine.micro.at = Never <=> engine.micro.fired = Never
      /\ alert.kept => /\ redis /= Never /\ redis >= alert.now
                       /\ engine.micro.fired = Never \/ engine.micro.fired >= alert.now
  BY DEF RestInv, CooldownInv
<1>6. ASSUME NEW last \in Int, last /= Never, last >= alert.now,
             ~InCooldown(task[t].now, last)
      PROVE  task[t].now - alert.now >= rule.cooldown
  BY <1>3, <1>4, <1>6 DEF InCooldown
<1>7. CASE ReadCooldown(t)
  <2> DEFINE micro == IF redis = Never THEN NewEngine.micro ELSE [at |-> clock, fired |-> redis]
             e == [engine EXCEPT !.micro = micro]
  <2>1. micro \in [at : Moments, fired : Moments]
    BY <1>3, <1>4, NewEngineType DEF Engines, Moments
  <2>2. /\ e \in Engines /\ e.listed = engine.listed /\ e.loadedAt = engine.loadedAt
        /\ e.micro = micro /\ e.visits = engine.visits /\ e.incidents = engine.incidents
        /\ e.streaks = engine.streaks
    BY <1>4, <2>1 DEF Engines
  <2>3. /\ micro.at = Never <=> micro.fired = Never
        /\ micro.fired = redis
    BY <1>3 DEF NewEngine, Never
  <2>4. GateInv(e, history)
    BY <1>3, <2>2 DEF GateInv, VisitInv, IncidentInv, FramesInv
  <2>5. Decide(t, e, history, task[t].now, redis, FALSE)
    BY <1>7 DEF ReadCooldown
  <2>6. redis \in Int
    BY <1>4 DEF Moments, Never
  <2>7. (alert.kept /\ ~InCooldown(task[t].now, redis)) =>
           task[t].now - alert.now >= rule.cooldown
    BY <1>5, <1>6, <2>6
  <2> HIDE DEF e, micro
  <2> QED
    BY <1>1, <1>2, <1>3, <1>4, <1>5, <2>2, <2>3, <2>4, <2>5, <2>7, DecideRest
<1>8. CASE ReadFails(t)
  <2> DEFINE last == engine.micro.fired
             blind == last = Never
  <2>1. Decide(t, engine, history, task[t].now, last, blind)
    BY <1>8 DEF ReadFails
  <2>2. (alert.kept /\ ~blind /\ ~InCooldown(task[t].now, last)) =>
           task[t].now - alert.now >= rule.cooldown
    BY <1>4, <1>5, <1>6
  <2>3. blind \in BOOLEAN
    OBVIOUS
  <2> HIDE DEF last, blind
  <2> QED
    BY <1>1, <1>2, <1>3, <1>4, <1>5, <2>1, <2>2, <2>3, DecideRest
<1> QED
  BY <1>7, <1>8

LEMMA MatchStep ==
  ASSUME TypeOK, RestInv, TypeOK', NEW t \in Tasks, Match(t)
  PROVE  RestInv'
<1> DEFINE f == task[t].frame
           e == Counted(Pruned(engine, f), f)
           h == Witnessed(history, f)
<1>1. /\ task[t] \in Evaluations /\ f \in Frames /\ task[t].at = "match"
      /\ engine \in Engines /\ history \in Histories /\ e \in Engines /\ h \in Histories
      /\ clock \in Nat
  BY MatchedType DEF Match, TypeOK
<1>2. UNCHANGED <<clock, rule, db, redis, alert>>
  BY DEF Match
<1>3. GateInv(e, h) /\ (Matches(e, f) => Matched(f, h, clock))
  BY <1>1, WitnessedGates DEF RestInv
<1>4. /\ e.listed = engine.listed /\ e.loadedAt = engine.loadedAt /\ e.micro = engine.micro
  BY <1>1 DEF Counted, Pruned, Engines
<1>5. /\ engine.micro.at = Never <=> engine.micro.fired = Never
      /\ alert.kept => engine.micro.fired = Never \/ engine.micro.fired >= alert.now
      /\ alert.now <= clock
  BY DEF RestInv, CooldownInv, TimeInv
<1>6. ASSUME Matches(e, f)
      PROVE  t = "keyframes"
  BY <1>6 DEF Matches, RestInv, SerialInv, Tasks
<1>7. CASE Matches(e, f) /\ Decide(t, e, h, clock, e.micro.fired, FALSE)
           /\ (rule.cooldown = 0 \/ MicroHit)
  <2>1. (alert.kept /\ ~InCooldown(clock, e.micro.fired)) => clock - alert.now >= rule.cooldown
    <3>1. /\ rule.cooldown \in Nat /\ alert.now \in Int /\ e.micro.fired \in Int
      <4>1. alert.now \in Int
        BY DEF TypeOK, Moments, Never
      <4>2. engine.micro.fired \in Int
        BY <1>1 DEF Engines, Moments, Never
      <4> QED
        BY <1>4, <4>1, <4>2, RuleFacts
    <3>2. CASE rule.cooldown = 0
      BY <1>1, <1>5, <3>1, <3>2
    <3>3. CASE rule.cooldown > 0 /\ MicroHit
      <4>1. engine.micro.fired /= Never
        BY <1>1, <1>5, <3>3 DEF MicroHit, Never
      <4> QED
        BY <1>1, <1>4, <1>5, <3>1, <3>3, <4>1 DEF InCooldown
    <3> QED
      BY <1>7, <3>1, <3>2, <3>3
  <2> HIDE DEF e, h
  <2>2. t = "keyframes" /\ Decide("keyframes", e, h, clock, e.micro.fired, FALSE)
    BY <1>6, <1>7
  <2>3. /\ e.micro.at = Never <=> e.micro.fired = Never
        /\ alert.kept => e.micro.fired = Never \/ e.micro.fired >= alert.now
        /\ GateInv(e, h)
    BY <1>3, <1>4, <1>5
  <2>4. task["keyframes"].at = "match" /\ clock <= clock
    BY <1>1, <2>2
  <2> QED
    BY <1>1, <1>2, <1>4, <1>5, <2>1, <2>2, <2>3, <2>4, DecideRest
<1>8. CASE \/ Set(t, Idle) /\ engine' = e /\ history' = h
           \/ /\ Matches(e, f) /\ rule.cooldown > 0 /\ engine' = e /\ history' = h
              /\ Set(t, [task[t] EXCEPT !.at = "read", !.now = clock])
  <2>1. \A s \in Tasks : s /= t => task'[s] = task[s]
    BY <1>8, SetFacts
  <2>2. \/ /\ task'[t].at = "idle" /\ task'[t].begun = 0 /\ task'[t].now = 0
           /\ task'[t].frame.match = {} /\ ~task'[t].kept
        \/ /\ Matches(e, f) /\ rule.cooldown > 0 /\ task'[t].at = "read" /\ task'[t].now = clock
           /\ task'[t].frame = f /\ task'[t].stale = task[t].stale
           /\ task'[t].begun = task[t].begun /\ task'[t].kept = task[t].kept
    <3>1. CASE Set(t, Idle)
      BY <3>1, SetFacts DEF Idle, NoFrame
    <3>2. CASE /\ Matches(e, f) /\ rule.cooldown > 0
               /\ Set(t, [task[t] EXCEPT !.at = "read", !.now = clock])
      <4>1. task'[t] = [task[t] EXCEPT !.at = "read", !.now = clock]
        BY <3>2, SetFacts
      <4> QED
        BY <1>1, <3>2, <4>1 DEF Evaluations
    <3> QED
      BY <1>8, <3>1, <3>2
  <2>3. engine' = e /\ history' = h
    BY <1>8
  <2> HIDE DEF e, h
  <2>4. SerialInv'
    BY <1>6, <2>1, <2>2 DEF RestInv, SerialInv, Firing, Tasks
  <2>5. TimeInv'
    BY <1>1, <1>2, <1>4, <2>1, <2>2, <2>3 DEF RestInv, TimeInv
  <2>6. GateInv(engine, history)'
    BY <1>1, <1>2, <1>3, <2>3, GatesKept
  <2>7. ReadInv'
    <3>1. ASSUME NEW s \in Tasks, s /= t, task[s].at = "read"
          PROVE  Matched(task[s].frame, h, task[s].now)
      <4>1. Matched(task[s].frame, history, task[s].now) /\ task[s].frame \in Frames
        BY <3>1 DEF RestInv, ReadInv, TypeOK, Evaluations
      <4>2. ASSUME rule.gate = "frames", NEW k \in Keys, Enough(history.seen[k], task[s].now)
            PROVE  Enough(h.seen[k], task[s].now)
        <5>1. /\ history.seen[k] \in Seq(Nat) /\ h.seen[k] \in Seq(Nat) /\ MinFrames \in Nat
              /\ Len(history.seen[k]) \in Nat /\ Sightings(f, k) \in Nat
          BY <1>1, RuleFacts, SightingsType, LenProperties DEF Histories
        <5>2. /\ Len(h.seen[k]) = Len(history.seen[k]) + Sightings(f, k)
              /\ \A n \in 1..Len(history.seen[k]) : h.seen[k][n] = history.seen[k][n]
          BY <1>1, <4>2, WitnessedFacts DEF h
        <5>3. Len(history.seen[k]) <= Len(h.seen[k])
          BY <5>1, <5>2
        <5> QED
          BY <4>2, <5>1, <5>2, <5>3, EnoughGrows
      <4> QED
        BY <4>1, <4>2 DEF Matched, Frames
    <3>2. ASSUME task'[t].at = "read"
          PROVE  Matched(f, h, clock) /\ rule.cooldown > 0
      BY <1>3, <2>2, <3>2
    <3>3. ASSUME NEW s \in Tasks
          PROVE  /\ task'[s].at \in {"read", "set"} => rule'.cooldown > 0
                 /\ task'[s].at = "read" => Matched(task'[s].frame, history', task'[s].now)
      BY <1>2, <2>1, <2>2, <2>3, <3>1, <3>2 DEF RestInv, ReadInv
    <3> QED
      BY <1>2, <3>3 DEF ReadInv, Matched
  <2>8. CooldownInv'
    BY <1>2, <1>4, <1>5, <2>1, <2>2, <2>3, <1>1 DEF RestInv, CooldownInv, Firing, Tasks
  <2>9. FreshInv'
    BY <1>1, <1>2, <1>4, <2>1, <2>2, <2>3 DEF RestInv, FreshInv, InTime, Firing
  <2> QED
    BY <2>4, <2>5, <2>6, <2>7, <2>8, <2>9 DEF RestInv
<1> QED
  BY <1>7, <1>8 DEF Match

LEMMA ClaimStep ==
  ASSUME TypeOK, RestInv, TypeOK', NEW t \in Tasks, Claim(t)
  PROVE  RestInv'
<1>1. /\ \/ /\ rule.cooldown > 0 /\ task'[t] = [task[t] EXCEPT !.at = "set"]
            /\ engine' = [engine EXCEPT !.micro = [at |-> task[t].now, fired |-> task[t].now]]
         \/ ~(rule.cooldown > 0) /\ task'[t] = [task[t] EXCEPT !.at = "fire"] /\ engine' = engine
      /\ \A s \in Tasks : s /= t => task'[s] = task[s]
      /\ task[t].at = "claim"
      /\ UNCHANGED <<clock, rule, db, redis, admin, left, alert, history>>
  BY SetFacts DEF Claim, GoTo
<1>2. /\ task[t] \in Evaluations /\ engine \in Engines /\ t = "keyframes"
      /\ task[t].now \in Nat /\ alert.now \in Int
  BY <1>1 DEF TypeOK, RestInv, SerialInv, Firing, Tasks, Evaluations, Moments, Never
<1>3. /\ \/ task'[t].at = "set" /\ rule.cooldown > 0
         \/ task'[t].at = "fire" /\ ~(rule.cooldown > 0)
      /\ task'[t].begun = task[t].begun /\ task'[t].now = task[t].now
      /\ task'[t].stale = task[t].stale /\ task'[t].blind = task[t].blind
      /\ task'[t].kept = task[t].kept
  BY <1>1, <1>2 DEF Evaluations
<1>4. /\ engine'.listed = engine.listed /\ engine'.loadedAt = engine.loadedAt
      /\ engine'.visits = engine.visits /\ engine'.incidents = engine.incidents
      /\ engine'.streaks = engine.streaks
      /\ \/ rule.cooldown > 0 /\ engine'.micro = [at |-> task[t].now, fired |-> task[t].now]
         \/ ~(rule.cooldown > 0) /\ engine'.micro = engine.micro
  BY <1>1, <1>2 DEF Engines
<1>5. SerialInv'
  BY <1>1, <1>2 DEF RestInv, SerialInv, Firing, Tasks
<1>6. TimeInv'
  BY <1>1, <1>3, <1>4 DEF RestInv, TimeInv
<1>7. GateInv(engine, history)'
  BY <1>1, <1>4, GatesKept DEF RestInv, TypeOK
<1>8. ReadInv'
  BY <1>1, <1>3 DEF RestInv, ReadInv, Matched
<1>9. CooldownInv'
  BY <1>1, <1>2, <1>3, <1>4 DEF RestInv, CooldownInv, Firing, Tasks, Never
<1>10. FreshInv'
  BY <1>1, <1>3, <1>4 DEF RestInv, FreshInv, InTime, Firing
<1> QED
  BY <1>5, <1>6, <1>7, <1>8, <1>9, <1>10 DEF RestInv

LEMMA SetCooldownStep ==
  ASSUME TypeOK, RestInv, TypeOK', NEW t \in Tasks, SetCooldown(t) \/ SetFails(t)
  PROVE  RestInv'
<1>1. /\ \/ redis' = task[t].now /\ task'[t] = [task[t] EXCEPT !.at = "fire", !.kept = TRUE]
         \/ redis' = redis /\ task'[t] = [task[t] EXCEPT !.at = "fire"]
      /\ \A s \in Tasks : s /= t => task'[s] = task[s]
      /\ task[t].at = "set"
      /\ UNCHANGED <<clock, rule, db, engine, admin, left, alert, history>>
  BY SetFacts DEF SetCooldown, SetFails, GoTo
<1>2. /\ task[t] \in Evaluations /\ t = "keyframes" /\ task[t].now \in Nat /\ rule.cooldown > 0
      /\ alert.now \in Int
  BY <1>1 DEF TypeOK, RestInv, SerialInv, ReadInv, Firing, Tasks, Evaluations, Moments, Never
<1>3. /\ task'[t].at = "fire"
      /\ \/ redis' = task[t].now /\ task'[t].kept
         \/ redis' = redis /\ task'[t].kept = task[t].kept
      /\ task'[t].begun = task[t].begun /\ task'[t].now = task[t].now
      /\ task'[t].stale = task[t].stale /\ task'[t].blind = task[t].blind
  BY <1>1, <1>2 DEF Evaluations
<1>4. SerialInv'
  BY <1>1, <1>2 DEF RestInv, SerialInv, Firing, Tasks
<1>5. TimeInv'
  BY <1>1, <1>3 DEF RestInv, TimeInv
<1>6. GateInv(engine, history)'
  BY <1>1, GatesKept DEF RestInv, TypeOK
<1>7. ReadInv'
  BY <1>1, <1>3 DEF RestInv, ReadInv, Matched
<1>8. CooldownInv'
  BY <1>1, <1>2, <1>3 DEF RestInv, CooldownInv, Firing, Tasks, Never
<1>9. FreshInv'
  BY <1>1, <1>3 DEF RestInv, FreshInv, InTime, Firing
<1> QED
  BY <1>4, <1>5, <1>6, <1>7, <1>8, <1>9 DEF RestInv

LEMMA FireStep ==
  ASSUME TypeOK, RestInv, TypeOK', NEW t \in Tasks, Fire(t) \/ StoreFails(t)
  PROVE  RestInv'
<1>1. /\ \/ alert' = [now |-> task[t].now, kept |-> task[t].kept] \/ alert' = alert
      /\ task'[t] = Idle
      /\ \A s \in Tasks : s /= t => task'[s] = task[s]
      /\ task[t].at = "fire"
      /\ UNCHANGED <<clock, rule, db, redis, engine, admin, left>>
      /\ \/ history' = [history EXCEPT !.alerted = @ \union task[t].frame.present]
         \/ history' = [history EXCEPT !.unheard = @ \union task[t].frame.present]
  BY SetFacts DEF Fire, StoreFails
<1>2. /\ task[t] \in Evaluations /\ t = "keyframes" /\ task[t].now \in Nat /\ clock \in Nat
  BY <1>1 DEF TypeOK, RestInv, SerialInv, Firing, Tasks, Evaluations
<1>3. /\ task'[t].at = "idle" /\ task'[t].begun = 0 /\ task'[t].now = 0 /\ ~task'[t].kept
  BY <1>1 DEF Idle
<1>4. SerialInv'
  BY <1>1, <1>2 DEF RestInv, SerialInv, Firing, Tasks
<1>5. TimeInv'
  BY <1>1, <1>2, <1>3 DEF RestInv, TimeInv
<1>6. GateInv(engine, history)'
  <2>1. /\ history \in Histories /\ history'.noticed = history.noticed
        /\ history'.others = history.others /\ history'.seen = history.seen
    BY <1>1 DEF TypeOK, Histories
  <2> QED
    BY <1>1, <2>1, GatesKept DEF RestInv, TypeOK
<1>7. ReadInv'
  <2>1. task'["events"].at /= "read" /\ task'["keyframes"].at /= "read"
    BY <1>1, <1>2, <1>3 DEF RestInv, SerialInv, Tasks
  <2> QED
    BY <1>1, <1>3, <2>1 DEF RestInv, ReadInv, Tasks
<1>8. CooldownInv'
  BY <1>1, <1>2, <1>3 DEF RestInv, CooldownInv, Firing, Tasks, Never
<1>9. FreshInv'
  BY <1>1, <1>3 DEF RestInv, FreshInv, InTime, Firing
<1> QED
  BY <1>4, <1>5, <1>6, <1>7, <1>8, <1>9 DEF RestInv

LEMMA BeginStep ==
  ASSUME TypeOK, RestInv, TypeOK', NEW t \in Tasks, NEW f \in Frames, Begin(t, f),
         t = "events" => f = NoFrame
  PROVE  RestInv'
<1>1. /\ \/ /\ clock - engine.loadedAt < CacheTTL
            /\ task'[t] = [Idle EXCEPT !.frame = f, !.begun = clock, !.at = "loop"]
         \/ task'[t] = [Idle EXCEPT !.frame = f, !.begun = clock, !.at = "query"]
      /\ \A s \in Tasks : s /= t => task'[s] = task[s]
      /\ task[t].at = "idle"
      /\ UNCHANGED <<clock, rule, db, redis, engine, admin, alert, history>>
  BY SetFacts DEF Begin
<1>2. /\ task[t] \in Evaluations /\ clock \in Nat /\ MaxEval \in Nat
      /\ CacheTTL \in Nat /\ db.since \in Nat
  BY RuleFacts DEF TypeOK
<1>3. /\ \/ task'[t].at = "loop" /\ clock - engine.loadedAt < CacheTTL
         \/ task'[t].at = "query"
      /\ task'[t].begun = clock /\ task'[t].now = 0 /\ ~task'[t].kept /\ task'[t].frame = f
  BY <1>1 DEF Idle
<1>4. SerialInv'
  BY <1>1, <1>3 DEF RestInv, SerialInv, Firing, Tasks, NoFrame
<1>5. TimeInv'
  BY <1>1, <1>2, <1>3 DEF RestInv, TimeInv
<1>6. GateInv(engine, history)'
  BY <1>1, GatesKept DEF RestInv, TypeOK
<1>7. ReadInv'
  BY <1>1, <1>3 DEF RestInv, ReadInv, Matched
<1>8. CooldownInv'
  BY <1>1, <1>3 DEF RestInv, CooldownInv, Firing, Tasks
<1>9. FreshInv'
  <2>1. ASSUME ~db.enabled, engine.listed, clock - engine.loadedAt < CacheTTL
        PROVE  InTime(clock)
    <3>1. engine.loadedAt <= db.since + MaxEval
      BY <2>1 DEF RestInv, FreshInv
    <3>2. engine.loadedAt \in Int
      BY DEF TypeOK, Engines, Moments, Never
    <3> QED
      BY <1>2, <2>1, <3>1, <3>2 DEF InTime
  <2> QED
    BY <1>1, <1>3, <2>1 DEF RestInv, FreshInv, InTime, Firing
<1> QED
  BY <1>4, <1>5, <1>6, <1>7, <1>8, <1>9 DEF RestInv

(***************************************************************************)
(* Edits, time and restarts.                                               *)
(***************************************************************************)
LEMMA EditStep ==
  ASSUME TypeOK, RestInv, TypeOK', NEW enabled \in BOOLEAN, Edit(enabled)
  PROVE  RestInv'
<1>1. /\ db' = IF enabled = db.enabled THEN db ELSE [enabled |-> enabled, since |-> clock]
      /\ UNCHANGED <<clock, rule, redis, engine, task, left, alert, history>>
  BY DEF Edit
<1>2. /\ clock \in Nat /\ CacheTTL \in Nat \ {0} /\ MaxEval \in Nat
      /\ db \in [enabled : BOOLEAN, since : Nat]
      /\ \A t \in Tasks : task[t].begun \in Nat
  BY RuleFacts DEF TypeOK, Evaluations
<1>3. engine.loadedAt \in Int
  BY DEF TypeOK, Engines, Moments, Never
<1>4. SerialInv' /\ ReadInv' /\ CooldownInv'
  BY <1>1 DEF RestInv, SerialInv, ReadInv, CooldownInv, Matched
<1>5. TimeInv'
  BY <1>1, <1>2 DEF RestInv, TimeInv
<1>6. GateInv(engine, history)'
  BY <1>1, GatesKept DEF RestInv, TypeOK
<1>7. FreshInv'
  <2>1. CASE db' = db
    BY <1>1, <2>1 DEF RestInv, FreshInv, InTime
  <2>2. CASE db' = [enabled |-> enabled, since |-> clock]
    <3>1. /\ engine.loadedAt <= clock + MaxEval
          /\ \A t \in Tasks : /\ task[t].begun <= clock /\ task[t].begun <= clock + MaxEval
                              /\ task[t].begun < clock + CacheTTL + MaxEval
      BY <1>2, <1>3 DEF RestInv, TimeInv
    <3> QED
      BY <1>1, <2>2, <3>1 DEF FreshInv, InTime
  <2> QED
    BY <1>1, <2>1, <2>2
<1> QED
  BY <1>4, <1>5, <1>6, <1>7 DEF RestInv

LEMMA DeleteCooldownStep ==
  ASSUME TypeOK, RestInv, TypeOK', DeleteCooldown
  PROVE  RestInv'
<1>1. /\ alert' = [alert EXCEPT !.kept = FALSE]
      /\ task' = [t \in Tasks |-> [task[t] EXCEPT !.kept = FALSE]]
      /\ UNCHANGED <<clock, rule, db, engine, left, history>>
  BY DEF DeleteCooldown
<1>2. alert'.now = alert.now /\ ~alert'.kept
  BY <1>1 DEF TypeOK
<1>3. ASSUME NEW t \in Tasks
      PROVE  /\ ~task'[t].kept /\ task'[t].at = task[t].at /\ task'[t].frame = task[t].frame
             /\ task'[t].begun = task[t].begun /\ task'[t].now = task[t].now
             /\ task'[t].listed = task[t].listed /\ task'[t].stale = task[t].stale
             /\ task'[t].blind = task[t].blind
  <2>1. task[t] \in Evaluations /\ task'[t] = [task[t] EXCEPT !.kept = FALSE]
    BY <1>1 DEF TypeOK
  <2> QED
    BY <2>1 DEF Evaluations
<1>4. SerialInv'
  BY <1>3 DEF RestInv, SerialInv, Tasks
<1>5. TimeInv'
  BY <1>1, <1>2, <1>3 DEF RestInv, TimeInv
<1>6. GateInv(engine, history)'
  BY <1>1, GatesKept DEF RestInv, TypeOK
<1>7. ReadInv'
  BY <1>1, <1>3 DEF RestInv, ReadInv, Matched
<1>8. CooldownInv'
  BY <1>1, <1>2, <1>3 DEF RestInv, CooldownInv, Firing, Tasks
<1>9. FreshInv'
  BY <1>1, <1>3 DEF RestInv, FreshInv, InTime
<1> QED
  BY <1>4, <1>5, <1>6, <1>7, <1>8, <1>9 DEF RestInv

LEMMA InvalidateStep ==
  ASSUME TypeOK, RestInv, TypeOK', Invalidate
  PROVE  RestInv'
<1>1. /\ engine' = [engine EXCEPT !.loadedAt = Never]
      /\ UNCHANGED <<clock, rule, db, redis, task, left, alert, history>>
  BY DEF Invalidate
<1>2. engine \in Engines /\ clock \in Nat /\ MaxEval \in Nat /\ db.since \in Nat
  BY RuleFacts DEF TypeOK
<1>3. /\ engine'.listed = engine.listed /\ engine'.loadedAt = Never
      /\ engine'.micro = engine.micro /\ engine'.visits = engine.visits
      /\ engine'.incidents = engine.incidents /\ engine'.streaks = engine.streaks
  BY <1>1, <1>2 DEF Engines
<1>4. SerialInv' /\ ReadInv' /\ CooldownInv'
  BY <1>1, <1>3 DEF RestInv, SerialInv, ReadInv, CooldownInv, Matched
<1>5. TimeInv'
  BY <1>1, <1>2, <1>3 DEF RestInv, TimeInv, Never
<1>6. GateInv(engine, history)'
  BY <1>1, <1>3, GatesKept DEF RestInv, TypeOK
<1>7. FreshInv'
  BY <1>1, <1>2, <1>3 DEF RestInv, FreshInv, InTime, Never
<1> QED
  BY <1>4, <1>5, <1>6, <1>7 DEF RestInv

LEMMA TickStep ==
  ASSUME TypeOK, RestInv, TypeOK', Tick
  PROVE  RestInv'
<1>1. /\ clock' = clock + 1
      /\ \A t \in Tasks : task[t].at /= "idle" => clock - task[t].begun < MaxEval
      /\ UNCHANGED <<rule, db, redis, engine, task, left, alert, history>>
  BY DEF Tick
<1>2. /\ clock \in Nat /\ MaxEval \in Nat /\ db.since \in Nat
      /\ \A t \in Tasks : task[t].begun \in Nat /\ task[t].now \in Nat
  BY RuleFacts DEF TypeOK, Evaluations
<1>3. engine.loadedAt \in Int /\ alert.now \in Int
  <2>1. engine.loadedAt \in Int
    BY DEF TypeOK, Engines, Moments, Never
  <2>2. alert.now \in Int
    BY DEF TypeOK, Moments, Never
  <2> QED
    BY <2>1, <2>2
<1>4. SerialInv' /\ ReadInv' /\ CooldownInv' /\ FreshInv'
  BY <1>1 DEF RestInv, SerialInv, ReadInv, CooldownInv, FreshInv, InTime, Matched
<1>5. TimeInv'
  BY <1>1, <1>2, <1>3 DEF RestInv, TimeInv
<1>6. GateInv(engine, history)'
  <2>1. clock <= clock'
    BY <1>1, <1>2
  <2> QED
    BY <1>1, <2>1, GatesKept DEF RestInv, TypeOK
<1> QED
  BY <1>4, <1>5, <1>6 DEF RestInv

LEMMA CrashStep ==
  ASSUME TypeOK, RestInv, TypeOK', Crash
  PROVE  RestInv'
<1>1. /\ engine' = NewEngine /\ task' = [t \in Tasks |-> Idle] /\ history' = NewHistory
      /\ UNCHANGED <<clock, rule, db, redis, alert>>
  BY DEF Crash
<1>2. clock \in Nat /\ MaxEval \in Nat /\ db.since \in Nat
  BY RuleFacts DEF TypeOK
<1>3. GateInv(engine, history)'
  <2>1. VisitInv(engine, history)'
    BY <1>1 DEF NewEngine, VisitInv
  <2>2. IncidentInv(engine, history)'
    BY <1>1, RuleAssumption DEF NewEngine, NewHistory, IncidentInv
  <2>3. FramesInv(engine, history)'
    BY <1>1, <1>2 DEF NewEngine, NewHistory, NoStreak, Never, FramesInv, Backed
  <2> QED
    BY <2>1, <2>2, <2>3 DEF GateInv
<1>4. SerialInv' /\ ReadInv'
  BY <1>1 DEF Idle, NoFrame, Tasks, Firing, SerialInv, ReadInv
<1>5. TimeInv'
  BY <1>1, <1>2 DEF RestInv, TimeInv, NewEngine, Idle, Never
<1>6. CooldownInv'
  BY <1>1 DEF RestInv, CooldownInv, NewEngine, Idle, Firing, Tasks
<1>7. FreshInv'
  BY <1>1 DEF FreshInv, NewEngine, Idle, Firing
<1> QED
  BY <1>3, <1>4, <1>5, <1>6, <1>7 DEF RestInv

LEMMA RestStep ==
  ASSUME TypeOK, RestInv, TypeOK', [Next]_vars
  PROVE  RestInv'
<1>1. ASSUME NEW f \in Keyframes, EvaluateKeyframe(f)
      PROVE  RestInv'
  BY <1>1, KeyframeType, BeginStep DEF EvaluateKeyframe, Tasks
<1>2. CASE EvaluateEvent
  <2>1. NoFrame \in Frames
    BY DEF NoFrame, Frames
  <2> QED
    BY <1>2, <2>1, BeginStep DEF EvaluateEvent, Tasks
<1>3. ASSUME NEW t \in Tasks, Evaluation(t)
      PROVE  RestInv'
  BY <1>3, QueryStep, InstallStep, StampStep, LoopStep, MatchStep, ReadCooldownStep, ClaimStep,
     SetCooldownStep, FireStep DEF Evaluation
<1>4. ASSUME NEW enabled \in BOOLEAN, Edit(enabled)
      PROVE  RestInv'
  BY <1>4, EditStep
<1>5. CASE Publish \/ PublishFails \/ UNCHANGED vars
  <2>1. UNCHANGED <<clock, rule, db, redis, engine, task, left, alert, history>>
    BY <1>5 DEF Publish, PublishFails, vars
  <2>2. SerialInv' /\ TimeInv' /\ ReadInv' /\ CooldownInv' /\ FreshInv'
    BY <2>1 DEF RestInv, SerialInv, TimeInv, ReadInv, CooldownInv, FreshInv, InTime, Matched
  <2>3. GateInv(engine, history)'
    BY <2>1, GatesKept DEF RestInv, TypeOK
  <2> QED
    BY <2>2, <2>3 DEF RestInv
<1>6. CASE DeleteCooldown
  BY <1>6, DeleteCooldownStep
<1>7. CASE Invalidate
  BY <1>7, InvalidateStep
<1>8. CASE Tick
  BY <1>8, TickStep
<1>9. CASE Crash
  BY <1>9, CrashStep
<1> QED
  BY <1>1, <1>2, <1>3, <1>4, <1>5, <1>6, <1>7, <1>8, <1>9 DEF Next

(***************************************************************************)
(* The theorems.                                                           *)
(***************************************************************************)
(* IInvHolds: memory, history and the evaluations under way agree in every *)
(* reachable state, wherever reads fail, reloads overtake edits and the    *)
(* process restarts.                                                       *)
THEOREM IInvHolds == Spec => []IInv
<1>1. Init => IInv
  BY InitTypes, InitRest DEF IInv
<1>2. IInv /\ [Next]_vars => IInv'
  BY TypesStep, RestStep DEF IInv
<1> QED
  BY <1>1, <1>2, PTL DEF Spec

(* TypeCorrect: every variable keeps its type.                             *)
THEOREM TypeCorrect == Spec => []TypeOK
<1>1. IInv => TypeOK
  BY DEF IInv
<1> QED
  BY <1>1, IInvHolds, PTL

(* CooldownKept: alerts are a cooldown apart, whatever restarts and failed *)
(* reads come between them.                                                *)
THEOREM CooldownKept == Spec => CooldownHolds
<1>1. IInv /\ [Next]_vars =>
        [\A t \in Tasks : (Alerts(t) /\ alert.kept /\ ~task[t].blind) =>
           task[t].now - alert.now >= rule.cooldown]_vars
  <2> SUFFICES ASSUME IInv, NEW t \in Tasks, Alerts(t), alert.kept, ~task[t].blind
               PROVE  task[t].now - alert.now >= rule.cooldown
    OBVIOUS
  <2>1. task[t].at = "fire" /\ t = "keyframes"
    BY DEF Alerts, IInv, RestInv, SerialInv, Firing, Tasks
  <2> QED
    BY <2>1 DEF IInv, RestInv, CooldownInv, Firing
<1> QED
  BY <1>1, IInvHolds, PTL DEF Spec, CooldownHolds

(* DisabledFallsQuiet: no evaluation alerts for a disabled rule that began *)
(* a cache's age and an evaluation after the edit.                         *)
THEOREM DisabledFallsQuiet == Spec => RuleFreshness
<1>1. IInv /\ [Next]_vars =>
        [\A t \in Tasks : (Alerts(t) /\ ~db.enabled /\ ~task[t].stale) =>
           task[t].begun < db.since + CacheTTL + MaxEval]_vars
  BY DEF Alerts, IInv, RestInv, FreshInv, InTime, Firing
<1> QED
  BY <1>1, IInvHolds, PTL DEF Spec, RuleFreshness

(* An evaluation leaves the gates by one of three steps, or with the       *)
(* process.                                                                *)
LEMMA GateSteps ==
  ASSUME TypeOK, [Next]_vars, NEW t \in Tasks, task[t].at \in {"match", "read"},
         task'[t].at /= task[t].at
  PROVE  \/ Match(t) /\ task[t].at = "match"
         \/ (ReadCooldown(t) \/ ReadFails(t)) /\ task[t].at = "read"
         \/ Crash
<1>1. ASSUME NEW s \in Tasks, s /= t, NEW x, Set(s, x)
      PROVE  FALSE
  BY <1>1, SetFacts
<1>2. ASSUME NEW f, EvaluateKeyframe(f) \/ EvaluateEvent
      PROVE  FALSE
  <2>1. ASSUME NEW s \in Tasks, NEW g, Begin(s, g)
        PROVE  FALSE
    BY <1>1, <2>1 DEF Begin
  <2> QED
    BY <1>2, <2>1 DEF EvaluateKeyframe, EvaluateEvent, Tasks
<1>3. ASSUME NEW s \in Tasks, s /= t
      PROVE  ~Evaluation(s)
  BY <1>1, <1>3
     DEF Evaluation, Query, QueryFails, Install, Stamp, Loop, Match, ReadCooldown, ReadFails,
         Claim, SetCooldown, SetFails, Fire, StoreFails, Decide, GoTo
<1>4. Evaluation(t) => Match(t) \/ ReadCooldown(t) \/ ReadFails(t)
  BY DEF Evaluation, Query, QueryFails, Install, Stamp, Loop, Claim, SetCooldown, SetFails,
         Fire, StoreFails
<1>5. ~DeleteCooldown
  <2> SUFFICES ASSUME DeleteCooldown
               PROVE  FALSE
    OBVIOUS
  <2>1. task'[t] = [task[t] EXCEPT !.kept = FALSE] /\ task[t] \in Evaluations
    BY DEF DeleteCooldown, TypeOK
  <2> QED
    BY <2>1 DEF Evaluations
<1>6. ~UNCHANGED task
  OBVIOUS
<1>7. Evaluation(t) \/ Crash
  BY <1>2, <1>3, <1>5, <1>6 DEF Next, Edit, Publish, PublishFails, Invalidate, Tick, vars
<1> QED
  BY <1>4, <1>7 DEF Match, ReadCooldown, ReadFails

(* What an evaluation that passes or drops a frame saw, after the trigger. *)
LEMMA GateOutcome ==
  ASSUME IInv, [Next]_vars, ~Crash, NEW t \in Tasks, task[t].at \in {"match", "read"},
         task'[t].at \in {"claim", "idle"}
  PROVE  \E e \in Engines, h \in Histories, now \in Nat, last \in Moments :
           /\ GateInv(e, h) /\ e.incidents = engine.incidents
           /\ h.others = history.others /\ h.noticed = history.noticed
           /\ h.alerted = history.alerted /\ h.unheard = history.unheard
           /\ \/ ~Matches(e, task[t].frame) /\ task'[t].at = "idle" /\ task[t].at = "match"
              \/ /\ Matched(task[t].frame, h, now)
                 /\ task'[t].at = "idle" => InCooldown(now, last) \/ Muted(e, task[t].frame)
                 /\ task'[t].at = "claim" =>
                      /\ ~Muted(e, task[t].frame)
                      /\ history' = Noted(h, task[t].frame) /\ task'[t].now = now
<1> DEFINE f == task[t].frame
<1>1. /\ TypeOK /\ task[t] \in Evaluations /\ f \in Frames /\ engine \in Engines
      /\ history \in Histories /\ clock \in Nat /\ task[t].now \in Nat
      /\ GateInv(engine, history)
  BY DEF IInv, RestInv, TypeOK, Evaluations
<1>2. ASSUME NEW e \in Engines, NEW h \in Histories, NEW now \in Nat, NEW last,
             NEW blind \in BOOLEAN, Decide(t, e, h, now, last, blind)
      PROVE  /\ task'[t].at = "idle" => InCooldown(now, last) \/ Muted(e, f)
             /\ task'[t].at = "claim" =>
                  ~Muted(e, f) /\ history' = Noted(h, f) /\ task'[t].now = now
  <2>1. CASE InCooldown(now, last) \/ Muted(e, f)
    <3>1. task'[t] = Idle
      BY <1>1, <1>2, <2>1, SetFacts DEF Decide
    <3> QED
      BY <2>1, <3>1 DEF Idle
  <2>2. CASE ~(InCooldown(now, last) \/ Muted(e, f))
    <3>1. /\ task'[t] = [task[t] EXCEPT !.at = "claim", !.now = now, !.blind = blind]
          /\ history' = Noted(h, f)
      BY <1>1, <1>2, <2>2, SetFacts DEF Decide
    <3> QED
      BY <1>1, <2>2, <3>1 DEF Evaluations
  <2> QED
    BY <2>1, <2>2
<1>3. CASE Match(t) /\ task[t].at = "match"
  <2> DEFINE e == Counted(Pruned(engine, f), f)
             h == Witnessed(history, f)
  <2>1. /\ e \in Engines /\ h \in Histories /\ GateInv(e, h)
        /\ Matches(e, f) => Matched(f, h, clock)
    BY <1>1, MatchedType, WitnessedGates
  <2>2. /\ e.incidents = engine.incidents
        /\ h.others = history.others /\ h.noticed = history.noticed
        /\ h.alerted = history.alerted /\ h.unheard = history.unheard
    BY <1>1, WitnessedFacts DEF Counted, Pruned, Engines
  <2>3. CASE ~Matches(e, f) /\ Set(t, Idle)
    <3>1. task'[t].at = "idle"
      BY <1>1, <2>3, SetFacts DEF Idle
    <3>2. clock \in Moments
      BY <1>1 DEF Moments
    <3> HIDE DEF e, h
    <3> QED
      BY <1>1, <1>3, <2>1, <2>2, <2>3, <3>1, <3>2
  <2>4. CASE Matches(e, f) /\ Decide(t, e, h, clock, e.micro.fired, FALSE)
    <3> DEFINE last == e.micro.fired
    <3>1. Decide(t, e, h, clock, last, FALSE)
      BY <2>4
    <3>2. last \in Moments
      BY <2>1 DEF Engines
    <3> HIDE DEF e, h, last
    <3>3. /\ task'[t].at = "idle" => InCooldown(clock, last) \/ Muted(e, f)
          /\ task'[t].at = "claim" =>
               ~Muted(e, f) /\ history' = Noted(h, f) /\ task'[t].now = clock
      BY <1>1, <1>2, <2>1, <3>1
    <3> QED
      BY <1>1, <2>1, <2>2, <2>4, <3>2, <3>3
  <2>5. ~Set(t, [task[t] EXCEPT !.at = "read", !.now = clock])
    <3> SUFFICES ASSUME Set(t, [task[t] EXCEPT !.at = "read", !.now = clock])
                 PROVE  FALSE
      OBVIOUS
    <3>1. task'[t] = [task[t] EXCEPT !.at = "read", !.now = clock]
      BY <1>1, SetFacts
    <3> QED
      BY <1>1, <3>1 DEF Evaluations
  <2> QED
    BY <1>3, <2>3, <2>4, <2>5 DEF Match
<1>4. ASSUME ReadCooldown(t) \/ ReadFails(t), task[t].at = "read"
      PROVE  \E e \in Engines, last \in Moments, blind \in BOOLEAN :
               /\ GateInv(e, history) /\ e.incidents = engine.incidents
               /\ Decide(t, e, history, task[t].now, last, blind)
  <2>1. CASE ReadCooldown(t)
    <3> DEFINE micro == IF redis = Never THEN NewEngine.micro
                        ELSE [at |-> clock, fired |-> redis]
               e == [engine EXCEPT !.micro = micro]
    <3>1. micro \in [at : Moments, fired : Moments]
      BY <1>1, NewEngineType DEF Engines, Moments, TypeOK
    <3>2. /\ e \in Engines /\ e.visits = engine.visits /\ e.incidents = engine.incidents
          /\ e.streaks = engine.streaks
      BY <1>1, <3>1 DEF Engines
    <3>3. GateInv(e, history)
      BY <1>1, <3>2 DEF GateInv, VisitInv, IncidentInv, FramesInv
    <3>4. Decide(t, e, history, task[t].now, redis, FALSE)
      BY <2>1 DEF ReadCooldown
    <3>5. redis \in Moments
      BY <1>1 DEF TypeOK
    <3> HIDE DEF e, micro
    <3> QED
      BY <3>2, <3>3, <3>4, <3>5
  <2>2. CASE ReadFails(t)
    <3>1. Decide(t, engine, history, task[t].now, engine.micro.fired,
                 engine.micro.fired = Never)
      BY <2>2 DEF ReadFails
    <3> DEFINE last == engine.micro.fired
               blind == last = Never
    <3>2. blind \in BOOLEAN /\ last \in Moments
      BY <1>1 DEF Engines
    <3>3. Decide(t, engine, history, task[t].now, last, blind)
      BY <3>1
    <3> HIDE DEF last, blind
    <3> QED
      BY <1>1, <3>2, <3>3
  <2> QED
    BY <1>4, <2>1, <2>2
<1>5. CASE (ReadCooldown(t) \/ ReadFails(t)) /\ task[t].at = "read"
  <2>1. PICK e \in Engines, last \in Moments, blind \in BOOLEAN :
               /\ GateInv(e, history) /\ e.incidents = engine.incidents
               /\ Decide(t, e, history, task[t].now, last, blind)
    BY <1>4, <1>5
  <2>2. Matched(f, history, task[t].now)
    BY <1>5 DEF IInv, RestInv, ReadInv
  <2>3. /\ task'[t].at = "idle" => InCooldown(task[t].now, last) \/ Muted(e, f)
        /\ task'[t].at = "claim" =>
             ~Muted(e, f) /\ history' = Noted(history, f) /\ task'[t].now = task[t].now
    BY <1>1, <1>2, <2>1
  <2> QED
    BY <1>1, <2>1, <2>2, <2>3
<1> QED
  BY <1>1, <1>3, <1>5, GateSteps

(* Whoever was noticed has been alerted for, or could not be, or is in the *)
(* frame whose alert is under way.                                         *)
AlertedInv ==
  LET K == task["keyframes"] IN
  history.noticed \subseteq history.alerted \union history.unheard
                            \union (IF K.at \in Firing THEN K.frame.present ELSE {})

(* A step that notes nothing, and leaves a firing evaluation firing.       *)
LEMMA AlertedKept ==
  ASSUME AlertedInv,
         history'.noticed = history.noticed, history'.alerted = history.alerted,
         history'.unheard = history.unheard,
         task["keyframes"].at \in Firing =>
           /\ task'["keyframes"].at \in Firing
           /\ task'["keyframes"].frame = task["keyframes"].frame
  PROVE  AlertedInv'
BY DEF AlertedInv

(* The steps of an evaluation that is not at the gates or in the end.      *)
LEMMA AlertedOnTheWay ==
  ASSUME IInv, AlertedInv, NEW t \in Tasks,
         \/ Query(t) \/ QueryFails(t) \/ Install(t) \/ Stamp(t) \/ Loop(t)
         \/ Claim(t) \/ SetCooldown(t) \/ SetFails(t)
  PROVE  AlertedInv'
<1>0. TypeOK
  BY DEF IInv
<1>1. history' = history
  BY DEF Query, QueryFails, Install, Stamp, Loop, Claim, SetCooldown, SetFails
<1>2. task[t] \in Evaluations
  BY DEF IInv, TypeOK
<1>3. ASSUME NEW s \in Tasks, s /= t
      PROVE  task'[s] = task[s]
  BY <1>0, <1>3, SetFacts
     DEF Query, QueryFails, Install, Stamp, Loop, Claim, SetCooldown, SetFails, GoTo
<1>4. ASSUME task[t].at \in Firing
      PROVE  task'[t].at \in Firing /\ task'[t].frame = task[t].frame
  <2>1. \/ \E at \in {"set", "fire"} : task'[t] = [task[t] EXCEPT !.at = at]
        \/ task'[t] = [task[t] EXCEPT !.at = "fire", !.kept = TRUE]
    BY <1>0, <1>4, SetFacts DEF Query, QueryFails, Install, Stamp, Loop, Claim, SetCooldown,
       SetFails, GoTo, Firing
  <2> QED
    BY <1>2, <2>1 DEF Evaluations, Firing
<1>5. task["keyframes"].at \in Firing =>
        /\ task'["keyframes"].at \in Firing
        /\ task'["keyframes"].frame = task["keyframes"].frame
  BY <1>3, <1>4 DEF Tasks
<1> QED
  BY <1>1, <1>5, AlertedKept

(* The gates: what passes them is under way.                               *)
LEMMA DecideMoves ==
  ASSUME TypeOK, NEW t \in Tasks, NEW e, NEW h, NEW now, NEW last, NEW blind,
         Decide(t, e, h, now, last, blind)
  PROVE  \/ task'[t].at = "idle" /\ history' = h
         \/ task'[t].at = "claim" /\ task'[t].frame = task[t].frame
<1>1. \/ task'[t] = Idle /\ history' = h
      \/ task'[t] = [task[t] EXCEPT !.at = "claim", !.now = now, !.blind = blind]
  BY SetFacts DEF Decide
<1>2. task[t] \in Evaluations
  BY DEF TypeOK
<1>3. ASSUME task'[t] = Idle
      PROVE  task'[t].at = "idle"
  BY <1>3 DEF Idle
<1>4. ASSUME task'[t] = [task[t] EXCEPT !.at = "claim", !.now = now, !.blind = blind]
      PROVE  task'[t].at = "claim" /\ task'[t].frame = task[t].frame
  BY <1>2, <1>4 DEF Evaluations
<1> QED
  BY <1>1, <1>3, <1>4

(* An evaluation that passes the gates keeps its frame.                    *)
LEMMA PassingKeepsFrame ==
  ASSUME TypeOK, NEW t \in Tasks, task'[t].at = "claim",
         Match(t) \/ ReadCooldown(t) \/ ReadFails(t)
  PROVE  task'[t].frame = task[t].frame
<1>1. CASE Match(t)
  <2> DEFINE e == Counted(Pruned(engine, task[t].frame), task[t].frame)
             h == Witnessed(history, task[t].frame)
             last == e.micro.fired
  <2>1. \/ Set(t, Idle) \/ Set(t, [task[t] EXCEPT !.at = "read", !.now = clock])
        \/ Decide(t, e, h, clock, last, FALSE)
    BY <1>1 DEF Match
  <2> HIDE DEF e, h, last
  <2>2. CASE Decide(t, e, h, clock, last, FALSE)
    BY <2>2, DecideMoves
  <2>3. task[t] \in Evaluations
    BY DEF TypeOK
  <2>4. ~Set(t, [task[t] EXCEPT !.at = "read", !.now = clock])
    <3> SUFFICES ASSUME Set(t, [task[t] EXCEPT !.at = "read", !.now = clock])
                 PROVE  FALSE
      OBVIOUS
    <3>1. task'[t] = [task[t] EXCEPT !.at = "read", !.now = clock]
      BY SetFacts
    <3> QED
      BY <2>3, <3>1 DEF Evaluations
  <2>5. ~Set(t, Idle)
    BY SetFacts DEF Idle
  <2> QED
    BY <2>1, <2>2, <2>4, <2>5
<1>2. CASE ReadCooldown(t)
  <2> DEFINE micro == IF redis = Never THEN NewEngine.micro
                      ELSE [at |-> clock, fired |-> redis]
             e == [engine EXCEPT !.micro = micro]
  <2>1. Decide(t, e, history, task[t].now, redis, FALSE)
    BY <1>2 DEF ReadCooldown
  <2> HIDE DEF e
  <2> QED
    BY <2>1, DecideMoves
<1>3. CASE ReadFails(t)
  <2> DEFINE last == engine.micro.fired
             blind == last = Never
  <2>1. Decide(t, engine, history, task[t].now, last, blind)
    BY <1>3 DEF ReadFails
  <2> HIDE DEF last, blind
  <2> QED
    BY <2>1, DecideMoves
<1> QED
  BY <1>1, <1>2, <1>3

LEMMA AlertedGates ==
  ASSUME IInv, [Next]_vars, AlertedInv, ~Crash, NEW t \in Tasks,
         Match(t) \/ ReadCooldown(t) \/ ReadFails(t)
  PROVE  AlertedInv'
<1>0. TypeOK
  BY DEF IInv
<1>1. task[t].at \in {"match", "read"} /\ task[t] \in Evaluations
  BY DEF Match, ReadCooldown, ReadFails, IInv, TypeOK
<1>2. ASSUME NEW s \in Tasks, s /= t
      PROVE  task'[s] = task[s]
  BY <1>0, <1>2, SetFacts DEF Match, ReadCooldown, ReadFails, Decide
<1>3. CASE task'[t].at = "claim"
  <2>1. PICK e \in Engines, h \in Histories, now \in Nat, last \in Moments :
           /\ h.noticed = history.noticed
           /\ h.alerted = history.alerted /\ h.unheard = history.unheard
           /\ Matched(task[t].frame, h, now)
           /\ history' = Noted(h, task[t].frame)
    BY <1>1, <1>3, GateOutcome
  <2>2. t = "keyframes"
    BY <2>1 DEF Matched, IInv, RestInv, SerialInv, Tasks
  <2>3. task[t].at \notin Firing
    BY <1>1 DEF Firing
  <2>4. /\ history'.noticed = history.noticed \union task[t].frame.present
        /\ history'.alerted = history.alerted /\ history'.unheard = history.unheard
    BY <2>1 DEF Noted, Histories
  <2>5. task'[t].at \in Firing /\ task'[t].frame = task[t].frame
    BY <1>0, <1>3, PassingKeepsFrame DEF Firing
  <2> QED
    BY <2>2, <2>3, <2>4, <2>5 DEF AlertedInv
<1>4. CASE task'[t].at /= "claim"
  <2>1. /\ history \in Histories /\ clock \in Nat /\ task[t].frame \in Frames
    BY <1>1 DEF IInv, TypeOK, Evaluations
  <2>3. history' = history \/ history' = Witnessed(history, task[t].frame)
    BY <1>0, <1>4, DecideMoves DEF Match, ReadCooldown, ReadFails
  <2>4. /\ history'.noticed = history.noticed
        /\ history'.alerted = history.alerted /\ history'.unheard = history.unheard
    BY <2>1, <2>3, WitnessedFacts
  <2>5. task["keyframes"].at \in Firing => task'["keyframes"] = task["keyframes"]
    BY <1>1, <1>2 DEF Firing, Tasks
  <2> QED
    BY <2>4, <2>5, AlertedKept
<1> QED
  BY <1>3, <1>4

LEMMA AlertedStep == IInv /\ AlertedInv /\ [Next]_vars => AlertedInv'
<1> SUFFICES ASSUME IInv, AlertedInv, [Next]_vars
             PROVE  AlertedInv'
  OBVIOUS
<1>0. TypeOK
  BY DEF IInv
<1>1. CASE Crash
  BY <1>1 DEF Crash, NewHistory, AlertedInv
<1>2. ASSUME NEW t \in Tasks, Evaluation(t), ~Crash
      PROVE  AlertedInv'
  <2>1. CASE Fire(t) \/ StoreFails(t)
    <3>1. t = "keyframes"
      BY <2>1 DEF Fire, StoreFails, IInv, RestInv, SerialInv, Firing, Tasks
    <3>2. /\ task[t].at \in Firing /\ task'[t].at \notin Firing
      BY <1>0, <2>1, SetFacts DEF Fire, StoreFails, Idle, Firing
    <3>3. /\ history'.noticed = history.noticed
          /\ history'.alerted \union history'.unheard
               = history.alerted \union history.unheard \union task[t].frame.present
      <4>1. history \in Histories
        BY DEF IInv, TypeOK
      <4>2. CASE history' = [history EXCEPT !.alerted = @ \union task[t].frame.present]
        BY <4>1, <4>2 DEF Histories
      <4>3. CASE history' = [history EXCEPT !.unheard = @ \union task[t].frame.present]
        BY <4>1, <4>3 DEF Histories
      <4> QED
        BY <2>1, <4>2, <4>3 DEF Fire, StoreFails
    <3> QED
      BY <3>1, <3>2, <3>3 DEF AlertedInv
  <2> QED
    BY <1>2, <2>1, AlertedOnTheWay, AlertedGates DEF Evaluation
<1>3. ASSUME NEW t \in Tasks, NEW f, Begin(t, f)
      PROVE  AlertedInv'
  <2>1. history' = history
    BY <1>3 DEF Begin
  <2>2. task["keyframes"].at \in Firing => task'["keyframes"] = task["keyframes"]
    BY <1>0, <1>3, SetFacts DEF Begin, Firing, Tasks
  <2> QED
    BY <2>1, <2>2, AlertedKept
<1>4. CASE DeleteCooldown
  <2>1. /\ task'["keyframes"].at = task["keyframes"].at
        /\ task'["keyframes"].frame = task["keyframes"].frame
    BY <1>4 DEF DeleteCooldown, IInv, TypeOK, Evaluations, Tasks
  <2> QED
    BY <1>4, <2>1, AlertedKept DEF DeleteCooldown
<1>5. CASE UNCHANGED <<task, history>>
  BY <1>5, AlertedKept
<1> QED
  BY <1>1, <1>2, <1>3, <1>4, <1>5
  DEF Next, EvaluateKeyframe, EvaluateEvent, Edit, Publish, PublishFails, Invalidate, Tick,
      vars, Tasks

(* VisitsMuteOnlyTheAlerted: a frame the visit gate drops shows tracks, and *)
(* each was there at an alert, or at one that could not be stored.         *)
THEOREM VisitsMuteOnlyTheAlerted == Spec => VisitMutesOnlyAlerted
<1>1. Init => AlertedInv
  BY DEF Init, NewHistory, AlertedInv
<1>2. IInv /\ AlertedInv /\ [Next]_vars =>
        [\A t \in Tasks :
           (Drops(t) /\ task[t].frame.match /= {} /\ rule.gate = "visit" /\ rule.cooldown = 0) =>
             /\ task[t].frame.present /= {}
             /\ task[t].frame.present \subseteq history.alerted \union history.unheard]_vars
  <2> SUFFICES ASSUME IInv, AlertedInv, [Next]_vars, NEW t \in Tasks, Drops(t),
                      task[t].frame.match /= {}, rule.gate = "visit", rule.cooldown = 0
               PROVE  /\ task[t].frame.present /= {}
                      /\ task[t].frame.present \subseteq history.alerted \union history.unheard
    OBVIOUS
  <2>1. ~Crash
    BY SpendType DEF Drops, Crash, IInv
  <2>2. PICK e \in Engines, h \in Histories, now \in Nat, last \in Moments :
           /\ GateInv(e, h) /\ h.noticed = history.noticed
           /\ \/ ~Matches(e, task[t].frame)
              \/ InCooldown(now, last) \/ Muted(e, task[t].frame)
    BY <2>1, GateOutcome DEF Drops
  <2>3. Matches(e, task[t].frame)
    BY DEF Matches
  <2>4. ~InCooldown(now, last)
    BY DEF InCooldown
  <2>5. Muted(e, task[t].frame)
    BY <2>2, <2>3, <2>4
  <2>6. task[t].frame.present /= {} /\ task[t].frame.present \subseteq history.noticed
    BY <2>2, <2>5 DEF Muted, GateInv, VisitInv
  <2>7. t = "keyframes" /\ task[t].at \notin Firing
    BY DEF IInv, RestInv, SerialInv, Drops, Firing, Tasks
  <2> QED
    BY <2>6, <2>7 DEF AlertedInv
<1> QED
  BY <1>1, <1>2, AlertedStep, IInvHolds, PTL DEF Spec, VisitMutesOnlyAlerted

(* IncidentsPassOnce: an incident passes a second time only after half a   *)
(* map of others, however the map was trimmed.                             *)
THEOREM IncidentsPassOnce == Spec => IncidentOnce
<1>1. IInv /\ [Next]_vars =>
        [\A t \in Tasks :
           (Passes(t) /\ rule.gate = "incident" /\ task[t].frame.incident /= NoIncident) =>
             LET others == history.others[task[t].frame.incident] IN
             others = Never \/ others > IncidentCap - IncidentCap \div 2]_vars
  <2> SUFFICES ASSUME IInv, [Next]_vars, NEW t \in Tasks, Passes(t),
                      rule.gate = "incident", task[t].frame.incident /= NoIncident
               PROVE  \/ history.others[task[t].frame.incident] = Never
                      \/ Outlived(history.others[task[t].frame.incident])
    BY DEF Outlived
  <2>1. ~Crash
    <3> SUFFICES ASSUME Crash
                 PROVE  FALSE
      OBVIOUS
    <3>1. task'[t] = Idle
      BY DEF Crash
    <3> QED
      BY <3>1 DEF Passes, Idle
  <2>2. PICK e \in Engines, h \in Histories :
           /\ GateInv(e, h) /\ h.others = history.others /\ ~Muted(e, task[t].frame)
    BY <2>1, GateOutcome DEF Passes
  <2>3. task[t].frame.incident \in Incidents
    BY DEF IInv, TypeOK, Evaluations, Frames
  <2>4. \A n \in DOMAIN e.incidents : e.incidents[n] /= task[t].frame.incident
    BY <2>2 DEF Muted
  <2>5. DOMAIN e.incidents = 1..Len(e.incidents)
    BY LenProperties DEF Engines
  <2> QED
    BY <2>2, <2>3, <2>4, <2>5 DEF GateInv, IncidentInv, Placed
<1> QED
  BY <1>1, IInvHolds, PTL DEF Spec, IncidentOnce

LEMMA EnoughCounts ==
  ASSUME NEW s \in Seq(Nat), NEW now \in Nat, Enough(s, now),
         MinFrames \in Nat \ {0}, Window \in Nat
  PROVE  Cardinality({n \in DOMAIN s : now - s[n] <= Window}) >= MinFrames
<1> DEFINE all == {n \in DOMAIN s : now - s[n] <= Window}
<1>1. PICK i \in 0..Len(s) :
        i + MinFrames <= Len(s) /\ \A n \in (i + 1)..(i + MinFrames) : now - s[n] <= Window
  BY DEF Enough
<1>2. Len(s) \in Nat /\ DOMAIN s = 1..Len(s) /\ i \in Nat
  BY <1>1, LenProperties
<1>3. (i + 1)..(i + MinFrames) \subseteq all
  BY <1>1, <1>2
<1>4. IsFiniteSet(1..Len(s)) /\ all \subseteq 1..Len(s)
  BY <1>2, FS_Interval
<1>5. IsFiniteSet(all)
  BY <1>4, FS_Subset
<1>6. Cardinality((i + 1)..(i + MinFrames)) = MinFrames
  <2>1. i + 1 \in Int /\ i + MinFrames \in Int
    BY <1>2
  <2>2. Cardinality((i + 1)..(i + MinFrames)) =
          IF i + 1 > i + MinFrames THEN 0 ELSE (i + MinFrames) - (i + 1) + 1
    BY <2>1, FS_Interval
  <2> QED
    BY <1>2, <2>2
<1>7. /\ Cardinality((i + 1)..(i + MinFrames)) <= Cardinality(all)
      /\ Cardinality(all) \in Nat
  BY <1>3, <1>5, FS_Subset, FS_CardinalityType
<1> QED
  BY <1>6, <1>7

(* FramesCountInWindow: an alert of a min_frames rule has that many        *)
(* sightings of one key within the window.                                 *)
THEOREM FramesCountInWindow == Spec => FramesInWindow
<1>1. IInv /\ TypeOK' /\ [Next]_vars =>
        [\A t \in Tasks : (Passes(t) /\ rule.gate = "frames") =>
           \E k \in task[t].frame.match :
             Cardinality({n \in DOMAIN history'.seen[k] :
                            task'[t].now - history'.seen[k][n] <= Window}) >= MinFrames]_vars
  <2> SUFFICES ASSUME IInv, TypeOK', [Next]_vars, NEW t \in Tasks, Passes(t),
                      rule.gate = "frames"
               PROVE  \E k \in task[t].frame.match :
                        Cardinality({n \in DOMAIN history'.seen[k] :
                            task'[t].now - history'.seen[k][n] <= Window}) >= MinFrames
    OBVIOUS
  <2>1. ~Crash
    <3> SUFFICES ASSUME Crash
                 PROVE  FALSE
      OBVIOUS
    <3>1. task'[t] = Idle
      BY DEF Crash
    <3> QED
      BY <3>1 DEF Passes, Idle
  <2>2. PICK h \in Histories, now \in Nat :
           /\ Matched(task[t].frame, h, now) /\ task'[t].now = now
           /\ history' = Noted(h, task[t].frame)
    BY <2>1, GateOutcome DEF Passes
  <2>3. history'.seen = h.seen
    BY <2>2 DEF Noted, Histories
  <2>4. PICK k \in task[t].frame.match : Enough(h.seen[k], now)
    BY <2>2 DEF Matched
  <2>5. k \in Keys /\ h.seen[k] \in Seq(Nat)
    <3>1. task[t].frame \in Frames
      BY DEF IInv, TypeOK, Evaluations
    <3> QED
      BY <3>1 DEF Frames, Histories
  <2>6. MinFrames \in Nat \ {0} /\ Window \in Nat
    BY RuleAssumption
  <2>7. Cardinality({n \in DOMAIN h.seen[k] : now - h.seen[k][n] <= Window}) >= MinFrames
    BY <2>4, <2>5, <2>6, EnoughCounts
  <2> QED
    BY <2>2, <2>3, <2>7
<1> QED
  BY <1>1, IInvHolds, TypeCorrect, PTL DEF Spec, FramesInWindow
=============================================================================

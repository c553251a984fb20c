---------------------------- MODULE MCRuleEngine ----------------------------
(* The rule engine with one rule for each gate and cooldown.               *)
EXTENDS RuleEngine

AllRules ==
  {[gate |-> "none", cooldown |-> 2], [gate |-> "visit", cooldown |-> 0],
   [gate |-> "incident", cooldown |-> 0], [gate |-> "frames", cooldown |-> 0]}

VisitRules == {r \in AllRules : r.gate = "visit"}

(* What each gate needs: faults, edits, restarts and a second task where  *)
(* the cooldown and the list of rules are at stake, a few at a time; more  *)
(* frames for the gate that counts incidents.                              *)
Budget(frames, events, edits, faults, crashes) ==
  [frames |-> frames, events |-> events, edits |-> edits, faults |-> faults,
   crashes |-> crashes]

AllBudgets ==
  [none |-> {Budget(3, 1, 0, 1, 1), Budget(3, 0, 1, 1, 1), Budget(2, 1, 1, 1, 0)},
   visit |-> {Budget(3, 1, 0, 1, 1)},
   incident |-> {Budget(5, 0, 0, 1, 1)},
   frames |-> {Budget(3, 0, 0, 0, 1)}]

Clocks == [none |-> 2, visit |-> 0, incident |-> 0, frames |-> 2]
=============================================================================

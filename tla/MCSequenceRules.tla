--------------------------- MODULE MCSequenceRules ---------------------------
(***************************************************************************)
(* SequenceRules with interchangeable evaluators.                          *)
(***************************************************************************)
EXTENDS SequenceRulesProofs, TLC

EvaluatorSymmetry == Permutations(Evaluators)
=============================================================================

---------------------------- MODULE MCCostBudget ----------------------------
(* Model values for TLC.  Runs are interchangeable.                        *)
EXTENDS CostBudget, TLC

RunSymmetry == Permutations(Runs)
=============================================================================

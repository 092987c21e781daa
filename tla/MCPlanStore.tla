----------------------------- MODULE MCPlanStore -----------------------------
(* Two processes, two inventories, two findings of the discovery.          *)
EXTENDS PlanStore, TLC

PlanSymmetry == Permutations(Procs) \cup Permutations(Invs) \cup Permutations(Facts)
=============================================================================

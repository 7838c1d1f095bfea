----------------------------- MODULE MCPricedShifts -----------------------------
(***************************************************************************)
(* PricedShifts with interchangeable ids: no definition names one, and     *)
(* every CHOOSE is among numbers, so that TLC may take one state for all   *)
(* that differ in their names only.                                        *)
(***************************************************************************)
EXTENDS PricedShifts, TLC

Symmetric == Permutations(Lineages) \cup Permutations(AssignmentIds) \cup Permutations(LoadIds)
================================================================================

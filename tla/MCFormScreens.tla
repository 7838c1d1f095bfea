---------------------------- MODULE MCFormScreens ----------------------------
(***************************************************************************)
(* FormScreens on one component of each kind: organisations and vehicles   *)
(* behave as checklists without a default do, CPC training as defects.     *)
(***************************************************************************)
EXTENDS FormScreens

MCScreens == {"checklists", "drivers", "sites", "rateCards", "placements", "defects",
              "documents", "training", "workplaces", "shifts"}

\* Two calls, one of them retried or overlapping the other; DriverApp's form, with
\* its tab, its assignments and their ends, is examined around one.
MCMaxCalls == [s \in MCScreens |-> IF s = "shifts" THEN 1 ELSE 2]
================================================================================

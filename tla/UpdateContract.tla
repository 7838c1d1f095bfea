---------------------------- MODULE UpdateContract ----------------------------
(***************************************************************************)
(* What the self-update feature promises about a deployment, seen from     *)
(* outside: updates are numbered in the order in which they are accepted,  *)
(* each one first prepares (checkout and build), may then redeploy, and    *)
(* ends; and the deployment is busy with at most one update from the       *)
(* moment it is accepted to the moment its outcome is recorded.            *)
(*                                                                         *)
(* SelfUpdate reaches this through two unrelated guards (a flag in the     *)
(* sidecar's memory and a status read from a file) and a kernel lock on    *)
(* another machine; its refinement mapping is ContractPhase there.         *)
(***************************************************************************)
EXTENDS Naturals

CONSTANT MaxRuns            \* how many updates are ever accepted (a bound)

VARIABLE phase              \* phase[r]: how far update r has got

Runs == 1..MaxRuns

Phase == {"new", "preparing", "redeploying", "ended"}

Busy(r) == phase[r] \in {"preparing", "redeploying"}

Init == phase = [r \in Runs |-> "new"]

\* An update is accepted only while no other one is under way, and in order.
Accept(r) ==
  /\ phase[r] = "new"
  /\ \A q \in Runs : ~Busy(q) /\ (q < r => phase[q] = "ended")
  /\ phase' = [phase EXCEPT ![r] = "preparing"]

\* The host has taken the update over.
HandOver(r) ==
  /\ phase[r] = "preparing"
  /\ phase' = [phase EXCEPT ![r] = "redeploying"]

\* The update's outcome, good or bad, is settled.
End(r) ==
  /\ Busy(r)
  /\ phase' = [phase EXCEPT ![r] = "ended"]

Next == \E r \in Runs : Accept(r) \/ HandOver(r) \/ End(r)

Spec == Init /\ [][Next]_phase

===============================================================================

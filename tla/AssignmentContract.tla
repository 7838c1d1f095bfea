-------------------------- MODULE AssignmentContract --------------------------
(***************************************************************************)
(* What the rest of the application may rely on about assignments: one     *)
(* exists once created, and what it stands for - who supplies the driver,  *)
(* to which site, of which client, at which rates - never changes.  Shifts *)
(* are priced through it long after the fact (rateCardService              *)
(* resolveRateCardIdForContext).                                           *)
(***************************************************************************)
CONSTANTS AssignmentIds, Orgs, SiteIds, Lineages

VARIABLE chain    \* chain[a]: what assignment a, once created, stands for

Chains == [provider : Orgs, site : SiteIds, client : Orgs, lineage : Lineages]

Init == chain = [a \in {} |-> a]

\* A new assignment; those that exist keep their chain.
Create ==
  \E a \in AssignmentIds \ DOMAIN chain, c \in Chains :
    chain' = [b \in DOMAIN chain \cup {a} |-> IF b = a THEN c ELSE chain[b]]

Spec == Init /\ [][Create]_chain
===============================================================================

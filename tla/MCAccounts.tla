------------------------------ MODULE MCAccounts ------------------------------
(***************************************************************************)
(* Accounts with two tabs and two people, which are interchangeable; the   *)
(* session ids are not, since FreshId chooses among them.                  *)
(***************************************************************************)
EXTENDS Accounts, TLC

MCSymmetry == Permutations(Tabs) \cup Permutations(People)
================================================================================

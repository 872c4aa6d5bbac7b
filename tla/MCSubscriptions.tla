-------------------------- MODULE MCSubscriptions --------------------------
(***************************************************************************)
(* A small instance of the subscriptions.                                  *)
(***************************************************************************)
EXTENDS Subscriptions, TLC

Symmetry == Permutations(Users) \cup Permutations(Requests)
=============================================================================

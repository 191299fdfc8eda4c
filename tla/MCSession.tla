----------------------------- MODULE MCSession -----------------------------
(* Instances of Session for TLC. *)
EXTENDS Session, TLC

Symmetry == Permutations(Users) \cup Permutations(LoginConns) \cup Permutations(Calls)
=============================================================================

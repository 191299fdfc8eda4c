--------------------------- MODULE MCEntityWorld ---------------------------
(* Instances of EntityWorld for TLC. *)
EXTENDS EntityWorld, TLC

Symmetry == Permutations(Clients) \cup Permutations(Entities)
=============================================================================

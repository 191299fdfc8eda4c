------------------------------ MODULE MCParty ------------------------------
(* Instances of Party for TLC. *)
EXTENDS Party, TLC

Symmetry == Permutations(Chars) \cup Permutations(Parties)
=============================================================================

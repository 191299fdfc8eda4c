---------------------------- MODULE MCCharacter ----------------------------
(* Instances of Character for TLC. *)
EXTENDS Character

(* A bag of two slots, half full, full, or with an item whose script is    *)
(* broken; something is worn.                                              *)
Row(s, k, n) == [slot |-> s, what |-> k, amount |-> n]
HalfFull == <<Row(1, "sword", 1), Row(2, "potion", 2)>>
FullBag == <<Row(1, "sword", 1), Row(3, "potion", 2), Row(2, "sword", 1)>>
WithBroken == <<Row(2, "relic", 1), Row(3, "potion", 2)>>
FewRows == {HalfFull, FullBag, WithBroken}
=============================================================================

-------------------------------- MODULE MCBox --------------------------------
(* Bytes of three values and two buckets: <<1>> and <<1, 1>> collide, <<2>> *)
(* does not.  Keys reach past the limit 2, values up to and past 8.         *)
EXTENDS Box, TLC

MCKeys   == {<<>>, <<1>>, <<2>>, <<1, 1>>, <<1, 1, 1>>}
MCValues == {<<0, 2, 1>>, [i \in 1 .. 8 |-> 1], [i \in 1 .. 9 |-> 1]}
MCHash   == [k \in MCKeys |-> HashString(k)]
Symmetry == Permutations(Boxes)

(* No operation looks at asked: states that differ in nothing else have the *)
(* same steps, and IsMap is checked of every step, also of one that leads   *)
(* to a state already seen.                                                 *)
View == <<alive, buckets, length, heap, got, err>>
=============================================================================

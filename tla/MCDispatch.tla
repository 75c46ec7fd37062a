----------------------------- MODULE MCDispatch ------------------------------
(* Two buckets: ask keys 0 and 2 collide, and the two commands do too.      *)
(* Two strings name the first command.                                      *)
EXTENDS Dispatch, TLC

CONSTANTS c1, c2, r1, r2, s1, s2, s3, sum, div

MCText        == s1 :> sum @@ s2 :> sum @@ s3 :> div
MCCommandHash == sum :> 37 @@ div :> 1
Symmetry      == Permutations(Callbacks) \cup Permutations(Responders)
=============================================================================

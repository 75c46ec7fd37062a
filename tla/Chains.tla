------------------------------- MODULE Chains -------------------------------
(***************************************************************************)
(* A bucket of the hash tables of box.c and table.c: a linked list of       *)
(* bindings, searched from its head and extended at its head.               *)
(***************************************************************************)
EXTENDS Integers, Sequences

Has(chain, k) == \E i \in 1 .. Len(chain) : chain[i].key = k

\* the first binding of k, where a search stops
At(chain, k) == CHOOSE i \in 1 .. Len(chain) :
                  chain[i].key = k /\ \A j \in 1 .. i - 1 : chain[j].key # k

Link_Duplicates(chain, k, v) == <<[key |-> k, value |-> v]>> \o chain
\* a new binding becomes the head; a known one keeps its place
Link(chain, k, v) ==
  IF Has(chain, k) THEN [chain EXCEPT ![At(chain, k)] = [key |-> k, value |-> v]]
                   ELSE <<[key |-> k, value |-> v]>> \o chain

\* the binding before the i-th, or the bucket, points to the one after it
Without(chain, i) == [j \in 1 .. Len(chain) - 1 |-> IF j < i THEN chain[j] ELSE chain[j + 1]]
Unlink_Head(chain, k) == IF Has(chain, k) THEN Without(chain, 1) ELSE chain
Unlink(chain, k) == IF Has(chain, k) THEN Without(chain, At(chain, k)) ELSE chain
=============================================================================

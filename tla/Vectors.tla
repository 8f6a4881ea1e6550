------------------------------- MODULE Vectors -------------------------------
(* Erasing from a vector, as the callback vectors of parameters and brokers   *)
(* and the entries of a map do.                                               *)
EXTENDS Naturals, Sequences, FiniteSets

\* The vector without its i-th element: std::vector::erase.
EraseAt(vec, i) == SubSeq(vec, 1, i - 1) \o SubSeq(vec, i + 1, Len(vec))

\* The elements of vec at the positions of keep, in their order.
KeepAt(vec, keep) ==
  [j \in 1..Cardinality(keep) |->
     vec[CHOOSE i \in keep : Cardinality({k \in keep : k <= i}) = j]]
=============================================================================

-------------------------- MODULE MCConsumingBroker --------------------------
(* Instances of ConsumingBroker for TLC.                                      *)
EXTENDS ConsumingBroker, TLC

\* Names and processes are interchangeable.
NamesAndProcs == Permutations(Name) \cup Permutations(Proc)

\* An ignore predicate matches one name; several may be registered.
AnyNames == {{n} : n \in Name}
=============================================================================

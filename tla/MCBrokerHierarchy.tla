-------------------------- MODULE MCBrokerHierarchy --------------------------
(* Instances of BrokerHierarchy for TLC.                                      *)
EXTENDS BrokerHierarchy, TLC

CONSTANTS top, leaf

\* sc_main holds "top", which holds "leaf".
Paths == [m \in Place |-> CASE m = Outside -> <<Outside>>
                            [] m = top -> <<top, Outside>>
                            [] m = leaf -> <<leaf, top, Outside>>]

\* The brokers may expose any names; the values of presets are interchangeable.
ExposeAny == SUBSET Name
Values == Permutations(Value)
=============================================================================

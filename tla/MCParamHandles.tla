--------------------------- MODULE MCParamHandles ---------------------------
(* Instances of ParamHandles for TLC.                                         *)
EXTENDS ParamHandles, TLC

\* Addresses and types are interchangeable.
Addresses == Permutations(Handle) \cup Permutations(Param)
               \cup Permutations(Type)
=============================================================================

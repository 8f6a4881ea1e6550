-------------------------- MODULE MCCallbackObjects --------------------------
(* Instances of CallbackObjects for TLC: a generic and two typed callbacks,   *)
(* an untyped and a typed handle.                                             *)
EXTENDS CallbackObjects, TLC

CONSTANTS g, t1, t2, u, h, int

Classes ==
  g :> [kind |-> "callback", sig |-> Generic]
    @@ t1 :> [kind |-> "callback", sig |-> int]
    @@ t2 :> [kind |-> "callback", sig |-> int]
    @@ u :> [kind |-> "untyped", sig |-> Null]
    @@ h :> [kind |-> "typed", sig |-> int]

Interchangeable == Permutations(Impl) \cup Permutations({t1, t2})
=============================================================================

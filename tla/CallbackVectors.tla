--------------------------- MODULE CallbackVectors ---------------------------
(* The vectors of registered callbacks a parameter and a broker keep.  An     *)
(* element is a record [cb, orig]: the handle of a callback and the           *)
(* originator it was registered by.  The same handle may be registered more   *)
(* than once.                                                                 *)
EXTENDS Vectors

Matches(vec, cb, orig) ==
  {i \in 1..Len(vec) : vec[i].cb = cb /\ vec[i].orig = orig}

\* The first matching element goes, later ones stay registered.
EraseFirst(vec, cb, orig) ==
  LET first == CHOOSE i \in Matches(vec, cb, orig) :
                  \A j \in Matches(vec, cb, orig) : i <= j
  IN IF Matches(vec, cb, orig) = {} THEN vec ELSE EraseAt(vec, first)

(* unregister_all_callbacks erases through the loop's own iterator and then   *)
(* advances it, so the element that slides into the hole is never examined:   *)
(* element i is erased iff its originator matches and i - 1 was not erased.   *)
Erased(vec, orig) ==
  LET erased[i \in 0..Len(vec)] ==
        i > 0 /\ vec[i].orig = orig /\ ~erased[i - 1]
  IN {i \in 1..Len(vec) : erased[i]}

EraseAllOf(vec, orig) == KeepAt(vec, (1..Len(vec)) \ Erased(vec, orig))
=============================================================================

--------------------------- MODULE WeakReferences ---------------------------
(* What handles promise: a reference to an object that exists, or none.       *)
CONSTANTS Handle, Param, NoParam

VARIABLES target, alive

Init ==
  /\ target = [h \in Handle |-> NoParam]
  /\ alive = {}

Born(p) ==
  /\ p \notin alive
  /\ alive' = alive \cup {p}
  /\ UNCHANGED target

Refer(h, p) ==
  /\ p \in alive \cup {NoParam}
  /\ target' = [target EXCEPT ![h] = p]
  /\ UNCHANGED alive

\* The object's end and the loss of every reference to it are one step.
Die(p) ==
  /\ alive' = alive \ {p}
  /\ target' = [h \in Handle |-> IF target[h] = p THEN NoParam ELSE target[h]]

Next ==
  \/ \E p \in Param : Born(p) \/ Die(p)
  \/ \E h \in Handle, p \in Param \cup {NoParam} : Refer(h, p)

Spec == Init /\ [][Next]_<<target, alive>>
=============================================================================

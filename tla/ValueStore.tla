----------------------------- MODULE ValueStore ------------------------------
(* What first-class values promise (cci_value.h: "strict value semantics,     *)
(* i.e. each value represents a distinct object"): a step changes one object, *)
(* or two of which one hands a value it held over to the other.               *)
EXTENDS VariantData

CONSTANTS Object, Absent

VARIABLE val      \* what each object denotes; Absent when there is no object

Init == val = [o \in Object |-> Absent]

Only(changed) == \A o \in Object \ changed : val'[o] = val[o]

HandOver(o, p) ==
  /\ val[p] # Absent /\ val'[o] # Absent /\ val'[p] # Absent
  /\ \E given \in Scalars \cup {val[p]} :
       Holds(val[p], given) /\ Holds(val'[o], given)
  /\ Only({o, p})

Next ==
  /\ val' \in [Object -> Data \cup {Absent}]
  /\ \E o \in Object :
       \/ Only({o})
       \/ \E p \in Object \ {o} : HandOver(o, p)

Spec == Init /\ [][Next]_val
=============================================================================

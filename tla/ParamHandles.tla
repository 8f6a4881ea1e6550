---------------------------- MODULE ParamHandles ----------------------------
(* cci_param_untyped_handle and cci_param_typed_handle: a handle points to a  *)
(* parameter and the parameter keeps a list of the handles that do, so that   *)
(* its destructor can invalidate them.  Handles are made, copied, moved, cast *)
(* and assigned at any time, also by the create and destroy callbacks that    *)
(* run inside the constructor and the destructor.                             *)
(*                                                                            *)
(* Param is a set of addresses: a parameter may be constructed where another  *)
(* one died.  remove_param_handle erases every occurrence of the handle, so   *)
(* the list is modelled as a set.  The originators of handles are left out.   *)
EXTENDS Naturals

CONSTANTS
  Handle,    \* addresses of handle objects
  Param,     \* addresses of parameters
  NoParam,   \* the NULL pointer of an invalid handle
  Type,      \* value types of parameters and typed handles
  Untyped,   \* the kind of an untyped handle
  Gone       \* no handle object lives at the address

ASSUME NoParamIsNone == NoParam \notin Param
ASSUME KindsDiffer == Untyped \notin Type /\ Gone \notin Type \cup {Untyped}

VARIABLES
  life,      \* how far the parameter at each address has come
  type,      \* its value type
  handles,   \* its m_param_handles
  kind,      \* what handle object lives at each address
  target     \* its m_param

vars == <<life, type, handles, kind, target>>

\* The create callbacks run while "adding", the destroy ones while "removing".
Life == {"none", "adding", "live", "removing"}

TypeOK ==
  /\ life \in [Param -> Life]
  /\ type \in [Param -> Type]
  /\ handles \in [Param -> SUBSET Handle]
  /\ kind \in [Handle -> Type \cup {Untyped, Gone}]
  /\ target \in [Handle -> Param \cup {NoParam}]

Init ==
  /\ life = [p \in Param |-> "none"]
  /\ type \in [Param -> Type]
  /\ handles = [p \in Param |-> {}]
  /\ kind = [h \in Handle |-> Gone]
  /\ target = [h \in Handle |-> NoParam]

-----------------------------------------------------------------------------
(* Parameters.                                                                *)

Construct(p, t) ==
  /\ life[p] = "none"
  /\ life' = [life EXCEPT ![p] = "adding"]
  /\ type' = [type EXCEPT ![p] = t]
  /\ handles' = [handles EXCEPT ![p] = {}]
  /\ UNCHANGED <<kind, target>>

Constructed(p) ==
  /\ life[p] = "adding"
  /\ life' = [life EXCEPT ![p] = "live"]
  /\ UNCHANGED <<type, handles, kind, target>>

\* A create callback throws: no destroy(), but the destructor of the base class
\* asserts that no handle is left.
Unwound(p) ==
  /\ life[p] = "adding"
  /\ handles[p] = {}
  /\ life' = [life EXCEPT ![p] = "none"]
  /\ UNCHANGED <<type, handles, kind, target>>

BeginDestroy(p) ==
  /\ life[p] = "live"
  /\ life' = [life EXCEPT ![p] = "removing"]
  /\ UNCHANGED <<type, handles, kind, target>>

\* Mutant: the handles are not invalidated.
EndDestroyKeep(p) ==
  /\ life[p] = "removing"
  /\ life' = [life EXCEPT ![p] = "none"]
  /\ UNCHANGED <<type, handles, kind, target>>

\* Mutant: the loop stops after the first handle of the list.
EndDestroyFirst(p) ==
  /\ life[p] = "removing"
  /\ \E first \in handles[p] \cup {NoParam} :
       /\ handles' = [handles EXCEPT ![p] = @ \ {first}]
       /\ target' = [h \in Handle |-> IF h = first THEN NoParam ELSE target[h]]
  /\ life' = [life EXCEPT ![p] = "none"]
  /\ UNCHANGED <<type, kind>>

\* invalidate_all_param_handles: each handle of the list leaves the list of the
\* parameter it points to and drops its pointer.
EndDestroy(p) ==
  /\ life[p] = "removing"
  /\ handles' = [q \in Param |-> {h \in handles[q] :
                                    ~(h \in handles[p] /\ target[h] = q)}]
  /\ target' = [h \in Handle |-> IF h \in handles[p] THEN NoParam ELSE target[h]]
  /\ life' = [life EXCEPT ![p] = "none"]
  /\ UNCHANGED <<type, kind>>

-----------------------------------------------------------------------------
(* Handles.                                                                   *)

\* Mutant: the handle is not removed from the list of its former parameter.
PointLate(h, p) ==
  /\ target' = [target EXCEPT ![h] = p]
  /\ handles' = [q \in Param |-> IF q = p THEN handles[q] \cup {h}
                                          ELSE handles[q]]

\* Remove h from the list of its present parameter, if any, then add it to p's.
Point(h, p) ==
  /\ target' = [target EXCEPT ![h] = p]
  /\ handles' = [q \in Param |->
                   (IF q = target[h] THEN handles[q] \ {h} ELSE handles[q])
                     \cup (IF q = p THEN {h} ELSE {})]

MakeHandle(h, k, p) ==
  /\ kind[h] = Gone
  /\ kind' = [kind EXCEPT ![h] = k]
  /\ Point(h, p)
  /\ UNCHANGED <<life, type>>

\* create_param_handle, and the brokers' lookups.
Create(h, p) ==
  /\ life[p] # "none"
  /\ MakeHandle(h, Untyped, p)

\* Mutant: m_param is not initialised.
CreateInvalidGarbage(h) ==
  /\ kind[h] = Gone
  /\ kind' = [kind EXCEPT ![h] = Untyped]
  /\ target' = [target EXCEPT ![h] = Gone]
  /\ UNCHANGED <<life, type, handles>>

CreateInvalid(h) == MakeHandle(h, Untyped, NoParam)

\* The copy and the move constructor: a moved handle stays valid.
Copy(h, g) ==
  /\ kind[g] # Gone
  /\ MakeHandle(h, kind[g], target[g])

\* Mutant: the type is not compared.
CastTargetUnchecked(g, t) == target[g]

\* Where a typed handle cast from g points: nowhere if the types differ.
CastTarget(g, t) ==
  IF target[g] # NoParam /\ type[target[g]] = t THEN target[g] ELSE NoParam

\* The constructor of a typed handle, from a temporary copy of g.
Cast(h, g, t) ==
  /\ kind[g] # Gone
  /\ MakeHandle(h, t, CastTarget(g, t))

\* Copy and move assignment: between handles of one type, or to an untyped one.
Assign(h, g) ==
  /\ h # g
  /\ kind[g] # Gone
  /\ kind[h] \in {kind[g], Untyped}
  /\ Point(h, target[g])
  /\ UNCHANGED <<life, type, kind>>

Drop(h) ==
  /\ kind[h] # Gone
  /\ kind' = [kind EXCEPT ![h] = Gone]
  /\ Point(h, NoParam)
  /\ UNCHANGED <<life, type>>

-----------------------------------------------------------------------------
ParamSteps(p) ==
  \/ \E t \in Type : Construct(p, t)
  \/ Constructed(p)
  \/ Unwound(p)
  \/ BeginDestroy(p)
  \/ EndDestroy(p)

HandleSteps(h) ==
  \/ \E p \in Param : Create(h, p)
  \/ CreateInvalid(h)
  \/ \E g \in Handle : Copy(h, g) \/ Assign(h, g)
  \/ \E g \in Handle, t \in Type : Cast(h, g, t)
  \/ Drop(h)

Next ==
  \/ \E p \in Param : ParamSteps(p)
  \/ \E h \in Handle : HandleSteps(h)

Spec == Init /\ [][Next]_vars

-----------------------------------------------------------------------------
(* Properties.                                                                *)

(* A parameter's list holds the valid handles to it and no others: a missing  *)
(* one would dangle, a stale one would be written to after its object is gone *)
(* (cci_param_untyped_handle.cpp, constructors, assignments and invalidate).  *)
BackLinks ==
  \A h \in Handle, p \in Param : h \in handles[p] <=> target[h] = p

(* A valid handle refers to a parameter whose destructor has not ended, even  *)
(* if a destroy callback made it (cci_param_if.cpp, destroy).                 *)
NoDanglingHandle ==
  \A h \in Handle : target[h] # NoParam => life[target[h]] # "none"

(* A valid typed handle refers to a parameter of its type, through casts,     *)
(* assignments and the reuse of addresses: its get_value casts the raw        *)
(* pointer unchecked (cci_param_typed_handle.h).                              *)
TypedHandlesFit ==
  \A h \in Handle :
    (kind[h] \in Type /\ target[h] # NoParam) => type[target[h]] = kind[h]

Weak == INSTANCE WeakReferences WITH
  alive <- {p \in Param : life[p] # "none"}

(* Handles are weak references: the step that ends a parameter invalidates    *)
(* all of its handles, and nothing else does (cci_param_untyped.cpp,          *)
(* invalidate_all_param_handles).                                             *)
ImplementsWeakReferences == Weak!Spec
=============================================================================

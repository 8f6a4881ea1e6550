------------------------- MODULE ParamHandlesProofs -------------------------
(* Handles are weak, well-typed references, for any number of handles,        *)
(* parameters and types.                                                      *)
EXTENDS ParamHandles, TLAPS

HInv == TypeOK /\ BackLinks /\ NoDanglingHandle /\ TypedHandlesFit

\* Re-pointing a handle that fits keeps the two sides of every link together.
LEMMA PointKeeps ==
  ASSUME HInv, NEW h \in Handle, NEW p \in Param \cup {NoParam}, Point(h, p),
         NEW k \in Type \cup {Untyped, Gone},
         kind' = [kind EXCEPT ![h] = k],
         UNCHANGED <<life, type>>,
         p # NoParam => life[p] # "none",
         p # NoParam /\ k \in Type => type[p] = k
  PROVE  HInv'
<1> USE NoParamIsNone DEF HInv, TypeOK
<1>1. TypeOK' BY DEF Point
<1>2. BackLinks' BY DEF BackLinks, Point
<1>3. NoDanglingHandle' BY DEF NoDanglingHandle, Point
<1>4. TypedHandlesFit' BY DEF TypedHandlesFit, Point
<1> QED BY <1>1, <1>2, <1>3, <1>4

\* The life of a parameter: the links only change when it ends.
LEMMA LifeKeeps ==
  ASSUME HInv, NEW p \in Param, NEW l \in Life \ {"none"},
         life' = [life EXCEPT ![p] = l],
         UNCHANGED <<type, handles, kind, target>>
  PROVE  HInv'
BY DEF HInv, TypeOK, BackLinks, NoDanglingHandle, TypedHandlesFit

LEMMA ConstructKeeps ==
  ASSUME HInv, NEW p \in Param, NEW t \in Type, Construct(p, t)
  PROVE  HInv'
<1> USE NoParamIsNone DEF HInv, TypeOK, Construct
<1>1. TypeOK' BY DEF Life
<1>2. BackLinks' BY DEF BackLinks, NoDanglingHandle
<1>3. NoDanglingHandle' BY DEF NoDanglingHandle
<1>4. TypedHandlesFit' BY DEF TypedHandlesFit, NoDanglingHandle
<1> QED BY <1>1, <1>2, <1>3, <1>4

LEMMA UnwoundKeeps ==
  ASSUME HInv, NEW p \in Param, Unwound(p)
  PROVE  HInv'
<1> USE NoParamIsNone DEF HInv, TypeOK, Unwound
<1>1. TypeOK' BY DEF Life
<1>2. BackLinks' BY DEF BackLinks
<1>3. NoDanglingHandle' BY DEF NoDanglingHandle, BackLinks
<1>4. TypedHandlesFit' BY DEF TypedHandlesFit
<1> QED BY <1>1, <1>2, <1>3, <1>4

LEMMA EndDestroyKeeps ==
  ASSUME HInv, NEW p \in Param, EndDestroy(p)
  PROVE  HInv'
<1> USE NoParamIsNone DEF HInv, TypeOK, EndDestroy
<1>1. TypeOK' BY DEF Life
<1>2. BackLinks' BY DEF BackLinks
<1>3. NoDanglingHandle' BY DEF NoDanglingHandle, BackLinks
<1>4. TypedHandlesFit' BY DEF TypedHandlesFit
<1> QED BY <1>1, <1>2, <1>3, <1>4

\* What a step of a handle re-points, and to where.
Repoints(h) ==
  \E p \in Param \cup {NoParam}, k \in Type \cup {Untyped, Gone} :
    /\ Point(h, p)
    /\ kind' = [kind EXCEPT ![h] = k]
    /\ UNCHANGED <<life, type>>
    /\ p # NoParam => life[p] # "none"
    /\ p # NoParam /\ k \in Type => type[p] = k

HandleStep(h) ==
  \/ \E p \in Param : Create(h, p)
  \/ CreateInvalid(h)
  \/ \E g \in Handle : Copy(h, g) \/ Assign(h, g)
  \/ \E g \in Handle, t \in Type : Cast(h, g, t)
  \/ Drop(h)

LEMMA HandleStepRepoints ==
  ASSUME HInv, NEW h \in Handle, HandleStep(h)
  PROVE  Repoints(h)
<1> USE NoParamIsNone, KindsDiffer DEF HInv, TypeOK
<1>1. ASSUME NEW p \in Param, Create(h, p) PROVE Repoints(h)
  BY <1>1 DEF Create, MakeHandle, Repoints
<1>2. CASE CreateInvalid(h)
  BY <1>2 DEF CreateInvalid, MakeHandle, Repoints
<1>3. ASSUME NEW g \in Handle, Copy(h, g) PROVE Repoints(h)
  BY <1>3 DEF Copy, MakeHandle, Repoints, NoDanglingHandle, TypedHandlesFit
<1>4. ASSUME NEW g \in Handle, Assign(h, g) PROVE Repoints(h)
  <2>1. kind' = [kind EXCEPT ![h] = kind[h]] BY <1>4 DEF Assign
  <2>2. target[g] # NoParam => life[target[g]] # "none"
    BY DEF NoDanglingHandle
  <2>3. target[g] # NoParam /\ kind[h] \in Type => type[target[g]] = kind[h]
    BY <1>4 DEF Assign, TypedHandlesFit
  <2> QED BY <1>4, <2>1, <2>2, <2>3 DEF Assign, Repoints
<1>5. ASSUME NEW g \in Handle, NEW t \in Type, Cast(h, g, t)
      PROVE  Repoints(h)
  BY <1>5 DEF Cast, CastTarget, MakeHandle, Repoints, NoDanglingHandle
<1>6. CASE Drop(h)
  BY <1>6 DEF Drop, Repoints
<1> QED BY <1>1, <1>2, <1>3, <1>4, <1>5, <1>6 DEF HandleStep

LEMMA HInvInit == Init => HInv
BY NoParamIsNone, KindsDiffer
   DEF Init, HInv, TypeOK, Life, BackLinks, NoDanglingHandle, TypedHandlesFit

LEMMA HInvStep == HInv /\ [Next]_vars => HInv'
<1> SUFFICES ASSUME HInv, [Next]_vars PROVE HInv'
  OBVIOUS
<1>1. ASSUME NEW p \in Param, NEW t \in Type, Construct(p, t) PROVE HInv'
  BY <1>1, ConstructKeeps
<1>2. ASSUME NEW p \in Param, Constructed(p) \/ BeginDestroy(p) PROVE HInv'
  BY <1>2, LifeKeeps DEF Constructed, BeginDestroy, Life
<1>3. ASSUME NEW p \in Param, Unwound(p) PROVE HInv'
  BY <1>3, UnwoundKeeps
<1>4. ASSUME NEW p \in Param, EndDestroy(p) PROVE HInv'
  BY <1>4, EndDestroyKeeps
<1>5. ASSUME NEW h \in Handle, HandleStep(h) PROVE HInv'
  BY <1>5, HandleStepRepoints, PointKeeps DEF Repoints
<1>6. CASE UNCHANGED vars
  BY <1>6 DEF vars, HInv, TypeOK, BackLinks, NoDanglingHandle,
              TypedHandlesFit
<1> QED BY <1>1, <1>2, <1>3, <1>4, <1>5, <1>6 DEF Next, ParamSteps, HandleSteps, HandleStep

LEMMA HInvAlways == Spec => []HInv
BY HInvInit, HInvStep, PTL DEF Spec

(* A handle that exists points to the address of a parameter or is invalid,   *)
(* from its constructor on (cci_param_untyped_handle.cpp), and the list of a  *)
(* parameter names addresses of handles only.                                 *)
THEOREM HandlesAreTyped == Spec => []TypeOK
<1>1. HInv => TypeOK BY DEF HInv
<1> QED BY <1>1, HInvAlways, PTL

(* A parameter's list and its handles' pointers agree                         *)
(* (cci_param_untyped_handle.cpp).                                            *)
THEOREM LinksAgree == Spec => []BackLinks
<1>1. HInv => BackLinks BY DEF HInv
<1> QED BY <1>1, HInvAlways, PTL

(* No valid handle outlives its parameter (cci_param_if.cpp, destroy).        *)
THEOREM HandlesNeverDangle == Spec => []NoDanglingHandle
<1>1. HInv => NoDanglingHandle BY DEF HInv
<1> QED BY <1>1, HInvAlways, PTL

(* A valid typed handle has the type of its parameter                         *)
(* (cci_param_typed_handle.h).                                                *)
THEOREM TypedHandlesAlwaysFit == Spec => []TypedHandlesFit
<1>1. HInv => TypedHandlesFit BY DEF HInv
<1> QED BY <1>1, HInvAlways, PTL

LEMMA WeakInit == Init => Weak!Init
BY DEF Init, Weak!Init

LEMMA WeakStep ==
  HInv /\ [Next]_vars
    => [Weak!Next]_<<target, {p \in Param : life[p] # "none"}>>
<1> SUFFICES ASSUME HInv, [Next]_vars
             PROVE  [Weak!Next]_<<target, {p \in Param : life[p] # "none"}>>
  OBVIOUS
<1> DEFINE alive == {p \in Param : life[p] # "none"}
<1>1. ASSUME NEW p \in Param, NEW t \in Type, Construct(p, t)
      PROVE  Weak!Born(p)
  BY <1>1 DEF Construct, Weak!Born, HInv, TypeOK
<1>2. ASSUME NEW p \in Param, Constructed(p) \/ BeginDestroy(p)
      PROVE  UNCHANGED <<target, alive>>
  BY <1>2 DEF Constructed, BeginDestroy, HInv, TypeOK
<1>3. ASSUME NEW p \in Param, Unwound(p) PROVE Weak!Die(p)
  <2>1. alive' = alive \ {p} BY <1>3 DEF Unwound, HInv, TypeOK
  <2>2. \A h \in Handle : target[h] # p BY <1>3 DEF Unwound, HInv, BackLinks
  <2>3. target' = [h \in Handle |->
                     IF target[h] = p THEN NoParam ELSE target[h]]
    BY <1>3, <2>2 DEF Unwound, HInv, TypeOK
  <2> QED BY <2>1, <2>3 DEF Weak!Die
<1>4. ASSUME NEW p \in Param, EndDestroy(p) PROVE Weak!Die(p)
  <2>1. alive' = alive \ {p} BY <1>4 DEF EndDestroy, HInv, TypeOK
  <2>2. target' = [h \in Handle |->
                     IF target[h] = p THEN NoParam ELSE target[h]]
    BY <1>4 DEF EndDestroy, HInv, BackLinks
  <2> QED BY <2>1, <2>2 DEF Weak!Die
<1>5. ASSUME NEW h \in Handle, HandleStep(h)
      PROVE  \E q \in Param \cup {NoParam} : Weak!Refer(h, q)
  <2>1. PICK q \in Param \cup {NoParam} :
          /\ Point(h, q)
          /\ UNCHANGED life
          /\ q # NoParam => life[q] # "none"
    BY <1>5, HandleStepRepoints DEF Repoints
  <2>2. Weak!Refer(h, q) BY <2>1 DEF Weak!Refer, Point
  <2> QED BY <2>2
<1>6. CASE UNCHANGED vars
  BY <1>6 DEF vars
<1> QED
  BY <1>1, <1>2, <1>3, <1>4, <1>5, <1>6 DEF Next, ParamSteps, HandleSteps, HandleStep, Weak!Next

(* Handles are weak references: only the end of a parameter invalidates a     *)
(* handle, and it invalidates all of them in that step                        *)
(* (cci_param_untyped.cpp, invalidate_all_param_handles).                     *)
THEOREM HandlesAreWeakReferences == Spec => ImplementsWeakReferences
BY HInvAlways, WeakInit, WeakStep, PTL
   DEF Spec, ImplementsWeakReferences, Weak!Spec
=============================================================================

------------------------ MODULE CallbackObjectsProofs ------------------------
(* The reference counts of callback objects, for any finite sets of holders   *)
(* and addresses, any classes of holders and any depth of nested callbacks:   *)
(* an object is deleted with its last pointer and not before.                 *)
EXTENDS CallbackObjects, CallbackVectorProofs

-----------------------------------------------------------------------------
(* A heap that agrees with N, the pointers to each object from outside it.    *)

Adapters(hp, i) == {a \in Impl : hp[a] # Free /\ hp[a].func = i}

\* Adapters wrap generic functors that exist, and are not generic themselves.
WellFormed(hp) ==
  /\ hp \in [Impl -> Object \cup {Free}]
  /\ \A a \in Impl : hp[a] # Free /\ hp[a].func # Null =>
       /\ hp[a].sig # Generic
       /\ hp[hp[a].func] # Free
       /\ hp[hp[a].func].func = Null
       /\ hp[hp[a].func].sig = Generic

Counted(hp, N) ==
  \A i \in Impl :
    IF hp[i] = Free THEN N[i] = 0
    ELSE hp[i].cnt = N[i] + Cardinality(Adapters(hp, i)) + hp[i].excess

Agrees(hp, N) == WellFormed(hp) /\ N \in [Impl -> Nat] /\ Counted(hp, N)

Plus(N, c) == [i \in Impl |-> IF i = c THEN N[i] + 1 ELSE N[i]]
Minus(N, c) == [i \in Impl |-> IF i = c THEN N[i] - 1 ELSE N[i]]

\* Nothing of hp is deleted or changed into something else on the way to hq.
Extends(hp, hq) ==
  \A i \in Impl : hp[i] # Free =>
    hq[i] # Free /\ hq[i].sig = hp[i].sig /\ hq[i].func = hp[i].func

LEMMA ObjectFields ==
  ASSUME NEW hp, WellFormed(hp), NEW i \in Impl, hp[i] # Free
  PROVE  /\ hp[i] \in Object /\ hp[i].sig \in Sig /\ hp[i].cnt \in Nat \ {0}
         /\ hp[i].func \in Impl \cup {Null} /\ hp[i].excess \in {0, 1}
<1>1. hp[i] \in Object
  BY DEF WellFormed
<1> QED BY <1>1 DEF Object

LEMMA AdaptersFinite ==
  ASSUME NEW hp, NEW i
  PROVE  IsFiniteSet(Adapters(hp, i)) /\ Cardinality(Adapters(hp, i)) \in Nat
<1>1. Adapters(hp, i) \in SUBSET Impl
  BY DEF Adapters
<1> QED BY <1>1, AddressesAreFinite, FS_Subset, FS_CardinalityType

LEMMA FreeIsUnused ==
  ASSUME NEW hp, WellFormed(hp), NEW i \in Impl, hp[i] = Free
  PROVE  Adapters(hp, i) = {}
  BY SignaturesAreKnown DEF WellFormed, Adapters

LEMMA AcquireAgrees ==
  ASSUME NEW hp, NEW N, Agrees(hp, N), NEW i \in Impl \cup {Null},
         i # Null => hp[i] # Free
  PROVE  Agrees(Acquire(hp, i), Plus(N, i)) /\ Extends(hp, Acquire(hp, i))
<1>1. CASE i = Null
  <2>1. Plus(N, i) = N /\ Acquire(hp, i) = hp
    BY <1>1, SignaturesAreKnown DEF Plus, Acquire, Agrees
  <2> QED BY <2>1 DEF Extends
<1>2. CASE i # Null
  <2> DEFINE hq == Acquire(hp, i)
  <2>1. i \in Impl /\ hp \in [Impl -> Object \cup {Free}] /\ N \in [Impl -> Nat]
    BY <1>2 DEF Agrees, WellFormed
  <2>2. hp[i] \in Object /\ hp[i].cnt \in Nat \ {0}
    BY <1>2, <2>1, ObjectFields DEF Agrees
  <2>3. [hp[i] EXCEPT !.cnt = @ + 1] \in Object
    BY <2>2 DEF Object
  <2>4. hq = [hp EXCEPT ![i] = [hp[i] EXCEPT !.cnt = @ + 1]]
    BY <1>2 DEF Acquire
  <2>5. /\ hq[i] # Free /\ hq[i].sig = hp[i].sig /\ hq[i].func = hp[i].func
        /\ hq[i].cnt = hp[i].cnt + 1 /\ hq[i].excess = hp[i].excess
    <3>1. hq[i] = [hp[i] EXCEPT !.cnt = @ + 1]
      BY <2>1, <2>4
    <3>2. hq[i] # Free
      BY <2>3, <3>1, MarksAreDistinct
    <3> QED BY <2>2, <3>1, <3>2 DEF Object
  <2>6. \A k \in Impl : k # i => hq[k] = hp[k]
    BY <2>1, <2>4
  <2>7. hq \in [Impl -> Object \cup {Free}]
    BY <2>1, <2>3, <2>4
  <2> HIDE DEF hq
  <2>8. \A k \in Impl : /\ (hq[k] = Free) <=> (hp[k] = Free)
                        /\ hp[k] # Free => /\ hq[k].sig = hp[k].sig
                                           /\ hq[k].func = hp[k].func
    BY <1>2, <2>5, <2>6
  <2>9. WellFormed(hq)
    <3> SUFFICES ASSUME NEW a \in Impl, hq[a] # Free, hq[a].func # Null
                 PROVE  /\ hq[a].sig # Generic
                        /\ hq[hq[a].func] # Free
                        /\ hq[hq[a].func].func = Null
                        /\ hq[hq[a].func].sig = Generic
      BY <2>7 DEF WellFormed
    <3>1. hp[a] # Free /\ hp[a].func = hq[a].func /\ hp[a].func \in Impl
      BY <2>8, ObjectFields DEF Agrees
    <3> QED BY <2>8, <3>1 DEF Agrees, WellFormed
  <2>10. \A k : Adapters(hq, k) = Adapters(hp, k)
    BY <2>8 DEF Adapters
  <2>11. Plus(N, i) \in [Impl -> Nat]
    BY <2>1 DEF Plus
  <2>12. Counted(hq, Plus(N, i))
    <3> SUFFICES ASSUME NEW k \in Impl
                 PROVE  IF hq[k] = Free THEN Plus(N, i)[k] = 0
                        ELSE hq[k].cnt = Plus(N, i)[k]
                               + Cardinality(Adapters(hq, k)) + hq[k].excess
      BY DEF Counted
    <3>1. /\ IF hp[k] = Free THEN N[k] = 0
             ELSE hp[k].cnt = N[k] + Cardinality(Adapters(hp, k)) + hp[k].excess
          /\ Cardinality(Adapters(hp, k)) \in Nat /\ N[k] \in Nat
      BY <2>1, AdaptersFinite DEF Agrees, Counted
    <3>2. CASE k = i
      <4>1. hp[i].excess \in Nat
        BY <1>2, <2>1, ObjectFields DEF Agrees
      <4> QED BY <1>2, <2>1, <2>2, <2>5, <2>10, <3>1, <3>2, <4>1 DEF Plus
    <3>3. CASE k # i
      BY <2>6, <2>10, <3>1, <3>3 DEF Plus
    <3> QED BY <3>2, <3>3
  <2> QED BY <2>8, <2>9, <2>11, <2>12 DEF Agrees, Extends, hq
<1> QED BY <1>1, <1>2

LEMMA NewFunctorAgrees ==
  ASSUME NEW hp, NEW N, Agrees(hp, N), NEW i \in Impl, hp[i] = Free,
         NEW hq \in [Impl -> Object \cup {Free}], hq[i] # Free,
         hq[i].func = Null, hq[i].cnt = 1,
         \A k \in Impl : k # i => hq[k] = hp[k]
  PROVE  /\ Extends(hp, hq)
         /\ hq[i].excess = 0 => Agrees(hq, Plus(N, i))
         /\ hq[i].excess = 1 => Agrees(hq, N)
<1> DEFINE x == hq[i].excess
<1>1. hp \in [Impl -> Object \cup {Free}] /\ N \in [Impl -> Nat] /\ N[i] = 0
  BY DEF Agrees, WellFormed, Counted
<1>3. hq \in [Impl -> Object \cup {Free}] /\ \A k \in Impl : k # i => hq[k] = hp[k]
  OBVIOUS
<1>4. hq[i] # Free /\ hq[i].func = Null /\ hq[i].cnt = 1 /\ hq[i].excess = x
  OBVIOUS
<1> HIDE DEF x
<1>5. Extends(hp, hq)
  BY <1>3 DEF Extends
<1>6. WellFormed(hq)
  <2> SUFFICES ASSUME NEW a \in Impl, hq[a] # Free, hq[a].func # Null
               PROVE  /\ hq[a].sig # Generic
                      /\ hq[hq[a].func] # Free
                      /\ hq[hq[a].func].func = Null
                      /\ hq[hq[a].func].sig = Generic
    BY <1>3 DEF WellFormed
  <2>1. a # i /\ hq[a] = hp[a] /\ hp[a] # Free
    BY <1>3, <1>4
  <2>2. hp[a].func \in Impl /\ hp[hp[a].func] # Free
    BY <2>1, ObjectFields DEF Agrees, WellFormed
  <2>3. hp[a].func # i
    BY <2>2
  <2> QED BY <1>3, <2>1, <2>2, <2>3 DEF Agrees, WellFormed
<1>7. \A k \in Impl : Adapters(hq, k) = Adapters(hp, k)
  BY <1>3, <1>4, SignaturesAreKnown DEF Adapters
<1>8. Cardinality(Adapters(hq, i)) = 0
  BY <1>7, FreeIsUnused, FS_EmptySet DEF Agrees
<1>9. ASSUME NEW M \in [Impl -> Nat], \A k \in Impl : k # i => M[k] = N[k],
             M[i] + x = 1
      PROVE  Counted(hq, M)
  <2> SUFFICES ASSUME NEW k \in Impl
               PROVE  IF hq[k] = Free THEN M[k] = 0
                      ELSE hq[k].cnt = M[k]
                             + Cardinality(Adapters(hq, k)) + hq[k].excess
    BY DEF Counted
  <2>1. CASE k = i
    <3>1. M[i] \in Nat
      BY <1>9
    <3> QED BY <1>4, <1>8, <1>9, <2>1, <3>1
  <2>2. CASE k # i
    BY <1>3, <1>7, <1>9, <2>2 DEF Agrees, Counted
  <2> QED BY <2>1, <2>2
<1>10. Plus(N, i) \in [Impl -> Nat] /\ Plus(N, i)[i] = 1
       /\ \A k \in Impl : k # i => Plus(N, i)[k] = N[k]
  BY <1>1 DEF Plus
<1>11. ASSUME hq[i].excess = 0 PROVE Counted(hq, Plus(N, i))
  <2>1. Plus(N, i)[i] + x = 1
    BY <1>4, <1>10, <1>11
  <2> QED BY <1>9, <1>10, <2>1
<1>12. ASSUME hq[i].excess = 1 PROVE Counted(hq, N)
  <2>1. N[i] + x = 1
    BY <1>1, <1>4, <1>12
  <2> QED BY <1>1, <1>9, <2>1
<1> QED BY <1>1, <1>5, <1>6, <1>10, <1>11, <1>12 DEF Agrees

LEMMA NewAdapterAgrees ==
  ASSUME NEW hp, NEW N, Agrees(hp, N), NEW i \in Impl, hp[i] = Free,
         NEW sig \in Sig, sig # Generic,
         NEW f \in Impl, hp[f] # Free, hp[f].func = Null, hp[f].sig = Generic,
         NEW hq, hq = NewAdapter(hp, i, sig, f)
  PROVE  /\ Extends(hp, hq)
         /\ hq[i] # Free /\ hq[i].sig = sig /\ hq[i].func = f
         /\ Agrees(hq, Plus(N, i))
<1> DEFINE ob == [sig |-> sig, cnt |-> 1, func |-> f, excess |-> 0]
           of == [hp[f] EXCEPT !.cnt = @ + 1]
<1>1. /\ hp \in [Impl -> Object \cup {Free}] /\ N \in [Impl -> Nat] /\ N[i] = 0
      /\ f # Null /\ f # i
  BY SignaturesAreKnown DEF Agrees, WellFormed, Counted
<1>2. hp[f] \in Object /\ hp[f].cnt \in Nat \ {0} /\ hp[f].excess \in {0, 1}
  BY ObjectFields DEF Agrees
<1>3. ob \in Object /\ of \in Object /\ of.cnt = hp[f].cnt + 1
      /\ of.sig = hp[f].sig /\ of.func = hp[f].func /\ of.excess = hp[f].excess
  BY <1>2 DEF Object
<1>4. hq = [[hp EXCEPT ![i] = ob] EXCEPT ![f].cnt = @ + 1]
  BY <1>1 DEF NewAdapter, Acquire, NewObject
<1>5. /\ hq[i] = ob /\ hq[f] = of /\ hq \in [Impl -> Object \cup {Free}]
      /\ \A k \in Impl : k \notin {i, f} => hq[k] = hp[k]
  BY <1>1, <1>3, <1>4
<1>6. /\ hq[i] # Free /\ hq[i].sig = sig /\ hq[i].func = f
      /\ hq[i].cnt = 1 /\ hq[i].excess = 0
  BY <1>3, <1>5, MarksAreDistinct
<1>7. /\ hq[f] # Free /\ hq[f].sig = Generic /\ hq[f].func = Null
      /\ hq[f].cnt = hp[f].cnt + 1 /\ hq[f].excess = hp[f].excess
  BY <1>3, <1>5, MarksAreDistinct
<1> HIDE DEF ob, of
<1>8. Extends(hp, hq)
  BY <1>5, <1>7 DEF Extends
<1>9. WellFormed(hq)
  <2> SUFFICES ASSUME NEW a \in Impl, hq[a] # Free, hq[a].func # Null
               PROVE  /\ hq[a].sig # Generic
                      /\ hq[hq[a].func] # Free
                      /\ hq[hq[a].func].func = Null
                      /\ hq[hq[a].func].sig = Generic
    BY <1>5 DEF WellFormed
  <2>1. CASE a = i
    BY <1>6, <1>7, <2>1
  <2>2. CASE a # i
    <3>1. a # f /\ hq[a] = hp[a] /\ hp[a] # Free
      BY <1>5, <1>7, <2>2
    <3>2. hp[a].func \in Impl /\ hp[hp[a].func] # Free
      BY <3>1, ObjectFields DEF Agrees, WellFormed
    <3> QED BY <1>8, <3>1, <3>2 DEF Agrees, WellFormed, Extends
  <2> QED BY <2>1, <2>2
<1>10. ASSUME NEW k \in Impl
       PROVE  Adapters(hq, k) = IF k = f THEN Adapters(hp, k) \cup {i}
                                ELSE Adapters(hp, k)
  <2>1. ASSUME NEW a \in Impl
        PROVE  (hq[a] # Free /\ hq[a].func = k) <=>
                 \/ hp[a] # Free /\ hp[a].func = k
                 \/ a = i /\ k = f
    BY <1>5, <1>6, <1>7
  <2> QED BY <2>1 DEF Adapters
<1>11. Cardinality(Adapters(hq, f)) = Cardinality(Adapters(hp, f)) + 1
       /\ Cardinality(Adapters(hp, f)) \in Nat
  <2>1. i \notin Adapters(hp, f)
    BY DEF Adapters
  <2> QED BY <1>10, <2>1, AdaptersFinite, FS_AddElement
<1>12. Cardinality(Adapters(hq, i)) = 0
  BY <1>1, <1>10, FreeIsUnused, FS_EmptySet DEF Agrees
<1>13. Plus(N, i) \in [Impl -> Nat]
  BY <1>1 DEF Plus
<1>14. Counted(hq, Plus(N, i))
  <2> SUFFICES ASSUME NEW k \in Impl
               PROVE  IF hq[k] = Free THEN Plus(N, i)[k] = 0
                      ELSE hq[k].cnt = Plus(N, i)[k]
                             + Cardinality(Adapters(hq, k)) + hq[k].excess
    BY DEF Counted
  <2>1. CASE k = i
    BY <1>1, <1>6, <1>12, <2>1 DEF Plus
  <2>2. CASE k = f
    <3>1. hp[f].cnt = N[f] + Cardinality(Adapters(hp, f)) + hp[f].excess
          /\ N[f] \in Nat
      BY <1>1 DEF Agrees, Counted
    <3> QED BY <1>1, <1>2, <1>7, <1>11, <2>2, <3>1 DEF Plus
  <2>3. CASE k \notin {i, f}
    BY <1>5, <1>10, <2>3 DEF Agrees, Counted, Plus
  <2> QED BY <2>1, <2>2, <2>3
<1> QED BY <1>6, <1>8, <1>9, <1>13, <1>14 DEF Agrees

LEMMA CloneAgrees ==
  ASSUME NEW hp, NEW N, Agrees(hp, N), NEW s \in Impl, hp[s] # Free,
         NEW i \in Impl, NEW j \in Impl, hp[i] = Free, hp[j] = Free,
         i = j <=> hp[s].func = Null, NEW hq, hq = Clone(hp, s, i, j)
  PROVE  /\ Extends(hp, hq)
         /\ hq[i] # Free /\ hq[i].sig = hp[s].sig
         /\ Agrees(hq, Plus(N, i))
<1>1. hp[s].sig \in Sig /\ hp[s].func \in Impl \cup {Null}
      /\ hp \in [Impl -> Object \cup {Free}]
  BY ObjectFields DEF Agrees, WellFormed
<1>2. CASE hp[s].func = Null
  <2>1. hq = [hp EXCEPT ![i] = [sig |-> hp[s].sig, cnt |-> 1, func |-> Null,
                                excess |-> 0]]
    BY <1>2 DEF Clone, NewFunctor, NewObject
  <2>2. [sig |-> hp[s].sig, cnt |-> 1, func |-> Null, excess |-> 0] \in Object
    BY <1>1 DEF Object
  <2>3. /\ hq \in [Impl -> Object \cup {Free}] /\ hq[i] # Free
        /\ hq[i].func = Null /\ hq[i].cnt = 1 /\ hq[i].excess = 0
        /\ hq[i].sig = hp[s].sig /\ \A k \in Impl : k # i => hq[k] = hp[k]
    BY <1>1, <2>1, <2>2, MarksAreDistinct
  <2> QED BY <2>3, NewFunctorAgrees
<1>3. CASE hp[s].func # Null
  <2> DEFINE hj == [hp EXCEPT ![j] = [sig |-> Generic, cnt |-> 1, func |-> Null,
                                      excess |-> 1]]
  <2>1. hp[s].sig # Generic /\ hp[hp[s].func].sig = Generic
    BY <1>3 DEF Agrees, WellFormed
  <2>2. [NewFunctor(hp, j, Generic) EXCEPT ![j].excess = 1] = hj
    BY <1>1 DEF NewFunctor, NewObject
  <2>3. hq = NewAdapter(hj, i, hp[s].sig, j)
    BY <1>3, <2>1, <2>2 DEF Clone
  <2>4. [sig |-> Generic, cnt |-> 1, func |-> Null, excess |-> 1] \in Object
    BY DEF Object, Sig
  <2>9. /\ hj \in [Impl -> Object \cup {Free}] /\ hj[j] # Free
        /\ hj[j].func = Null /\ hj[j].cnt = 1 /\ hj[j].excess = 1
        /\ hj[j].sig = Generic /\ \A k \in Impl : k # j => hj[k] = hp[k]
    BY <1>1, <2>4, MarksAreDistinct
  <2> HIDE DEF hj
  <2>5. Extends(hp, hj) /\ Agrees(hj, N)
    BY <2>9, NewFunctorAgrees
  <2>6. hj[i] = Free
    BY <1>3, <2>9
  <2>7. /\ Extends(hj, hq) /\ Agrees(hq, Plus(N, i))
        /\ hq[i] # Free /\ hq[i].sig = hp[s].sig
    BY <1>1, <2>1, <2>3, <2>5, <2>6, <2>9, NewAdapterAgrees
  <2>8. Extends(hp, hq)
    BY <2>5, <2>7 DEF Extends
  <2> QED BY <2>7, <2>8
<1> QED BY <1>2, <1>3

\* Deleting objects that no adapter wraps leaves a heap well formed.
LEMMA ShrinkWellFormed ==
  ASSUME NEW hp, NEW hq, WellFormed(hp), Extends(hq, hp),
         hq \in [Impl -> Object \cup {Free}],
         \A a \in Impl : hq[a] # Free /\ hq[a].func # Null
                           => hq[hq[a].func] # Free
  PROVE  WellFormed(hq)
<1> SUFFICES ASSUME NEW a \in Impl, hq[a] # Free, hq[a].func # Null
             PROVE  /\ hq[a].sig # Generic
                    /\ hq[hq[a].func] # Free
                    /\ hq[hq[a].func].func = Null
                    /\ hq[hq[a].func].sig = Generic
  BY DEF WellFormed
<1>1. hp[a] # Free /\ hp[a].func = hq[a].func /\ hp[a].sig = hq[a].sig
  BY DEF Extends
<1>2. hp[a].func \in Impl
  BY <1>1, ObjectFields
<1> QED BY <1>1, <1>2 DEF Extends, WellFormed

LEMMA ReleaseAgrees ==
  ASSUME NEW hp, NEW N, Agrees(hp, N), NEW i \in Impl \cup {Null},
         i # Null => N[i] > 0, NEW hq, hq = Release(hp, i)
  PROVE  Agrees(hq, Minus(N, i)) /\ Extends(hq, hp)
<1>0. hp \in [Impl -> Object \cup {Free}] /\ N \in [Impl -> Nat]
  BY DEF Agrees, WellFormed
<1>1. CASE i = Null
  <2>1. Minus(N, i) = N /\ hq = hp
    BY <1>0, <1>1, SignaturesAreKnown DEF Minus, Release
  <2> QED BY <2>1 DEF Extends
<1>2. CASE i # Null
  <2>1. i \in Impl /\ N[i] \in Nat \ {0} /\ hp[i] # Free
    BY <1>0, <1>2 DEF Agrees, Counted
  <2>2. /\ hp[i] \in Object /\ hp[i].cnt \in Nat \ {0} /\ hp[i].excess \in {0, 1}
        /\ hp[i].func \in Impl \cup {Null}
    BY <2>1, ObjectFields DEF Agrees
  <2>3. hp[i].cnt = N[i] + Cardinality(Adapters(hp, i)) + hp[i].excess
    BY <2>1 DEF Agrees, Counted
  <2>4. \A k \in Impl : Cardinality(Adapters(hp, k)) \in Nat
    BY AdaptersFinite
  <2>5. Minus(N, i) \in [Impl -> Nat]
    BY <1>0, <2>1 DEF Minus
  <2>6. CASE hp[i].cnt # 1
    <3> DEFINE ob == [hp[i] EXCEPT !.cnt = @ - 1]
    <3>1. hq = [hp EXCEPT ![i] = ob]
      BY <1>2, <2>6 DEF Release, Drop
    <3>2. ob \in Object /\ ob.cnt = hp[i].cnt - 1 /\ ob.sig = hp[i].sig
          /\ ob.func = hp[i].func /\ ob.excess = hp[i].excess
      <4>1. hp[i].cnt - 1 \in Nat \ {0}
        BY <2>2, <2>6
      <4>2. ob.cnt = hp[i].cnt - 1 /\ ob.sig = hp[i].sig
            /\ ob.func = hp[i].func /\ ob.excess = hp[i].excess
        BY <2>2 DEF Object
      <4> QED BY <2>2, <4>1, <4>2 DEF Object
    <3>3. /\ hq[i] = ob /\ hq \in [Impl -> Object \cup {Free}] /\ hq[i] # Free
          /\ \A k \in Impl : k # i => hq[k] = hp[k]
      BY <1>0, <2>1, <3>1, <3>2, MarksAreDistinct
    <3> HIDE DEF ob
    <3>4. \A k \in Impl : /\ (hq[k] = Free) <=> (hp[k] = Free)
                          /\ hp[k] # Free => /\ hq[k].sig = hp[k].sig
                                             /\ hq[k].func = hp[k].func
      BY <2>1, <3>2, <3>3
    <3>5. Extends(hq, hp)
      BY <3>4 DEF Extends
    <3>6. WellFormed(hq)
      <4>1. ASSUME NEW a \in Impl, hq[a] # Free, hq[a].func # Null
            PROVE  hq[hq[a].func] # Free
        <5>1. hp[a] # Free /\ hp[a].func = hq[a].func /\ hp[a].func \in Impl
          BY <3>4, <4>1, ObjectFields DEF Agrees
        <5> QED BY <3>4, <4>1, <5>1 DEF Agrees, WellFormed
      <4> QED BY <3>3, <3>5, <4>1, ShrinkWellFormed DEF Agrees
    <3>7. \A k \in Impl : Adapters(hq, k) = Adapters(hp, k)
      BY <3>4 DEF Adapters
    <3>8. Counted(hq, Minus(N, i))
      <4> SUFFICES ASSUME NEW k \in Impl
                   PROVE  IF hq[k] = Free THEN Minus(N, i)[k] = 0
                          ELSE hq[k].cnt = Minus(N, i)[k]
                                 + Cardinality(Adapters(hq, k)) + hq[k].excess
        BY DEF Counted
      <4>1. CASE k = i
        BY <2>1, <2>2, <2>3, <2>4, <3>2, <3>3, <3>7, <4>1 DEF Minus
      <4>2. CASE k # i
        BY <3>3, <3>7, <4>2 DEF Agrees, Counted, Minus
      <4> QED BY <4>1, <4>2
    <3> QED BY <2>5, <3>5, <3>6, <3>8 DEF Agrees
  <2>7. ASSUME hp[i].cnt = 1
        PROVE  N[i] = 1 /\ Adapters(hp, i) = {} /\ hp[i].excess = 0
    <3>1. N[i] = 1 /\ Cardinality(Adapters(hp, i)) = 0 /\ hp[i].excess = 0
      BY <2>1, <2>2, <2>3, <2>4, <2>7
    <3> QED BY <3>1, AdaptersFinite, FS_EmptySet
  <2>8. CASE hp[i].cnt = 1 /\ hp[i].func = Null
    <3>1. hq = [hp EXCEPT ![i] = Free]
      BY <1>2, <2>8 DEF Release, Drop
    <3>2. /\ hq[i] = Free /\ hq \in [Impl -> Object \cup {Free}]
          /\ \A k \in Impl : k # i => hq[k] = hp[k]
      BY <1>0, <2>1, <3>1
    <3>3. Extends(hq, hp)
      BY <3>2 DEF Extends
    <3>4. \A k \in Impl : Adapters(hq, k) = Adapters(hp, k)
      BY <2>8, <3>2, SignaturesAreKnown DEF Adapters
    <3>5. WellFormed(hq)
      <4>1. ASSUME NEW a \in Impl, hq[a] # Free, hq[a].func # Null
            PROVE  hq[hq[a].func] # Free
        <5>1. a # i /\ hp[a] = hq[a] /\ hp[a] # Free /\ hp[a].func \in Impl
          BY <3>2, <4>1, ObjectFields DEF Agrees
        <5>2. hp[a].func # i
          BY <2>7, <2>8, <5>1 DEF Adapters
        <5> QED BY <3>2, <4>1, <5>1, <5>2 DEF Agrees, WellFormed
      <4> QED BY <3>2, <3>3, <4>1, ShrinkWellFormed DEF Agrees
    <3>6. Counted(hq, Minus(N, i))
      <4> SUFFICES ASSUME NEW k \in Impl
                   PROVE  IF hq[k] = Free THEN Minus(N, i)[k] = 0
                          ELSE hq[k].cnt = Minus(N, i)[k]
                                 + Cardinality(Adapters(hq, k)) + hq[k].excess
        BY DEF Counted
      <4>1. CASE k = i
        BY <2>1, <2>7, <2>8, <3>2, <4>1 DEF Minus
      <4>2. CASE k # i
        BY <3>2, <3>4, <4>2 DEF Agrees, Counted, Minus
      <4> QED BY <4>1, <4>2
    <3> QED BY <2>5, <3>3, <3>5, <3>6 DEF Agrees
  <2>9. CASE hp[i].cnt = 1 /\ hp[i].func # Null
    <3> DEFINE f == hp[i].func
               of == IF hp[f].cnt = 1 THEN Free ELSE [hp[f] EXCEPT !.cnt = @ - 1]
    <3>1. /\ f \in Impl /\ hp[f] # Free /\ hp[f].func = Null /\ f # i
      BY <2>1, <2>2, <2>9 DEF Agrees, WellFormed
    <3>2. hq = Drop(Drop(hp, i), f)
      BY <1>2, <2>9 DEF Release
    <3>3. Drop(hp, i) = [hp EXCEPT ![i] = Free]
      BY <2>9 DEF Drop
    <3>4. hq = [[hp EXCEPT ![i] = Free] EXCEPT ![f] = of]
      BY <1>0, <2>1, <3>1, <3>2, <3>3 DEF Drop
    <3>5. hp[f] \in Object /\ hp[f].cnt \in Nat \ {0} /\ hp[f].excess \in {0, 1}
      BY <3>1, ObjectFields DEF Agrees
    <3>6. /\ hp[f].cnt = 1 => of = Free
          /\ hp[f].cnt # 1 =>
               /\ of \in Object /\ of # Free /\ of.cnt = hp[f].cnt - 1
               /\ of.sig = hp[f].sig /\ of.func = hp[f].func
               /\ of.excess = hp[f].excess
      <4>1. ASSUME hp[f].cnt # 1 PROVE hp[f].cnt - 1 \in Nat \ {0}
        BY <3>5, <4>1
      <4> HIDE DEF f
      <4>2. ASSUME hp[f].cnt # 1
            PROVE  of = [hp[f] EXCEPT !.cnt = @ - 1]
        BY <4>2
      <4>3. hp[f].cnt = 1 => of = Free
        OBVIOUS
      <4> HIDE DEF of
      <4>4. ASSUME hp[f].cnt # 1
            PROVE  /\ of \in Object /\ of.cnt = hp[f].cnt - 1
                   /\ of.sig = hp[f].sig /\ of.func = hp[f].func
                   /\ of.excess = hp[f].excess
        BY <3>5, <4>1, <4>2, <4>4 DEF Object
      <4> QED BY <4>3, <4>4, MarksAreDistinct
    <3> HIDE DEF of
    <3>7. /\ hq[i] = Free /\ hq[f] = of /\ hq \in [Impl -> Object \cup {Free}]
          /\ \A k \in Impl : k \notin {i, f} => hq[k] = hp[k]
      BY <1>0, <2>1, <3>1, <3>4, <3>6
    <3>8. Extends(hq, hp)
      BY <2>1, <3>1, <3>6, <3>7 DEF Extends
    <3>9. i \in Adapters(hp, f)
      BY <2>1 DEF Adapters
    <3>10. \A k \in Impl : Adapters(hq, k) = IF k = f THEN Adapters(hp, k) \ {i}
                                             ELSE Adapters(hp, k)
      <4> TAKE k \in Impl
      <4>1. ASSUME NEW a \in Impl
            PROVE  (hq[a] # Free /\ hq[a].func = k) <=>
                     (hp[a] # Free /\ hp[a].func = k /\ a # i)
        BY <3>1, <3>6, <3>7, <4>1, SignaturesAreKnown
      <4> QED BY <4>1, <3>9 DEF Adapters
    <3>11. Cardinality(Adapters(hq, f)) = Cardinality(Adapters(hp, f)) - 1
      BY <3>1, <3>9, <3>10, AdaptersFinite, FS_RemoveElement
    <3>12. /\ hp[f].cnt = N[f] + Cardinality(Adapters(hp, f)) + hp[f].excess
           /\ N[f] \in Nat
      BY <1>0, <3>1 DEF Agrees, Counted
    <3>13. Cardinality(Adapters(hq, f)) \in Nat
      BY AdaptersFinite
    <3>14. ASSUME hp[f].cnt = 1
           PROVE  N[f] = 0 /\ Adapters(hq, f) = {}
      <4>1. N[f] = 0 /\ Cardinality(Adapters(hq, f)) = 0
        <5>1. Cardinality(Adapters(hp, f)) \in Nat
          BY <2>4, <3>1
        <5> QED BY <3>5, <3>11, <3>12, <3>13, <3>14, <5>1
      <4> QED BY <4>1, AdaptersFinite, FS_EmptySet
    <3>15. WellFormed(hq)
      <4>1. ASSUME NEW a \in Impl, hq[a] # Free, hq[a].func # Null
            PROVE  hq[hq[a].func] # Free
        <5>1. a # i /\ hp[a] # Free /\ hp[a].func = hq[a].func
              /\ hp[a].func \in Impl
          BY <3>7, <3>8, <4>1, ObjectFields DEF Agrees, Extends
        <5>2. hp[a].func # i
          BY <2>7, <2>9, <5>1 DEF Adapters
        <5>3. hp[a].func = f => hp[f].cnt # 1
          BY <3>14, <4>1, <5>1 DEF Adapters
        <5> QED BY <3>6, <3>7, <4>1, <5>1, <5>2, <5>3 DEF Agrees, WellFormed
      <4> QED BY <3>7, <3>8, <4>1, ShrinkWellFormed DEF Agrees
    <3>16. Counted(hq, Minus(N, i))
      <4> SUFFICES ASSUME NEW k \in Impl
                   PROVE  IF hq[k] = Free THEN Minus(N, i)[k] = 0
                          ELSE hq[k].cnt = Minus(N, i)[k]
                                 + Cardinality(Adapters(hq, k)) + hq[k].excess
        BY DEF Counted
      <4>1. CASE k = i
        BY <2>1, <2>7, <2>9, <3>7, <4>1 DEF Minus
      <4>2. CASE k = f /\ hp[f].cnt = 1
        BY <3>1, <3>6, <3>7, <3>14, <4>2 DEF Minus
      <4>3. CASE k = f /\ hp[f].cnt # 1
        <5>1. Cardinality(Adapters(hp, f)) \in Nat
          BY <2>4, <3>1
        <5> QED BY <3>1, <3>5, <3>6, <3>7, <3>11, <3>12, <4>3, <5>1 DEF Minus
      <4>4. CASE k \notin {i, f}
        BY <3>7, <3>10, <4>4 DEF Agrees, Counted, Minus
      <4> QED BY <4>1, <4>2, <4>3, <4>4
    <3> QED BY <2>5, <3>8, <3>15, <3>16 DEF Agrees
  <2> QED BY <2>6, <2>8, <2>9
<1> QED BY <1>1, <1>2
-----------------------------------------------------------------------------
(* Counting the pointers from outside the heap.                               *)

At(f, i) == {x \in DOMAIN f : f[x] = i}
Hit(v, i) == IF v = i THEN 1 ELSE 0

LEMMA AtFinite ==
  ASSUME NEW f, IsFiniteSet(DOMAIN f), NEW i
  PROVE  IsFiniteSet(At(f, i)) /\ Cardinality(At(f, i)) \in Nat
<1>1. At(f, i) \in SUBSET DOMAIN f
  BY DEF At
<1> QED BY <1>1, FS_Subset, FS_CardinalityType

LEMMA SeqFinite ==
  ASSUME NEW S, NEW s \in Seq(S), NEW i
  PROVE  IsFiniteSet(At(s, i)) /\ Cardinality(At(s, i)) \in Nat
<1>1. Len(s) \in Nat /\ DOMAIN s = 1..Len(s)
  BY LenProperties
<1>2. IsFiniteSet(DOMAIN s)
  BY <1>1, FS_Interval
<1> QED BY <1>2, AtFinite

\* A pointer that is overwritten.
LEMMA StoreCount ==
  ASSUME NEW D, IsFiniteSet(D), NEW f, DOMAIN f = D, NEW x \in D,
         NEW g, DOMAIN g = D, \A y \in D : y # x => g[y] = f[y], NEW v, g[x] = v,
         NEW i
  PROVE  Cardinality(At(g, i)) = Cardinality(At(f, i)) + Hit(v, i) - Hit(f[x], i)
<1>1. IsFiniteSet(At(f, i)) /\ Cardinality(At(f, i)) \in Nat
  BY AtFinite
<1>2. DOMAIN g = D /\ g[x] = v /\ \A y \in D : y # x => g[y] = f[y]
  OBVIOUS
<1>3. At(g, i) = {y \in D : g[y] = i} /\ At(f, i) = {y \in D : f[y] = i}
  BY <1>2 DEF At
<1>4. CASE v = i
  <2>1. At(g, i) = At(f, i) \cup {x}
    BY <1>2, <1>3, <1>4
  <2>2. x \in At(f, i) <=> f[x] = i
    BY <1>3
  <2>3. Hit(v, i) = 1 /\ (Hit(f[x], i) = IF f[x] = i THEN 1 ELSE 0)
    BY <1>4 DEF Hit
  <2>4. Cardinality(At(g, i)) = IF f[x] = i THEN Cardinality(At(f, i))
                                ELSE Cardinality(At(f, i)) + 1
    BY <1>1, <2>1, <2>2, FS_AddElement
  <2> QED BY <1>1, <2>3, <2>4
<1>5. CASE v # i
  <2>1. At(g, i) = At(f, i) \ {x}
    BY <1>2, <1>3, <1>5
  <2>2. x \in At(f, i) <=> f[x] = i
    BY <1>3
  <2>3. Hit(v, i) = 0 /\ (Hit(f[x], i) = IF f[x] = i THEN 1 ELSE 0)
    BY <1>5 DEF Hit
  <2>4. Cardinality(At(g, i)) = IF f[x] = i THEN Cardinality(At(f, i)) - 1
                                ELSE Cardinality(At(f, i))
    BY <1>1, <2>1, <2>2, FS_RemoveElement
  <2> QED BY <1>1, <2>3, <2>4
<1> QED BY <1>4, <1>5

\* s is t with one more element, at n.
Inserted(t, s, n) ==
  /\ Len(s) = Len(t) + 1 /\ n \in 1..Len(s)
  /\ \A k \in 1..Len(t) : t[k] = IF k < n THEN s[k] ELSE s[k + 1]

\* A pointer that leaves a sequence, or comes into it.
LEMMA RemoveCount ==
  ASSUME NEW S, NEW s \in Seq(S), NEW t \in Seq(S), NEW n, Inserted(t, s, n), NEW i
  PROVE  Cardinality(At(s, i)) = Cardinality(At(t, i)) + Hit(s[n], i)
<1> DEFINE up == [k \in At(t, i) |-> IF k < n THEN k ELSE k + 1]
<1> USE DEF Inserted
<1>1. /\ Len(s) \in Nat /\ DOMAIN s = 1..Len(s)
      /\ Len(t) \in Nat /\ DOMAIN t = 1..Len(t)
  BY LenProperties
<1>2. /\ IsFiniteSet(At(s, i)) /\ Cardinality(At(s, i)) \in Nat
      /\ IsFiniteSet(At(t, i)) /\ Cardinality(At(t, i)) \in Nat
  BY SeqFinite
<1>3. up \in Bijection(At(t, i), At(s, i) \ {n})
  <2>1. \A k \in At(t, i) : up[k] \in At(s, i) \ {n}
    BY <1>1 DEF At
  <2>2. \A k, l \in At(t, i) : up[k] = up[l] => k = l
    BY <1>1 DEF At
  <2>3. ASSUME NEW m \in At(s, i) \ {n}
        PROVE  \E k \in At(t, i) : up[k] = m
    <3>1. m \in 1..Len(s) /\ m # n /\ s[m] = i
      BY <1>1 DEF At
    <3>2. CASE m < n
      <4>1. m \in 1..Len(t) /\ t[m] = i
        BY <1>1, <3>1, <3>2
      <4>2. m \in At(t, i)
        BY <1>1, <4>1 DEF At
      <4>3. up[m] = m
        BY <3>2, <4>2
      <4> QED BY <4>2, <4>3
    <3>3. CASE m > n
      <4>1. m - 1 \in 1..Len(t) /\ t[m - 1] = i /\ ~(m - 1 < n)
        BY <1>1, <3>1, <3>3
      <4>2. m - 1 \in At(t, i)
        BY <1>1, <4>1 DEF At
      <4>3. up[m - 1] = (m - 1) + 1
        BY <4>1, <4>2
      <4>4. (m - 1) + 1 = m
        BY <1>1, <3>1
      <4> QED BY <4>2, <4>3, <4>4
    <3> QED BY <1>1, <3>1, <3>2, <3>3
  <2> HIDE DEF up
  <2>4. up \in [At(t, i) -> At(s, i) \ {n}]
    BY <2>1 DEF up
  <2> QED BY <2>2, <2>3, <2>4 DEF Bijection, Injection, Surjection, IsInjective
<1>4. Cardinality(At(s, i) \ {n}) = Cardinality(At(t, i))
  BY <1>2, <1>3, FS_Bijection DEF ExistsBijection
<1>5. n \in At(s, i) <=> s[n] = i
  BY <1>1 DEF At
<1>6. Cardinality(At(s, i) \ {n}) = IF s[n] = i THEN Cardinality(At(s, i)) - 1
                                    ELSE Cardinality(At(s, i))
  BY <1>2, <1>5, FS_RemoveElement
<1>7. Hit(s[n], i) = IF s[n] = i THEN 1 ELSE 0
  BY DEF Hit
<1> QED BY <1>2, <1>4, <1>6, <1>7

-----------------------------------------------------------------------------
(* The invariant.                                                             *)

Total(ho, ve, ru) ==
  [i \in Impl |-> Cardinality(At(ho, i)) + Cardinality(At(ve, i))
                    + Cardinality(At(ru, i))]

Refs == Total(hold, vec, run)

Typed ==
  /\ hold \in [Holder -> Impl \cup {Null, Gone}]
  /\ vec \in Seq(Impl)
  /\ run \in Seq(Impl)

\* What holders and running loops point to has the signature they rely on.
HoldersMatch ==
  \A h \in Holder : hold[h] \in Impl /\ Checked(h) =>
    heap[hold[h]].sig = ClassOf[h].sig

RunsMatch == \A n \in DOMAIN run : heap[run[n]].sig = ParamSig

CInv == Typed /\ Agrees(heap, Refs) /\ HoldersMatch /\ RunsMatch

LEMMA TotalType ==
  ASSUME NEW ho \in [Holder -> Impl \cup {Null, Gone}],
         NEW ve \in Seq(Impl), NEW ru \in Seq(Impl)
  PROVE  /\ Total(ho, ve, ru) \in [Impl -> Nat]
         /\ \A i \in Impl :
              /\ Cardinality(At(ho, i)) \in Nat /\ Cardinality(At(ve, i)) \in Nat
              /\ Cardinality(At(ru, i)) \in Nat
              /\ Total(ho, ve, ru)[i] = Cardinality(At(ho, i))
                   + Cardinality(At(ve, i)) + Cardinality(At(ru, i))
<1>1. ASSUME NEW i
      PROVE  /\ Cardinality(At(ho, i)) \in Nat /\ Cardinality(At(ve, i)) \in Nat
             /\ Cardinality(At(ru, i)) \in Nat
  BY AddressesAreFinite, AtFinite, SeqFinite
<1> QED BY <1>1 DEF Total

\* Somebody points to what a holder, the vector or a running loop has.
LEMMA PointedTo ==
  ASSUME NEW ho \in [Holder -> Impl \cup {Null, Gone}],
         NEW ve \in Seq(Impl), NEW ru \in Seq(Impl), NEW i \in Impl,
         \/ \E h \in Holder : ho[h] = i
         \/ \E n \in DOMAIN ve : ve[n] = i
         \/ \E n \in DOMAIN ru : ru[n] = i
  PROVE  Total(ho, ve, ru)[i] > 0
<1>1. At(ho, i) # {} \/ At(ve, i) # {} \/ At(ru, i) # {}
  BY DEF At
<1>2. /\ IsFiniteSet(At(ho, i)) /\ IsFiniteSet(At(ve, i)) /\ IsFiniteSet(At(ru, i))
  BY AddressesAreFinite, AtFinite, SeqFinite
<1>3. \/ Cardinality(At(ho, i)) # 0 \/ Cardinality(At(ve, i)) # 0
      \/ Cardinality(At(ru, i)) # 0
  BY <1>1, <1>2, FS_EmptySet
<1> QED BY <1>3, TotalType

LEMMA PointedLives ==
  ASSUME NEW hp, NEW N, Agrees(hp, N), NEW i \in Impl, N[i] > 0
  PROVE  hp[i] # Free
<1>1. N[i] \in Nat
  BY DEF Agrees
<1> QED BY <1>1 DEF Agrees, Counted

\* g is ho with v in the holder h.
Stored(ho, g, h, v) ==
  /\ ho \in [Holder -> Impl \cup {Null, Gone}]
  /\ g \in [Holder -> Impl \cup {Null, Gone}]
  /\ h \in Holder /\ g[h] = v
  /\ \A y \in Holder : y # h => g[y] = ho[y]

LEMMA HoldCount ==
  ASSUME NEW ve \in Seq(Impl), NEW ru \in Seq(Impl),
         NEW ho, NEW g, NEW h, NEW v, Stored(ho, g, h, v)
  PROVE  Total(g, ve, ru) = Minus(Plus(Total(ho, ve, ru), v), ho[h])
<1> DEFINE N == Total(ho, ve, ru)
<1>1. /\ g \in [Holder -> Impl \cup {Null, Gone}] /\ h \in Holder
      /\ ho \in [Holder -> Impl \cup {Null, Gone}]
  BY DEF Stored
<1>0. /\ DOMAIN g = Holder /\ DOMAIN ho = Holder /\ g[h] = v
      /\ \A y \in Holder : y # h => g[y] = ho[y]
  BY DEF Stored
<1>2. ASSUME NEW i \in Impl
      PROVE  Cardinality(At(g, i)) = Cardinality(At(ho, i)) + Hit(v, i) - Hit(ho[h], i)
  BY <1>0, <1>1, AddressesAreFinite, StoreCount
<1>3. ASSUME NEW i \in Impl
      PROVE  Total(g, ve, ru)[i] = N[i] + Hit(v, i) - Hit(ho[h], i)
  <2>1. Hit(v, i) \in Int /\ Hit(ho[h], i) \in Int
    BY DEF Hit
  <2>2. /\ N[i] = Cardinality(At(ho, i)) + Cardinality(At(ve, i))
                    + Cardinality(At(ru, i))
        /\ Cardinality(At(ho, i)) \in Nat /\ Cardinality(At(ve, i)) \in Nat
        /\ Cardinality(At(ru, i)) \in Nat
    BY <1>1, TotalType
  <2>3. Total(g, ve, ru)[i] = Cardinality(At(g, i)) + Cardinality(At(ve, i))
                    + Cardinality(At(ru, i))
    BY <1>1, TotalType
  <2> HIDE DEF N
  <2> QED BY <1>2, <2>1, <2>2, <2>3
<1>4. N \in [Impl -> Nat]
  BY <1>1, TotalType
<1> HIDE DEF N
<1>5. ASSUME NEW i \in Impl
      PROVE  Minus(Plus(N, v), ho[h])[i] = N[i] + Hit(v, i) - Hit(ho[h], i)
  BY <1>4 DEF Minus, Plus, Hit
<1>6. Total(g, ve, ru) = Minus(Plus(N, v), ho[h])
  BY <1>3, <1>5 DEF Total, Minus
<1> QED BY <1>6 DEF N

\* A pointer more in the vector, or in the loops, than before.
LEMMA SeqCount ==
  ASSUME NEW ho \in [Holder -> Impl \cup {Null, Gone}],
         NEW s \in Seq(Impl), NEW t \in Seq(Impl), NEW r \in Seq(Impl),
         NEW n, Inserted(t, s, n)
  PROVE  /\ Total(ho, s, r) = Plus(Total(ho, t, r), s[n])
         /\ Total(ho, r, s) = Plus(Total(ho, r, t), s[n])
         /\ Total(ho, t, r) = Minus(Total(ho, s, r), s[n])
         /\ Total(ho, r, t) = Minus(Total(ho, r, s), s[n])
<1>1. ASSUME NEW i \in Impl
      PROVE  Cardinality(At(s, i)) = Cardinality(At(t, i)) + Hit(s[n], i)
  BY RemoveCount
<1>2. ASSUME NEW i \in Impl
      PROVE  /\ Total(ho, s, r)[i] = Total(ho, t, r)[i] + Hit(s[n], i)
             /\ Total(ho, r, s)[i] = Total(ho, r, t)[i] + Hit(s[n], i)
  <2> DEFINE H == Cardinality(At(ho, i))
             R == Cardinality(At(r, i))
             T == Cardinality(At(t, i))
  <2>1. Hit(s[n], i) \in Nat
    BY DEF Hit
  <2>2. H \in Nat /\ R \in Nat /\ T \in Nat
    BY TotalType
  <2>3. Total(ho, t, r)[i] = H + T + R /\ Total(ho, r, t)[i] = H + R + T
    BY TotalType
  <2>4. /\ Total(ho, s, r)[i] = H + Cardinality(At(s, i)) + R
        /\ Total(ho, r, s)[i] = H + R + Cardinality(At(s, i))
    BY TotalType
  <2>5. Cardinality(At(s, i)) = T + Hit(s[n], i)
    BY <1>1
  <2> HIDE DEF H, R, T
  <2> QED BY <2>1, <2>2, <2>3, <2>4, <2>5
<1>3. ASSUME NEW M, NEW N, M \in [Impl -> Nat], N \in [Impl -> Nat],
             \A i \in Impl : M[i] = N[i] + Hit(s[n], i)
      PROVE  M = Plus(N, s[n]) /\ N = Minus(M, s[n])
  <2>1. \A i \in Impl : M[i] = IF i = s[n] THEN N[i] + 1 ELSE N[i]
    BY <1>3 DEF Hit
  <2>2. \A i \in Impl : N[i] \in Nat
    BY <1>3
  <2>3. \A i \in Impl : N[i] = IF i = s[n] THEN M[i] - 1 ELSE M[i]
    BY <2>1, <2>2
  <2> QED BY <1>3, <2>1, <2>3 DEF Plus, Minus
<1>4. /\ Total(ho, s, r) \in [Impl -> Nat] /\ Total(ho, t, r) \in [Impl -> Nat]
      /\ Total(ho, r, s) \in [Impl -> Nat] /\ Total(ho, r, t) \in [Impl -> Nat]
  BY TotalType
<1>5. Total(ho, s, r) = Plus(Total(ho, t, r), s[n])
      /\ Total(ho, t, r) = Minus(Total(ho, s, r), s[n])
  BY <1>2, <1>3, <1>4
<1>6. Total(ho, r, s) = Plus(Total(ho, r, t), s[n])
      /\ Total(ho, r, t) = Minus(Total(ho, r, s), s[n])
  BY <1>2, <1>3, <1>4
<1> QED BY <1>5, <1>6

\* What an address means does not change while it is in use.
SameSig(hp, hq) ==
  \A i \in Impl : hp[i] # Free /\ hq[i] # Free => hq[i].sig = hp[i].sig

LEMMA ExtendsSame ==
  ASSUME NEW hp, NEW mid, NEW hq, Extends(hp, mid), Extends(hq, mid)
  PROVE  SameSig(hp, hq)
  BY DEF Extends, SameSig

LEMMA ExtendsSelf ==
  ASSUME NEW hp
  PROVE  Extends(hp, hp)
  BY DEF Extends

\* What is left of an invariant step once the counts agree.
LEMMA StepKeeps ==
  ASSUME CInv, Typed', Agrees(heap', Refs'), SameSig(heap, heap'),
         \A h \in Holder : hold'[h] \in Impl /\ Checked(h)' =>
           \/ \E s \in Holder : /\ hold[s] = hold'[h] /\ Checked(s)
                                /\ ClassOf[s].sig = ClassOf[h].sig
           \/ heap'[hold'[h]].sig = ClassOf[h].sig,
         \A n \in DOMAIN run' : \/ \E m \in DOMAIN run : run[m] = run'[n]
                                \/ heap'[run'[n]].sig = ParamSig
  PROVE  CInv'
<1>1. Typed /\ Agrees(heap, Refs) /\ HoldersMatch /\ RunsMatch
  BY DEF CInv
<1>2. ASSUME NEW h \in Holder, hold'[h] \in Impl
      PROVE  heap'[hold'[h]] # Free
  <2>1. Refs'[hold'[h]] > 0
    BY <1>2, PointedTo DEF Typed, Refs
  <2> QED BY <1>2, <2>1, PointedLives
<1>3. HoldersMatch'
  <2> SUFFICES ASSUME NEW h \in Holder, hold'[h] \in Impl, Checked(h)'
               PROVE  heap'[hold'[h]].sig = ClassOf[h].sig
    BY DEF HoldersMatch
  <2>1. ASSUME NEW s \in Holder, hold[s] = hold'[h], Checked(s),
               ClassOf[s].sig = ClassOf[h].sig
        PROVE  heap'[hold'[h]].sig = ClassOf[h].sig
    <3>0. hold[s] \in Impl /\ Refs[hold[s]] > 0
      BY <1>1, <2>1, PointedTo DEF Typed, Refs
    <3>1. heap[hold[s]] # Free
      BY <1>1, <3>0, PointedLives
    <3>2. heap[hold[s]].sig = ClassOf[h].sig
      BY <1>1, <2>1 DEF HoldersMatch
    <3> QED BY <1>2, <2>1, <3>1, <3>2 DEF SameSig
  <2> QED BY <2>1
<1>4. RunsMatch'
  <2> SUFFICES ASSUME NEW n \in DOMAIN run'
               PROVE  heap'[run'[n]].sig = ParamSig
    BY DEF RunsMatch
  <2>1. run'[n] \in Impl
    BY LenProperties, ElementOfSeq DEF Typed
  <2>2. heap'[run'[n]] # Free
    <3>1. Refs'[run'[n]] > 0
      BY <2>1, PointedTo DEF Typed, Refs
    <3> QED BY <2>1, <3>1, PointedLives
  <2>3. ASSUME NEW m \in DOMAIN run, run[m] = run'[n]
        PROVE  heap'[run'[n]].sig = ParamSig
    <3>0. Refs[run[m]] > 0
      BY <1>1, <2>1, <2>3, PointedTo DEF Typed, Refs
    <3>1. heap[run[m]] # Free
      BY <1>1, <2>1, <2>3, <3>0, PointedLives
    <3> QED BY <1>1, <2>1, <2>2, <2>3, <3>1 DEF SameSig, RunsMatch
  <2> QED BY <2>3
<1> QED BY <1>3, <1>4 DEF CInv

-----------------------------------------------------------------------------
(* The steps.                                                                 *)

LEMMA InvFacts ==
  ASSUME CInv
  PROVE  /\ Typed /\ Agrees(heap, Refs) /\ WellFormed(heap)
         /\ Refs \in [Impl -> Nat]
         /\ \A h \in Holder : hold[h] \in Impl =>
              Refs[hold[h]] > 0 /\ heap[hold[h]] # Free
         /\ \A n \in DOMAIN vec :
              vec[n] \in Impl /\ Refs[vec[n]] > 0 /\ heap[vec[n]] # Free
         /\ \A n \in DOMAIN run :
              run[n] \in Impl /\ Refs[run[n]] > 0 /\ heap[run[n]] # Free
<1>1. Typed /\ Agrees(heap, Refs) /\ WellFormed(heap) /\ Refs \in [Impl -> Nat]
  BY DEF CInv, Agrees
<1>2. ASSUME NEW i \in Impl, Refs[i] > 0
      PROVE  heap[i] # Free
  BY <1>1, <1>2, PointedLives
<1>3. ASSUME NEW h \in Holder, hold[h] \in Impl
      PROVE  Refs[hold[h]] > 0
  BY <1>1, <1>3, PointedTo DEF Typed, Refs
<1>4. ASSUME NEW n \in DOMAIN vec
      PROVE  vec[n] \in Impl /\ Refs[vec[n]] > 0
  <2>1. vec[n] \in Impl
    BY <1>1, LenProperties, ElementOfSeq DEF Typed
  <2> QED BY <1>1, <2>1, PointedTo DEF Typed, Refs
<1>5. ASSUME NEW n \in DOMAIN run
      PROVE  run[n] \in Impl /\ Refs[run[n]] > 0
  <2>1. run[n] \in Impl
    BY <1>1, LenProperties, ElementOfSeq DEF Typed
  <2> QED BY <1>1, <2>1, PointedTo DEF Typed, Refs
<1> QED BY <1>1, <1>2, <1>3, <1>4, <1>5

\* One holder gets v and releases what it had.
LEMMA HolderStep ==
  ASSUME CInv, NEW h \in Holder, NEW v \in Impl \cup {Null, Gone}, NEW mid,
         Extends(heap, mid), Agrees(mid, Plus(Refs, v)),
         heap' = Release(mid, IF hold[h] \in Impl THEN hold[h] ELSE Null),
         hold' = [hold EXCEPT ![h] = v], UNCHANGED <<vec, run>>,
         \A k \in Holder : k # h /\ Checked(k)' => Checked(k),
         v \in Impl /\ Checked(h)' =>
           \/ \E s \in Holder : /\ hold[s] = v /\ Checked(s)
                                /\ ClassOf[s].sig = ClassOf[h].sig
           \/ mid[v].sig = ClassOf[h].sig
  PROVE  CInv'
<1> DEFINE old == IF hold[h] \in Impl THEN hold[h] ELSE Null
<1>1. /\ hold \in [Holder -> Impl \cup {Null, Gone}] /\ vec \in Seq(Impl)
      /\ run \in Seq(Impl) /\ Refs \in [Impl -> Nat]
  BY InvFacts DEF Typed
<1>2. Typed'
  BY <1>1 DEF Typed
<1>3. Refs' = Minus(Plus(Refs, v), hold[h])
  <2>1. hold' \in [Holder -> Impl \cup {Null, Gone}] /\ Stored(hold, hold', h, v)
    BY <1>1 DEF Stored
  <2>2. Total(hold', vec, run) = Minus(Plus(Total(hold, vec, run), v), hold[h])
    BY <1>1, <2>1, HoldCount
  <2> QED BY <2>2 DEF Refs
<1>4. Plus(Refs, v) \in [Impl -> Nat]
  BY DEF Agrees
<1>5. Minus(Plus(Refs, v), hold[h]) = Minus(Plus(Refs, v), old)
  BY SignaturesAreKnown, MarksAreDistinct DEF Minus
<1>6. old \in Impl \cup {Null} /\ (old # Null => Plus(Refs, v)[old] > 0)
  <2>1. CASE hold[h] \in Impl
    <3>1. Refs[hold[h]] > 0 /\ Refs[hold[h]] \in Nat
      BY <1>1, <2>1, InvFacts
    <3> QED BY <2>1, <3>1 DEF Plus
  <2>2. CASE hold[h] \notin Impl
    BY <2>2
  <2> QED BY <2>1, <2>2
<1>7. heap' = Release(mid, old)
  OBVIOUS
<1> HIDE DEF old
<1>8. Agrees(heap', Refs') /\ Extends(heap', mid)
  BY <1>3, <1>5, <1>6, <1>7, ReleaseAgrees
<1>9. SameSig(heap, heap')
  BY <1>8, ExtendsSame
<1>10. ASSUME v \in Impl
       PROVE  heap'[v].sig = mid[v].sig
  <2>1. hold'[h] = v
    BY <1>1
  <2>2. Refs'[v] > 0
    BY <1>2, <1>10, <2>1, PointedTo DEF Typed, Refs
  <2>3. heap'[v] # Free
    BY <1>8, <1>10, <2>2, PointedLives
  <2> QED BY <1>8, <1>10, <2>3 DEF Extends
<1>11. ASSUME NEW k \in Holder, hold'[k] \in Impl, Checked(k)'
       PROVE  \/ \E s \in Holder : /\ hold[s] = hold'[k] /\ Checked(s)
                                   /\ ClassOf[s].sig = ClassOf[k].sig
              \/ heap'[hold'[k]].sig = ClassOf[k].sig
  <2>1. CASE k = h
    <3>1. hold'[k] = v
      BY <1>1, <2>1
    <3> QED BY <1>10, <1>11, <2>1, <3>1
  <2>2. CASE k # h
    <3>1. hold'[k] = hold[k]
      BY <1>1, <2>2
    <3> QED BY <1>11, <2>2, <3>1
  <2> QED BY <2>1, <2>2
<1>12. \A n \in DOMAIN run' : \/ \E m \in DOMAIN run : run[m] = run'[n]
                              \/ heap'[run'[n]].sig = ParamSig
  OBVIOUS
<1> QED BY <1>2, <1>8, <1>9, <1>11, <1>12, StepKeeps

\* The holder had nothing to release.
LEMMA FreshHolderStep ==
  ASSUME CInv, NEW h \in Holder, hold[h] = Gone, NEW v \in Impl \cup {Null, Gone},
         Extends(heap, heap'), Agrees(heap', Plus(Refs, v)),
         hold' = [hold EXCEPT ![h] = v], UNCHANGED <<vec, run>>,
         \A k \in Holder : k # h /\ Checked(k)' => Checked(k),
         v \in Impl /\ Checked(h)' =>
           \/ \E s \in Holder : /\ hold[s] = v /\ Checked(s)
                                /\ ClassOf[s].sig = ClassOf[h].sig
           \/ heap'[v].sig = ClassOf[h].sig
  PROVE  CInv'
<1>1. heap' = Release(heap', IF hold[h] \in Impl THEN hold[h] ELSE Null)
  BY MarksAreDistinct DEF Release
<1> QED BY <1>1, HolderStep

\* Pointers that are none change no counts.
LEMMA NoPointer ==
  ASSUME NEW N \in [Impl -> Nat], NEW c, c \notin Impl
  PROVE  Plus(N, c) = N /\ Minus(N, c) = N
  BY DEF Plus, Minus

\* What h takes from a holder is checked if that was.
LEMMA TakenIsChecked ==
  ASSUME NEW h \in Holder, NEW s \in Holder, ClassOf[h].kind = "typed",
         ~TakesUnchecked(h, s)
  PROVE  Checked(s) /\ ClassOf[s].sig = ClassOf[h].sig
  BY SignaturesAreKnown DEF TakesUnchecked, Shares, Checked, IsCallback, Kind

\* A step that leaves the history alone, or drops h from it, checks no other.
LEMMA OthersStay ==
  ASSUME NEW h, unchecked' \in {unchecked, unchecked \ {h}, unchecked \cup {h}}
  PROVE  \A k \in Holder : k # h /\ Checked(k)' => Checked(k)
  BY DEF Checked, IsCallback

LEMMA MakeCallbackKeeps ==
  ASSUME CInv, NEW h \in Holder, MakeCallback(h)
  PROVE  CInv'
<1>1. PICK i \in Unused : /\ heap' = NewFunctor(heap, i, ClassOf[h].sig)
                          /\ hold' = [hold EXCEPT ![h] = i]
  BY DEF MakeCallback
<1>2. i \in Impl /\ heap[i] = Free /\ hold[h] = Gone /\ UNCHANGED <<vec, run>>
  BY DEF MakeCallback, Alive, Unused
<1>3. heap' = [heap EXCEPT ![i] = [sig |-> ClassOf[h].sig, cnt |-> 1, func |-> Null,
                                   excess |-> 0]]
  BY <1>1 DEF NewFunctor, NewObject
<1>4. [sig |-> ClassOf[h].sig, cnt |-> 1, func |-> Null, excess |-> 0] \in Object
  BY DEF Object, Sig
<1>5. Agrees(heap, Refs) /\ heap \in [Impl -> Object \cup {Free}]
  BY InvFacts DEF WellFormed
<1>6. /\ heap' \in [Impl -> Object \cup {Free}] /\ heap'[i] # Free
      /\ heap'[i].func = Null /\ heap'[i].cnt = 1 /\ heap'[i].excess = 0
      /\ heap'[i].sig = ClassOf[h].sig /\ \A k \in Impl : k # i => heap'[k] = heap[k]
  BY <1>2, <1>3, <1>4, <1>5, MarksAreDistinct
<1>7. Extends(heap, heap') /\ Agrees(heap', Plus(Refs, i))
  BY <1>2, <1>5, <1>6, NewFunctorAgrees
<1>8. \A k \in Holder : k # h /\ Checked(k)' => Checked(k)
  BY OthersStay DEF MakeCallback
<1> QED BY <1>1, <1>2, <1>6, <1>7, <1>8, FreshHolderStep

LEMMA ClonedKeeps ==
  ASSUME CInv, NEW h \in Holder, NEW s \in Holder, IsCallback(h), SameClass(h, s),
         Cloned(h, s), UNCHANGED <<vec, run, unchecked>>
  PROVE  CInv'
<1> DEFINE old == IF Alive(h) THEN hold[h] ELSE Null
<1>1. /\ Typed /\ Agrees(heap, Refs) /\ Refs \in [Impl -> Nat]
      /\ hold[s] \in Impl => heap[hold[s]] # Free
  BY InvFacts
<1>2. old = IF hold[h] \in Impl THEN hold[h] ELSE Null
  BY <1>1, MarksAreDistinct DEF Alive, Typed
<1>3. /\ ClassOf[s] = ClassOf[h]
      /\ \A k \in Holder : k # h /\ Checked(k)' => Checked(k)
  BY OthersStay DEF SameClass
<1>4. CASE hold[s] = Null /\ heap' = Release(heap, old)
           /\ hold' = [hold EXCEPT ![h] = Null]
  <2>1. Agrees(heap, Plus(Refs, Null)) /\ Null \notin Impl
    BY <1>1, NoPointer, SignaturesAreKnown
  <2> HIDE DEF old
  <2> QED BY <1>2, <1>3, <1>4, <2>1, ExtendsSelf, HolderStep
<1>5. ASSUME hold[s] \in Impl, NEW i \in Unused, NEW j \in Unused,
             i = j <=> heap[hold[s]].func = Null,
             heap' = Release(Clone(heap, hold[s], i, j), old),
             hold' = [hold EXCEPT ![h] = i]
      PROVE  CInv'
  <2> DEFINE mid == Clone(heap, hold[s], i, j)
  <2>1. i \in Impl /\ j \in Impl /\ heap[i] = Free /\ heap[j] = Free
    BY DEF Unused
  <2>2. mid = Clone(heap, hold[s], i, j)
    OBVIOUS
  <2> HIDE DEF mid
  <2>3. /\ Extends(heap, mid) /\ mid[i] # Free /\ mid[i].sig = heap[hold[s]].sig
        /\ Agrees(mid, Plus(Refs, i))
    BY <1>1, <1>5, <2>1, <2>2, CloneAgrees
  <2>4. heap[hold[s]].sig = ClassOf[h].sig
    BY <1>3, <1>5 DEF CInv, HoldersMatch, Checked, IsCallback
  <2> HIDE DEF old
  <2> QED BY <1>2, <1>3, <1>5, <2>1, <2>2, <2>3, <2>4, HolderStep
<1> QED BY <1>4, <1>5 DEF Cloned

LEMMA AdaptCallbackKeeps ==
  ASSUME CInv, NEW h \in Holder, NEW s \in Holder, AdaptCallback(h, s)
  PROVE  CInv'
<1>1. PICK i \in Unused : /\ heap' = NewAdapter(heap, i, ClassOf[h].sig, hold[s])
                          /\ hold' = [hold EXCEPT ![h] = i]
  BY DEF AdaptCallback
<1>2. /\ i \in Impl /\ heap[i] = Free /\ hold[h] = Gone /\ UNCHANGED <<vec, run>>
      /\ hold[s] \in Impl /\ ClassOf[h].sig # Generic
  BY DEF AdaptCallback, Alive, Unused
<1>3. /\ Agrees(heap, Refs) /\ WellFormed(heap) /\ heap[hold[s]] # Free
  BY <1>2, InvFacts
<1>4. heap[hold[s]].sig = Generic
  BY <1>2 DEF AdaptCallback, CInv, HoldersMatch, Checked, IsCallback
<1>5. heap[hold[s]].func = Null
  BY <1>2, <1>3, <1>4 DEF WellFormed
<1>6. ClassOf[h].sig \in Sig
  BY DEF Sig
<1>7. /\ Extends(heap, heap') /\ Agrees(heap', Plus(Refs, i))
      /\ heap'[i].sig = ClassOf[h].sig
  BY <1>1, <1>2, <1>3, <1>4, <1>5, <1>6, NewAdapterAgrees
<1>8. \A k \in Holder : k # h /\ Checked(k)' => Checked(k)
  BY OthersStay DEF AdaptCallback
<1> QED BY <1>1, <1>2, <1>7, <1>8, FreshHolderStep

LEMMA DestroyKeeps ==
  ASSUME CInv, NEW h \in Holder, Destroy(h)
  PROVE  CInv'
<1>1. /\ Typed /\ Agrees(heap, Refs) /\ Refs \in [Impl -> Nat]
  BY InvFacts
<1>2. /\ hold[h] = IF hold[h] \in Impl THEN hold[h] ELSE Null
      /\ hold' = [hold EXCEPT ![h] = Gone] /\ UNCHANGED <<vec, run>>
      /\ heap' = Release(heap, hold[h])
  BY <1>1 DEF Destroy, Alive, Typed
<1>3. Agrees(heap, Plus(Refs, Gone)) /\ Gone \notin Impl
  BY <1>1, NoPointer, MarksAreDistinct
<1>4. \A k \in Holder : k # h /\ Checked(k)' => Checked(k)
  <2>1. unchecked' = unchecked \ {h}
    BY DEF Destroy
  <2> QED BY <2>1 DEF Checked, IsCallback
<1> QED BY <1>2, <1>3, <1>4, ExtendsSelf, HolderStep

LEMMA MakeHandleKeeps ==
  ASSUME CInv, NEW h \in Holder, NEW s \in Holder, MakeHandle(h, s)
  PROVE  CInv'
<1>1. /\ Typed /\ Agrees(heap, Refs)
      /\ hold[s] \in Impl => heap[hold[s]] # Free
  BY InvFacts
<1>2. /\ hold[h] = Gone /\ hold[s] \in Impl \cup {Null}
      /\ heap' = Acquire(heap, hold[s])
      /\ hold' = [hold EXCEPT ![h] = hold[s]] /\ UNCHANGED <<vec, run>>
  BY <1>1 DEF MakeHandle, Alive, Typed
<1>3. Agrees(heap', Plus(Refs, hold[s])) /\ Extends(heap, heap')
  BY <1>1, <1>2, AcquireAgrees
<1>4. ~IsCallback(h) /\ unchecked' = Taken(h, s)
  BY DEF MakeHandle, Shares
<1>5. Checked(h)' => Checked(s) /\ ClassOf[s].sig = ClassOf[h].sig
  BY <1>4, TakenIsChecked DEF Checked, Taken, IsCallback
<1>6. \A k \in Holder : k # h /\ Checked(k)' => Checked(k)
  BY <1>4, OthersStay DEF Taken
<1> QED BY <1>2, <1>3, <1>5, <1>6, FreshHolderStep

LEMMA DefaultHandleKeeps ==
  ASSUME CInv, NEW h \in Holder, DefaultHandle(h)
  PROVE  CInv'
<1>1. Agrees(heap, Refs) /\ Refs \in [Impl -> Nat]
  BY InvFacts
<1>2. hold[h] = Gone /\ hold' = [hold EXCEPT ![h] = Null]
      /\ heap' = heap /\ UNCHANGED <<vec, run>>
  BY DEF DefaultHandle, Alive
<1>3. Agrees(heap', Plus(Refs, Null)) /\ Null \notin Impl
  BY <1>1, <1>2, NoPointer, SignaturesAreKnown
<1>4. Extends(heap, heap')
  BY <1>2, ExtendsSelf
<1>5. \A k \in Holder : k # h /\ Checked(k)' => Checked(k)
  BY OthersStay DEF DefaultHandle
<1> QED BY <1>2, <1>3, <1>4, <1>5, FreshHolderStep

LEMMA AssignHandleKeeps ==
  ASSUME CInv, NEW h \in Holder, NEW s \in Holder, AssignHandle(h, s)
  PROVE  CInv'
<1>1. /\ Typed /\ Agrees(heap, Refs)
      /\ hold[s] \in Impl => heap[hold[s]] # Free
  BY InvFacts
<1>2. /\ hold[h] = IF hold[h] \in Impl THEN hold[h] ELSE Null
      /\ hold[s] \in Impl \cup {Null}
      /\ heap' = Release(Acquire(heap, hold[s]), hold[h])
      /\ hold' = [hold EXCEPT ![h] = hold[s]] /\ UNCHANGED <<vec, run>>
  BY <1>1 DEF AssignHandle, Alive, Typed
<1>3. /\ Agrees(Acquire(heap, hold[s]), Plus(Refs, hold[s]))
      /\ Extends(heap, Acquire(heap, hold[s]))
  BY <1>1, <1>2, AcquireAgrees
<1>4. ~IsCallback(h) /\ unchecked' = Taken(h, s)
  BY DEF AssignHandle
<1>5. Checked(h)' => Checked(s) /\ ClassOf[s].sig = ClassOf[h].sig
  BY <1>4, TakenIsChecked DEF Checked, Taken, IsCallback
<1>6. \A k \in Holder : k # h /\ Checked(k)' => Checked(k)
  BY <1>4, OthersStay DEF Taken
<1> QED BY <1>2, <1>3, <1>5, <1>6, HolderStep

LEMMA ClearHandleKeeps ==
  ASSUME CInv, NEW h \in Holder, ClearHandle(h)
  PROVE  CInv'
<1>1. Agrees(heap, Refs) /\ Refs \in [Impl -> Nat]
  BY InvFacts
<1>2. /\ hold[h] = IF hold[h] \in Impl THEN hold[h] ELSE Null
      /\ hold' = [hold EXCEPT ![h] = Null] /\ UNCHANGED <<vec, run>>
      /\ heap' = Release(heap, hold[h])
  BY DEF ClearHandle
<1>3. Agrees(heap, Plus(Refs, Null)) /\ Null \notin Impl
  BY <1>1, NoPointer, SignaturesAreKnown
<1>4. \A k \in Holder : k # h /\ Checked(k)' => Checked(k)
  <2>1. unchecked' = unchecked \ {h}
    BY DEF ClearHandle
  <2> QED BY <2>1 DEF Checked, IsCallback
<1> QED BY <1>2, <1>3, <1>4, ExtendsSelf, HolderStep

LEMMA ConvertsAgrees ==
  ASSUME CInv, NEW sig \in Sig, NEW i \in Impl \cup {Null},
         i # Null => heap[i] # Free,
         NEW c \in Impl \cup {Null}, NEW hp, Converts(sig, i, c, hp)
  PROVE  /\ Extends(heap, hp) /\ Agrees(hp, Plus(Refs, c))
         /\ c # Null => hp[c].sig = sig
<1>1. Agrees(heap, Refs) /\ WellFormed(heap) /\ Refs \in [Impl -> Nat]
  BY InvFacts
<1>2. CASE c = Null /\ hp = heap
  BY <1>1, <1>2, NoPointer, ExtendsSelf, SignaturesAreKnown
<1>3. CASE i # Null /\ heap[i].sig = sig /\ c = i /\ hp = Acquire(heap, i)
  <2>1. Extends(heap, hp) /\ Agrees(hp, Plus(Refs, c))
    BY <1>1, <1>3, AcquireAgrees
  <2> QED BY <1>3, <2>1 DEF Extends
<1>4. CASE /\ i # Null /\ sig # Generic /\ heap[Functor(i)].sig = Generic
           /\ c \in Unused /\ hp = NewAdapter(heap, c, sig, Functor(i))
  <2>1. heap[i].func \in Impl \cup {Null}
    BY <1>1, <1>4, ObjectFields
  <2>2. Functor(i) \in Impl /\ heap[Functor(i)] # Free /\ heap[Functor(i)].func = Null
    BY <1>1, <1>4, <2>1 DEF Functor, WellFormed
  <2>3. c \in Impl /\ heap[c] = Free
    BY <1>4 DEF Unused
  <2> QED BY <1>1, <1>4, <2>2, <2>3, NewAdapterAgrees
<1> QED BY <1>2, <1>3, <1>4 DEF Converts

LEMMA ConvertHandleKeeps ==
  ASSUME CInv, NEW h \in Holder, NEW s \in Holder, ConvertHandle(h, s)
  PROVE  CInv'
<1>1. PICK c \in Impl \cup {Null} : /\ Converts(ClassOf[h].sig, hold[s], c, heap')
                                    /\ hold' = [hold EXCEPT ![h] = c]
  BY DEF ConvertHandle
<1>2. Typed /\ (hold[s] \in Impl => heap[hold[s]] # Free)
  BY InvFacts
<1>3. hold[h] = Gone /\ hold[s] \in Impl \cup {Null} /\ UNCHANGED <<vec, run>>
  BY <1>2 DEF ConvertHandle, Alive, Typed
<1>4. ClassOf[h].sig \in Sig
  BY DEF Sig
<1>5. /\ Extends(heap, heap') /\ Agrees(heap', Plus(Refs, c))
      /\ c # Null => heap'[c].sig = ClassOf[h].sig
  BY <1>1, <1>2, <1>3, <1>4, ConvertsAgrees
<1>6. \A k \in Holder : k # h /\ Checked(k)' => Checked(k)
  BY OthersStay DEF ConvertHandle
<1> QED BY <1>1, <1>3, <1>5, <1>6, SignaturesAreKnown, FreshHolderStep

\* Two holders trade pointers, and nothing else changes.
LEMMA TwoHolders ==
  ASSUME CInv, NEW h \in Holder, NEW s \in Holder, h # s,
         NEW v \in {hold[h], Null},
         \A k \in Holder : k \notin {h, s} /\ Checked(k)' => Checked(k),
         Checked(h)' => Checked(s) /\ ClassOf[s].sig = ClassOf[h].sig,
         Checked(s)' => Checked(h) /\ ClassOf[h].sig = ClassOf[s].sig,
         hold' = [hold EXCEPT ![h] = hold[s], ![s] = v]
  PROVE  /\ hold' \in [Holder -> Impl \cup {Null, Gone}]
         /\ Total(hold', vec, run) = Minus(Plus(Refs, v), hold[h])
         /\ \A k \in Holder : hold'[k] \in Impl /\ Checked(k)' =>
              \E m \in Holder : /\ hold[m] = hold'[k] /\ Checked(m)
                                /\ ClassOf[m].sig = ClassOf[k].sig
<1> DEFINE mid == [hold EXCEPT ![h] = hold[s]]
<1>1. /\ hold \in [Holder -> Impl \cup {Null, Gone}] /\ vec \in Seq(Impl)
      /\ run \in Seq(Impl) /\ Refs \in [Impl -> Nat]
  BY InvFacts DEF Typed
<1>2. /\ mid \in [Holder -> Impl \cup {Null, Gone}] /\ mid[h] = hold[s]
      /\ \A y \in Holder : y # h => mid[y] = hold[y]
  BY <1>1
<1>3. /\ hold' \in [Holder -> Impl \cup {Null, Gone}] /\ hold'[s] = v
      /\ \A y \in Holder : y # s => hold'[y] = mid[y]
  BY <1>1
<1> HIDE DEF mid
<1>11. Stored(hold, mid, h, hold[s]) /\ Stored(mid, hold', s, v)
  BY <1>1, <1>2, <1>3 DEF Stored
<1>4. Total(mid, vec, run) = Minus(Plus(Refs, hold[s]), hold[h])
  BY <1>1, <1>2, <1>11, HoldCount DEF Refs
<1>5. Total(hold', vec, run) = Minus(Plus(Total(mid, vec, run), v), mid[s])
  BY <1>1, <1>2, <1>3, <1>11, HoldCount
<1>6. mid[s] = hold[s]
  BY <1>2
<1>7. \A i \in Impl : Refs[i] \in Nat
  BY <1>1
<1>8. Minus(Plus(Minus(Plus(Refs, hold[s]), hold[h]), v), hold[s])
        = Minus(Plus(Refs, v), hold[h])
  BY <1>7 DEF Plus, Minus
<1>9. \A k \in Holder : \/ k \notin {h, s} /\ hold'[k] = hold[k]
                        \/ k = h /\ hold'[k] = hold[s]
                        \/ k = s /\ hold'[k] = v
  BY <1>2, <1>3
<1>10. ASSUME NEW k \in Holder, hold'[k] \in Impl, Checked(k)'
       PROVE  \E m \in Holder : /\ hold[m] = hold'[k] /\ Checked(m)
                                /\ ClassOf[m].sig = ClassOf[k].sig
  <2>1. \/ k \notin {h, s} /\ hold'[k] = hold[k]
        \/ k = h /\ hold'[k] = hold[s]
        \/ k = s /\ hold'[k] = hold[h]
    BY <1>9, <1>10, SignaturesAreKnown
  <2> QED BY <1>10, <2>1
<1> QED BY <1>3, <1>4, <1>5, <1>6, <1>8, <1>10

LEMMA MoveCallbackKeeps ==
  ASSUME CInv, NEW h \in Holder, NEW s \in Holder, MoveCallback(h, s)
  PROVE  CInv'
<1>1. /\ Typed /\ Agrees(heap, Refs) /\ Refs \in [Impl -> Nat]
  BY InvFacts
<1>2. /\ h # s /\ hold[h] = Gone /\ ClassOf[h] = ClassOf[s]
      /\ hold' = [hold EXCEPT ![h] = hold[s], ![s] = Null]
      /\ UNCHANGED <<heap, vec, run>>
  BY DEF MoveCallback, Alive, SameClass
<1>9. /\ ClassOf[s].sig = ClassOf[h].sig /\ Checked(h) /\ Checked(s)
      /\ \A k \in Holder : Checked(k)' => Checked(k)
  BY DEF MoveCallback, SameClass, Checked, IsCallback
<1>3. /\ hold' \in [Holder -> Impl \cup {Null, Gone}]
      /\ Total(hold', vec, run) = Minus(Plus(Refs, Null), hold[h])
      /\ \A k \in Holder : hold'[k] \in Impl /\ Checked(k)' =>
           \E m \in Holder : /\ hold[m] = hold'[k] /\ Checked(m)
                             /\ ClassOf[m].sig = ClassOf[k].sig
  BY <1>2, <1>9, TwoHolders
<1>7. Minus(Plus(Refs, Null), hold[h]) = Refs
  BY <1>1, <1>2, NoPointer, SignaturesAreKnown, MarksAreDistinct
<1>4. Typed' /\ Refs' = Refs
  BY <1>1, <1>2, <1>3, <1>7 DEF Typed, Refs
<1>5. SameSig(heap, heap') /\ Agrees(heap', Refs')
  BY <1>1, <1>2, <1>4 DEF SameSig
<1>6. \A n \in DOMAIN run' : \E m \in DOMAIN run : run[m] = run'[n]
  BY <1>2
<1> QED BY <1>3, <1>4, <1>5, <1>6, StepKeeps

LEMMA AssignMovedKeeps ==
  ASSUME CInv, NEW h \in Holder, NEW s \in Holder, AssignMoved(h, s)
  PROVE  CInv'
<1>1. /\ Typed /\ Agrees(heap, Refs) /\ Refs \in [Impl -> Nat]
      /\ hold[h] \in Impl => Refs[hold[h]] > 0
  BY InvFacts
<1>2. /\ h # s /\ hold[h] \in Impl \cup {Null} /\ ClassOf[h] = ClassOf[s]
      /\ hold' = [hold EXCEPT ![h] = hold[s], ![s] = Null]
      /\ heap' = Release(heap, hold[h]) /\ UNCHANGED <<vec, run>>
  BY <1>1 DEF AssignMoved, Alive, SameClass, Typed
<1>9. /\ ClassOf[s].sig = ClassOf[h].sig /\ Checked(h) /\ Checked(s)
      /\ \A k \in Holder : Checked(k)' => Checked(k)
  BY DEF AssignMoved, SameClass, Checked, IsCallback
<1>3. /\ hold' \in [Holder -> Impl \cup {Null, Gone}]
      /\ Total(hold', vec, run) = Minus(Plus(Refs, Null), hold[h])
      /\ \A k \in Holder : hold'[k] \in Impl /\ Checked(k)' =>
           \E m \in Holder : /\ hold[m] = hold'[k] /\ Checked(m)
                             /\ ClassOf[m].sig = ClassOf[k].sig
  BY <1>2, <1>9, TwoHolders
<1>8. Plus(Refs, Null) = Refs
  BY <1>1, NoPointer, SignaturesAreKnown
<1>4. Typed' /\ Refs' = Minus(Refs, hold[h])
  BY <1>1, <1>2, <1>3, <1>8 DEF Typed, Refs
<1>5. Agrees(heap', Refs') /\ Extends(heap', heap)
  BY <1>1, <1>2, <1>4, ReleaseAgrees
<1>6. SameSig(heap, heap')
  BY <1>5, ExtendsSelf, ExtendsSame
<1>7. \A n \in DOMAIN run' : \E m \in DOMAIN run : run[m] = run'[n]
  BY <1>2
<1> QED BY <1>3, <1>4, <1>5, <1>6, <1>7, StepKeeps

\* Holders swap what they hold.
LEMMA SwapKeeps ==
  ASSUME CInv, NEW h \in Holder, NEW s \in Holder, h # s,
         hold' = [hold EXCEPT ![h] = hold[s], ![s] = hold[h]],
         UNCHANGED <<heap, vec, run>>,
         \A k \in Holder : k \notin {h, s} /\ Checked(k)' => Checked(k),
         Checked(h)' => Checked(s) /\ ClassOf[s].sig = ClassOf[h].sig,
         Checked(s)' => Checked(h) /\ ClassOf[h].sig = ClassOf[s].sig
  PROVE  CInv'
<1>1. /\ Typed /\ Agrees(heap, Refs) /\ Refs \in [Impl -> Nat]
  BY InvFacts
<1>3. /\ hold' \in [Holder -> Impl \cup {Null, Gone}]
      /\ Total(hold', vec, run) = Minus(Plus(Refs, hold[h]), hold[h])
      /\ \A k \in Holder : hold'[k] \in Impl /\ Checked(k)' =>
           \E m \in Holder : /\ hold[m] = hold'[k] /\ Checked(m)
                             /\ ClassOf[m].sig = ClassOf[k].sig
  BY TwoHolders
<1>4. Minus(Plus(Refs, hold[h]), hold[h]) = Refs
  BY <1>1 DEF Minus, Plus
<1>5. Typed' /\ Refs' = Refs
  BY <1>1, <1>3, <1>4 DEF Typed, Refs
<1>6. SameSig(heap, heap') /\ Agrees(heap', Refs')
  BY <1>1, <1>5 DEF SameSig
<1>7. \A n \in DOMAIN run' : \E m \in DOMAIN run : run[m] = run'[n]
  OBVIOUS
<1> QED BY <1>3, <1>5, <1>6, <1>7, StepKeeps

LEMMA SwapCallbacksKeeps ==
  ASSUME CInv, NEW h \in Holder, NEW s \in Holder, SwapCallbacks(h, s)
  PROVE  CInv'
<1>1. /\ h # s /\ hold' = [hold EXCEPT ![h] = hold[s], ![s] = hold[h]]
      /\ UNCHANGED <<heap, vec, run>>
  BY DEF SwapCallbacks
<1>2. /\ ClassOf[s].sig = ClassOf[h].sig /\ Checked(h) /\ Checked(s)
      /\ \A k \in Holder : Checked(k)' => Checked(k)
  BY DEF SwapCallbacks, SameClass, Checked, IsCallback
<1> QED BY <1>1, <1>2, SwapKeeps

LEMMA SwapHandlesKeeps ==
  ASSUME CInv, NEW h \in Holder, NEW s \in Holder, SwapHandles(h, s)
  PROVE  CInv'
<1>1. /\ h # s /\ hold' = [hold EXCEPT ![h] = hold[s], ![s] = hold[h]]
      /\ UNCHANGED <<heap, vec, run>> /\ ~IsCallback(h) /\ ~IsCallback(s)
  BY DEF SwapHandles
<1>2. /\ h \in unchecked' <=> TakesUnchecked(h, s)
      /\ s \in unchecked' <=> TakesUnchecked(s, h)
      /\ \A k \in Holder : k \notin {h, s} => (k \in unchecked' <=> k \in unchecked)
  BY <1>1 DEF SwapHandles
<1>3. Checked(h)' => Checked(s) /\ ClassOf[s].sig = ClassOf[h].sig
  BY <1>1, <1>2, TakenIsChecked DEF Checked, IsCallback
<1>4. Checked(s)' => Checked(h) /\ ClassOf[h].sig = ClassOf[s].sig
  BY <1>1, <1>2, TakenIsChecked DEF Checked, IsCallback
<1>5. \A k \in Holder : k \notin {h, s} /\ Checked(k)' => Checked(k)
  BY <1>2 DEF Checked, IsCallback
<1> QED BY <1>1, <1>3, <1>4, <1>5, SwapKeeps

\* Every holder keeps what it has.
LEMMA HoldersStay ==
  ASSUME CInv, UNCHANGED <<hold, unchecked>>
  PROVE  \A h \in Holder : hold'[h] \in Impl /\ Checked(h)' =>
           \E s \in Holder : /\ hold[s] = hold'[h] /\ Checked(s)
                             /\ ClassOf[s].sig = ClassOf[h].sig
  BY DEF Checked, IsCallback

LEMMA RegisterKeeps ==
  ASSUME CInv, NEW s \in Holder, Register(s)
  PROVE  CInv'
<1>1. /\ hold \in [Holder -> Impl \cup {Null, Gone}] /\ vec \in Seq(Impl)
      /\ run \in Seq(Impl) /\ Agrees(heap, Refs)
  BY InvFacts DEF Typed
<1>2. /\ hold[s] \in Impl /\ heap[hold[s]] # Free
      /\ heap' = Acquire(heap, hold[s]) /\ vec' = Append(vec, hold[s])
      /\ UNCHANGED <<hold, run>>
  BY InvFacts DEF Register
<1>3. /\ vec' \in Seq(Impl) /\ Len(vec') = Len(vec) + 1 /\ Len(vec) \in Nat
      /\ vec'[Len(vec) + 1] = hold[s]
      /\ \A k \in 1..Len(vec) : vec'[k] = vec[k]
  BY <1>1, <1>2, AppendProperties, LenProperties
<1>4. Inserted(vec, vec', Len(vec) + 1)
  BY <1>3 DEF Inserted
<1>5. Refs' = Plus(Refs, hold[s])
  <2>1. Total(hold, vec', run) = Plus(Total(hold, vec, run), vec'[Len(vec) + 1])
    BY <1>1, <1>3, <1>4, SeqCount
  <2> QED BY <1>2, <1>3, <2>1 DEF Refs
<1>6. Typed'
  BY <1>1, <1>2, <1>3 DEF Typed
<1>7. Agrees(heap', Refs') /\ Extends(heap, heap')
  BY <1>1, <1>2, <1>5, AcquireAgrees
<1>8. SameSig(heap, heap')
  BY <1>7, ExtendsSelf, ExtendsSame
<1>9. \A n \in DOMAIN run' : \E m \in DOMAIN run : run[m] = run'[n]
  BY <1>2
<1>20. \A h \in Holder : hold'[h] \in Impl /\ Checked(h)' =>
         \E o \in Holder : /\ hold[o] = hold'[h] /\ Checked(o)
                           /\ ClassOf[o].sig = ClassOf[h].sig
  BY HoldersStay DEF Register
<1> QED BY <1>2, <1>6, <1>7, <1>8, <1>9, <1>20, StepKeeps

LEMMA UnregisterKeeps ==
  ASSUME CInv, NEW n \in DOMAIN vec, Unregister(n)
  PROVE  CInv'
<1>1. /\ hold \in [Holder -> Impl \cup {Null, Gone}] /\ vec \in Seq(Impl)
      /\ run \in Seq(Impl) /\ Agrees(heap, Refs)
      /\ vec[n] \in Impl /\ Refs[vec[n]] > 0
  BY InvFacts DEF Typed
<1>2. /\ heap' = Release(heap, vec[n]) /\ UNCHANGED <<hold, run>>
      /\ vec' = SubSeq(vec, 1, n - 1) \o SubSeq(vec, n + 1, Len(vec))
  BY DEF Unregister
<1>3. n \in 1..Len(vec) /\ Len(vec) \in Nat
  BY <1>1, LenProperties
<1>4. vec' \in Seq(Impl) /\ Inserted(vec', vec, n)
  <2> DEFINE a == SubSeq(vec, 1, n - 1)
             b == SubSeq(vec, n + 1, Len(vec))
  <2>1. /\ a \in Seq(Impl) /\ Len(a) = n - 1
        /\ \A k \in 1..n - 1 : a[k] = vec[k]
    BY <1>1, <1>3, SubSeqProperties
  <2>2. /\ b \in Seq(Impl) /\ Len(b) = Len(vec) - n
        /\ \A k \in 1..Len(vec) - n : b[k] = vec[n + k]
    BY <1>1, <1>3, SubSeqProperties
  <2>3. vec' = a \o b
    BY <1>2
  <2> HIDE DEF a, b
  <2>4. /\ a \o b \in Seq(Impl) /\ Len(a \o b) = Len(vec) - 1
        /\ \A k \in 1..Len(vec) - 1 :
             (a \o b)[k] = IF k <= n - 1 THEN a[k] ELSE b[k - (n - 1)]
    <3>1. /\ a \o b \in Seq(Impl) /\ Len(a \o b) = Len(a) + Len(b)
          /\ \A k \in 1..Len(a) + Len(b) :
               (a \o b)[k] = IF k <= Len(a) THEN a[k] ELSE b[k - Len(a)]
      BY <2>1, <2>2, ConcatProperties
    <3>2. Len(a) + Len(b) = Len(vec) - 1
      BY <1>3, <2>1, <2>2
    <3> QED BY <2>1, <3>1, <3>2
  <2>5. ASSUME NEW k \in 1..Len(vec) - 1
        PROVE  vec'[k] = IF k < n THEN vec[k] ELSE vec[k + 1]
    <3>1. CASE k < n
      BY <1>3, <2>1, <2>3, <2>4, <3>1
    <3>2. CASE ~(k < n)
      <4>1. k - (n - 1) \in 1..Len(vec) - n /\ n + (k - (n - 1)) = k + 1
        BY <1>3, <3>2
      <4>2. b[k - (n - 1)] = vec[k + 1]
        BY <2>2, <4>1
      <4>3. vec'[k] = b[k - (n - 1)]
        BY <1>3, <2>3, <2>4, <3>2
      <4> QED BY <3>2, <4>2, <4>3
    <3> QED BY <3>1, <3>2
  <2>6. vec' \in Seq(Impl) /\ Len(vec') = Len(vec) - 1
    BY <2>3, <2>4
  <2>7. Len(vec) = Len(vec') + 1
    BY <1>3, <2>6
  <2>8. \A k \in 1..Len(vec') : vec'[k] = IF k < n THEN vec[k] ELSE vec[k + 1]
    BY <2>5, <2>6
  <2>9. Inserted(vec', vec, n)
    BY <1>3, <2>7, <2>8 DEF Inserted
  <2> QED BY <2>6, <2>9
<1>5. Refs' = Minus(Refs, vec[n])
  <2>1. Total(hold, vec', run) = Minus(Total(hold, vec, run), vec[n])
    BY <1>1, <1>4, SeqCount
  <2> QED BY <1>2, <2>1 DEF Refs
<1>6. Typed'
  BY <1>1, <1>2, <1>4 DEF Typed
<1>7. Agrees(heap', Refs') /\ Extends(heap', heap)
  BY <1>1, <1>2, <1>5, ReleaseAgrees
<1>8. SameSig(heap, heap')
  BY <1>7, ExtendsSelf, ExtendsSame
<1>9. \A m \in DOMAIN run' : \E k \in DOMAIN run : run[k] = run'[m]
  BY <1>2
<1>20. \A h \in Holder : hold'[h] \in Impl /\ Checked(h)' =>
         \E o \in Holder : /\ hold[o] = hold'[h] /\ Checked(o)
                           /\ ClassOf[o].sig = ClassOf[h].sig
  BY HoldersStay DEF Unregister
<1> QED BY <1>2, <1>6, <1>7, <1>8, <1>9, <1>20, StepKeeps

LEMMA InvokeKeeps ==
  ASSUME CInv, NEW n \in DOMAIN vec, Invoke(n)
  PROVE  CInv'
<1>1. /\ hold \in [Holder -> Impl \cup {Null, Gone}] /\ vec \in Seq(Impl)
      /\ run \in Seq(Impl) /\ Agrees(heap, Refs)
      /\ vec[n] \in Impl /\ heap[vec[n]] # Free
  BY InvFacts DEF Typed
<1>2. PICK c \in Impl : /\ Converts(ParamSig, vec[n], c, heap')
                        /\ run' = <<c>> \o run
  BY DEF Invoke
<1>3. UNCHANGED <<hold, vec>> /\ ParamSig \in Sig
  BY DEF Invoke, Sig
<1>4. /\ Extends(heap, heap') /\ Agrees(heap', Plus(Refs, c))
      /\ heap'[c].sig = ParamSig
  BY <1>1, <1>2, <1>3, ConvertsAgrees, SignaturesAreKnown
<1>5. /\ run' \in Seq(Impl) /\ Len(run') = Len(run) + 1 /\ run'[1] = c
      /\ \A i \in 2..Len(run) + 1 : run'[i] = run[i - 1]
      /\ Len(run) \in Nat /\ DOMAIN run = 1..Len(run)
      /\ DOMAIN run' = 1..Len(run')
  BY <1>1, <1>2, ConsFacts, LenProperties
<1>6. Inserted(run, run', 1)
  <2>1. ASSUME NEW k \in 1..Len(run)
        PROVE  run[k] = run'[k + 1] /\ ~(k < 1)
    <3>1. k + 1 \in 2..Len(run) + 1 /\ (k + 1) - 1 = k
      BY <1>5
    <3> QED BY <1>5, <3>1
  <2> QED BY <1>5, <2>1 DEF Inserted
<1>7. Refs' = Plus(Refs, c)
  BY <1>1, <1>3, <1>5, <1>6, SeqCount DEF Refs
<1>8. Typed' /\ SameSig(heap, heap') /\ Agrees(heap', Refs')
  BY <1>1, <1>3, <1>4, <1>5, <1>7, ExtendsSelf, ExtendsSame DEF Typed
<1>9. ASSUME NEW m \in DOMAIN run'
      PROVE  \/ \E k \in DOMAIN run : run[k] = run'[m]
             \/ heap'[run'[m]].sig = ParamSig
  <2>1. CASE m = 1
    BY <1>4, <1>5, <2>1
  <2>2. CASE m # 1
    <3>1. m - 1 \in DOMAIN run /\ run[m - 1] = run'[m]
      BY <1>5, <2>2
    <3> QED BY <3>1
  <2> QED BY <2>1, <2>2
<1>20. \A h \in Holder : hold'[h] \in Impl /\ Checked(h)' =>
         \E o \in Holder : /\ hold[o] = hold'[h] /\ Checked(o)
                           /\ ClassOf[o].sig = ClassOf[h].sig
  BY HoldersStay DEF Invoke
<1> QED BY <1>3, <1>8, <1>9, <1>20, StepKeeps

LEMMA CallbackReturnsKeeps ==
  ASSUME CInv, CallbackReturns
  PROVE  CInv'
<1>1. /\ hold \in [Holder -> Impl \cup {Null, Gone}] /\ vec \in Seq(Impl)
      /\ run \in Seq(Impl) /\ Agrees(heap, Refs)
  BY InvFacts DEF Typed
<1>2. /\ run # <<>> /\ heap' = Release(heap, Head(run)) /\ run' = Tail(run)
      /\ UNCHANGED <<hold, vec>>
  BY DEF CallbackReturns
<1>3. /\ Len(run) \in Nat \ {0} /\ Head(run) = run[1] /\ run[1] \in Impl
      /\ run' \in Seq(Impl) /\ Len(run') = Len(run) - 1
      /\ \A i \in 1..Len(run) - 1 : run'[i] = run[i + 1]
  BY <1>1, <1>2, TailFacts
<1>4. DOMAIN run = 1..Len(run) /\ DOMAIN run' = 1..Len(run')
  BY <1>1, <1>3, LenProperties
<1>5. Inserted(run', run, 1) /\ 1 \in DOMAIN run
  BY <1>3, <1>4 DEF Inserted
<1>6. Refs[run[1]] > 0
  BY <1>5, InvFacts
<1>7. Refs' = Minus(Refs, run[1])
  <2>1. Total(hold, vec, run') = Minus(Total(hold, vec, run), run[1])
    BY <1>1, <1>3, <1>5, SeqCount
  <2> QED BY <1>2, <2>1 DEF Refs
<1>8. Typed'
  BY <1>1, <1>2, <1>3 DEF Typed
<1>9. Agrees(heap', Refs') /\ Extends(heap', heap)
  BY <1>1, <1>2, <1>3, <1>6, <1>7, ReleaseAgrees
<1>10. SameSig(heap, heap')
  BY <1>9, ExtendsSelf, ExtendsSame
<1>11. ASSUME NEW m \in DOMAIN run'
       PROVE  \E k \in DOMAIN run : run[k] = run'[m]
  <2>1. m + 1 \in DOMAIN run /\ run[m + 1] = run'[m]
    BY <1>3, <1>4
  <2> QED BY <2>1
<1>20. \A h \in Holder : hold'[h] \in Impl /\ Checked(h)' =>
         \E o \in Holder : /\ hold[o] = hold'[h] /\ Checked(o)
                           /\ ClassOf[o].sig = ClassOf[h].sig
  BY HoldersStay DEF CallbackReturns
<1> QED BY <1>2, <1>8, <1>9, <1>10, <1>11, <1>20, StepKeeps

-----------------------------------------------------------------------------
(* The theorems.                                                              *)

LEMMA InitCounts ==
  ASSUME Init
  PROVE  CInv
<1>1. /\ hold = [h \in Holder |-> Gone] /\ vec = <<>> /\ run = <<>>
      /\ heap = [i \in Impl |-> Free]
  BY DEF Init
<1>2. Typed /\ DOMAIN vec = {} /\ DOMAIN run = {}
  BY <1>1 DEF Typed
<1>3. \A i \in Impl : At(hold, i) = {} /\ At(vec, i) = {} /\ At(run, i) = {}
  BY <1>1, <1>2, MarksAreDistinct DEF At
<1>4. \A i \in Impl : Refs[i] = 0
  BY <1>3, FS_EmptySet DEF Refs, Total
<1>5. Refs \in [Impl -> Nat]
  BY <1>2, TotalType DEF Refs, Typed
<1>6. WellFormed(heap) /\ \A i \in Impl : heap[i] = Free
  BY <1>1 DEF WellFormed
<1>7. Agrees(heap, Refs)
  BY <1>4, <1>5, <1>6 DEF Agrees, Counted
<1>8. HoldersMatch /\ RunsMatch
  BY <1>1, <1>2, MarksAreDistinct DEF HoldersMatch, RunsMatch
<1> QED BY <1>2, <1>7, <1>8 DEF CInv

LEMMA StepsCount ==
  ASSUME CInv, [Next]_vars
  PROVE  CInv'
<1>1. ASSUME NEW h \in Holder, CallbackSteps(h)
      PROVE  CInv'
  <2>1. CASE MakeCallback(h)
    BY <2>1, MakeCallbackKeeps
  <2>2. ASSUME NEW s \in Holder, CopyCallback(h, s)
        PROVE  CInv'
    BY <2>2, ClonedKeeps DEF CopyCallback
  <2>3. ASSUME NEW s \in Holder, MoveCallback(h, s)
        PROVE  CInv'
    BY <2>3, MoveCallbackKeeps
  <2>4. ASSUME NEW s \in Holder, AdaptCallback(h, s)
        PROVE  CInv'
    BY <2>4, AdaptCallbackKeeps
  <2>5. ASSUME NEW s \in Holder, AssignCallback(h, s)
        PROVE  CInv'
    BY <2>5, ClonedKeeps DEF AssignCallback
  <2>6. ASSUME NEW s \in Holder, AssignMoved(h, s)
        PROVE  CInv'
    BY <2>6, AssignMovedKeeps
  <2>7. ASSUME NEW s \in Holder, SwapCallbacks(h, s)
        PROVE  CInv'
    BY <2>7, SwapCallbacksKeeps
  <2> QED BY <1>1, <2>1, <2>2, <2>3, <2>4, <2>5, <2>6, <2>7 DEF CallbackSteps
<1>2. ASSUME NEW h \in Holder, HandleSteps(h)
      PROVE  CInv'
  <2>1. CASE DefaultHandle(h)
    BY <2>1, DefaultHandleKeeps
  <2>2. CASE ClearHandle(h)
    BY <2>2, ClearHandleKeeps
  <2>3. ASSUME NEW s \in Holder, MakeHandle(h, s)
        PROVE  CInv'
    BY <2>3, MakeHandleKeeps
  <2>4. ASSUME NEW s \in Holder, ConvertHandle(h, s)
        PROVE  CInv'
    BY <2>4, ConvertHandleKeeps
  <2>5. ASSUME NEW s \in Holder, AssignHandle(h, s)
        PROVE  CInv'
    BY <2>5, AssignHandleKeeps
  <2>6. ASSUME NEW s \in Holder, SwapHandles(h, s)
        PROVE  CInv'
    BY <2>6, SwapHandlesKeeps
  <2> QED BY <1>2, <2>1, <2>2, <2>3, <2>4, <2>5, <2>6 DEF HandleSteps
<1>3. ASSUME NEW h \in Holder, Destroy(h)
      PROVE  CInv'
  BY <1>3, DestroyKeeps
<1>5. CASE ParamSteps
  BY <1>5, RegisterKeeps, UnregisterKeeps, InvokeKeeps, CallbackReturnsKeeps
  DEF ParamSteps
<1>6. CASE UNCHANGED vars
  <2>1. UNCHANGED <<heap, hold, vec, run, unchecked>>
    BY <1>6 DEF vars
  <2>2. Refs' = Refs /\ Typed' = Typed
    BY <2>1 DEF Refs, Typed
  <2> QED BY <2>1, <2>2 DEF CInv, HoldersMatch, RunsMatch, Checked, IsCallback
<1> QED BY <1>1, <1>2, <1>3, <1>5, <1>6 DEF Next

LEMMA CountInvariant == Spec => []CInv
<1>1. Init => CInv
  BY InitCounts
<1>2. CInv /\ [Next]_vars => CInv'
  BY StepsCount
<1> QED BY <1>1, <1>2, PTL DEF Spec

\* A set of tagged elements has as many as there are elements.
LEMMA TaggedCount ==
  ASSUME NEW t, NEW A, IsFiniteSet(A)
  PROVE  /\ IsFiniteSet({<<t, x>> : x \in A})
         /\ Cardinality({<<t, x>> : x \in A}) = Cardinality(A)
<1> DEFINE f == [x \in A |-> <<t, x>>]
           T == {<<t, x>> : x \in A}
<1>1. f \in [A -> T] /\ (\A x, y \in A : f[x] = f[y] => x = y)
  OBVIOUS
<1>2. \A z \in T : \E x \in A : f[x] = z
  OBVIOUS
<1> HIDE DEF f, T
<1>3. f \in Bijection(A, T)
  BY <1>1, <1>2 DEF Bijection, Injection, Surjection, IsInjective
<1>4. IsFiniteSet(T) /\ Cardinality(T) = Cardinality(A)
  BY <1>3, FS_Bijection DEF ExistsBijection
<1> QED BY <1>4 DEF T

LEMMA DisjointUnion ==
  ASSUME NEW S, IsFiniteSet(S), NEW T, IsFiniteSet(T), S \cap T = {}
  PROVE  /\ IsFiniteSet(S \cup T)
         /\ Cardinality(S \cup T) = Cardinality(S) + Cardinality(T)
<1>1. /\ IsFiniteSet(S \cup T)
      /\ Cardinality(S \cup T) = Cardinality(S) + Cardinality(T) - 0
  BY FS_Union, FS_EmptySet
<1>2. Cardinality(S) \in Nat /\ Cardinality(T) \in Nat
  BY FS_CardinalityType
<1> QED BY <1>1, <1>2

LEMMA PointersCount ==
  ASSUME Typed, NEW i \in Impl
  PROVE  /\ IsFiniteSet(Pointers(i))
         /\ Cardinality(Pointers(i)) = Refs[i] + Cardinality(Adapters(heap, i))
<1> DEFINE H == {<<"holder", h>> : h \in At(hold, i)}
           V == {<<"vec", n>> : n \in At(vec, i)}
           R == {<<"run", n>> : n \in At(run, i)}
           A == {<<"adapter", a>> : a \in Adapters(heap, i)}
<1>1. Pointers(i) = ((H \cup V) \cup R) \cup A
  <2>1. DOMAIN hold = Holder
    BY DEF Typed
  <2> QED BY <2>1 DEF Pointers, At, Adapters
<1>2. /\ IsFiniteSet(At(hold, i)) /\ IsFiniteSet(At(vec, i)) /\ IsFiniteSet(At(run, i))
      /\ IsFiniteSet(Adapters(heap, i))
  BY AddressesAreFinite, AtFinite, SeqFinite, AdaptersFinite DEF Typed
<1>3. /\ IsFiniteSet(H) /\ Cardinality(H) = Cardinality(At(hold, i))
      /\ IsFiniteSet(V) /\ Cardinality(V) = Cardinality(At(vec, i))
      /\ IsFiniteSet(R) /\ Cardinality(R) = Cardinality(At(run, i))
      /\ IsFiniteSet(A) /\ Cardinality(A) = Cardinality(Adapters(heap, i))
  BY <1>2, TaggedCount
<1>4. H \cap V = {} /\ (H \cup V) \cap R = {} /\ ((H \cup V) \cup R) \cap A = {}
  OBVIOUS
<1> HIDE DEF H, V, R, A
<1>5. IsFiniteSet(H \cup V) /\ Cardinality(H \cup V) = Cardinality(H) + Cardinality(V)
  BY <1>3, <1>4, DisjointUnion
<1>6. /\ IsFiniteSet((H \cup V) \cup R)
      /\ Cardinality((H \cup V) \cup R) = Cardinality(H \cup V) + Cardinality(R)
  BY <1>3, <1>4, <1>5, DisjointUnion
<1>7. /\ IsFiniteSet(((H \cup V) \cup R) \cup A)
      /\ Cardinality(((H \cup V) \cup R) \cup A)
           = Cardinality((H \cup V) \cup R) + Cardinality(A)
  BY <1>3, <1>4, <1>6, DisjointUnion
<1>8. Refs[i] = Cardinality(At(hold, i)) + Cardinality(At(vec, i))
                  + Cardinality(At(run, i))
  BY DEF Refs, Total
<1> QED BY <1>1, <1>3, <1>5, <1>6, <1>7, <1>8

(* The count of a callback object is the number of pointers to it, and an     *)
(* object that was deleted has none (callback_impl::acquire and release, and  *)
(* what cci_callback and the handles call), for any number of holders.        *)
THEOREM CountsAreExact == Spec => []CountsMatchPointers
<1>1. ASSUME CInv
      PROVE  CountsMatchPointers
  <2> SUFFICES ASSUME NEW i \in Impl
               PROVE  IF heap[i] = Free THEN Pointers(i) = {}
                      ELSE heap[i].cnt = Cardinality(Pointers(i)) + heap[i].excess
    BY DEF CountsMatchPointers
  <2>1. /\ IsFiniteSet(Pointers(i))
        /\ Cardinality(Pointers(i)) = Refs[i] + Cardinality(Adapters(heap, i))
    BY <1>1, InvFacts, PointersCount
  <2>2. /\ WellFormed(heap)
        /\ IF heap[i] = Free THEN Refs[i] = 0
           ELSE heap[i].cnt = Refs[i] + Cardinality(Adapters(heap, i)) + heap[i].excess
    BY <1>1 DEF CInv, Agrees, Counted
  <2>3. CASE heap[i] = Free
    <3>1. Cardinality(Adapters(heap, i)) = 0
      BY <2>2, <2>3, FreeIsUnused, FS_EmptySet
    <3>2. Cardinality(Pointers(i)) = 0
      BY <2>1, <2>2, <2>3, <3>1
    <3> QED BY <2>1, <2>3, <3>2, FS_EmptySet
  <2>4. CASE heap[i] # Free
    BY <2>1, <2>2, <2>4
  <2> QED BY <2>3, <2>4
<1> QED BY <1>1, CountInvariant, PTL

(* A callback that runs is there until it returns and takes the events it is  *)
(* given, whatever it does to the callbacks and handles (the handle of the    *)
(* loops of cci_param_typed), at any depth of nested callbacks.               *)
THEOREM RunningOnesLive == Spec => []RunningCallbackLives
<1>1. ASSUME CInv
      PROVE  RunningCallbackLives
  <2> SUFFICES ASSUME NEW n \in DOMAIN run
               PROVE  /\ heap[run[n]] # Free /\ heap[run[n]].sig = ParamSig
                      /\ heap[Functor(run[n])] # Free
    BY DEF RunningCallbackLives
  <2>1. run[n] \in Impl /\ heap[run[n]] # Free /\ WellFormed(heap)
    BY <1>1, InvFacts
  <2>2. heap[run[n]].sig = ParamSig
    BY <1>1 DEF CInv, RunsMatch
  <2>3. heap[Functor(run[n])] # Free
    BY <2>1 DEF Functor, WellFormed
  <2> QED BY <2>1, <2>2, <2>3
<1> QED BY <1>1, CountInvariant, PTL

(* A callback, and a typed handle that took nothing through its untyped base  *)
(* class, is invoked on a functor of its signature, or on a generic one       *)
(* through one adapter: the static_cast of unchecked_invoke is right there,   *)
(* for any set of signatures and whatever handles were exchanged elsewhere    *)
(* (cci_callback_untyped_handle::swap and operator=).                         *)
THEOREM SignaturesHold == Spec => []SignaturesMatch
<1>1. ASSUME CInv
      PROVE  SignaturesMatch
  <2> SUFFICES ASSUME NEW h \in Holder, hold[h] \in Impl, Checked(h)
               PROVE  /\ heap[hold[h]] # Free /\ heap[hold[h]].sig = ClassOf[h].sig
                      /\ heap[hold[h]].func # Null =>
                           /\ heap[heap[hold[h]].func] # Free
                           /\ heap[heap[hold[h]].func].sig = Generic
    BY DEF SignaturesMatch
  <2>1. heap[hold[h]] # Free /\ WellFormed(heap)
    BY <1>1, InvFacts
  <2>2. heap[hold[h]].sig = ClassOf[h].sig
    BY <1>1 DEF CInv, HoldersMatch
  <2> QED BY <2>1, <2>2 DEF WellFormed
<1> QED BY <1>1, CountInvariant, PTL

-----------------------------------------------------------------------------
(* The vector of callbacks and the stack of running ones keep their bounds,   *)
(* and the history is about holders.                                          *)

Bounded == Len(vec) <= MaxVec /\ Len(run) <= MaxNest /\ unchecked \subseteq Holder

LEMMA BoundedStep == CInv /\ Bounded /\ [Next]_vars => Bounded'
<1> SUFFICES ASSUME CInv, Bounded, [Next]_vars PROVE Bounded'
  OBVIOUS
<1>1. vec \in Seq(Impl) /\ run \in Seq(Impl) /\ Len(vec) \in Nat /\ Len(run) \in Nat
  BY DEF CInv, Typed
<1>2. MaxVec \in Nat /\ MaxNest \in Nat
  BY SignaturesAreKnown
<1>0. unchecked \subseteq Holder
  BY DEF Bounded
<1>3. CASE UNCHANGED <<vec, run>> /\ unchecked' \subseteq Holder
  BY <1>3 DEF Bounded
<1>4. ASSUME NEW h \in Holder, Register(h)
      PROVE  Bounded'
  <2>1. /\ vec' = Append(vec, hold[h]) /\ hold[h] \in Impl /\ Len(vec) < MaxVec /\ run' = run
        /\ unchecked' = unchecked
    BY <1>4 DEF Register
  <2>2. Len(vec') = Len(vec) + 1
    BY <1>1, <2>1
  <2> QED BY <1>1, <1>2, <2>1, <2>2 DEF Bounded
<1>5. ASSUME NEW n \in DOMAIN vec, Unregister(n)
      PROVE  Bounded'
  <2> DEFINE a == SubSeq(vec, 1, n - 1)
             b == SubSeq(vec, n + 1, Len(vec))
  <2>1. n \in 1..Len(vec)
    BY <1>1, LenProperties
  <2>2. run' = run /\ vec' = a \o b /\ unchecked' = unchecked
    BY <1>5 DEF Unregister
  <2>3. a \in Seq(Impl) /\ Len(a) = n - 1 /\ b \in Seq(Impl) /\ Len(b) = Len(vec) - n
    BY <1>1, <2>1, SubSeqProperties
  <2> HIDE DEF a, b
  <2>4. Len(a \o b) = Len(a) + Len(b)
    BY <2>3, ConcatProperties
  <2>5. Len(vec') = Len(vec) - 1
    BY <1>1, <2>1, <2>2, <2>3, <2>4
  <2> QED BY <1>1, <1>2, <2>1, <2>2, <2>5 DEF Bounded
<1>6. ASSUME NEW n \in DOMAIN vec, Invoke(n)
      PROVE  Bounded'
  <2>1. PICK c \in Impl : run' = <<c>> \o run
    BY <1>6 DEF Invoke
  <2>2. Len(run') = Len(run) + 1
    BY <1>1, <2>1, ConsFacts
  <2> QED BY <1>1, <1>2, <1>6, <2>2 DEF Bounded, Invoke
<1>7. CASE CallbackReturns
  <2>1. Len(run') = Len(run) - 1 /\ vec' = vec /\ unchecked' = unchecked
    BY <1>1, <1>7, TailFacts DEF CallbackReturns
  <2> QED BY <1>1, <1>2, <2>1 DEF Bounded
<1>8. CASE \E h \in Holder : CallbackSteps(h)
  BY <1>3, <1>8, <1>0 DEF CallbackSteps, MakeCallback, CopyCallback, MoveCallback,
                    AdaptCallback, AssignCallback, AssignMoved, SwapCallbacks
<1>9. CASE \E h \in Holder : HandleSteps(h)
  BY <1>3, <1>9, <1>0 DEF HandleSteps, DefaultHandle, ClearHandle, MakeHandle,
                           ConvertHandle, AssignHandle, SwapHandles, Taken
<1>10. CASE \E h \in Holder : Destroy(h)
  BY <1>3, <1>10, <1>0 DEF Destroy
<1>11. CASE ParamSteps
  BY <1>4, <1>5, <1>6, <1>7, <1>11 DEF ParamSteps
<1>12. CASE UNCHANGED vars
  BY <1>3, <1>12, <1>0 DEF vars
<1> QED BY <1>8, <1>9, <1>10, <1>11, <1>12 DEF Next

(* Type correctness: a count is never less than one and never taken from an   *)
(* object that was deleted, and every entry of the vector and of the running  *)
(* loops is a callback (callback_impl::release, cci_callback_untyped_handle). *)
THEOREM CallbacksAreTyped == Spec => []TypeOK
<1>1. Init => Bounded
  BY SignaturesAreKnown, EmptySeq DEF Init, Bounded
<1>2. ASSUME CInv, Bounded
      PROVE  TypeOK
  <2>1. heap \in [Impl -> Object \cup {Free}]
    BY <1>2 DEF CInv, Agrees, WellFormed
  <2>2. vec \in Seq(Impl \cup {Null})
    BY <1>2 DEF CInv, Typed
  <2> QED BY <1>2, <2>1, <2>2 DEF CInv, Typed, Bounded, TypeOK
<1> QED BY <1>1, <1>2, BoundedStep, CountInvariant, PTL DEF Spec
=============================================================================

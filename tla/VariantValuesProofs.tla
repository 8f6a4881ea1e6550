------------------------- MODULE VariantValuesProofs -------------------------
(* For any objects, cells, references and data: the cells of the pool are     *)
(* owned by one object each or free, references point into cells that are in  *)
(* use, and the objects behave as first-class values.                         *)
EXTENDS VariantValues, CallbackVectorProofs

Ownership ==
  /\ alive \subseteq Object
  /\ own \in [Object -> Cell \cup {NoCell}]
  /\ free \subseteq Cell

OInv == Ownership /\ CellsHaveOneOwner

LEMMA InitOwns == Init => OInv
  BY NamesAreDistinct DEF Init, OInv, Ownership, CellsHaveOneOwner

\* A step that leaves the objects and their cells alone.
LEMMA SameOwners ==
  ASSUME OInv, UNCHANGED <<alive, own, free>>
  PROVE  OInv'
  BY DEF OInv, Ownership, CellsHaveOneOwner

\* Giving an object a cell from the pool, or leaving it the one it has.
LEMMA OpeningOwns ==
  ASSUME OInv, NEW o \in Object, NEW c, Opened(o, c), alive' = alive \cup {o}
  PROVE  OInv'
<1>1. own[o] \in Cell \cup {NoCell}
  BY DEF OInv, Ownership
<1>2. c \in Cell
  BY <1>1 DEF OInv, Ownership, Opened
<1>3. Ownership'
  BY <1>2 DEF OInv, Ownership, Opened
<1>4. ASSUME NEW p \in Object, p # o
      PROVE  own'[p] = own[p] /\ own'[o] = c /\ own[p] # c
  <2>1. own'[p] = own[p] /\ own'[o] = c
    BY <1>4 DEF OInv, Ownership, Opened
  <2>2. own[p] # c
    BY <1>2, <1>4, NamesAreDistinct DEF OInv, Opened, CellsHaveOneOwner
  <2>3. QED
    BY <2>1, <2>2
<1>5. \A p, q \in Object : own'[p] = own'[q] /\ p # q => own'[p] = NoCell
  BY <1>4 DEF OInv, CellsHaveOneOwner
<1>6. \A p \in Object \ alive' : own'[p] = NoCell
  BY <1>4 DEF OInv, CellsHaveOneOwner
<1>7. free' = Cell \ {own'[p] : p \in Object}
  <2>1. own'[o] = c /\ free' = free \ {c}
    BY DEF OInv, Ownership, Opened
  <2>2. ASSUME NEW b \in Cell
        PROVE  (\E p \in Object : own'[p] = b) <=> b = c \/ \E p \in Object : own[p] = b
    <3>1. own[o] = c \/ own[o] = NoCell
      BY <1>1 DEF Opened
    <3>2. QED
      BY <1>4, <2>1, <3>1, NamesAreDistinct
  <2>3. QED
    BY <2>1, <2>2 DEF OInv, Ownership, CellsHaveOneOwner
<1>8. QED
  BY <1>3, <1>5, <1>6, <1>7 DEF OInv, CellsHaveOneOwner

\* The same for a destination that is an object or a reference.
LEMMA WritingOwns ==
  ASSUME OInv, NEW h \in Handle, NEW d, Opens(h, d),
         alive' = alive \cup ({h} \cap Object)
  PROVE  OInv'
<1>1. CASE h \in Ref
  BY <1>1, SameOwners, NamesAreDistinct DEF Opens
<1>2. CASE h \in Object
  <2>1. alive' = alive \cup {h}
    BY <1>2
  <2>2. QED
    BY <1>2, <2>1, OpeningOwns, NamesAreDistinct DEF Opens
<1>3. QED
  BY <1>1, <1>2 DEF Handle

\* A cell that changes hands between two objects.
LEMMA HandingOwns ==
  ASSUME OInv, NEW o \in Object, NEW p \in Object, o # p,
         own' = [own EXCEPT ![o] = own[p], ![p] = own[o]],
         UNCHANGED free, alive' \subseteq Object,
         \A q \in Object \ alive' : q \notin alive /\ q \notin {o, p}
  PROVE  OInv'
<1>1. /\ own'[o] = own[p] /\ own'[p] = own[o]
      /\ \A q \in Object \ {o, p} : own'[q] = own[q]
  BY DEF OInv, Ownership
<1>2. Ownership'
  BY DEF OInv, Ownership
<1>3. \A q \in Object \ alive' : own'[q] = NoCell
  BY <1>1 DEF OInv, CellsHaveOneOwner
<1>4. ASSUME NEW q \in Object, NEW s \in Object, own'[q] = own'[s], q # s
      PROVE  own'[q] = NoCell
  <2> DEFINE from(x) == IF x = o THEN p ELSE IF x = p THEN o ELSE x
  <2>1. \A x \in Object : own'[x] = own[from(x)] /\ from(x) \in Object
    BY <1>1
  <2>2. from(q) # from(s)
    BY <1>4
  <2> HIDE DEF from
  <2>3. QED
    BY <1>4, <2>1, <2>2 DEF OInv, CellsHaveOneOwner
<1>5. {own'[q] : q \in Object} = {own[q] : q \in Object}
  BY <1>1
<1>6. QED
  BY <1>2, <1>3, <1>4, <1>5 DEF OInv, CellsHaveOneOwner

\* An object takes the cell of another, which it replaces, and its own cell is
\* given back.
LEMMA TakingOwns ==
  ASSUME OInv, NEW o \in Object, NEW p \in Object, o # p,
         own' = [own EXCEPT ![o] = own[p], ![p] = NoCell],
         free' = free \cup ({own[o]} \cap Cell), UNCHANGED alive,
         {o, p} \subseteq alive
  PROVE  OInv'
<1>1. /\ own'[o] = own[p] /\ own'[p] = NoCell
      /\ \A q \in Object \ {o, p} : own'[q] = own[q]
  BY DEF OInv, Ownership
<1>2. Ownership'
  BY DEF OInv, Ownership
<1>3. \A q \in Object \ alive' : own'[q] = NoCell
  BY <1>1 DEF OInv, CellsHaveOneOwner
<1>4. \A q, s \in Object : own'[q] = own'[s] /\ q # s => own'[q] = NoCell
  BY <1>1 DEF OInv, CellsHaveOneOwner
<1>5. ASSUME NEW b \in Cell
      PROVE  (\E q \in Object : own'[q] = b) <=> b # own[o] /\ \E q \in Object : own[q] = b
  BY <1>1, NamesAreDistinct DEF OInv, CellsHaveOneOwner
<1>6. free' = Cell \ {own'[q] : q \in Object}
  <2>1. ASSUME NEW b \in Cell
        PROVE  b \in free' <=> b \notin {own'[q] : q \in Object}
    BY <1>5 DEF OInv, CellsHaveOneOwner
  <2>2. QED
    BY <1>2, <2>1 DEF Ownership
<1>7. QED
  BY <1>2, <1>3, <1>4, <1>6 DEF OInv, CellsHaveOneOwner

LEMMA DestroyingOwns ==
  ASSUME OInv, NEW o \in Object, Destroy(o)
  PROVE  OInv'
<1>1. own'[o] = NoCell /\ \A q \in Object \ {o} : own'[q] = own[q]
  BY DEF OInv, Ownership, Destroy
<1>2. Ownership'
  BY DEF OInv, Ownership, Destroy, Deallocated
<1>3. \A q \in Object \ alive' : own'[q] = NoCell
  BY <1>1 DEF OInv, CellsHaveOneOwner, Destroy
<1>4. \A q, s \in Object : own'[q] = own'[s] /\ q # s => own'[q] = NoCell
  BY <1>1 DEF OInv, CellsHaveOneOwner
<1>5. ASSUME NEW b \in Cell
      PROVE  (\E q \in Object : own'[q] = b) <=> b # own[o] /\ \E q \in Object : own[q] = b
  BY <1>1, NamesAreDistinct DEF OInv, CellsHaveOneOwner
<1>6. free' = Cell \ {own'[q] : q \in Object}
  BY <1>5 DEF OInv, CellsHaveOneOwner, Destroy, Deallocated
<1>7. QED
  BY <1>2, <1>3, <1>4, <1>6 DEF OInv, CellsHaveOneOwner

LEMMA ObjectStepsOwn ==
  ASSUME OInv, NEW o \in Object, NEW p \in Object,
         \/ MoveConstruct(o, p) \/ MoveConstructContent(o, p)
         \/ MoveAssign(o, p) \/ MoveAssignContent(o, p) \/ Swap(o, p)
  PROVE  OInv'
<1>1. CASE MoveConstruct(o, p)
  <2>1. own[o] = NoCell /\ o # p
    BY <1>1 DEF MoveConstruct, OInv, CellsHaveOneOwner
  <2>2. own' = [own EXCEPT ![o] = own[p], ![p] = own[o]]
    BY <1>1, <2>1 DEF MoveConstruct
  <2>3. /\ UNCHANGED free /\ alive' \subseteq Object
        /\ \A q \in Object \ alive' : q \notin alive /\ q \notin {o, p}
    BY <1>1 DEF MoveConstruct, OInv, Ownership
  <2>4. QED
    BY <2>1, <2>2, <2>3, HandingOwns
<1>2. CASE MoveConstructContent(o, p)
  BY <1>2, OpeningOwns DEF MoveConstructContent
<1>3. CASE MoveAssign(o, p)
  BY <1>3, TakingOwns DEF MoveAssign, Deallocated
<1>4. CASE MoveAssignContent(o, p)
  <2>1. alive' = alive \cup {o}
    BY <1>4 DEF MoveAssignContent
  <2>2. QED
    BY <1>4, <2>1, OpeningOwns DEF MoveAssignContent
<1>5. CASE Swap(o, p)
  <2>1. /\ o # p /\ UNCHANGED free /\ alive' \subseteq Object
        /\ \A q \in Object \ alive' : q \notin alive /\ q \notin {o, p}
    BY <1>5 DEF Swap, OInv, Ownership
  <2>2. QED
    BY <1>5, <2>1, HandingOwns DEF Swap
<1>6. QED
  BY <1>1, <1>2, <1>3, <1>4, <1>5

LEMMA HandleStepsOwn ==
  ASSUME OInv, NEW h \in Handle, NEW s, NEW r,
         NEW v, NEW k, NEW i, NEW j, NEW n,
         \/ CopyAssign(h, s) \/ Set(h, v) \/ PushBack(h, s)
         \/ PushBackMove(h, s) \/ Insert(h, i, n, s) \/ Erase(h, k, i, j)
         \/ Clear(h, k) \/ Lookup(r, h, k) \/ PushEntry(h, k, s) \/ EraseKey(h, k)
  PROVE  OInv'
<1>1. ASSUME h \in Usable, UNCHANGED alive
      PROVE  alive' = alive \cup ({h} \cap Object)
  BY <1>1, NamesAreDistinct DEF Usable, OInv, Ownership
<1>2. CASE CopyAssign(h, s)
  BY <1>1, <1>2, WritingOwns DEF CopyAssign, CopyTo
<1>3. CASE Set(h, v)
  BY <1>1, <1>3, WritingOwns DEF Set
<1>4. CASE \/ PushBack(h, s) \/ PushBackMove(h, s) \/ Insert(h, i, n, s)
           \/ Erase(h, k, i, j) \/ Clear(h, k) \/ Lookup(r, h, k)
           \/ PushEntry(h, k, s) \/ EraseKey(h, k)
  <2>1. UNCHANGED <<alive, own, free>>
    BY <1>4 DEF PushBack, PushBackMove, Insert, Erase, Clear, Lookup, PushEntry,
                EraseKey, Rebuilt
  <2>2. QED
    BY <2>1, SameOwners
<1>5. QED
  BY <1>2, <1>3, <1>4

LEMMA NextOwns ==
  ASSUME OInv, [Next]_vars
  PROVE  OInv'
<1>1. CASE UNCHANGED vars
  BY <1>1, SameOwners DEF vars
<1>2. ASSUME NEW r \in Ref, Release(r)
      PROVE  OInv'
  BY <1>2, SameOwners DEF Release
<1>3. ASSUME NEW o \in Object, Default(o)
      PROVE  OInv'
  <2>1. CASE \E c \in Cell : Opened(o, c)
    BY <1>3, <2>1, OpeningOwns DEF Default
  <2>2. CASE UNCHANGED <<own, free>>
    BY <1>3, <2>2 DEF Default, OInv, Ownership, CellsHaveOneOwner
  <2>3. QED
    BY <1>3, <2>1, <2>2 DEF Default
<1>4. ASSUME NEW o \in Object, Destroy(o)
      PROVE  OInv'
  BY <1>4, DestroyingOwns
<1>5. ASSUME NEW o \in Object, NEW h \in Handle, CopyConstruct(o, h)
      PROVE  OInv'
  <2>1. o \in Handle /\ alive' = alive \cup ({o} \cap Object)
    BY <1>5 DEF CopyConstruct, Handle
  <2>2. QED
    BY <1>5, <2>1, WritingOwns DEF CopyConstruct, CopyTo
<1>6. ASSUME NEW o \in Object, NEW r \in Ref, SwapContent(o, r)
      PROVE  OInv'
  <2>1. alive' = alive \cup {o}
    BY <1>6 DEF SwapContent
  <2>2. QED
    BY <1>6, <2>1, OpeningOwns DEF SwapContent
<1>7. ASSUME NEW o \in Object, NEW h \in Handle, NEW left, MoveOut(o, h, left)
      PROVE  OInv'
  BY <1>7, OpeningOwns DEF MoveOut
<1>8. ASSUME NEW o \in Object, NEW r \in Ref, NEW i, TakeRef(r, o) \/ TakeElement(r, o, i)
      PROVE  OInv'
  BY <1>8, SameOwners DEF TakeRef, TakeElement
<1>9. ASSUME NEW h \in Handle, NEW s, NEW r, NEW v, NEW k, NEW i, NEW j, NEW n,
             \/ CopyAssign(h, s) \/ Set(h, v) \/ PushBack(h, s)
             \/ PushBackMove(h, s) \/ Insert(h, i, n, s) \/ Erase(h, k, i, j)
             \/ Clear(h, k) \/ Lookup(r, h, k) \/ PushEntry(h, k, s) \/ EraseKey(h, k)
      PROVE  OInv'
  BY <1>9, HandleStepsOwn
<1>10. ASSUME NEW o \in Object, NEW p \in Object,
              \/ MoveConstruct(o, p) \/ MoveConstructContent(o, p)
              \/ MoveAssign(o, p) \/ MoveAssignContent(o, p) \/ Swap(o, p)
       PROVE  OInv'
  BY <1>10, ObjectStepsOwn
<1>11. QED
  BY <1>1, <1>2, <1>3, <1>4, <1>5, <1>6, <1>7, <1>8, <1>9, <1>10
  DEF Next, ObjectSteps, ReferenceSteps, ListSteps, MapSteps

(* No object shares its cell with another or keeps one it gave away, and no   *)
(* cell is lost or given back twice, whatever the program does with values    *)
(* and references (own_pimpl_ and impl_pool of cci_value.cpp).                *)
THEOREM OwnersAreUnique == Spec => []CellsHaveOneOwner
<1>1. OInv => CellsHaveOneOwner
  BY DEF OInv
<1>2. QED
  BY <1>1, InitOwns, NextOwns, PTL DEF Spec

-----------------------------------------------------------------------------
(* Data.                                                                      *)

Kinds == {"null", "atom", "list", "map"}

LEMMA DataShape ==
  ASSUME NEW v \in Data
  PROVE  /\ v = [kind |-> v.kind, items |-> v.items]
         /\ v.kind \in Kinds
         /\ v.items \in Seq(Elem \cup Entry)
         /\ IsTree(v) => v \in Lists \cup Maps
         /\ ~IsTree(v) => v \in Scalars
<1>1. CASE v \in Scalars
  <2>1. PICK e \in Elem : v = Scalar(e)
    BY <1>1 DEF Scalars
  <2>2. CASE e = Nil
    BY <1>1, <2>1, <2>2 DEF Scalar, Null, IsTree, Kinds
  <2>3. CASE e # Nil
    BY <1>1, <2>1, <2>3 DEF Scalar, IsTree, Kinds
  <2> QED BY <2>2, <2>3
<1>2. CASE v \in Lists
  BY <1>2 DEF Lists, IsTree, Kinds
<1>3. CASE v \in Maps
  BY <1>3 DEF Maps, IsTree, Kinds
<1> QED BY <1>1, <1>2, <1>3 DEF Data

LEMMA WithItems ==
  ASSUME NEW v \in Data, NEW s
  PROVE  [v EXCEPT !.items = s] = [kind |-> v.kind, items |-> s]
<1>1. v = [kind |-> v.kind, items |-> v.items]
  BY DataShape
<1> QED BY <1>1

LEMMA ScalarIsData ==
  ASSUME NEW e \in Elem
  PROVE  Scalar(e) \in Data /\ ~IsTree(Scalar(e)) /\ AsElem(Scalar(e)) = e
<1>1. CASE e = Nil
  BY <1>1 DEF Scalar, Data, Scalars, IsTree, AsElem, Null
<1>2. CASE e # Nil
  BY <1>2 DEF Scalar, Data, Scalars, IsTree, AsElem, Null
<1> QED BY <1>1, <1>2

LEMMA EmptyIsData ==
  /\ Null \in Data /\ ~IsTree(Null) /\ AsElem(Null) = Nil /\ Nil \in Elem
  /\ Empty("null") = Null
  /\ Empty("list") \in Data /\ Empty("map") \in Data
<1>1. Nil \in Elem /\ Scalar(Nil) = Null
  BY DEF Elem, Scalar
<1>2. Null \in Data /\ ~IsTree(Null) /\ AsElem(Null) = Nil
  BY <1>1, ScalarIsData
<1>3. <<>> \in Seq(Elem) /\ <<>> \in Seq(Entry) /\ Len(<<>>) <= MaxLen
  BY NamesAreDistinct
<1>4. Empty("list") \in Lists
  BY <1>3 DEF Empty, Lists
<1>5. Empty("map") \in Maps
  BY <1>3 DEF Empty, Maps
<1> QED BY <1>1, <1>2, <1>4, <1>5 DEF Data, Empty, Null

LEMMA AtomIsElem ==
  ASSUME NEW v \in Data, ~IsTree(v)
  PROVE  AsElem(v) \in Elem /\ Scalar(AsElem(v)) = v
<1>1. PICK e \in Elem : v = Scalar(e)
  BY DataShape DEF Scalars
<1> QED BY <1>1, ScalarIsData

\* A list or a map is a sequence of elements or entries, no longer than the
\* bound.
Content(k) == IF k = "map" THEN Entry ELSE Elem

LEMMA TreeIsData ==
  ASSUME NEW k \in {"list", "map"}, NEW s
  PROVE  [kind |-> k, items |-> s] \in Data
           <=> s \in Seq(Content(k)) /\ Len(s) <= MaxLen
<1> DEFINE v == [kind |-> k, items |-> s]
<1>1. v.kind = k /\ v.items = s /\ IsTree(v)
  BY DEF IsTree
<1>2. v \in Lists <=> k = "list" /\ s \in Seq(Elem) /\ Len(s) <= MaxLen
  BY DEF Lists
<1>3. v \in Maps <=> k = "map" /\ s \in Seq(Entry) /\ Len(s) <= MaxLen
  BY DEF Maps
<1>4. v \in Data <=> v \in Lists \cup Maps
  <2> HIDE DEF v
  <2> QED BY <1>1, DataShape DEF Data
<1> QED BY <1>2, <1>3, <1>4 DEF Content

LEMMA TreeItems ==
  ASSUME NEW v \in Data, IsTree(v)
  PROVE  /\ v.kind \in {"list", "map"}
         /\ v.items \in Seq(Content(v.kind))
         /\ Len(v.items) \in Nat /\ Len(v.items) <= MaxLen
         /\ DOMAIN v.items = 1..Len(v.items)
         /\ \A i \in 1..Len(v.items) : /\ v.items[i] \in Content(v.kind)
                                       /\ ElemAt(v, i) \in Elem
<1>1. v.kind \in {"list", "map"} /\ v = [kind |-> v.kind, items |-> v.items]
  BY DataShape DEF IsTree
<1>2. v.items \in Seq(Content(v.kind)) /\ Len(v.items) <= MaxLen
  BY <1>1, TreeIsData
<1>3. \A i \in 1..Len(v.items) : v.items[i] \in Content(v.kind)
  BY <1>2
<1>4. \A i \in 1..Len(v.items) : ElemAt(v, i) \in Elem
  BY <1>1, <1>3 DEF ElemAt, Content, Entry
<1> QED BY <1>1, <1>2, <1>3, <1>4

LEMMA PutElement ==
  ASSUME NEW v \in Data, IsTree(v), NEW i \in DOMAIN v.items, NEW e \in Elem
  PROVE  /\ PutAt(v, i, e) \in Data /\ PutAt(v, i, e).kind = v.kind
         /\ DOMAIN PutAt(v, i, e).items = DOMAIN v.items
<1> DEFINE x == IF v.kind = "map" THEN [v.items[i] EXCEPT !.val = e] ELSE e
           s == [v.items EXCEPT ![i] = x]
<1>1. v.items[i] \in Content(v.kind)
  BY TreeItems
<1>2. x \in Content(v.kind)
  BY <1>1 DEF Content, Entry
<1> HIDE DEF x
<1>3. /\ s \in Seq(Content(v.kind)) /\ Len(s) = Len(v.items) /\ DOMAIN s = DOMAIN v.items
  <2>1. v.items \in Seq(Content(v.kind)) /\ DOMAIN v.items = 1..Len(v.items)
    BY TreeItems
  <2>2. s = [j \in 1..Len(v.items) |-> IF j = i THEN x ELSE v.items[j]]
    BY <2>1
  <2> QED BY <1>2, <2>1, <2>2
<1>4. PutAt(v, i, e) = [kind |-> v.kind, items |-> s]
  <2>1. PutAt(v, i, e) = [v EXCEPT !.items = s]
    BY DEF PutAt, x
  <2> HIDE DEF s
  <2> QED BY <2>1, WithItems
<1> HIDE DEF s
<1>5. [kind |-> v.kind, items |-> s] \in Data
  BY <1>3, TreeItems, TreeIsData
<1> QED BY <1>3, <1>4, <1>5

-----------------------------------------------------------------------------
(* References.                                                                *)

\* The positions at which a value has elements.
Positions(v) == IF IsTree(v) THEN DOMAIN v.items ELSE {}

\* A place that may be read and written: in a cell that is in use.
Live(pl) ==
  /\ pl.cell \in Cell \ free
  /\ pl.at > 0 => pl.at \in Positions(cell[pl.cell])

Good(pl) == pl = NoPlace \/ (pl \in Place /\ Live(pl))

RefType == [Ref -> Place \cup {NoPlace, Forgotten}]

\* A list or a map object has its cell all its life.
ListsOwn == \A o \in alive : KindOf[o] # "any" => own[o] # NoCell

\* A cell in the pool holds nothing.
FreeIsNull == \A c \in free : cell[c] = Null

LiveRefs == \A r \in Ref : ref[r] \in Place => Live(ref[r])

LInv ==
  /\ OInv
  /\ cell \in [Cell -> Data]
  /\ ref \in RefType
  /\ ListsOwn
  /\ FreeIsNull
  /\ LiveRefs

LEMMA PlaceFacts ==
  ASSUME NEW pl \in Place
  PROVE  /\ pl.cell \in Cell /\ pl.at \in Nat /\ pl.at \in 0..MaxLen
         /\ pl = [cell |-> pl.cell, at |-> pl.at]
         /\ pl # NoPlace /\ pl # Forgotten
<1>1. pl \in [cell : Cell, at : Nat]
  BY DEF Place
<1> QED BY <1>1, NamesAreDistinct DEF Place

LEMMA TopFacts ==
  ASSUME NEW c \in Cell
  PROVE  Top(c) \in Place /\ Top(c).cell = c /\ Top(c).at = 0
BY NamesAreDistinct DEF Top, Place

LEMMA CellsInUse ==
  ASSUME OInv, NEW c \in Cell
  PROVE  c \notin free <=> \E o \in alive : own[o] = c
BY NamesAreDistinct DEF OInv, Ownership, CellsHaveOneOwner

LEMMA LiveIsOwned == LInv => RefsAreLive
<1> SUFFICES ASSUME LInv, NEW r \in Ref, ref[r] \in Place
             PROVE  /\ \E o \in alive : own[o] = ref[r].cell
                    /\ ref[r].at > 0 => /\ IsTree(cell[ref[r].cell])
                                        /\ ref[r].at \in DOMAIN cell[ref[r].cell].items
  BY DEF RefsAreLive
<1>1. Live(ref[r])
  BY DEF LInv, LiveRefs
<1>2. \E o \in alive : own[o] = ref[r].cell
  BY <1>1, CellsInUse DEF LInv, Live
<1> QED BY <1>1, <1>2 DEF Live, Positions

\* What a usable handle stands for.
LEMMA UsableIsGood ==
  ASSUME LInv, NEW h \in Usable
  PROVE  Good(At(h)) /\ (h \in Object => At(h) = NoPlace \/ At(h).at = 0)
<1>1. CASE h \in Ref
  <2>1. At(h) = ref[h] /\ ref[h] # Forgotten /\ ref[h] \in Place \cup {NoPlace, Forgotten}
    BY <1>1, NamesAreDistinct DEF Usable, At, LInv, OInv, Ownership, RefType
  <2>2. h \notin Object
    BY <1>1, NamesAreDistinct
  <2> QED BY <1>1, <2>1, <2>2 DEF Good, LInv, LiveRefs
<1>2. CASE h \notin Ref
  <2>1. h \in alive /\ h \in Object /\ own[h] \in Cell \cup {NoCell}
    BY <1>2 DEF Usable, LInv, OInv, Ownership
  <2>2. CASE own[h] = NoCell
    BY <1>2, <2>2 DEF At, Good
  <2>3. CASE own[h] # NoCell
    <3>1. At(h) = Top(own[h]) /\ own[h] \in Cell
      BY <1>2, <2>1, <2>3 DEF At
    <3>2. own[h] \notin free
      BY <2>1, <3>1, CellsInUse DEF LInv
    <3> QED BY <3>1, <3>2, TopFacts DEF Good, Live
  <2> QED BY <2>2, <2>3
<1> QED BY <1>1, <1>2

LEMMA ReadIsData ==
  ASSUME LInv, NEW pl, Good(pl)
  PROVE  /\ Read(pl) \in Data
         /\ pl # NoPlace /\ pl.at > 0 => ~IsTree(Read(pl))
<1>1. CASE pl = NoPlace
  BY <1>1, EmptyIsData DEF Read
<1>2. CASE pl # NoPlace /\ pl.at = 0
  <2>1. pl.cell \in Cell /\ Read(pl) = cell[pl.cell]
    BY <1>2 DEF Read, Good, Live
  <2> QED BY <1>2, <2>1 DEF LInv
<1>3. CASE pl # NoPlace /\ pl.at # 0
  <2>1. /\ pl.cell \in Cell /\ pl.at \in Nat /\ Live(pl)
        /\ Read(pl) = Scalar(ElemAt(cell[pl.cell], pl.at))
    BY <1>3, PlaceFacts DEF Read, Good
  <2>2. pl.at > 0
    BY <1>3, <2>1
  <2>3. IsTree(cell[pl.cell]) /\ pl.at \in DOMAIN cell[pl.cell].items
    BY <2>1, <2>2 DEF Live, Positions
  <2>4. cell[pl.cell] \in Data
    BY <2>1 DEF LInv
  <2>5. ElemAt(cell[pl.cell], pl.at) \in Elem
    BY <2>3, <2>4, TreeItems
  <2> QED BY <2>1, <2>5, ScalarIsData
<1> QED BY <1>1, <1>2, <1>3

\* Writing a value to a place changes its cell, and if the place is an element
\* neither the kind nor the number of elements.
LEMMA PutFacts ==
  ASSUME LInv, NEW d \in Place, d.at > 0 => d.at \in Positions(cell[d.cell]),
         NEW v \in Data, Fits(d, v)
  PROVE  /\ Put(d, v) \in [Cell -> Data]
         /\ \A b \in Cell \ {d.cell} : Put(d, v)[b] = cell[b]
         /\ d.at = 0 => Put(d, v)[d.cell] = v
         /\ d.at > 0 => Positions(Put(d, v)[d.cell]) = Positions(cell[d.cell])
<1> DEFINE c == d.cell
           w == IF d.at = 0 THEN v ELSE PutAt(cell[c], d.at, AsElem(v))
<1>1. c \in Cell /\ d.at \in Nat /\ cell \in [Cell -> Data]
  BY PlaceFacts DEF LInv
<1>2. Put(d, v) = [cell EXCEPT ![c] = w]
  BY <1>1 DEF Put
<1>3. w \in Data /\ (d.at > 0 => Positions(w) = Positions(cell[c]))
  <2>1. CASE d.at = 0
    BY <2>1
  <2>2. CASE d.at # 0
    <3>1. d.at > 0
      BY <1>1, <2>2
    <3>2. /\ IsTree(cell[c]) /\ d.at \in DOMAIN cell[c].items /\ AsElem(v) \in Elem
          /\ cell[c] \in Data
      BY <1>1, <3>1, AtomIsElem DEF Positions, Fits
    <3>3. /\ PutAt(cell[c], d.at, AsElem(v)) \in Data
          /\ PutAt(cell[c], d.at, AsElem(v)).kind = cell[c].kind
          /\ DOMAIN PutAt(cell[c], d.at, AsElem(v)).items = DOMAIN cell[c].items
      BY <3>2, PutElement
    <3>4. w = PutAt(cell[c], d.at, AsElem(v))
      BY <2>2
    <3> HIDE DEF w
    <3> QED BY <3>3, <3>4 DEF Positions, IsTree
  <2> QED BY <2>1, <2>2
<1>4. d.at = 0 => w = v
  OBVIOUS
<1> HIDE DEF w, c
<1>5. Put(d, v) \in [Cell -> Data] /\ Put(d, v)[c] = w
      /\ \A b \in Cell \ {c} : Put(d, v)[b] = cell[b]
  BY <1>1, <1>2, <1>3
<1> QED BY <1>3, <1>4, <1>5 DEF c

LEMMA Forgets ==
  ASSUME LInv, NEW d, ForgetElements(d)
  PROVE  /\ ref' \in RefType
         /\ \A r \in Ref : ref'[r] \in Place => ref'[r] = ref[r] /\ ~Beneath(ref[r], d)
<1>1. ref' = [r \in Ref |-> IF ref[r] \in Place /\ Beneath(ref[r], d)
                            THEN Forgotten ELSE ref[r]]
  BY DEF ForgetElements, Forget
<1>2. ASSUME NEW r \in Ref
      PROVE  /\ ref'[r] \in Place \cup {NoPlace, Forgotten}
             /\ ref'[r] \in Place => ref'[r] = ref[r] /\ ~Beneath(ref[r], d)
  <2>1. ref[r] \in Place \cup {NoPlace, Forgotten}
    BY DEF LInv, RefType
  <2>2. Forgotten \notin Place
    BY PlaceFacts
  <2>3. ref'[r] = IF ref[r] \in Place /\ Beneath(ref[r], d) THEN Forgotten ELSE ref[r]
    BY <1>1
  <2> QED BY <2>1, <2>2, <2>3
<1> QED BY <1>1, <1>2 DEF RefType

\* A write to a place after which nobody uses the elements it had.
LEMMA WrittenIsLive ==
  ASSUME LInv, OInv', ListsOwn', free' \subseteq free,
         NEW d \in Place, d.cell \notin free', cell' \in [Cell -> Data],
         \A b \in Cell \ {d.cell} : cell'[b] = cell[b],
         d.at > 0 => Positions(cell'[d.cell]) = Positions(cell[d.cell]),
         ForgetElements(d)
  PROVE  LInv'
<1>1. /\ ref' \in RefType
      /\ \A r \in Ref : ref'[r] \in Place => ref'[r] = ref[r] /\ ~Beneath(ref[r], d)
  BY Forgets
<1>2. ASSUME NEW r \in Ref, ref'[r] \in Place
      PROVE  Live(ref[r])'
  <2>1. PICK pl \in Place : pl = ref[r] /\ pl = ref'[r]
    BY <1>1, <1>2
  <2>2. ~Beneath(pl, d) /\ Live(pl)
    BY <1>1, <1>2, <2>1 DEF LInv, LiveRefs
  <2>3. pl.cell \in Cell \ free' /\ pl.at \in Nat /\ d.at \in Nat
    BY <2>2, PlaceFacts DEF Live
  <2>4. ASSUME pl.at > 0
        PROVE  pl.at \in Positions(cell'[pl.cell])
    <3>1. pl.at \in Positions(cell[pl.cell])
      BY <2>2, <2>4 DEF Live
    <3>2. CASE pl.cell # d.cell
      BY <2>3, <3>1, <3>2
    <3>3. CASE pl.cell = d.cell
      <4>1. d.at > 0
        BY <2>2, <2>3, <2>4, <3>3 DEF Beneath
      <4> QED BY <3>1, <3>3, <4>1
    <3> QED BY <3>2, <3>3
  <2>5. Live(pl)'
    BY <2>3, <2>4 DEF Live
  <2> QED BY <2>1, <2>5 DEF Live
<1>3. FreeIsNull'
  BY DEF FreeIsNull, LInv, OInv, Ownership
<1> QED BY <1>1, <1>2, <1>3 DEF LInv, LiveRefs

\* A destination that was opened.
LEMMA OpenedFacts ==
  ASSUME LInv, NEW o \in Object, NEW c, Opened(o, c)
  PROVE  /\ c \in Cell /\ own'[o] = c /\ free' \subseteq free /\ c \notin free'
         /\ \A p \in Object \ {o} : own'[p] = own[p]
<1>1. own \in [Object -> Cell \cup {NoCell}] /\ free \subseteq Cell
  BY DEF LInv, OInv, Ownership
<1> QED BY <1>1 DEF Opened

LEMMA OpenedLists ==
  ASSUME LInv, NEW o \in Object, NEW c, Opened(o, c), alive' = alive \cup {o}
  PROVE  OInv' /\ ListsOwn'
<1>1. OInv'
  BY OpeningOwns DEF LInv
<1>2. alive \subseteq Object
  BY DEF LInv, OInv, Ownership
<1> QED BY <1>1, <1>2, OpenedFacts, NamesAreDistinct DEF LInv, ListsOwn

LEMMA OpensFacts ==
  ASSUME LInv, NEW h \in Handle, NEW d \in Place, Opens(h, d),
         h \in Usable \/ h \in Object \ alive,
         alive' = alive \cup ({h} \cap Object)
  PROVE  /\ OInv' /\ ListsOwn' /\ free' \subseteq free
         /\ d.at > 0 => d.at \in Positions(cell[d.cell])
         /\ d.cell \in Cell \ free'
<1>1. OInv'
  BY WritingOwns DEF LInv
<1>2. CASE h \in Ref
  <2>1. h \notin Object /\ d = ref[h] /\ UNCHANGED <<own, free>> /\ alive' = alive
    BY <1>2, NamesAreDistinct DEF Opens
  <2>2. Live(d)
    BY <1>2, <2>1 DEF LInv, LiveRefs
  <2> QED BY <1>1, <2>1, <2>2 DEF Live, LInv, ListsOwn
<1>3. CASE h \in Object
  <2>1. d.at = 0 /\ Opened(h, d.cell) /\ alive' = alive \cup {h}
    BY <1>3, NamesAreDistinct DEF Opens
  <2> QED BY <1>3, <2>1, OpenedFacts, OpenedLists
<1> QED BY <1>2, <1>3 DEF Handle

LEMMA WritesAreLive ==
  ASSUME LInv, NEW h \in Handle, NEW d \in Place, Opens(h, d),
         h \in Usable \/ h \in Object \ alive,
         alive' = alive \cup ({h} \cap Object),
         NEW v \in Data, Fits(d, v), cell' = Put(d, v), ForgetElements(d)
  PROVE  LInv'
<1>1. /\ OInv' /\ ListsOwn' /\ free' \subseteq free
      /\ d.at > 0 => d.at \in Positions(cell[d.cell])
      /\ d.cell \notin free'
  BY OpensFacts
<1>2. /\ cell' \in [Cell -> Data]
      /\ \A b \in Cell \ {d.cell} : cell'[b] = cell[b]
      /\ d.at > 0 => Positions(cell'[d.cell]) = Positions(cell[d.cell])
  BY <1>1, PutFacts
<1> QED BY <1>1, <1>2, WrittenIsLive

LEMMA SetIsLive ==
  ASSUME LInv, NEW h \in Handle, NEW v \in Data, Set(h, v)
  PROVE  LInv'
<1>1. h \in Usable /\ alive' = alive \cup ({h} \cap Object)
  BY NamesAreDistinct DEF Set, Usable, LInv, OInv, Ownership
<1>2. PICK d \in Place : /\ Opens(h, d) /\ Fits(d, v) /\ cell' = Put(d, v)
                         /\ ForgetElements(d)
  BY DEF Set
<1> QED BY <1>1, <1>2, WritesAreLive

\* What is copied is data, even when it is read from freed memory.
LEMMA CopiesAreData ==
  ASSUME LInv, NEW s \in Usable, NEW d
  PROVE  Copies(d, At(s)) \subseteq Data
<1>1. Read(At(s)) \in Data
  BY UsableIsGood, ReadIsData
<1>2. Scalars \subseteq Data
  BY DEF Data
<1> QED BY <1>1, <1>2 DEF Copies

LEMMA CopyIsLive ==
  ASSUME LInv, NEW h \in Handle, NEW s \in Handle, CopyTo(h, s),
         h \in Usable \/ h \in Object \ alive,
         alive' = alive \cup ({h} \cap Object)
  PROVE  LInv'
<1>1. PICK d \in Place :
        /\ Opens(h, d)
        /\ IF At(s) = d THEN UNCHANGED <<cell, ref>>
           ELSE /\ \E v \in Copies(d, At(s)) : Fits(d, v) /\ cell' = Put(d, v)
                /\ ForgetElements(d)
  BY DEF CopyTo
<1>2. CASE At(s) = d
  <2>1. OInv' /\ ListsOwn' /\ free' \subseteq free /\ UNCHANGED <<cell, ref>>
    BY <1>1, <1>2, OpensFacts
  <2> QED BY <2>1 DEF LInv, LiveRefs, Live, FreeIsNull
<1>3. CASE At(s) # d
  <2>1. PICK v \in Copies(d, At(s)) : Fits(d, v) /\ cell' = Put(d, v)
    BY <1>1, <1>3
  <2>2. v \in Data
    BY <2>1, CopiesAreData DEF CopyTo
  <2>3. ForgetElements(d)
    BY <1>1, <1>3
  <2> QED BY <1>1, <2>1, <2>2, <2>3, WritesAreLive
<1> QED BY <1>2, <1>3

-----------------------------------------------------------------------------
(* Objects come, go and change cells.                                         *)

\* A cell that was free gets its first content.
LEMMA FilledIsLive ==
  ASSUME LInv, OInv', ListsOwn', NEW c \in free, free' = free \ {c},
         NEW v \in Data, cell' = [cell EXCEPT ![c] = v], ref' = ref
  PROVE  LInv'
<1>1. c \in Cell /\ cell \in [Cell -> Data]
  BY DEF LInv, OInv, Ownership
<1>2. cell' \in [Cell -> Data] /\ \A b \in Cell \ {c} : cell'[b] = cell[b]
  BY <1>1
<1>3. ASSUME NEW r \in Ref, ref[r] \in Place
      PROVE  Live(ref[r])'
  <2>1. Live(ref[r])
    BY <1>3 DEF LInv, LiveRefs
  <2>2. ref[r].cell \in Cell \ free /\ ref[r].cell # c
    BY <2>1 DEF Live
  <2> QED BY <1>2, <2>1, <2>2 DEF Live
<1>4. FreeIsNull'
  BY <1>2 DEF FreeIsNull, LInv, OInv, Ownership
<1> QED BY <1>2, <1>3, <1>4 DEF LInv, LiveRefs

LEMMA DefaultIsLive ==
  ASSUME LInv, NEW o \in Object, Default(o), OInv'
  PROVE  LInv'
<1>1. o \notin alive /\ alive' = alive \cup {o} /\ ref' = ref /\ own[o] = NoCell
  BY DEF Default, LInv, OInv, CellsHaveOneOwner
<1>2. CASE KindOf[o] = "any"
  <2>1. UNCHANGED <<own, cell, free>>
    BY <1>2 DEF Default
  <2> QED BY <1>1, <1>2, <2>1 DEF LInv, ListsOwn, FreeIsNull, LiveRefs, Live
<1>3. CASE KindOf[o] # "any"
  <2>1. PICK c \in Cell : Opened(o, c) /\ cell' = [cell EXCEPT ![c] = Empty(KindOf[o])]
    BY <1>3 DEF Default
  <2>2. Empty(KindOf[o]) \in Data
    BY <1>3, ClassesAreKnown, EmptyIsData
  <2>3. c \in free /\ free' = free \ {c}
    BY <1>1, <2>1 DEF Opened
  <2>4. ListsOwn'
    BY <1>1, <2>1, OpenedLists
  <2> QED BY <1>1, <2>1, <2>2, <2>3, <2>4, FilledIsLive
<1> QED BY <1>2, <1>3

\* Giving a cell back ends every use of it.
LEMMA DeallocatedIsLive ==
  ASSUME LInv, OInv', ListsOwn', NEW c, Deallocated(c)
  PROVE  LInv'
<1>1. /\ cell' = [b \in Cell |-> IF b = c THEN Null ELSE cell[b]]
      /\ free' = free \cup ({c} \cap Cell)
      /\ ref' = [r \in Ref |-> IF ref[r] \in Place /\ ref[r].cell = c
                               THEN Forgotten ELSE ref[r]]
  BY DEF Deallocated, Forget
<1>2. cell' \in [Cell -> Data] /\ \A b \in Cell \ {c} : cell'[b] = cell[b]
  BY <1>1, EmptyIsData DEF LInv
<1>3. FreeIsNull'
  BY <1>1 DEF FreeIsNull, LInv, OInv, Ownership
<1>4. ASSUME NEW r \in Ref
      PROVE  /\ ref'[r] \in Place \cup {NoPlace, Forgotten}
             /\ ref'[r] \in Place => ref'[r] = ref[r] /\ ref[r].cell # c
  <2>1. ref[r] \in Place \cup {NoPlace, Forgotten} /\ Forgotten \notin Place
    BY PlaceFacts DEF LInv, RefType
  <2>2. ref'[r] = IF ref[r] \in Place /\ ref[r].cell = c THEN Forgotten ELSE ref[r]
    BY <1>1
  <2> QED BY <2>1, <2>2
<1>5. ref' \in RefType
  BY <1>1, <1>4 DEF RefType
<1>6. ASSUME NEW r \in Ref, ref'[r] \in Place
      PROVE  Live(ref[r])'
  <2>1. PICK pl \in Place : pl = ref[r] /\ pl = ref'[r] /\ pl.cell # c
    BY <1>4, <1>6
  <2>2. Live(pl)
    BY <2>1 DEF LInv, LiveRefs
  <2>3. Live(pl)'
    BY <1>1, <1>2, <2>1, <2>2 DEF Live
  <2> QED BY <2>1, <2>3 DEF Live
<1> QED BY <1>2, <1>3, <1>5, <1>6 DEF LInv, LiveRefs

LEMMA DestroyIsLive ==
  ASSUME LInv, NEW o \in Object, Destroy(o), OInv'
  PROVE  LInv'
<1>1. ListsOwn'
  BY DEF Destroy, LInv, ListsOwn, OInv, Ownership
<1> QED BY <1>1, DeallocatedIsLive DEF Destroy

LEMMA MoveAssignIsLive ==
  ASSUME LInv, NEW o \in Object, NEW p \in Object, MoveAssign(o, p), OInv'
  PROVE  LInv'
<1>1. ListsOwn'
  BY DEF MoveAssign, LInv, ListsOwn, OInv, Ownership
<1> QED BY <1>1, DeallocatedIsLive DEF MoveAssign

\* Cells that change hands keep their content and the references to it.
LEMMA HandedIsLive ==
  ASSUME LInv, OInv', ListsOwn', UNCHANGED <<cell, free, ref>>
  PROVE  LInv'
BY DEF LInv, FreeIsNull, LiveRefs, Live

LEMMA MoveConstructIsLive ==
  ASSUME LInv, NEW o \in Object, NEW p \in Object, MoveConstruct(o, p), OInv'
  PROVE  LInv'
<1>1. ListsOwn'
  BY DEF MoveConstruct, LInv, ListsOwn, OInv, Ownership
<1> QED BY <1>1, HandedIsLive DEF MoveConstruct

LEMMA SwapIsLive ==
  ASSUME LInv, NEW o \in Object, NEW p \in Object, Swap(o, p), OInv'
  PROVE  LInv'
<1>1. ListsOwn'
  BY DEF Swap, LInv, ListsOwn, OInv, Ownership
<1> QED BY <1>1, HandedIsLive DEF Swap

LEMMA LiveAgain ==
  ASSUME \A r \in Ref : ref'[r] \in Place => \E q \in Place : q = ref'[r] /\ Live(q)'
  PROVE  LiveRefs'
<1> SUFFICES ASSUME NEW r \in Ref, ref'[r] \in Place
             PROVE  Live(ref[r])'
  BY DEF LiveRefs
<1>1. PICK q \in Place : q = ref'[r] /\ Live(q)'
  OBVIOUS
<1> QED BY <1>1 DEF Live

\* What a move of content from s to the top of cell c leaves in the cells.
LEMMA MovedCells ==
  ASSUME LInv, NEW c \in Cell, NEW s \in Place, Live(s), s.cell # c,
         NEW left \in Data, Fits(s, left), MoveContent(Top(c), s, left)
  PROVE  /\ cell' \in [Cell -> Data]
         /\ cell'[c] = Read(s)
         /\ \A b \in Cell \ {c, s.cell} : cell'[b] = cell[b]
         /\ s.at = 0 => cell'[s.cell] = left
         /\ s.at > 0 => Positions(cell'[s.cell]) = Positions(cell[s.cell])
         /\ cell'[s.cell] = Put(s, left)[s.cell]
<1> DEFINE x == Put(s, left)[s.cell]
           f == Put(Top(c), Read(s))
<1>1. s.cell \in Cell /\ Top(c) \in Place /\ Top(c).cell = c /\ Top(c).at = 0
  BY PlaceFacts, TopFacts
<1>2. Read(s) \in Data
  BY ReadIsData DEF Good
<1>3. /\ x \in Data /\ (s.at = 0 => x = left)
      /\ s.at > 0 => Positions(x) = Positions(cell[s.cell])
  BY <1>1, PutFacts DEF Live
<1>4. f \in [Cell -> Data] /\ f[c] = Read(s) /\ \A b \in Cell \ {c} : f[b] = cell[b]
  <2>1. Fits(Top(c), Read(s)) /\ ~(Top(c).at > 0)
    BY <1>1 DEF Fits
  <2> QED BY <1>1, <1>2, <2>1, PutFacts
<1>5. cell' = [f EXCEPT ![s.cell] = x]
  BY DEF MoveContent
<1> HIDE DEF f, x
<1>6. /\ cell' \in [Cell -> Data] /\ cell'[c] = Read(s) /\ cell'[s.cell] = x
      /\ \A b \in Cell \ {c, s.cell} : cell'[b] = cell[b]
  BY <1>1, <1>3, <1>4, <1>5
<1> QED BY <1>3, <1>6 DEF x

LEMMA MovedIsLive ==
  ASSUME LInv, OInv', ListsOwn', NEW c \in Cell, free' \subseteq free, c \notin free',
         NEW s \in Place, Live(s), s.cell # c,
         NEW left \in Data, Fits(s, left), MoveContent(Top(c), s, left)
  PROVE  LInv'
<1>1. /\ cell' \in [Cell -> Data] /\ cell'[c] = Read(s)
      /\ \A b \in Cell \ {c, s.cell} : cell'[b] = cell[b]
      /\ s.at > 0 => Positions(cell'[s.cell]) = Positions(cell[s.cell])
  BY MovedCells
<1>2. Top(c).cell = c /\ Top(c).at = 0 /\ s.cell \in Cell \ free /\ s.at \in Nat
  BY PlaceFacts, TopFacts DEF Live
<1>3. FreeIsNull'
  BY <1>1, <1>2 DEF FreeIsNull, LInv, OInv, Ownership
<1>4. ref' = [r \in Ref |->
                IF ref[r] \notin Place THEN ref[r]
                ELSE IF Beneath(ref[r], s) THEN [ref[r] EXCEPT !.cell = c]
                ELSE IF Beneath(ref[r], Top(c)) THEN Forgotten
                ELSE ref[r]]
  BY <1>2 DEF MoveContent, Follow
<1>5. ASSUME NEW r \in Ref
      PROVE  /\ ref'[r] \in Place \cup {NoPlace, Forgotten}
             /\ ref'[r] \in Place => \E q \in Place : q = ref'[r] /\ Live(q)'
  <2>1. CASE ref[r] \notin Place
    BY <1>4, <2>1 DEF LInv, RefType
  <2>2. CASE ref[r] \in Place
    <3>1. PICK pl \in Place : pl = ref[r]
      BY <2>2
    <3>2. /\ Live(pl) /\ pl.cell \in Cell \ free /\ pl.at \in Nat /\ pl.at \in 0..MaxLen
          /\ pl = [cell |-> pl.cell, at |-> pl.at] /\ Forgotten \notin Place
      BY <3>1, PlaceFacts DEF LInv, LiveRefs, Live
    <3>3. ref'[r] = IF Beneath(pl, s) THEN [pl EXCEPT !.cell = c]
                    ELSE IF Beneath(pl, Top(c)) THEN Forgotten ELSE pl
      BY <1>4, <3>1
    <3>4. CASE Beneath(pl, s)
      <4>1. PICK q : q = [cell |-> c, at |-> pl.at]
        OBVIOUS
      <4>2. ref'[r] = q /\ q \in Place /\ q.cell = c /\ q.at = pl.at
        BY <3>2, <3>3, <3>4, <4>1 DEF Place
      <4>3. Read(s) = cell[pl.cell] /\ pl.at \in Positions(cell[pl.cell])
        BY <3>2, <3>4, PlaceFacts DEF Beneath, Live, Read
      <4>4. Live(q)'
        BY <1>1, <4>2, <4>3 DEF Live
      <4> QED BY <4>2, <4>4
    <3>5. CASE ~Beneath(pl, s) /\ Beneath(pl, Top(c))
      BY <3>2, <3>3, <3>5
    <3>6. CASE ~Beneath(pl, s) /\ ~Beneath(pl, Top(c))
      <4>1. ref'[r] = pl
        BY <3>3, <3>6
      <4>2. ASSUME pl.at > 0
            PROVE  pl.at \in Positions(cell'[pl.cell])
        <5>1. pl.at \in Positions(cell[pl.cell]) /\ pl.cell # c
          BY <1>2, <3>2, <3>6, <4>2 DEF Live, Beneath
        <5>2. CASE pl.cell # s.cell
          BY <1>1, <3>2, <5>1, <5>2
        <5>3. CASE pl.cell = s.cell
          <6>1. s.at > 0
            BY <1>2, <3>6, <4>2, <5>3 DEF Beneath
          <6> QED BY <1>1, <5>1, <5>3, <6>1
        <5> QED BY <5>2, <5>3
      <4>3. Live(pl)'
        BY <3>2, <4>2 DEF Live
      <4> QED BY <4>1, <4>3
    <3> QED BY <3>4, <3>5, <3>6
  <2> QED BY <2>1, <2>2
<1>6. ref' \in RefType
  BY <1>4, <1>5 DEF RefType
<1>7. LiveRefs'
  BY <1>5, LiveAgain
<1> QED BY <1>1, <1>3, <1>6, <1>7 DEF LInv

\* The source of a move is a list or a map object: its whole cell.
LEMMA ListSource ==
  ASSUME LInv, NEW p \in alive, KindOf[p] # "any"
  PROVE  /\ p \in Object /\ own[p] \in Cell \ free
         /\ At(p) = Top(own[p]) /\ At(p) \in Place /\ Live(At(p))
         /\ At(p).cell = own[p] /\ At(p).at = 0
         /\ Empty(KindOf[p]) \in Data
<1>1. p \in Object /\ own[p] \in Cell /\ own[p] # NoCell
  BY DEF LInv, ListsOwn, OInv, Ownership
<1>2. own[p] \notin free
  BY <1>1, CellsInUse DEF LInv
<1>3. At(p) = Top(own[p])
  BY <1>1, NamesAreDistinct DEF At
<1>4. Empty(KindOf[p]) \in Data
  BY <1>1, ClassesAreKnown, EmptyIsData
<1>5. Top(own[p]) \in Place /\ Top(own[p]).cell = own[p] /\ Top(own[p]).at = 0
  BY <1>1, TopFacts
<1>6. ~(Top(own[p]).at > 0)
  BY <1>5
<1>7. Live(Top(own[p]))
  BY <1>1, <1>2, <1>5, <1>6 DEF Live
<1> QED BY <1>1, <1>2, <1>3, <1>4, <1>5, <1>7

LEMMA MoveConstructContentIsLive ==
  ASSUME LInv, NEW o \in Object, NEW p \in Object, MoveConstructContent(o, p), OInv'
  PROVE  LInv'
<1>1. o \notin alive /\ p \in alive /\ KindOf[p] # "any" /\ alive' = alive \cup {o}
  BY DEF MoveConstructContent
<1>2. PICK c \in free : Opened(o, c) /\ MoveContent(Top(c), At(p), Empty(KindOf[p]))
  BY DEF MoveConstructContent
<1>3. c \in Cell /\ free' \subseteq free /\ c \notin free' /\ ListsOwn'
  BY <1>1, <1>2, OpenedFacts, OpenedLists
<1>4. /\ At(p) \in Place /\ Live(At(p)) /\ At(p).cell # c /\ Empty(KindOf[p]) \in Data
      /\ ~(At(p).at > 0)
  BY <1>1, <1>2, ListSource
<1> QED BY <1>2, <1>3, <1>4, MovedIsLive DEF Fits

LEMMA MoveAssignContentIsLive ==
  ASSUME LInv, NEW o \in Object, NEW p \in Object, MoveAssignContent(o, p), OInv'
  PROVE  LInv'
<1>1. {o, p} \subseteq alive /\ KindOf[p] # "any" /\ o # p /\ alive' = alive \cup {o}
  BY DEF MoveAssignContent
<1>2. PICK c \in Cell : Opened(o, c) /\ MoveContent(Top(c), At(p), Empty(KindOf[p]))
  BY DEF MoveAssignContent
<1>3. free' \subseteq free /\ c \notin free' /\ ListsOwn'
  BY <1>1, <1>2, OpenedFacts, OpenedLists
<1>4. /\ At(p) \in Place /\ Live(At(p)) /\ At(p).cell = own[p] /\ Empty(KindOf[p]) \in Data
      /\ ~(At(p).at > 0) /\ own[p] \in Cell \ free
  BY <1>1, ListSource
<1>5. own[p] # c
  BY <1>1, <1>2, <1>4, NamesAreDistinct DEF Opened, LInv, OInv, CellsHaveOneOwner
<1> QED BY <1>2, <1>3, <1>4, <1>5, MovedIsLive DEF Fits

\* What is left behind where a value is moved out.
LEMMA LeftBehind ==
  ASSUME LInv, NEW o, NEW h, NEW k \in {"null", "list", "map"}, MoveOut(o, h, Empty(k))
  PROVE  /\ At(h) \in Place /\ Live(At(h))
         /\ Empty(k) \in Data /\ Fits(At(h), Empty(k))
<1>1. At(h) \in Place /\ Live(At(h))
  BY UsableIsGood, PlaceFacts DEF MoveOut, Good
<1>2. Empty(k) \in Data
  BY EmptyIsData
<1>3. ASSUME At(h).at > 0
      PROVE  ~IsTree(Empty(k))
  <2>1. ~IsTree(Read(At(h)))
    BY <1>1, <1>3, ReadIsData, PlaceFacts DEF Good
  <2>2. CASE Empty(k) = Null
    BY <2>2, EmptyIsData
  <2>3. CASE Empty(k) # Null
    <3>1. Empty(k) = Empty(Read(At(h)).kind)
      BY <2>3 DEF MoveOut
    <3>2. Empty(k).kind = Read(At(h)).kind
      BY <3>1 DEF Empty
    <3> QED BY <2>1, <3>2 DEF IsTree
  <2> QED BY <2>2, <2>3
<1> QED BY <1>1, <1>2, <1>3 DEF Fits

LEMMA MoveOutIsLive ==
  ASSUME LInv, NEW o \in Object, NEW h, NEW k \in {"null", "list", "map"},
         MoveOut(o, h, Empty(k)), OInv'
  PROVE  LInv'
<1>1. alive' = alive \cup {o}
  BY DEF MoveOut
<1>2. PICK c \in free : Opened(o, c) /\ MoveContent(Top(c), At(h), Empty(k))
  BY DEF MoveOut
<1>3. c \in Cell /\ free' \subseteq free /\ c \notin free' /\ ListsOwn'
  BY <1>1, <1>2, OpenedFacts, OpenedLists
<1>4. At(h).cell # c
  BY <1>2, LeftBehind DEF Live
<1> QED BY <1>2, <1>3, <1>4, LeftBehind, MovedIsLive

\* The cells after two places exchanged what they hold.
LEMMA SwappedCells ==
  ASSUME LInv, NEW o \in alive, KindOf[o] = "any", NEW d \in Place, Live(d),
         own[o] # d.cell, Fits(d, Read(At(o))), NEW c, Opened(o, c),
         cell' = [Put(d, cell[c]) EXCEPT ![c] = Read(d)]
  PROVE  /\ c \in Cell /\ c # d.cell /\ d.cell \in Cell /\ Read(At(o)) = cell[c]
         /\ cell' \in [Cell -> Data] /\ cell'[c] = Read(d)
         /\ \A b \in Cell \ {c, d.cell} : cell'[b] = cell[b]
         /\ d.at = 0 => cell'[d.cell] = cell[c]
         /\ d.at > 0 => /\ Positions(cell'[d.cell]) = Positions(cell[d.cell])
                        /\ ~IsTree(cell[c])
<1>1. o \in Object /\ o \notin Ref /\ own[o] \in Cell \cup {NoCell} /\ d.cell \in Cell \ free
  BY NamesAreDistinct DEF LInv, OInv, Ownership, Live
<1>2. c \in Cell /\ (own[o] = NoCell => c \in free) /\ (own[o] # NoCell => c = own[o])
  BY <1>1, OpenedFacts DEF Opened
<1>3. c # d.cell
  BY <1>1, <1>2
<1>4. Read(At(o)) = cell[c]
  <2>1. CASE own[o] = NoCell
    BY <1>1, <1>2, <2>1 DEF At, Read, LInv, FreeIsNull
  <2>2. CASE own[o] # NoCell
    <3>1. At(o) = Top(c) /\ Top(c) \in Place /\ Top(c).cell = c /\ Top(c).at = 0
      BY <1>1, <1>2, <2>2, TopFacts DEF At
    <3> QED BY <3>1, PlaceFacts DEF Read
  <2> QED BY <2>1, <2>2
<1>5. Read(d) \in Data /\ cell[c] \in Data
  BY <1>2, ReadIsData DEF Good, LInv
<1> DEFINE f == Put(d, cell[c])
<1>6. /\ f \in [Cell -> Data] /\ \A b \in Cell \ {d.cell} : f[b] = cell[b]
      /\ d.at = 0 => f[d.cell] = cell[c]
      /\ d.at > 0 => Positions(f[d.cell]) = Positions(cell[d.cell])
  BY <1>4, <1>5, PutFacts DEF Live
<1>7. cell' = [f EXCEPT ![c] = Read(d)]
  OBVIOUS
<1> HIDE DEF f
<1>8. /\ cell' \in [Cell -> Data] /\ cell'[c] = Read(d)
      /\ \A b \in Cell \ {c} : cell'[b] = f[b]
  BY <1>2, <1>5, <1>6, <1>7
<1>9. d.at > 0 => ~IsTree(cell[c])
  BY <1>4 DEF Fits
<1> QED BY <1>1, <1>2, <1>3, <1>4, <1>6, <1>8, <1>9

LEMMA SwapContentIsLive ==
  ASSUME LInv, NEW o \in Object, NEW r \in Ref, SwapContent(o, r), OInv'
  PROVE  LInv'
<1>1. PICK d \in Place : d = ref[r]
  BY DEF SwapContent
<1>2. /\ o \in alive /\ KindOf[o] = "any" /\ Live(d) /\ own[o] # d.cell
      /\ Fits(d, Read(At(o))) /\ alive' = alive \cup {o}
  BY <1>1 DEF SwapContent, LInv, LiveRefs
<1>3. PICK c \in Cell :
        /\ Opened(o, c)
        /\ cell' = [Put(d, cell[c]) EXCEPT ![c] = Read(d)]
        /\ ref' = [q \in Ref |->
                     IF ref[q] \notin Place THEN ref[q]
                     ELSE IF Beneath(ref[q], Top(c)) THEN [ref[q] EXCEPT !.cell = d.cell]
                     ELSE IF Beneath(ref[q], d) THEN [ref[q] EXCEPT !.cell = c]
                     ELSE ref[q]]
  BY <1>1 DEF SwapContent
<1>4. /\ c # d.cell /\ d.cell \in Cell
      /\ cell' \in [Cell -> Data] /\ cell'[c] = Read(d)
      /\ \A b \in Cell \ {c, d.cell} : cell'[b] = cell[b]
      /\ d.at = 0 => cell'[d.cell] = cell[c]
      /\ d.at > 0 => /\ Positions(cell'[d.cell]) = Positions(cell[d.cell])
                     /\ ~IsTree(cell[c])
  BY <1>2, <1>3, SwappedCells
<1>5. /\ free' \subseteq free /\ c \notin free' /\ d.cell \notin free' /\ ListsOwn'
      /\ Top(c).cell = c /\ Top(c).at = 0 /\ d.at \in Nat
  BY <1>2, <1>3, OpenedFacts, OpenedLists, TopFacts, PlaceFacts DEF Live
<1>6. FreeIsNull'
  BY <1>4, <1>5 DEF FreeIsNull, LInv, OInv, Ownership
<1>7. ASSUME NEW q \in Ref
      PROVE  /\ ref'[q] \in Place \cup {NoPlace, Forgotten}
             /\ ref'[q] \in Place => \E x \in Place : x = ref'[q] /\ Live(x)'
  <2>1. CASE ref[q] \notin Place
    BY <1>3, <2>1 DEF LInv, RefType
  <2>2. CASE ref[q] \in Place
    <3>1. PICK pl \in Place : pl = ref[q]
      BY <2>2
    <3>2. /\ Live(pl) /\ pl.cell \in Cell \ free /\ pl.at \in Nat /\ pl.at \in 0..MaxLen
          /\ pl = [cell |-> pl.cell, at |-> pl.at]
      BY <3>1, PlaceFacts DEF LInv, LiveRefs, Live
    <3>3. ref'[q] = IF Beneath(pl, Top(c)) THEN [pl EXCEPT !.cell = d.cell]
                    ELSE IF Beneath(pl, d) THEN [pl EXCEPT !.cell = c] ELSE pl
      BY <1>3, <3>1
    <3>4. pl.at > 0 => pl.at \in Positions(cell[pl.cell])
      BY <3>2 DEF Live
    <3>5. CASE Beneath(pl, Top(c))
      <4>1. PICK x : x = [cell |-> d.cell, at |-> pl.at]
        OBVIOUS
      <4>2. ref'[q] = x /\ x \in Place /\ x.cell = d.cell /\ x.at = pl.at
        BY <1>4, <3>2, <3>3, <3>5, <4>1 DEF Place
      <4>3. pl.cell = c /\ pl.at \in Positions(cell[c])
        BY <1>5, <3>4, <3>5 DEF Beneath
      <4>4. d.at = 0
        <5>1. IsTree(cell[c])
          BY <4>3 DEF Positions
        <5> QED BY <1>4, <1>5, <5>1
      <4>5. Live(x)'
        BY <1>4, <1>5, <4>2, <4>3, <4>4 DEF Live
      <4> QED BY <4>2, <4>5
    <3>6. CASE ~Beneath(pl, Top(c)) /\ Beneath(pl, d)
      <4>1. PICK x : x = [cell |-> c, at |-> pl.at]
        OBVIOUS
      <4>2. ref'[q] = x /\ x \in Place /\ x.cell = c /\ x.at = pl.at
        BY <1>4, <3>2, <3>3, <3>6, <4>1 DEF Place
      <4>3. Read(d) = cell[pl.cell] /\ pl.at \in Positions(cell[pl.cell])
        BY <3>4, <3>6, PlaceFacts DEF Beneath, Read
      <4>4. Live(x)'
        BY <1>4, <1>5, <4>2, <4>3 DEF Live
      <4> QED BY <4>2, <4>4
    <3>7. CASE ~Beneath(pl, Top(c)) /\ ~Beneath(pl, d)
      <4>1. ref'[q] = pl
        BY <3>3, <3>7
      <4>2. ASSUME pl.at > 0
            PROVE  pl.at \in Positions(cell'[pl.cell])
        <5>1. pl.at \in Positions(cell[pl.cell]) /\ pl.cell # c
          BY <1>5, <3>4, <3>7, <4>2 DEF Beneath
        <5>2. CASE pl.cell # d.cell
          BY <1>4, <3>2, <5>1, <5>2
        <5>3. CASE pl.cell = d.cell
          <6>1. d.at > 0
            BY <1>5, <3>7, <4>2, <5>3 DEF Beneath
          <6> QED BY <1>4, <5>1, <5>3, <6>1
        <5> QED BY <5>2, <5>3
      <4>3. Live(pl)'
        BY <1>5, <3>2, <4>2 DEF Live
      <4> QED BY <4>1, <4>3
    <3> QED BY <3>5, <3>6, <3>7
  <2> QED BY <2>1, <2>2
<1>8. ref' \in RefType
  BY <1>3, <1>7 DEF RefType
<1>9. LiveRefs'
  BY <1>7, LiveAgain
<1> QED BY <1>4, <1>5, <1>6, <1>8, <1>9 DEF LInv

\* A new reference.
LEMMA BoundIsLive ==
  ASSUME LInv, NEW r \in Ref, NEW pl, Good(pl) \/ pl = Forgotten,
         ref' = [ref EXCEPT ![r] = pl], UNCHANGED <<alive, own, cell, free>>
  PROVE  LInv'
<1>1. pl \in Place \cup {NoPlace, Forgotten} /\ (pl \in Place => Live(pl))
  BY PlaceFacts DEF Good
<1>2. ref' \in RefType
  BY <1>1 DEF LInv, RefType
<1>3. OInv' /\ ListsOwn' /\ FreeIsNull' /\ cell' \in [Cell -> Data]
  BY SameOwners DEF LInv, ListsOwn, FreeIsNull
<1>4. ASSUME NEW q \in Ref, ref'[q] \in Place
      PROVE  \E x \in Place : x = ref'[q] /\ Live(x)'
  <2>1. CASE q = r
    <3>1. ref'[q] = pl
      BY <2>1 DEF LInv, RefType
    <3>2. pl \in Place /\ Live(pl)'
      BY <1>1, <1>4, <3>1 DEF Live
    <3> QED BY <3>1, <3>2
  <2>2. CASE q # r
    <3>1. ref'[q] = ref[q]
      BY <2>2 DEF LInv, RefType
    <3>2. PICK x \in Place : x = ref[q]
      BY <1>4, <3>1
    <3>3. Live(x)
      BY <3>2 DEF LInv, LiveRefs
    <3>4. Live(x)'
      BY <3>3 DEF Live
    <3> QED BY <3>1, <3>2, <3>4
  <2> QED BY <2>1, <2>2
<1>5. LiveRefs'
  BY <1>4, LiveAgain
<1> QED BY <1>2, <1>3, <1>5 DEF LInv

LEMMA TakeElementIsLive ==
  ASSUME LInv, NEW r \in Ref, NEW o \in Object, NEW i \in 1..MaxLen,
         TakeElement(r, o, i)
  PROVE  LInv'
<1>1. PICK pl : pl = [cell |-> own[o], at |-> i]
  OBVIOUS
<1>2. own[o] \in Cell /\ own[o] \notin free
  BY CellsInUse DEF TakeElement, LInv, OInv, Ownership
<1>3. pl \in Place /\ pl.cell = own[o] /\ pl.at = i
  BY <1>1, <1>2, NamesAreDistinct DEF Place
<1>4. pl.at \in Positions(cell[pl.cell])
  BY <1>3 DEF TakeElement, Positions
<1>5. Good(pl)
  BY <1>2, <1>3, <1>4 DEF Good, Live
<1> QED BY <1>1, <1>5, BoundIsLive DEF TakeElement, Bind

-----------------------------------------------------------------------------
(* Lists and maps.                                                            *)

LEMMA NamesFacts ==
  ASSUME LInv, NEW h, NEW d \in Place, NEW k \in {"list", "map"}, Names(h, d, k)
  PROVE  /\ d.cell \in Cell \ free /\ d.at = 0 /\ cell[d.cell] \in Data
         /\ IsTree(cell[d.cell]) /\ cell[d.cell].kind = k
         /\ Items(d) = cell[d.cell].items
         /\ Items(d) \in Seq(Content(k)) /\ Len(Items(d)) \in Nat
         /\ Len(Items(d)) <= MaxLen /\ Positions(cell[d.cell]) = 1..Len(Items(d))
<1>1. Live(d)
  BY UsableIsGood, PlaceFacts DEF Names, Good
<1>2. d.cell \in Cell \ free /\ d.at = 0 /\ cell[d.cell].kind = k
  BY <1>1 DEF Live, Names
<1>3. cell[d.cell] \in Data /\ IsTree(cell[d.cell])
  BY <1>2 DEF LInv, IsTree
<1> QED BY <1>2, <1>3, TreeItems DEF Items, Positions

\* The elements of a list or a map are replaced.
Refilled(d, s) == cell' = [cell EXCEPT ![d.cell].items = s]

LEMMA NewItems ==
  ASSUME LInv, NEW h, NEW d \in Place, NEW k \in {"list", "map"}, Names(h, d, k),
         NEW s \in Seq(Content(k)), Len(s) <= MaxLen,
         Refilled(d, s)
  PROVE  /\ cell' \in [Cell -> Data] /\ cell'[d.cell] = [kind |-> k, items |-> s]
         /\ \A b \in Cell \ {d.cell} : cell'[b] = cell[b]
         /\ Positions(cell'[d.cell]) = 1..Len(s)
<1>1. d.cell \in Cell /\ cell[d.cell] \in Data /\ cell[d.cell].kind = k
  BY NamesFacts
<1>2. [cell[d.cell] EXCEPT !.items = s] = [kind |-> k, items |-> s]
  BY <1>1, WithItems
<1>3. [kind |-> k, items |-> s] \in Data
  BY TreeIsData
<1>4. cell' = [cell EXCEPT ![d.cell] = [kind |-> k, items |-> s]]
  BY <1>2 DEF Refilled
<1>5. /\ cell' \in [Cell -> Data] /\ cell'[d.cell] = [kind |-> k, items |-> s]
      /\ \A b \in Cell \ {d.cell} : cell'[b] = cell[b]
  BY <1>1, <1>3, <1>4 DEF LInv
<1>6. Positions([kind |-> k, items |-> s]) = 1..Len(s)
  BY DEF Positions, IsTree
<1> QED BY <1>5, <1>6

LEMMA SameHolders ==
  ASSUME LInv, UNCHANGED <<alive, own, free>>
  PROVE  OInv' /\ ListsOwn' /\ free' = free
BY SameOwners DEF LInv, ListsOwn

LEMMA RebuiltIsLive ==
  ASSUME LInv, NEW h, NEW d \in Place, NEW k \in {"list", "map"}, Names(h, d, k),
         NEW s \in Seq(Content(k)), Len(s) <= MaxLen, Rebuilt(d, s)
  PROVE  LInv'
<1>1. /\ cell' \in [Cell -> Data] /\ \A b \in Cell \ {d.cell} : cell'[b] = cell[b]
  BY NewItems DEF Rebuilt, Refilled
<1>2. d.cell \notin free /\ ~(d.at > 0)
  BY NamesFacts
<1>3. OInv' /\ ListsOwn' /\ free' = free /\ ForgetElements(d)
  BY SameHolders DEF Rebuilt
<1> QED BY <1>1, <1>2, <1>3, WrittenIsLive

\* The references still in use are as they were, those into d to one of the
\* first n elements.
StayBelow(d, n) ==
  \A r \in Ref : ref'[r] \in Place =>
    ref'[r] = ref[r] /\ (Beneath(ref[r], d) => ref[r].at \in 1..n)

\* Some elements go; who uses one that stays, and does not move, may go on.
LEMMA ShrunkIsLive ==
  ASSUME LInv, NEW h, NEW d \in Place, NEW k \in {"list", "map"}, Names(h, d, k),
         NEW s \in Seq(Content(k)), Len(s) <= MaxLen,
         Refilled(d, s), UNCHANGED <<alive, own, free>>,
         ref' \in RefType, StayBelow(d, Len(s))
  PROVE  LInv'
<1>1. /\ cell' \in [Cell -> Data] /\ \A b \in Cell \ {d.cell} : cell'[b] = cell[b]
      /\ Positions(cell'[d.cell]) = 1..Len(s)
  <2>1. Positions(cell'[d.cell]) = 1..Len(s)
    BY NewItems
  <2>2. cell' \in [Cell -> Data]
    BY NewItems
  <2>3. \A b \in Cell \ {d.cell} : cell'[b] = cell[b]
    BY NewItems
  <2> QED BY <2>1, <2>2, <2>3
<1>2. d.cell \in Cell \ free /\ d.at = 0
  BY NamesFacts
<1>3. OInv' /\ ListsOwn' /\ free' = free
  BY SameHolders
<1>4. FreeIsNull'
  BY <1>1, <1>2, <1>3 DEF FreeIsNull, LInv, OInv, Ownership
<1>5. ASSUME NEW r \in Ref, ref'[r] \in Place
      PROVE  \E x \in Place : x = ref'[r] /\ Live(x)'
  <2>1. PICK x \in Place : x = ref[r] /\ x = ref'[r]
    BY <1>5 DEF StayBelow
  <2>2. Live(x) /\ (Beneath(x, d) => x.at \in 1..Len(s))
    BY <1>5, <2>1 DEF LInv, LiveRefs, StayBelow
  <2>3. x.at > 0 => x.at \in Positions(cell'[x.cell])
    <3>1. CASE x.cell = d.cell
      BY <1>1, <1>2, <2>2, <3>1 DEF Beneath
    <3>2. CASE x.cell # d.cell
      BY <1>1, <2>2, <3>2 DEF Live
    <3> QED BY <3>1, <3>2
  <2>4. Live(x)'
    BY <1>3, <2>2, <2>3 DEF Live
  <2> QED BY <2>1, <2>4
<1>6. LiveRefs'
  BY <1>5, LiveAgain
<1> QED BY <1>1, <1>3, <1>4, <1>6 DEF LInv

\* A value that fits into a list or a map.
LEMMA SourceElem ==
  ASSUME LInv, NEW s \in Usable, ~IsTree(Read(At(s)))
  PROVE  Read(At(s)) \in Data /\ AsElem(Read(At(s))) \in Elem
BY UsableIsGood, ReadIsData, AtomIsElem

LEMMA PushBackIsLive ==
  ASSUME LInv, NEW h, NEW s, PushBack(h, s)
  PROVE  LInv'
<1>1. PICK d \in Place :
        /\ Names(h, d, "list") /\ Len(Items(d)) < MaxLen
        /\ s \in Usable /\ ~IsTree(Read(At(s)))
        /\ Rebuilt(d, Append(Items(d), AsElem(Read(At(s)))))
  BY DEF PushBack
<1>2. Items(d) \in Seq(Elem) /\ Len(Items(d)) \in Nat
  BY <1>1, NamesFacts DEF Content
<1>3. AsElem(Read(At(s))) \in Elem
  BY <1>1, SourceElem
<1>4. /\ Append(Items(d), AsElem(Read(At(s)))) \in Seq(Content("list"))
      /\ Len(Append(Items(d), AsElem(Read(At(s))))) <= MaxLen
  BY <1>1, <1>2, <1>3, NamesAreDistinct DEF Content
<1> QED BY <1>1, <1>4, RebuiltIsLive

LEMMA PushEntryIsLive ==
  ASSUME LInv, NEW h, NEW k \in Key, NEW s, PushEntry(h, k, s)
  PROVE  LInv'
<1>1. PICK d \in Place :
        /\ Names(h, d, "map") /\ Len(Items(d)) < MaxLen
        /\ s \in Usable /\ ~IsTree(Read(At(s)))
        /\ Rebuilt(d, Append(Items(d), [key |-> k, val |-> AsElem(Read(At(s)))]))
  BY DEF PushEntry
<1>2. Items(d) \in Seq(Entry) /\ Len(Items(d)) \in Nat
  BY <1>1, NamesFacts DEF Content
<1>3. [key |-> k, val |-> AsElem(Read(At(s)))] \in Entry
  BY <1>1, SourceElem DEF Entry
<1> DEFINE e == [key |-> k, val |-> AsElem(Read(At(s)))]
<1> HIDE DEF e
<1>4. Append(Items(d), e) \in Seq(Content("map")) /\ Len(Append(Items(d), e)) <= MaxLen
  BY <1>1, <1>2, <1>3, NamesAreDistinct DEF Content, e
<1> QED BY <1>1, <1>4, RebuiltIsLive DEF e

LEMMA ClearIsLive ==
  ASSUME LInv, NEW h, NEW k \in {"list", "map"}, Clear(h, k)
  PROVE  LInv'
<1>1. PICK d \in Place : Names(h, d, k) /\ Rebuilt(d, <<>>)
  BY DEF Clear
<1>2. <<>> \in Seq(Content(k)) /\ Len(<<>>) <= MaxLen
  BY NamesAreDistinct
<1> QED BY <1>1, <1>2, RebuiltIsLive

\* A list with some elements put in at a position.
LEMMA Spliced ==
  ASSUME NEW S, NEW s \in Seq(S), NEW pos \in 0..Len(s), NEW t \in Seq(S)
  PROVE  /\ SubSeq(s, 1, pos) \o t \o SubSeq(s, pos + 1, Len(s)) \in Seq(S)
         /\ Len(SubSeq(s, 1, pos) \o t \o SubSeq(s, pos + 1, Len(s))) = Len(s) + Len(t)
<1> DEFINE a == SubSeq(s, 1, pos)
           c == SubSeq(s, pos + 1, Len(s))
           b == a \o t
<1>1. Len(s) \in Nat /\ pos \in Nat /\ Len(t) \in Nat
  OBVIOUS
<1>2. a \in Seq(S) /\ Len(a) = pos
  BY <1>1, SubSeqProperties
<1>3. c \in Seq(S) /\ Len(c) = Len(s) - pos
  BY <1>1, SubSeqProperties
<1> HIDE DEF a, c
<1>4. b \in Seq(S) /\ Len(b) = pos + Len(t)
  BY <1>2, ConcatProperties
<1> HIDE DEF b
<1>5. b \o c \in Seq(S) /\ Len(b \o c) = Len(b) + Len(c)
  BY <1>3, <1>4, ConcatProperties
<1>6. Len(b) + Len(c) = Len(s) + Len(t)
  BY <1>1, <1>3, <1>4
<1>7. b \o c = SubSeq(s, 1, pos) \o t \o SubSeq(s, pos + 1, Len(s))
  BY DEF a, b, c
<1> QED BY <1>5, <1>6, <1>7

LEMMA InsertIsLive ==
  ASSUME LInv, NEW h, NEW pos, NEW n \in 1..MaxLen, NEW s, Insert(h, pos, n, s)
  PROVE  LInv'
<1>1. PICK d \in Place :
        /\ Names(h, d, "list") /\ Len(Items(d)) + n <= MaxLen
        /\ pos \in 0 .. Len(Items(d))
        /\ s \in Usable /\ ~IsTree(Read(At(s)))
        /\ Rebuilt(d, SubSeq(Items(d), 1, pos)
                        \o [i \in 1 .. n |-> InsertedElem(d, pos, At(s))]
                        \o SubSeq(Items(d), pos + 1, Len(Items(d))))
  BY DEF Insert
<1> DEFINE t == [i \in 1 .. n |-> InsertedElem(d, pos, At(s))]
           u == SubSeq(Items(d), 1, pos) \o t \o SubSeq(Items(d), pos + 1, Len(Items(d)))
<1>2. InsertedElem(d, pos, At(s)) \in Elem
  BY <1>1, SourceElem, EmptyIsData DEF InsertedElem
<1>3. n \in Nat
  BY NamesAreDistinct
<1>4. t \in Seq(Elem) /\ Len(t) = n
  BY <1>2, <1>3
<1> HIDE DEF t
<1>5. Items(d) \in Seq(Elem)
  BY <1>1, NamesFacts DEF Content
<1>6. u \in Seq(Elem) /\ Len(u) = Len(Items(d)) + n
  <2>1. pos \in 0..Len(Items(d))
    BY <1>1
  <2> QED BY <1>4, <1>5, <2>1, Spliced
<1>7. Rebuilt(d, u)
  BY <1>1 DEF t
<1> HIDE DEF u
<1>8. u \in Seq(Content("list")) /\ Len(u) <= MaxLen
  BY <1>1, <1>6 DEF Content
<1> QED BY <1>1, <1>7, <1>8, RebuiltIsLive

LEMMA DropsSome ==
  ASSUME LInv, NEW D,
         ref' = [r \in Ref |-> IF ref[r] \in Place /\ r \in D THEN Forgotten ELSE ref[r]]
  PROVE  /\ ref' \in RefType
         /\ \A r \in Ref : ref'[r] \in Place => ref'[r] = ref[r] /\ r \notin D
<1>1. ASSUME NEW r \in Ref
      PROVE  /\ ref'[r] \in Place \cup {NoPlace, Forgotten}
             /\ ref'[r] \in Place => ref'[r] = ref[r] /\ r \notin D
  <2>1. ref[r] \in Place \cup {NoPlace, Forgotten} /\ Forgotten \notin Place
    BY PlaceFacts DEF LInv, RefType
  <2>2. ref'[r] = IF ref[r] \in Place /\ r \in D THEN Forgotten ELSE ref[r]
    OBVIOUS
  <2> QED BY <2>1, <2>2
<1> QED BY <1>1 DEF RefType

\* A reference to an element of a list or a map, in numbers.
LEMMA ElementRef ==
  ASSUME LInv, NEW h, NEW d \in Place, NEW k \in {"list", "map"}, Names(h, d, k),
         NEW r \in Ref, ref[r] \in Place, Beneath(ref[r], d)
  PROVE  ref[r].at \in 1..Len(Items(d)) /\ ref[r].at \in Nat \ {0}
<1>1. Live(ref[r]) /\ ref[r].cell = d.cell /\ ref[r].at > 0 /\ ref[r].at \in Nat
  BY PlaceFacts DEF LInv, LiveRefs, Beneath
<1>2. ref[r].at \in Positions(cell[d.cell])
  BY <1>1 DEF Live
<1>3. Positions(cell[d.cell]) = 1..Len(Items(d))
  BY NamesFacts
<1> QED BY <1>1, <1>2, <1>3

LEMMA CutOut ==
  ASSUME NEW S, NEW s \in Seq(S), NEW i \in Nat \ {0}, NEW j \in Nat, i <= j, j <= Len(s)
  PROVE  /\ SubSeq(s, 1, i - 1) \o SubSeq(s, j + 1, Len(s)) \in Seq(S)
         /\ Len(SubSeq(s, 1, i - 1) \o SubSeq(s, j + 1, Len(s))) = i - 1 + Len(s) - j
<1> DEFINE a == SubSeq(s, 1, i - 1)
           c == SubSeq(s, j + 1, Len(s))
<1>1. Len(s) \in Nat
  OBVIOUS
<1>2. a \in Seq(S) /\ Len(a) = i - 1
  BY <1>1, SubSeqProperties
<1>3. c \in Seq(S) /\ Len(c) = Len(s) - j
  BY <1>1, SubSeqProperties
<1> HIDE DEF a, c
<1>4. a \o c \in Seq(S) /\ Len(a \o c) = Len(a) + Len(c)
  BY <1>2, <1>3, ConcatProperties
<1>5. Len(a) + Len(c) = i - 1 + Len(s) - j
  BY <1>1, <1>2, <1>3
<1>6. a \o c = SubSeq(s, 1, i - 1) \o SubSeq(s, j + 1, Len(s))
  BY DEF a, c
<1> QED BY <1>4, <1>5, <1>6

LEMMA EraseIsLive ==
  ASSUME LInv, NEW h, NEW k \in {"list", "map"}, NEW i \in 1..MaxLen, NEW j \in 1..MaxLen,
         Erase(h, k, i, j)
  PROVE  LInv'
<1>1. PICK d \in Place :
        /\ Names(h, d, k) /\ i <= j /\ j <= Len(Items(d))
        /\ cell' = [cell EXCEPT ![d.cell].items =
                      SubSeq(@, 1, i - 1) \o SubSeq(@, j + 1, Len(@))]
        /\ Forget(LAMBDA pl : Beneath(pl, d) /\ pl.at >= i)
        /\ UNCHANGED <<alive, own, free>>
  BY DEF Erase
<1>2. PICK s : s = SubSeq(Items(d), 1, i - 1) \o SubSeq(Items(d), j + 1, Len(Items(d)))
  OBVIOUS
<1>3. Refilled(d, s)
  BY <1>1, <1>2 DEF Refilled, Items
<1>4. /\ Items(d) \in Seq(Content(k)) /\ Len(Items(d)) \in Nat /\ Len(Items(d)) <= MaxLen
      /\ i \in Nat \ {0} /\ j \in Nat /\ MaxLen \in Nat
  BY <1>1, NamesFacts, NamesAreDistinct
<1>5. s \in Seq(Content(k)) /\ Len(s) = i - 1 + Len(Items(d)) - j
  BY <1>1, <1>2, <1>4, CutOut
<1>6. Len(s) <= MaxLen /\ i - 1 <= Len(s) /\ Len(s) \in Nat
  BY <1>1, <1>4, <1>5
<1> DEFINE D == {r \in Ref : Beneath(ref[r], d) /\ ref[r].at >= i}
<1>7. ref' = [r \in Ref |-> IF ref[r] \in Place /\ r \in D THEN Forgotten ELSE ref[r]]
  BY <1>1 DEF Forget
<1>8. /\ ref' \in RefType
      /\ \A r \in Ref : ref'[r] \in Place => ref'[r] = ref[r] /\ r \notin D
  <2> HIDE DEF D
  <2> QED BY <1>7, DropsSome
<1>9. StayBelow(d, Len(s))
  <2> SUFFICES ASSUME NEW r \in Ref, ref'[r] \in Place
               PROVE  ref'[r] = ref[r] /\ (Beneath(ref[r], d) => ref[r].at \in 1..Len(s))
    BY DEF StayBelow
  <2>1. ref'[r] = ref[r] /\ r \notin D
    BY <1>8
  <2>2. ASSUME Beneath(ref[r], d)
        PROVE  ref[r].at \in 1..Len(s)
    <3>1. ref[r].at \in Nat \ {0}
      BY <1>1, <2>1, <2>2, ElementRef
    <3>2. ~(ref[r].at >= i)
      BY <2>1, <2>2
    <3> QED BY <1>4, <1>6, <3>1, <3>2
  <2> QED BY <2>1, <2>2
<1>10. UNCHANGED <<alive, own, free>> /\ Names(h, d, k)
  BY <1>1
<1> QED BY <1>3, <1>5, <1>6, <1>8, <1>9, <1>10, ShrunkIsLive

LEMMA KeepsPrefix ==
  ASSUME NEW n \in Nat, NEW keep \in SUBSET (1..n)
  PROVE  /\ Cardinality(keep) \in Nat /\ Cardinality(keep) <= n
         /\ \A q \in Nat : (\A i \in 1..q : i \in keep) => q <= Cardinality(keep)
<1>1. IsFiniteSet(1..n) /\ Cardinality(1..n) = n
  BY FS_Interval
<1>2. IsFiniteSet(keep) /\ Cardinality(keep) <= n
  BY <1>1, FS_Subset
<1>3. Cardinality(keep) \in Nat
  BY <1>2, FS_CardinalityType
<1>4. ASSUME NEW q \in Nat, \A i \in 1..q : i \in keep
      PROVE  q <= Cardinality(keep)
  <2>1. Cardinality(1..q) = q
    BY FS_Interval
  <2>2. (1..q) \in SUBSET keep
    BY <1>4
  <2>3. Cardinality(1..q) <= Cardinality(keep)
    BY <1>2, <2>2, FS_Subset
  <2> QED BY <2>1, <2>3
<1> QED BY <1>2, <1>3, <1>4

LEMMA EraseKeyIsLive ==
  ASSUME LInv, NEW h, NEW k \in Key, EraseKey(h, k)
  PROVE  LInv'
<1>1. PICK d \in Place :
        /\ Names(h, d, "map")
        /\ cell' = [cell EXCEPT ![d.cell].items =
                      KeepAt(@, DOMAIN @ \ Keyed(cell[d.cell], k))]
        /\ Forget(LAMBDA pl : Beneath(pl, d) /\
                    \E i \in Keyed(cell[d.cell], k) : i <= pl.at)
        /\ UNCHANGED <<alive, own, free>>
  BY DEF EraseKey
<1>2. /\ Items(d) \in Seq(Content("map")) /\ Len(Items(d)) \in Nat
      /\ Len(Items(d)) <= MaxLen /\ MaxLen \in Nat /\ Items(d) = cell[d.cell].items
  BY <1>1, NamesFacts, NamesAreDistinct
<1> DEFINE gone == Keyed(cell[d.cell], k)
           keep == (1..Len(Items(d))) \ gone
           s == KeepAt(Items(d), keep)
           D == {r \in Ref : Beneath(ref[r], d) /\ \E i \in gone : i <= ref[r].at}
<1>3. DOMAIN Items(d) = 1..Len(Items(d))
  BY <1>2
<1>4. Refilled(d, s)
  BY <1>1, <1>2, <1>3 DEF Refilled
<1>5. gone \subseteq 1..Len(Items(d))
  BY <1>2, <1>3 DEF Keyed
<1>6. ref' = [r \in Ref |-> IF ref[r] \in Place /\ r \in D THEN Forgotten ELSE ref[r]]
  BY <1>1 DEF Forget
<1> HIDE DEF gone
<1>7. /\ ref' \in RefType
      /\ \A r \in Ref : ref'[r] \in Place => ref'[r] = ref[r] /\ r \notin D
  <2> HIDE DEF D
  <2> QED BY <1>6, DropsSome
<1>8. keep \in SUBSET (1..Len(Items(d)))
  OBVIOUS
<1>9. /\ Cardinality(keep) \in Nat /\ Cardinality(keep) <= Len(Items(d))
      /\ \A q \in Nat : (\A i \in 1..q : i \in keep) => q <= Cardinality(keep)
  <2> HIDE DEF keep
  <2> QED BY <1>2, <1>8, KeepsPrefix
<1>10. s \in Seq(Content("map")) /\ Len(s) = Cardinality(keep)
  <2> HIDE DEF keep
  <2> QED BY <1>2, <1>8, KeepAtType
<1> HIDE DEF s
<1>11. Len(s) <= MaxLen
  BY <1>2, <1>9, <1>10
<1>12. StayBelow(d, Len(s))
  <2> SUFFICES ASSUME NEW r \in Ref, ref'[r] \in Place
               PROVE  ref'[r] = ref[r] /\ (Beneath(ref[r], d) => ref[r].at \in 1..Len(s))
    BY DEF StayBelow
  <2>1. ref'[r] = ref[r] /\ r \notin D
    BY <1>7
  <2>2. ASSUME Beneath(ref[r], d)
        PROVE  ref[r].at \in 1..Len(s)
    <3>1. PICK q \in Nat \ {0} : q = ref[r].at /\ q \in 1..Len(Items(d))
      BY <1>1, <2>1, <2>2, ElementRef
    <3>2. \A i \in gone : ~(i <= q)
      BY <2>1, <2>2, <3>1
    <3>3. \A i \in 1..q : i \in keep
      BY <1>2, <3>1, <3>2
    <3>4. q <= Cardinality(keep)
      BY <1>9, <3>1, <3>3
    <3> QED BY <1>9, <1>10, <3>1, <3>4
  <2> QED BY <2>1, <2>2
<1>13. UNCHANGED <<alive, own, free>> /\ Names(h, d, "map")
  BY <1>1
<1> QED BY <1>4, <1>7, <1>10, <1>11, <1>12, <1>13, ShrunkIsLive

\* The value of p goes to the end of the list at d, p is null afterwards.
LEMMA PushBackMoved ==
  ASSUME LInv, NEW h, NEW p \in alive, NEW d \in Place,
         Names(h, d, "list"), Len(Items(d)) < MaxLen, ~IsTree(Read(At(p))),
         cell' = [c \in Cell |->
                    IF c = own[p] THEN Null
                    ELSE IF c = d.cell
                    THEN [cell[c] EXCEPT !.items = Append(@, AsElem(Read(At(p))))]
                    ELSE cell[c]]
  PROVE  /\ cell' \in [Cell -> Data] /\ own[p] # d.cell
         /\ Read(At(p)) \in Data
         /\ own[p] \in Cell => ~IsTree(cell[own[p]]) /\ cell'[own[p]] = Null
         /\ \A b \in Cell \ {d.cell, own[p]} : cell'[b] = cell[b]
         /\ cell'[d.cell] =
              [kind |-> "list", items |-> Append(Items(d), AsElem(Read(At(p))))]
<1>1. /\ d.cell \in Cell /\ IsTree(cell[d.cell]) /\ cell[d.cell].kind = "list"
      /\ cell[d.cell] \in Data /\ Items(d) \in Seq(Elem) /\ Len(Items(d)) \in Nat
      /\ Items(d) = cell[d.cell].items
  BY NamesFacts DEF Content
<1>2. p \in Usable /\ p \in Object /\ p \notin Ref /\ own[p] \in Cell \cup {NoCell}
  BY NamesAreDistinct DEF Usable, LInv, OInv, Ownership
<1>3. Read(At(p)) \in Data /\ AsElem(Read(At(p))) \in Elem
  BY <1>2, SourceElem
<1>4. ASSUME own[p] \in Cell
      PROVE  ~IsTree(cell[own[p]])
  <2>1. At(p) = Top(own[p]) /\ Top(own[p]) \in Place /\ Top(own[p]).cell = own[p]
        /\ Top(own[p]).at = 0
    BY <1>2, <1>4, TopFacts, NamesAreDistinct DEF At
  <2>2. Read(At(p)) = cell[own[p]]
    BY <2>1, PlaceFacts DEF Read
  <2> QED BY <2>2
<1>5. own[p] # d.cell
  BY <1>1, <1>4
<1> DEFINE s == Append(Items(d), AsElem(Read(At(p))))
<1>6. s \in Seq(Content("list")) /\ Len(s) <= MaxLen
  BY <1>1, <1>3, NamesAreDistinct DEF Content
<1>7. [cell[d.cell] EXCEPT !.items = Append(@, AsElem(Read(At(p))))]
        = [kind |-> "list", items |-> s]
  <2>1. [cell[d.cell] EXCEPT !.items = Append(@, AsElem(Read(At(p))))]
          = [cell[d.cell] EXCEPT !.items = s]
    BY <1>1
  <2> HIDE DEF s
  <2> QED BY <1>1, <2>1, WithItems
<1> HIDE DEF s
<1>8. [kind |-> "list", items |-> s] \in Data
  BY <1>6, TreeIsData
<1>9. cell'[d.cell] = [kind |-> "list", items |-> s]
  BY <1>1, <1>5, <1>7
<1>10. \A b \in Cell \ {d.cell, own[p]} : cell'[b] = cell[b]
  OBVIOUS
<1>11. own[p] \in Cell => cell'[own[p]] = Null
  OBVIOUS
<1>12. cell' \in [Cell -> Data]
  <2>1. ASSUME NEW b \in Cell
        PROVE  cell'[b] \in Data
    BY <1>8, <1>9, <1>10, <1>11, EmptyIsData DEF LInv
  <2> QED BY <2>1
<1> QED BY <1>3, <1>4, <1>5, <1>9, <1>10, <1>11, <1>12 DEF s

LEMMA PushBackMoveIsLive ==
  ASSUME LInv, NEW h, NEW p, PushBackMove(h, p)
  PROVE  LInv'
<1>1. PICK d \in Place :
        /\ Names(h, d, "list") /\ Len(Items(d)) < MaxLen
        /\ p \in alive /\ ~IsTree(Read(At(p)))
        /\ cell' = [c \in Cell |->
                      IF c = own[p] THEN Null
                      ELSE IF c = d.cell
                      THEN [cell[c] EXCEPT !.items = Append(@, AsElem(Read(At(p))))]
                      ELSE cell[c]]
        /\ ForgetElements(d)
        /\ UNCHANGED <<alive, own, free>>
  BY DEF PushBackMove
<1>2. /\ cell' \in [Cell -> Data]
      /\ own[p] \in Cell => ~IsTree(cell[own[p]]) /\ cell'[own[p]] = Null
      /\ \A b \in Cell \ {d.cell, own[p]} : cell'[b] = cell[b]
  BY <1>1, PushBackMoved
<1>3. OInv' /\ ListsOwn' /\ free' = free
  BY <1>1, SameHolders
<1>4. d.cell \in Cell \ free /\ d.at = 0
  BY <1>1, NamesFacts
<1>5. FreeIsNull'
  BY <1>2, <1>3, <1>4 DEF FreeIsNull, LInv, OInv, Ownership
<1>6. /\ ref' \in RefType
      /\ \A r \in Ref : ref'[r] \in Place => ref'[r] = ref[r] /\ ~Beneath(ref[r], d)
  BY <1>1, Forgets
<1>7. ASSUME NEW r \in Ref, ref'[r] \in Place
      PROVE  \E x \in Place : x = ref'[r] /\ Live(x)'
  <2>1. PICK x \in Place : x = ref[r] /\ x = ref'[r] /\ ~Beneath(x, d)
    BY <1>6, <1>7
  <2>2. Live(x) /\ x.cell \in Cell
    BY <2>1 DEF LInv, LiveRefs, Live
  <2>3. ASSUME x.at > 0
        PROVE  x.at \in Positions(cell'[x.cell])
    <3>1. x.at \in Positions(cell[x.cell]) /\ x.cell # d.cell
      BY <1>4, <2>1, <2>2, <2>3 DEF Live, Beneath
    <3>2. x.cell # own[p]
      BY <1>2, <2>2, <3>1 DEF Positions
    <3> QED BY <1>2, <2>2, <3>1, <3>2
  <2>4. Live(x)'
    BY <1>3, <2>2, <2>3 DEF Live
  <2> QED BY <2>1, <2>4
<1>8. LiveRefs'
  BY <1>7, LiveAgain
<1> QED BY <1>2, <1>3, <1>5, <1>6, <1>8 DEF LInv

LEMMA FirstIsThere ==
  ASSUME LInv, NEW h, NEW d \in Place, Names(h, d, "map"), NEW k,
         Keyed(cell[d.cell], k) # {}
  PROVE  First(d, k) \in 1..Len(Items(d))
<1> DEFINE M == Keyed(cell[d.cell], k)
<1>1. Items(d) = cell[d.cell].items /\ DOMAIN Items(d) = 1..Len(Items(d))
      /\ Len(Items(d)) \in Nat
  BY NamesFacts
<1>2. M \subseteq 1..Len(Items(d))
  BY <1>1 DEF Keyed
<1>3. M # {} /\ First(d, k) = CHOOSE i \in M : \A j \in M : i <= j
  BY DEF First
<1> HIDE DEF M
<1>4. M \in SUBSET Nat
  BY <1>1, <1>2
<1>5. \E i \in M : \A j \in M : i <= j
  BY <1>3, <1>4, LeastExists
<1>6. First(d, k) \in M
  BY <1>3, <1>5
<1> QED BY <1>2, <1>6

LEMMA LookupIsLive ==
  ASSUME LInv, NEW r \in Ref, NEW h, NEW k \in Key, Lookup(r, h, k)
  PROVE  LInv'
<1>1. PICK d \in Place :
        /\ Names(h, d, "map") /\ ref[r] = Forgotten
        /\ Keyed(cell[d.cell], k) = {} => Len(Items(d)) < MaxLen
        /\ IF Keyed(cell[d.cell], k) # {}
           THEN /\ Bind(r, [cell |-> d.cell, at |-> First(d, k)])
                /\ UNCHANGED cell
           ELSE /\ cell' = [cell EXCEPT ![d.cell].items =
                              Append(@, [key |-> k, val |-> Nil])]
                /\ ref' = [q \in Ref |->
                     IF q = r THEN [cell |-> d.cell, at |-> Len(Items(d)) + 1]
                     ELSE IF ref[q] \in Place /\ Beneath(ref[q], d) THEN Forgotten
                     ELSE ref[q]]
        /\ UNCHANGED <<alive, own, free>>
  BY DEF Lookup
<1>2. /\ d.cell \in Cell \ free /\ d.at = 0 /\ Positions(cell[d.cell]) = 1..Len(Items(d))
      /\ Items(d) \in Seq(Content("map")) /\ Len(Items(d)) \in Nat
      /\ Len(Items(d)) <= MaxLen /\ MaxLen \in Nat /\ Items(d) = cell[d.cell].items
  BY <1>1, NamesFacts, NamesAreDistinct
<1>3. CASE Keyed(cell[d.cell], k) # {}
  <2>1. First(d, k) \in 1..Len(Items(d))
    BY <1>1, <1>3, FirstIsThere
  <2>2. PICK pl : pl = [cell |-> d.cell, at |-> First(d, k)]
    OBVIOUS
  <2>3. First(d, k) \in 0..MaxLen
    BY <1>2, <2>1
  <2>4. pl \in Place /\ pl.cell = d.cell /\ pl.at = First(d, k)
    BY <1>2, <2>2, <2>3 DEF Place
  <2>5. Good(pl)
    BY <1>2, <2>1, <2>4 DEF Good, Live
  <2>6. ref' = [ref EXCEPT ![r] = pl] /\ UNCHANGED <<alive, own, cell, free>>
    BY <1>1, <1>3, <2>2 DEF Bind
  <2> QED BY <2>5, <2>6, BoundIsLive
<1>4. CASE Keyed(cell[d.cell], k) = {}
  <2> DEFINE s == Append(Items(d), [key |-> k, val |-> Nil])
  <2>1. s \in Seq(Content("map")) /\ Len(s) = Len(Items(d)) + 1
    <3>1. [key |-> k, val |-> Nil] \in Content("map")
      BY EmptyIsData DEF Content, Entry
    <3>2. PICK e \in Content("map") : e = [key |-> k, val |-> Nil]
      BY <3>1
    <3>3. Append(Items(d), e) \in Seq(Content("map")) /\ Len(Append(Items(d), e)) = Len(Items(d)) + 1
      BY <1>2, <3>2
    <3> QED BY <3>2, <3>3
  <2>2. Refilled(d, s) /\ Len(s) <= MaxLen
    BY <1>1, <1>2, <1>4, <2>1 DEF Refilled
  <2> HIDE DEF s
  <2>3. Positions(cell'[d.cell]) = 1..Len(s)
    BY <1>1, <2>1, <2>2, NewItems
  <2>4. cell' \in [Cell -> Data]
    BY <1>1, <2>1, <2>2, NewItems
  <2>5. \A b \in Cell \ {d.cell} : cell'[b] = cell[b]
    BY <1>1, <2>1, <2>2, NewItems
  <2>6. OInv' /\ ListsOwn' /\ free' = free
    BY <1>1, SameHolders
  <2>7. FreeIsNull'
    BY <1>2, <2>4, <2>5, <2>6 DEF FreeIsNull, LInv, OInv, Ownership
  <2>8. PICK n \in Nat : n = Len(Items(d)) + 1 /\ n <= MaxLen /\ n \in 1..Len(s) /\ n > 0
    <3>1. PICK l \in Nat : l = Len(Items(d))
      BY <1>2
    <3>2. l < MaxLen /\ MaxLen \in Nat
      BY <1>1, <1>2, <1>4, <3>1
    <3>3. l + 1 \in Nat /\ l + 1 <= MaxLen /\ l + 1 \in 1..l + 1 /\ l + 1 > 0
      BY <3>2
    <3> QED BY <2>1, <3>1, <3>3
  <2>9. PICK pl : pl = [cell |-> d.cell, at |-> n]
    OBVIOUS
  <2>10. pl \in Place /\ pl.cell = d.cell /\ pl.at = n
    BY <1>2, <2>8, <2>9 DEF Place
  <2>11. Live(pl)'
    BY <1>2, <2>3, <2>6, <2>8, <2>10 DEF Live
  <2>12. ref' = [q \in Ref |-> IF q = r THEN pl
                   ELSE IF ref[q] \in Place /\ Beneath(ref[q], d) THEN Forgotten
                   ELSE ref[q]]
    BY <1>1, <1>4, <2>8, <2>9
  <2>13. ASSUME NEW q \in Ref
         PROVE  /\ ref'[q] \in Place \cup {NoPlace, Forgotten}
                /\ ref'[q] \in Place => \E x \in Place : x = ref'[q] /\ Live(x)'
    <3>1. CASE q = r
      BY <2>10, <2>11, <2>12, <3>1
    <3>2. CASE q # r
      <4>1. ref[q] \in Place \cup {NoPlace, Forgotten} /\ Forgotten \notin Place
        BY PlaceFacts DEF LInv, RefType
      <4>2. ref'[q] = IF ref[q] \in Place /\ Beneath(ref[q], d) THEN Forgotten ELSE ref[q]
        BY <2>12, <3>2
      <4>3. ref'[q] \in Place \cup {NoPlace, Forgotten}
        BY <4>1, <4>2
      <4>4. ASSUME ref'[q] \in Place
            PROVE  \E x \in Place : x = ref'[q] /\ Live(x)'
        <5>1. PICK x \in Place : x = ref[q] /\ x = ref'[q] /\ ~Beneath(x, d)
          BY <4>1, <4>2, <4>4
        <5>2. Live(x) /\ x.cell \in Cell
          BY <5>1 DEF LInv, LiveRefs, Live
        <5>3. ASSUME x.at > 0
              PROVE  x.at \in Positions(cell'[x.cell])
          <6>1. x.at \in Positions(cell[x.cell]) /\ x.cell # d.cell
            BY <1>2, <5>1, <5>2, <5>3 DEF Live, Beneath
          <6> QED BY <2>5, <5>2, <6>1
        <5>4. Live(x)'
          BY <2>6, <5>2, <5>3 DEF Live
        <5> QED BY <5>1, <5>4
      <4> QED BY <4>3, <4>4
    <3> QED BY <3>1, <3>2
  <2>14. ref' \in RefType
    BY <2>12, <2>13 DEF RefType
  <2>15. LiveRefs'
    BY <2>13, LiveAgain
  <2> QED BY <2>4, <2>6, <2>7, <2>14, <2>15 DEF LInv
<1> QED BY <1>3, <1>4

-----------------------------------------------------------------------------

LEMMA InitIsLive == Init => LInv
<1> SUFFICES ASSUME Init
             PROVE  LInv
  OBVIOUS
<1>1. OInv
  BY InitOwns
<1>2. cell \in [Cell -> Data]
  BY EmptyIsData DEF Init
<1>3. Forgotten \notin Place
  BY PlaceFacts
<1> QED BY <1>1, <1>2, <1>3 DEF Init, LInv, RefType, ListsOwn, FreeIsNull, LiveRefs

LEMMA NextIsLive ==
  ASSUME LInv, [Next]_vars
  PROVE  LInv'
<1>1. OInv'
  BY NextOwns DEF LInv
<1>2. CASE UNCHANGED vars
  BY <1>1, <1>2 DEF vars, LInv, ListsOwn, FreeIsNull, LiveRefs, Live
<1>3. CASE \E r \in Ref : Release(r)
  BY <1>3, BoundIsLive DEF Release
<1>4. CASE \E o \in Object : ObjectSteps(o)
  <2>1. PICK o \in Object : ObjectSteps(o)
    BY <1>4
  <2>2. CASE Default(o) \/ Destroy(o)
    BY <1>1, <2>2, DefaultIsLive, DestroyIsLive
  <2>3. CASE \E h \in Handle : CopyConstruct(o, h)
    <3>1. PICK h \in Handle : CopyConstruct(o, h)
      BY <2>3
    <3>2. o \in Handle /\ o \in Object \ alive /\ alive' = alive \cup ({o} \cap Object)
      BY <3>1 DEF CopyConstruct, Handle
    <3> QED BY <3>1, <3>2, CopyIsLive DEF CopyConstruct
  <2>4. CASE \E p \in Object : MoveConstruct(o, p) \/ MoveConstructContent(o, p)
    BY <1>1, <2>4, MoveConstructIsLive, MoveConstructContentIsLive
  <2>5. CASE \E p \in Object : MoveAssign(o, p) \/ MoveAssignContent(o, p)
    BY <1>1, <2>5, MoveAssignIsLive, MoveAssignContentIsLive
  <2>6. CASE \E p \in Object : Swap(o, p)
    BY <1>1, <2>6, SwapIsLive
  <2>7. CASE \E r \in Ref : SwapContent(o, r)
    BY <1>1, <2>7, SwapContentIsLive
  <2>8. CASE \E r \in Ref : TakeRef(r, o)
    <3>1. o \in Usable
      BY <2>8 DEF TakeRef, Usable
    <3> QED BY <2>8, <3>1, UsableIsGood, BoundIsLive DEF TakeRef, Bind
  <2>9. CASE \E r \in Ref, i \in 1 .. MaxLen : TakeElement(r, o, i)
    BY <2>9, TakeElementIsLive
  <2> QED BY <2>1, <2>2, <2>3, <2>4, <2>5, <2>6, <2>7, <2>8, <2>9 DEF ObjectSteps
<1>5. CASE \E h \in Handle : ReferenceSteps(h)
  <2>1. PICK h \in Handle : ReferenceSteps(h)
    BY <1>5
  <2>2. CASE \E s \in Handle : CopyAssign(h, s)
    <3>1. PICK s \in Handle : CopyAssign(h, s)
      BY <2>2
    <3>2. h \in Usable /\ alive' = alive \cup ({h} \cap Object)
      BY <3>1, NamesAreDistinct DEF CopyAssign, Usable, LInv, OInv, Ownership
    <3> QED BY <3>1, <3>2, CopyIsLive DEF CopyAssign
  <2>3. CASE \E v \in Scalars \cup {Empty("list"), Empty("map")} : Set(h, v)
    <3>1. Scalars \cup {Empty("list"), Empty("map")} \subseteq Data
      BY EmptyIsData DEF Data
    <3> QED BY <2>3, <3>1, SetIsLive
  <2>4. CASE \E o \in Object, k \in {"null", "list", "map"} : MoveOut(o, h, Empty(k))
    BY <1>1, <2>4, MoveOutIsLive
  <2> QED BY <2>1, <2>2, <2>3, <2>4 DEF ReferenceSteps
<1>6. CASE \E h \in Handle : ListSteps(h)
  BY <1>6, PushBackIsLive, PushBackMoveIsLive, InsertIsLive, EraseIsLive, ClearIsLive
  DEF ListSteps
<1>7. CASE \E h \in Handle : MapSteps(h)
  BY <1>7, LookupIsLive, PushEntryIsLive, EraseKeyIsLive, EraseIsLive, ClearIsLive
  DEF MapSteps
<1> QED BY <1>2, <1>3, <1>4, <1>5, <1>6, <1>7 DEF Next

LEMMA LiveInvariant == Spec => []LInv
BY InitIsLive, NextIsLive, PTL DEF Spec

(* A reference that was not invalidated points into the cell of a living      *)
(* object, at an element that exists, however cells are reused, moved,        *)
(* swapped and their elements erased (cci_value.cpp, impl_pool, the moves and *)
(* swap of cci_value, erase of lists and maps).                               *)
THEOREM ReferencesPointAtLiveCells == Spec => []RefsAreLive
BY LiveIsOwned, LiveInvariant, PTL

-----------------------------------------------------------------------------
(* First-class values.                                                        *)

\* The data of the abstract specification are those of the objects.
LEMMA SameData ==
  /\ Store!Data = Data /\ Store!Scalars = Scalars
  /\ \A v, w : Store!Holds(v, w) <=> Holds(v, w)
<1>1. \A e : Store!Scalar(e) = Scalar(e)
  BY DEF Store!Scalar, Store!Null, Scalar, Null
<1>2. Store!Elem = Elem
  BY DEF Store!Elem, Elem
<1>3. Store!Scalars = Scalars
  BY <1>1, <1>2 DEF Store!Scalars, Scalars
<1>4. Store!Lists = Lists
  BY <1>2 DEF Store!Lists, Lists
<1>5. Store!Maps = Maps
  BY <1>2 DEF Store!Maps, Maps, Store!Entry, Entry
<1>6. Store!Data = Data
  BY <1>3, <1>4, <1>5 DEF Store!Data, Data
<1>7. \A v : Store!IsTree(v) <=> IsTree(v)
  BY DEF Store!IsTree, IsTree
<1>8. \A v, i : Store!ElemAt(v, i) = ElemAt(v, i)
  BY DEF Store!ElemAt, ElemAt
<1>9. \A v, w : Store!Holds(v, w) <=> Holds(v, w)
  BY <1>1, <1>7, <1>8 DEF Store!Holds, Holds
<1> QED BY <1>3, <1>6, <1>9

CellsOwned == \A c \in Cell : c \notin free <=> \E o \in alive : own[o] = c

LEMMA OwnersOfCells == OInv => CellsOwned
BY CellsInUse DEF CellsOwned

ValuesTyped ==
  \A o \in Object : /\ Denotes(o) \in Data \cup {Absent}
                    /\ o \in alive <=> Denotes(o) \in Data
                    /\ o \in alive <=> Denotes(o) # Absent

LEMMA DenotesData == LInv => ValuesTyped
<1> SUFFICES ASSUME LInv, NEW o \in Object
             PROVE  /\ Denotes(o) \in Data \cup {Absent}
                    /\ o \in alive <=> Denotes(o) \in Data
                    /\ o \in alive <=> Denotes(o) # Absent
  BY DEF ValuesTyped
<1>1. CASE o \notin alive
  BY <1>1, AbsentIsNoData DEF Denotes
<1>2. CASE o \in alive
  <2>1. Denotes(o) \in Data
    BY <1>2, EmptyIsData DEF Denotes, LInv, OInv, Ownership
  <2> QED BY <1>2, <2>1, AbsentIsNoData
<1> QED BY <1>1, <1>2

StoreStep == [Store!Next]_[o \in Object |-> Denotes(o)]

LEMMA ValuesAreData ==
  ASSUME LInv, LInv'
  PROVE  [o \in Object |-> Denotes(o)]' \in [Object -> Store!Data \cup {Absent}]
<1>1. (LInv => ValuesTyped)'
  BY DenotesData, PTL
<1> QED BY <1>1, SameData DEF ValuesTyped

\* A step of one object.
LEMMA OneChanges ==
  ASSUME LInv, LInv', NEW o \in Object,
         \A q \in Object \ {o} : Denotes(q)' = Denotes(q)
  PROVE  StoreStep
<1>1. Store!Only({o})
  BY DEF Store!Only
<1> QED BY <1>1, ValuesAreData DEF StoreStep, Store!Next

\* A step in which p hands a value over to o.
LEMMA OneHandsOver ==
  ASSUME LInv, LInv', NEW o \in Object, NEW p \in Object, o # p,
         p \in alive, {o, p} \subseteq alive', NEW v, v \in Scalars \/ v = Denotes(p),
         Holds(Denotes(p), v), Holds(Denotes(o)', v),
         \A q \in Object \ {o, p} : Denotes(q)' = Denotes(q)
  PROVE  StoreStep
<1>1. Store!Only({o, p})
  BY DEF Store!Only
<1>2. Denotes(p) # Absent /\ Denotes(o)' # Absent /\ Denotes(p)' # Absent
  <2>1. (LInv => ValuesTyped)'
    BY DenotesData, PTL
  <2> QED BY <2>1, DenotesData DEF ValuesTyped
<1>3. Store!HandOver(o, p)
  BY <1>1, <1>2, SameData DEF Store!HandOver
<1> QED BY <1>3, ValuesAreData DEF StoreStep, Store!Next

\* An object whose cell, and what it holds, stay the same.
LEMMA OthersStay ==
  ASSUME LInv, NEW q \in Object, own'[q] = own[q], q \in alive' <=> q \in alive,
         own[q] \in Cell => cell'[own[q]] = cell[own[q]]
  PROVE  Denotes(q)' = Denotes(q)
<1>1. own[q] \in Cell \cup {NoCell}
  BY DEF LInv, OInv, Ownership
<1>2. CASE own[q] = NoCell
  BY <1>2 DEF Denotes
<1>3. CASE own[q] # NoCell
  BY <1>1, <1>3 DEF Denotes
<1> QED BY <1>2, <1>3

\* No two objects have the same cell.
LEMMA Apart ==
  ASSUME LInv, NEW o \in Object, NEW q \in Object \ {o}, own[o] \in Cell
  PROVE  own[q] # own[o]
BY NamesAreDistinct DEF LInv, OInv, CellsHaveOneOwner

\* The cell of one object changes.
LEMMA CellChanges ==
  ASSUME LInv, LInv', NEW o \in Object, NEW c \in Cell, own'[o] = c,
         \A q \in Object \ {o} : own'[q] = own[q] /\ (q \in alive' <=> q \in alive),
         \A b \in Cell \ {c} : cell'[b] = cell[b]
  PROVE  StoreStep
<1>1. ASSUME NEW q \in Object \ {o}
      PROVE  Denotes(q)' = Denotes(q)
  <2>1. own'[q] # c \/ c = NoCell
    BY DEF LInv, OInv, CellsHaveOneOwner
  <2>2. own[q] # c /\ own'[q] = own[q] /\ (q \in alive' <=> q \in alive)
    BY <2>1, NamesAreDistinct
  <2>3. own[q] \in Cell => cell'[own[q]] = cell[own[q]]
    BY <2>2
  <2> QED BY <2>2, <2>3, OthersStay
<1> QED BY <1>1, OneChanges

\* A cell in use is written to, whoever owns it.
LEMMA OwnerChanges ==
  ASSUME LInv, LInv', NEW c \in Cell \ free, UNCHANGED <<alive, own>>,
         \A b \in Cell \ {c} : cell'[b] = cell[b]
  PROVE  StoreStep
<1>1. PICK o \in alive : own[o] = c
  BY CellsInUse DEF LInv
<1>2. o \in Object
  BY DEF LInv, OInv, Ownership
<1> QED BY <1>1, <1>2, CellChanges

LEMMA NothingChanges ==
  ASSUME UNCHANGED <<alive, own, cell>>
  PROVE  StoreStep
<1>1. \A o \in Object : Denotes(o)' = Denotes(o)
  BY DEF Denotes
<1>2. UNCHANGED [o \in Object |-> Denotes(o)]
  BY <1>1
<1> QED BY <1>2 DEF StoreStep

\* Writes through an object or a reference.
LEMMA WriteSteps ==
  ASSUME LInv, LInv', NEW h \in Handle, NEW d \in Place, Opens(h, d),
         h \in Usable \/ h \in Object \ alive,
         alive' = alive \cup ({h} \cap Object),
         \A b \in Cell \ {d.cell} : cell'[b] = cell[b]
  PROVE  StoreStep
<1>1. d.cell \in Cell
  BY PlaceFacts
<1>2. CASE h \in Ref
  <2>1. h \notin Object /\ d = ref[h] /\ own' = own /\ alive' = alive
    BY <1>2, NamesAreDistinct DEF Opens
  <2>2. d.cell \in Cell \ free
    BY <1>2, <2>1 DEF LInv, LiveRefs, Live
  <2> QED BY <2>1, <2>2, OwnerChanges
<1>3. CASE h \in Object
  <2>1. Opened(h, d.cell) /\ alive' = alive \cup {h}
    BY <1>3, NamesAreDistinct DEF Opens
  <2>2. own'[h] = d.cell /\ \A q \in Object \ {h} : own'[q] = own[q]
    BY <1>3, <2>1, OpenedFacts
  <2>3. \A q \in Object \ {h} : own'[q] = own[q] /\ (q \in alive' <=> q \in alive)
    BY <2>1, <2>2
  <2> QED BY <1>1, <1>3, <2>2, <2>3, CellChanges
<1> QED BY <1>2, <1>3 DEF Handle

LEMMA SetSteps ==
  ASSUME LInv, LInv', NEW h \in Handle, NEW v \in Data, Set(h, v)
  PROVE  StoreStep
<1>1. h \in Usable /\ alive' = alive \cup ({h} \cap Object)
  BY NamesAreDistinct DEF Set, Usable, LInv, OInv, Ownership
<1>2. PICK d \in Place : /\ Opens(h, d) /\ Fits(d, v) /\ cell' = Put(d, v)
                         /\ ForgetElements(d)
  BY DEF Set
<1>3. d.at > 0 => d.at \in Positions(cell[d.cell])
  BY <1>1, <1>2, OpensFacts
<1>4. \A b \in Cell \ {d.cell} : cell'[b] = cell[b]
  BY <1>2, <1>3, PutFacts
<1> QED BY <1>1, <1>2, <1>4, WriteSteps

LEMMA CopySteps ==
  ASSUME LInv, LInv', NEW h \in Handle, NEW s \in Handle, CopyTo(h, s),
         h \in Usable \/ h \in Object \ alive,
         alive' = alive \cup ({h} \cap Object)
  PROVE  StoreStep
<1>1. PICK d \in Place :
        /\ Opens(h, d)
        /\ IF At(s) = d THEN UNCHANGED <<cell, ref>>
           ELSE /\ \E v \in Copies(d, At(s)) : Fits(d, v) /\ cell' = Put(d, v)
                /\ ForgetElements(d)
  BY DEF CopyTo
<1>2. \A b \in Cell \ {d.cell} : cell'[b] = cell[b]
  <2>1. CASE At(s) = d
    BY <1>1, <2>1
  <2>2. CASE At(s) # d
    <3>1. PICK v \in Copies(d, At(s)) : Fits(d, v) /\ cell' = Put(d, v)
      BY <1>1, <2>2
    <3>2. v \in Data
      BY <3>1, CopiesAreData DEF CopyTo
    <3>3. d.at > 0 => d.at \in Positions(cell[d.cell])
      BY <1>1, OpensFacts
    <3> QED BY <3>1, <3>2, <3>3, PutFacts
  <2> QED BY <2>1, <2>2
<1> QED BY <1>1, <1>2, WriteSteps

LEMMA DefaultSteps ==
  ASSUME LInv, LInv', NEW o \in Object, Default(o)
  PROVE  StoreStep
<1>1. o \notin alive /\ alive' = alive \cup {o}
  BY DEF Default
<1>2. CASE UNCHANGED <<own, cell, free>>
  <2>1. \A q \in Object \ {o} : Denotes(q)' = Denotes(q)
    BY <1>1, <1>2 DEF Denotes
  <2> QED BY <2>1, OneChanges
<1>3. CASE \E c \in Cell : Opened(o, c) /\ cell' = [cell EXCEPT ![c] = Empty(KindOf[o])]
  <2>1. PICK c \in Cell : Opened(o, c) /\ cell' = [cell EXCEPT ![c] = Empty(KindOf[o])]
    BY <1>3
  <2>2. own'[o] = c /\ \A q \in Object \ {o} : own'[q] = own[q]
    BY <2>1, OpenedFacts
  <2>3. \A b \in Cell \ {c} : cell'[b] = cell[b]
    BY <2>1 DEF LInv
  <2>4. \A q \in Object \ {o} : own'[q] = own[q] /\ (q \in alive' <=> q \in alive)
    BY <1>1, <2>2
  <2> QED BY <2>2, <2>3, <2>4, CellChanges
<1> QED BY <1>2, <1>3 DEF Default

LEMMA DestroySteps ==
  ASSUME LInv, LInv', NEW o \in Object, Destroy(o)
  PROVE  StoreStep
<1>1. ASSUME NEW q \in Object \ {o}
      PROVE  Denotes(q)' = Denotes(q)
  <2>1. own'[q] = own[q] /\ (q \in alive' <=> q \in alive)
    BY DEF Destroy, LInv, OInv, Ownership
  <2>2. own[q] \in Cell => own[q] # own[o]
    BY Apart
  <2>3. own[q] \in Cell => cell'[own[q]] = cell[own[q]]
    BY <2>2 DEF Destroy, Deallocated
  <2> QED BY <2>1, <2>3, OthersStay
<1> QED BY <1>1, OneChanges

\* Cells handed from p to o, whose own cell, if it is lost, nobody else has.
LEMMA CellHandedOver ==
  ASSUME LInv, LInv', NEW o \in Object, NEW p \in alive, o # p,
         own'[o] = own[p], {o, p} \subseteq alive',
         own[p] \in Cell => cell'[own[p]] = cell[own[p]],
         \A q \in Object \ {o, p} :
           /\ own'[q] = own[q] /\ (q \in alive' <=> q \in alive)
           /\ own[q] \in Cell => cell'[own[q]] = cell[own[q]]
  PROVE  StoreStep
<1>1. p \in Object /\ own[p] \in Cell \cup {NoCell}
  BY DEF LInv, OInv, Ownership
<1>2. Denotes(o)' = Denotes(p)
  <2>1. CASE own[p] = NoCell
    BY <2>1 DEF Denotes
  <2>2. CASE own[p] # NoCell
    BY <1>1, <2>2 DEF Denotes
  <2> QED BY <2>1, <2>2
<1>3. \A q \in Object \ {o, p} : Denotes(q)' = Denotes(q)
  BY OthersStay
<1>4. Holds(Denotes(p), Denotes(p)) /\ Holds(Denotes(o)', Denotes(p))
  BY <1>2 DEF Holds
<1> QED BY <1>1, <1>3, <1>4, OneHandsOver

LEMMA MoveSteps ==
  ASSUME LInv, LInv', NEW o \in Object, NEW p \in Object,
         MoveConstruct(o, p) \/ MoveAssign(o, p) \/ Swap(o, p)
  PROVE  StoreStep
<1>1. own \in [Object -> Cell \cup {NoCell}]
  BY DEF LInv, OInv, Ownership
<1>2. CASE MoveConstruct(o, p)
  <2>1. /\ o \notin alive /\ p \in alive /\ o # p /\ alive' = alive \cup {o}
        /\ own' = [own EXCEPT ![o] = own[p], ![p] = NoCell] /\ cell' = cell
    BY <1>2 DEF MoveConstruct
  <2>2. own'[o] = own[p] /\ \A q \in Object \ {o, p} : own'[q] = own[q]
    BY <1>1, <2>1
  <2>3. \A q \in Object \ {o, p} : q \in alive' <=> q \in alive
    BY <2>1
  <2>4. \A q \in Object : cell'[own[q]] = cell[own[q]]
    BY <2>1
  <2> QED BY <2>1, <2>2, <2>3, <2>4, CellHandedOver
<1>3. CASE MoveAssign(o, p)
  <2>1. /\ o \in alive /\ p \in alive /\ own[o] # own[p] /\ alive' = alive
        /\ own' = [own EXCEPT ![o] = own[p], ![p] = NoCell]
        /\ cell' = [b \in Cell |-> IF b = own[o] THEN Null ELSE cell[b]]
    BY <1>3 DEF MoveAssign, Deallocated
  <2>2. o # p /\ own'[o] = own[p] /\ \A q \in Object \ {o, p} : own'[q] = own[q]
    BY <1>1, <2>1
  <2>3. \A q \in Object \ {o} : own[q] \in Cell => cell'[own[q]] = cell[own[q]]
    <3>1. ASSUME NEW q \in Object \ {o}, own[q] \in Cell
          PROVE  cell'[own[q]] = cell[own[q]]
      <4>1. own[q] # own[o]
        BY <3>1, NamesAreDistinct DEF LInv, OInv, CellsHaveOneOwner
      <4>2. PICK b \in Cell : b = own[q] /\ b # own[o]
        BY <3>1, <4>1
      <4>3. cell'[b] = cell[b]
        BY <2>1, <4>2
      <4> QED BY <4>2, <4>3
    <3> QED BY <3>1
  <2>4. \A q \in Object \ {o, p} :
          /\ own'[q] = own[q] /\ (q \in alive' <=> q \in alive)
          /\ own[q] \in Cell => cell'[own[q]] = cell[own[q]]
    BY <2>1, <2>2, <2>3
  <2>5. own[p] \in Cell => cell'[own[p]] = cell[own[p]]
    BY <2>2, <2>3
  <2>6. o # p /\ own'[o] = own[p] /\ {o, p} \subseteq alive' /\ p \in alive
    BY <2>1, <2>2
  <2> QED BY <2>4, <2>5, <2>6, CellHandedOver
<1>4. CASE Swap(o, p)
  <2>1. /\ o \in alive /\ p \in alive /\ o # p /\ alive' = alive /\ cell' = cell
        /\ own' = [own EXCEPT ![o] = own[p], ![p] = own[o]]
    BY <1>4 DEF Swap
  <2>2. own'[o] = own[p]
    BY <1>1, <2>1
  <2>3. \A q \in Object \ {o, p} : own'[q] = own[q] /\ (q \in alive' <=> q \in alive)
    <3>1. own' = [own EXCEPT ![o] = own[p], ![p] = own[o]]
      BY <2>1
    <3>2. \A q \in Object \ {o, p} : own'[q] = own[q]
      BY <1>1, <3>1
    <3> QED BY <2>1, <3>2
  <2>4. \A q \in Object : cell'[own[q]] = cell[own[q]]
    BY <2>1
  <2>5. \A q \in Object \ {o, p} :
          /\ own'[q] = own[q] /\ (q \in alive' <=> q \in alive)
          /\ own[q] \in Cell => cell'[own[q]] = cell[own[q]]
    BY <2>1, <2>3, <2>4
  <2>6. own[p] \in Cell => cell'[own[p]] = cell[own[p]]
    BY <2>4
  <2>7. o # p /\ own'[o] = own[p] /\ {o, p} \subseteq alive' /\ p \in alive
    BY <2>1, <2>2
  <2> QED BY <2>5, <2>6, <2>7, CellHandedOver
<1> QED BY <1>2, <1>3, <1>4

\* What a place holds is what its cell holds, or an element of that.
LEMMA ReadIsHeld ==
  ASSUME LInv, NEW s \in Place, Live(s), NEW p \in alive, own[p] = s.cell
  PROVE  /\ Holds(Denotes(p), Read(s))
         /\ Read(s) \in Scalars \/ Read(s) = Denotes(p)
<1>1. s.cell \in Cell /\ s.at \in Nat /\ s # NoPlace
  BY PlaceFacts
<1>2. Denotes(p) = cell[s.cell]
  BY <1>1, NamesAreDistinct DEF Denotes
<1>3. CASE s.at = 0
  BY <1>1, <1>2, <1>3 DEF Read, Holds
<1>4. CASE s.at # 0
  <2>1. s.at > 0
    BY <1>1, <1>4
  <2>2. IsTree(cell[s.cell]) /\ s.at \in DOMAIN cell[s.cell].items
    BY <2>1 DEF Live, Positions
  <2>3. Read(s) = Scalar(ElemAt(cell[s.cell], s.at))
    BY <1>1, <1>4 DEF Read
  <2>4. Holds(Denotes(p), Read(s))
    BY <1>2, <2>2, <2>3 DEF Holds
  <2>5. Read(s) \in Data /\ ~IsTree(Read(s))
    BY <1>1, <2>1, ReadIsData DEF Good
  <2>6. Read(s) \in Scalars
    BY <2>5, DataShape
  <2> QED BY <2>4, <2>6
<1> QED BY <1>3, <1>4

\* The content of s goes to the cell c of o.
LEMMA ContentHandedOver ==
  ASSUME LInv, LInv', NEW o \in Object, NEW c \in Cell, Opened(o, c),
         alive' = alive \cup {o}, NEW s \in Place, Live(s),
         own[o] # s.cell, cell'[c] = Read(s),
         \A b \in Cell \ {c, s.cell} : cell'[b] = cell[b]
  PROVE  StoreStep
<1>1. s.cell \in Cell \ free
  BY DEF Live
<1>2. PICK p \in alive : own[p] = s.cell
  BY <1>1, CellsInUse DEF LInv
<1>3. p \in Object /\ p # o
  BY <1>2 DEF LInv, OInv, Ownership
<1>4. own'[o] = c /\ \A q \in Object \ {o} : own'[q] = own[q]
  BY OpenedFacts
<1>5. Denotes(o)' = Read(s)
  BY <1>4, NamesAreDistinct DEF Denotes
<1>6. ASSUME NEW q \in Object \ {o, p}
      PROVE  Denotes(q)' = Denotes(q)
  <2>1. own'[q] = own[q] /\ (q \in alive' <=> q \in alive)
    BY <1>4
  <2>2. own[q] \in Cell => own[q] # s.cell
    BY <1>1, <1>2, <1>3, Apart
  <2>3. own[q] \in Cell => own[q] # c
    BY <1>4, <2>1, NamesAreDistinct DEF LInv, OInv, CellsHaveOneOwner
  <2>4. own[q] \in Cell => cell'[own[q]] = cell[own[q]]
    BY <2>2, <2>3
  <2> QED BY <2>1, <2>4, OthersStay
<1>7. /\ Holds(Denotes(p), Read(s)) /\ (Read(s) \in Scalars \/ Read(s) = Denotes(p))
  BY <1>2, ReadIsHeld
<1>8. Holds(Denotes(o)', Read(s))
  BY <1>5 DEF Holds
<1> QED BY <1>2, <1>3, <1>6, <1>7, <1>8, OneHandsOver

LEMMA ContentSteps ==
  ASSUME LInv, LInv', NEW o \in Object, NEW p \in Object,
         MoveConstructContent(o, p) \/ MoveAssignContent(o, p)
  PROVE  StoreStep
<1>1. /\ p \in alive /\ KindOf[p] # "any" /\ alive' = alive \cup {o} /\ o # p
      /\ \E c \in Cell : Opened(o, c) /\ MoveContent(Top(c), At(p), Empty(KindOf[p]))
  BY DEF MoveConstructContent, MoveAssignContent, LInv, OInv, Ownership
<1>2. PICK c \in Cell : Opened(o, c) /\ MoveContent(Top(c), At(p), Empty(KindOf[p]))
  BY <1>1
<1>3. PICK s \in Place : /\ s = At(p) /\ Live(s) /\ s.cell = own[p] /\ ~(s.at > 0)
                         /\ own[p] \in Cell \ free
  BY <1>1, ListSource
<1>4. own[o] # s.cell
  BY <1>1, <1>3, Apart
<1>5. s.cell # c
  BY <1>2, <1>3, <1>4 DEF Opened
<1>6. Fits(s, Empty(KindOf[p])) /\ Empty(KindOf[p]) \in Data
  BY <1>1, <1>3, ListSource DEF Fits
<1>7. cell'[c] = Read(s) /\ \A b \in Cell \ {c, s.cell} : cell'[b] = cell[b]
  BY <1>2, <1>3, <1>5, <1>6, MovedCells
<1> QED BY <1>1, <1>2, <1>3, <1>4, <1>7, ContentHandedOver

LEMMA MoveOutSteps ==
  ASSUME LInv, LInv', NEW o \in Object, NEW h, NEW k \in {"null", "list", "map"},
         MoveOut(o, h, Empty(k))
  PROVE  StoreStep
<1>1. o \notin alive /\ alive' = alive \cup {o}
  BY DEF MoveOut
<1>2. PICK c \in free : Opened(o, c) /\ MoveContent(Top(c), At(h), Empty(k))
  BY DEF MoveOut
<1>3. PICK s \in Place : s = At(h) /\ Live(s)
  BY LeftBehind
<1>4. Empty(k) \in Data /\ Fits(s, Empty(k))
  BY <1>3, LeftBehind
<1>5. c \in Cell /\ s.cell \in Cell \ free /\ own[o] = NoCell
  BY <1>1, <1>2, <1>3 DEF LInv, OInv, Ownership, CellsHaveOneOwner, Live
<1>6. s.cell # c /\ own[o] # s.cell
  BY <1>2, <1>5, NamesAreDistinct
<1>7. cell'[c] = Read(s) /\ \A b \in Cell \ {c, s.cell} : cell'[b] = cell[b]
  BY <1>2, <1>3, <1>4, <1>5, <1>6, MovedCells
<1> QED BY <1>1, <1>2, <1>3, <1>5, <1>6, <1>7, ContentHandedOver

LEMMA SwapContentSteps ==
  ASSUME LInv, LInv', NEW o \in Object, NEW r \in Ref, SwapContent(o, r)
  PROVE  StoreStep
<1>1. PICK d \in Place : d = ref[r]
  BY DEF SwapContent
<1>2. /\ o \in alive /\ KindOf[o] = "any" /\ Live(d) /\ own[o] # d.cell
      /\ Fits(d, Read(At(o))) /\ alive' = alive \cup {o}
  BY <1>1 DEF SwapContent, LInv, LiveRefs
<1>3. PICK c \in Cell :
        /\ Opened(o, c)
        /\ cell' = [Put(d, cell[c]) EXCEPT ![c] = Read(d)]
  BY <1>1 DEF SwapContent
<1>4. cell'[c] = Read(d) /\ \A b \in Cell \ {c, d.cell} : cell'[b] = cell[b]
  BY <1>2, <1>3, SwappedCells
<1> QED BY <1>2, <1>3, <1>4, ContentHandedOver

\* The elements of a list or a map are rearranged where they are.
LEMMA ItemsChange ==
  ASSUME LInv, LInv', NEW h, NEW d \in Place, NEW k \in {"list", "map"}, Names(h, d, k),
         NEW s, Refilled(d, s), UNCHANGED <<alive, own>>
  PROVE  StoreStep
<1>1. d.cell \in Cell \ free
  BY NamesFacts
<1>2. \A b \in Cell \ {d.cell} : cell'[b] = cell[b]
  BY DEF Refilled, LInv
<1> QED BY <1>1, <1>2, OwnerChanges

LEMMA RebuildSteps ==
  ASSUME LInv, LInv', NEW h, NEW s,
         \/ PushBack(h, s)
         \/ \E k : PushEntry(h, k, s)
         \/ \E pos, n : Insert(h, pos, n, s)
         \/ \E k \in {"list", "map"} : Clear(h, k)
  PROVE  StoreStep
<1>1. PICK d \in Place, k \in {"list", "map"} : Names(h, d, k) /\ \E t : Rebuilt(d, t)
  BY DEF PushBack, PushEntry, Insert, Clear
<1>2. PICK t : Names(h, d, k) /\ Rebuilt(d, t)
  BY <1>1
<1>3. Refilled(d, t) /\ UNCHANGED <<alive, own>>
  BY <1>2 DEF Rebuilt, Refilled
<1> QED BY <1>2, <1>3, ItemsChange

LEMMA ShrinkSteps ==
  ASSUME LInv, LInv', NEW h,
         \/ \E k \in {"list", "map"} : \E i, j : Erase(h, k, i, j)
         \/ \E k : EraseKey(h, k)
  PROVE  StoreStep
<1>1. CASE \E k \in {"list", "map"} : \E i, j : Erase(h, k, i, j)
  <2>1. PICK k \in {"list", "map"} : \E i, j : Erase(h, k, i, j)
    BY <1>1
  <2>2. PICK i, j : Erase(h, k, i, j)
    BY <2>1
  <2>3. PICK d \in Place :
          /\ Names(h, d, k)
          /\ cell' = [cell EXCEPT ![d.cell].items =
                        SubSeq(@, 1, i - 1) \o SubSeq(@, j + 1, Len(@))]
          /\ UNCHANGED <<alive, own>>
    BY <2>2 DEF Erase
  <2>4. d.cell \in Cell
    BY <2>3, NamesFacts
  <2>5. PICK t : t = SubSeq(cell[d.cell].items, 1, i - 1)
                       \o SubSeq(cell[d.cell].items, j + 1, Len(cell[d.cell].items))
    OBVIOUS
  <2>6. Refilled(d, t)
    BY <2>3, <2>4, <2>5 DEF Refilled
  <2> QED BY <2>3, <2>6, ItemsChange
<1>2. CASE \E k : EraseKey(h, k)
  <2>1. PICK k : EraseKey(h, k)
    BY <1>2
  <2>2. PICK d \in Place :
          /\ Names(h, d, "map")
          /\ cell' = [cell EXCEPT ![d.cell].items =
                        KeepAt(@, DOMAIN @ \ Keyed(cell[d.cell], k))]
          /\ UNCHANGED <<alive, own>>
    BY <2>1 DEF EraseKey
  <2>3. PICK t : t = KeepAt(cell[d.cell].items,
                            DOMAIN cell[d.cell].items \ Keyed(cell[d.cell], k))
    OBVIOUS
  <2>4. Refilled(d, t)
    BY <2>2, <2>3 DEF Refilled
  <2> QED BY <2>2, <2>4, ItemsChange
<1> QED BY <1>1, <1>2

LEMMA LookupSteps ==
  ASSUME LInv, LInv', NEW r, NEW h, NEW k, Lookup(r, h, k)
  PROVE  StoreStep
<1>1. PICK d \in Place :
        /\ Names(h, d, "map")
        /\ \/ UNCHANGED cell
           \/ cell' = [cell EXCEPT ![d.cell].items = Append(@, [key |-> k, val |-> Nil])]
        /\ UNCHANGED <<alive, own>>
  BY DEF Lookup
<1>2. CASE UNCHANGED cell
  BY <1>1, <1>2, NothingChanges
<1>3. CASE cell' = [cell EXCEPT ![d.cell].items = Append(@, [key |-> k, val |-> Nil])]
  <2>1. PICK t : t = Append(cell[d.cell].items, [key |-> k, val |-> Nil])
    OBVIOUS
  <2>2. Refilled(d, t)
    BY <1>3, <2>1 DEF Refilled
  <2> QED BY <1>1, <2>2, ItemsChange
<1> QED BY <1>1, <1>2, <1>3

\* What is appended is held.
LEMMA LastIsHeld ==
  ASSUME NEW s \in Seq(Elem), NEW v \in Data, ~IsTree(v)
  PROVE  Holds([kind |-> "list", items |-> Append(s, AsElem(v))], v)
<1>1. AsElem(v) \in Elem /\ Scalar(AsElem(v)) = v
  BY AtomIsElem
<1>2. PICK e \in Elem : e = AsElem(v)
  BY <1>1
<1>3. PICK n \in Nat : n = Len(s) + 1
  OBVIOUS
<1>4. n \in DOMAIN Append(s, e) /\ Append(s, e)[n] = e
  BY <1>3
<1>5. PICK t : t = Append(s, e)
  OBVIOUS
<1>6. PICK w : w = [kind |-> "list", items |-> t]
  OBVIOUS
<1>7. w.kind = "list" /\ w.items = t
  BY <1>6
<1>8. IsTree(w) /\ n \in DOMAIN w.items /\ ElemAt(w, n) = e
  BY <1>4, <1>5, <1>7 DEF IsTree, ElemAt
<1>9. Holds(w, v)
  BY <1>1, <1>2, <1>8 DEF Holds
<1> QED BY <1>2, <1>5, <1>6, <1>9

LEMMA PushBackMoveSteps ==
  ASSUME LInv, LInv', NEW h, NEW p \in Object, PushBackMove(h, p)
  PROVE  StoreStep
<1>1. PICK d \in Place :
        /\ Names(h, d, "list") /\ Len(Items(d)) < MaxLen
        /\ p \in alive /\ ~IsTree(Read(At(p)))
        /\ cell' = [c \in Cell |->
                      IF c = own[p] THEN Null
                      ELSE IF c = d.cell
                      THEN [cell[c] EXCEPT !.items = Append(@, AsElem(Read(At(p))))]
                      ELSE cell[c]]
        /\ UNCHANGED <<alive, own, free>>
  BY DEF PushBackMove
<1>2. PICK v : v = Read(At(p))
  OBVIOUS
<1>3. /\ own[p] # d.cell /\ v \in Data /\ ~IsTree(v)
      /\ \A b \in Cell \ {d.cell, own[p]} : cell'[b] = cell[b]
      /\ cell'[d.cell] = [kind |-> "list", items |-> Append(Items(d), AsElem(v))]
  BY <1>1, <1>2, PushBackMoved
<1>4. d.cell \in Cell \ free /\ Items(d) \in Seq(Elem)
  BY <1>1, NamesFacts DEF Content
<1>5. PICK q \in alive : own[q] = d.cell
  BY <1>4, CellsInUse DEF LInv
<1>6. q \in Object /\ q # p
  BY <1>3, <1>5 DEF LInv, OInv, Ownership
<1>7. Denotes(p) = v
  <2>1. p \notin Ref /\ own[p] \in Cell \cup {NoCell}
    BY NamesAreDistinct DEF LInv, OInv, Ownership
  <2>2. CASE own[p] = NoCell
    BY <1>1, <1>2, <2>1, <2>2 DEF Denotes, At, Read
  <2>3. CASE own[p] # NoCell
    <3>1. own[p] \in Cell /\ At(p) = Top(own[p])
      BY <2>1, <2>3 DEF At
    <3>2. PICK s \in Place : s = Top(own[p]) /\ s.cell = own[p] /\ s.at = 0 /\ s # NoPlace
      BY <3>1, TopFacts, PlaceFacts
    <3>3. v = cell[own[p]]
      BY <1>2, <3>1, <3>2 DEF Read
    <3> QED BY <1>1, <2>3, <3>3 DEF Denotes
  <2> QED BY <2>2, <2>3
<1>8. Holds(Denotes(q)', v)
  <2>1. Denotes(q)' = [kind |-> "list", items |-> Append(Items(d), AsElem(v))]
    BY <1>1, <1>3, <1>4, <1>5, NamesAreDistinct DEF Denotes
  <2> QED BY <1>3, <1>4, <2>1, LastIsHeld
<1>9. ASSUME NEW x \in Object \ {q, p}
      PROVE  Denotes(x)' = Denotes(x)
  <2>1. own'[x] = own[x] /\ (x \in alive' <=> x \in alive)
    BY <1>1
  <2>2. own[x] \in Cell => own[x] # d.cell /\ own[x] # own[p]
    BY <1>4, <1>5, <1>6, NamesAreDistinct DEF LInv, OInv, CellsHaveOneOwner
  <2>3. own[x] \in Cell => cell'[own[x]] = cell[own[x]]
    BY <1>3, <2>2
  <2> QED BY <2>1, <2>3, OthersStay
<1>10. Holds(Denotes(p), v)
  BY <1>7 DEF Holds
<1> QED BY <1>1, <1>5, <1>6, <1>7, <1>8, <1>9, <1>10, OneHandsOver

-----------------------------------------------------------------------------

LEMMA InitStores == Init => Store!Init
BY DEF Init, Store!Init, Denotes

LEMMA NextStores ==
  ASSUME LInv, LInv', [Next]_vars
  PROVE  StoreStep
<1>1. CASE UNCHANGED vars
  BY <1>1, NothingChanges DEF vars
<1>2. CASE \E r \in Ref : Release(r)
  BY <1>2, NothingChanges DEF Release
<1>3. CASE \E o \in Object : ObjectSteps(o)
  <2>1. PICK o \in Object : ObjectSteps(o)
    BY <1>3
  <2>2. CASE Default(o) \/ Destroy(o)
    BY <2>2, DefaultSteps, DestroySteps
  <2>3. CASE \E h \in Handle : CopyConstruct(o, h)
    <3>1. PICK h \in Handle : CopyConstruct(o, h)
      BY <2>3
    <3>2. o \in Handle /\ o \in Object \ alive /\ alive' = alive \cup ({o} \cap Object)
      BY <3>1 DEF CopyConstruct, Handle
    <3> QED BY <3>1, <3>2, CopySteps DEF CopyConstruct
  <2>4. CASE \E p \in Object : MoveConstruct(o, p) \/ MoveAssign(o, p) \/ Swap(o, p)
    BY <2>4, MoveSteps
  <2>5. CASE \E p \in Object : MoveConstructContent(o, p) \/ MoveAssignContent(o, p)
    BY <2>5, ContentSteps
  <2>6. CASE \E r \in Ref : SwapContent(o, r)
    BY <2>6, SwapContentSteps
  <2>7. CASE \/ \E r \in Ref : TakeRef(r, o)
             \/ \E r \in Ref, i \in 1 .. MaxLen : TakeElement(r, o, i)
    BY <2>7, NothingChanges DEF TakeRef, TakeElement
  <2> QED BY <2>1, <2>2, <2>3, <2>4, <2>5, <2>6, <2>7 DEF ObjectSteps
<1>4. CASE \E h \in Handle : ReferenceSteps(h)
  <2>1. PICK h \in Handle : ReferenceSteps(h)
    BY <1>4
  <2>2. CASE \E s \in Handle : CopyAssign(h, s)
    <3>1. PICK s \in Handle : CopyAssign(h, s)
      BY <2>2
    <3>2. h \in Usable /\ alive' = alive \cup ({h} \cap Object)
      BY <3>1, NamesAreDistinct DEF CopyAssign, Usable, LInv, OInv, Ownership
    <3> QED BY <3>1, <3>2, CopySteps DEF CopyAssign
  <2>3. CASE \E v \in Scalars \cup {Empty("list"), Empty("map")} : Set(h, v)
    <3>1. Scalars \cup {Empty("list"), Empty("map")} \subseteq Data
      BY EmptyIsData DEF Data
    <3> QED BY <2>3, <3>1, SetSteps
  <2>4. CASE \E o \in Object, k \in {"null", "list", "map"} : MoveOut(o, h, Empty(k))
    BY <2>4, MoveOutSteps
  <2> QED BY <2>1, <2>2, <2>3, <2>4 DEF ReferenceSteps
<1>5. CASE \E h \in Handle : ListSteps(h)
  BY <1>5, RebuildSteps, PushBackMoveSteps, ShrinkSteps DEF ListSteps
<1>6. CASE \E h \in Handle : MapSteps(h)
  BY <1>6, LookupSteps, RebuildSteps, ShrinkSteps DEF MapSteps
<1> QED BY <1>1, <1>2, <1>3, <1>4, <1>5, <1>6 DEF Next

(* First-class values are distinct objects (cci_value.h, "strict value        *)
(* semantics"): whatever cells they take from the pool, give away, swap or    *)
(* reuse, and whatever references and elements the program writes through,    *)
(* a step changes the value of one object, or of two of which one hands a     *)
(* value it held over to the other (the moves, swap and push_back(move)).     *)
THEOREM ObjectsAreValues == Spec => ImplementsValueStore
<1>1. Init => Store!Init
  BY InitStores
<1>2. LInv /\ LInv' /\ [Next]_vars => [Store!Next]_[o \in Object |-> Denotes(o)]
  BY NextStores DEF StoreStep
<1> QED BY <1>1, <1>2, LiveInvariant, PTL DEF Spec, ImplementsValueStore, Store!Spec

(* Type correctness: no operation leaves an object with anything but a cell   *)
(* or none, a cell without data or a reference to an element beyond the end   *)
(* of what a list or a map may hold (cci_value.cpp, impl_pool and the         *)
(* operations on cci_value, cci_value_list and cci_value_map).                *)
THEOREM ValuesAreTyped == Spec => []TypeOK
<1>1. LInv => TypeOK
  BY DEF LInv, OInv, Ownership, RefType, TypeOK
<1> QED BY <1>1, LiveInvariant, PTL
=============================================================================

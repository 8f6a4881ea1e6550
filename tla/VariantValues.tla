---------------------------- MODULE VariantValues ----------------------------
(* cci_value, cci_value_list and cci_value_map: objects that own a cell of a  *)
(* pool (own_pimpl_, impl_pool) and references (cci_value_ref) that point     *)
(* into the cell of an object, or at an element of the list or map there.     *)
(*                                                                            *)
(* RapidJSON keeps what is inside a cell and is external; a place is a cell   *)
(* (at = 0) or an element of it (at > 0).  A reference is used only while its *)
(* place exists: what an operation frees, shifts or may reallocate is         *)
(* forgotten by the caller (Forget), and what it moves is followed (Follow).  *)
EXTENDS VariantData, Vectors

CONSTANTS
  Object,
  KindOf,     \* the class of an object: "any" (cci_value), "list" or "map"
  Ref,        \* references to values and to elements
  Cell,       \* cells of the pool
  NoCell,     \* a null own_pimpl_
  NoPlace,    \* a reference taken from an object without a cell
  Forgotten,  \* a reference that is not used any more
  Absent

ASSUME ClassesAreKnown == KindOf \in [Object -> {"any", "list", "map"}]

ASSUME NamesAreDistinct ==
  /\ NoCell \notin Cell /\ Object \cap Ref = {}
  /\ NoPlace # Forgotten /\ {NoPlace, Forgotten} \cap [cell : Cell, at : Nat] = {}
  /\ MaxLen \in Nat

ASSUME AbsentIsNoData == Absent \notin Data

VARIABLES
  alive,      \* the objects that exist
  own,        \* own_pimpl_, and pimpl_ with it
  cell,       \* what each cell holds
  free,       \* the cells no object owns: the pool's free list and the heap
  ref         \* the place a reference points to

vars == <<alive, own, cell, free, ref>>

Place == [cell : Cell, at : 0 .. MaxLen]

Handle == Object \cup Ref

TypeOK ==
  /\ alive \subseteq Object
  /\ own \in [Object -> Cell \cup {NoCell}]
  /\ cell \in [Cell -> Data]
  /\ free \subseteq Cell
  /\ ref \in [Ref -> Place \cup {NoPlace, Forgotten}]

Init ==
  /\ alive = {}
  /\ own = [o \in Object |-> NoCell]
  /\ cell = [c \in Cell |-> Null]
  /\ free = Cell
  /\ ref = [r \in Ref |-> Forgotten]

Top(c) == [cell |-> c, at |-> 0]

\* The handles a caller may use, and the place each stands for.
Usable == alive \cup {r \in Ref : ref[r] # Forgotten}
At(h) ==
  IF h \in Ref THEN ref[h] ELSE IF own[h] = NoCell THEN NoPlace ELSE Top(own[h])

Read(pl) ==
  IF pl = NoPlace THEN Null
  ELSE IF pl.at = 0 THEN cell[pl.cell]
  ELSE Scalar(ElemAt(cell[pl.cell], pl.at))

\* The cells once v has been written at pl.
Put(pl, v) ==
  [cell EXCEPT ![pl.cell] = IF pl.at = 0 THEN v ELSE PutAt(@, pl.at, AsElem(v))]

\* Bound: only scalars fit into an element.
Fits(pl, v) == pl.at > 0 => ~IsTree(v)

Beneath(pl, d) == pl.cell = d.cell /\ d.at = 0 /\ pl.at > 0

Forget(P(_)) ==
  ref' = [r \in Ref |-> IF ref[r] \in Place /\ P(ref[r]) THEN Forgotten ELSE ref[r]]

ForgetElements(d) == Forget(LAMBDA pl : Beneath(pl, d))

\* The elements at from are at to now, those that were at to are gone.
Follow(from, to) ==
  ref' = [r \in Ref |->
            IF ref[r] \notin Place THEN ref[r]
            ELSE IF Beneath(ref[r], from) THEN [ref[r] EXCEPT !.cell = to.cell]
            ELSE IF Beneath(ref[r], to) THEN Forgotten
            ELSE ref[r]]

-----------------------------------------------------------------------------
(* Objects.                                                                   *)

\* Mutant: an object without a cell is given one that stays in the pool.
OpenedUnlinked(o, c) ==
  /\ c \in IF own[o] = NoCell THEN free ELSE {own[o]}
  /\ own' = [own EXCEPT ![o] = c]
  /\ UNCHANGED free

\* init and do_init: the object has the cell c once this is done.
Opened(o, c) ==
  /\ c \in IF own[o] = NoCell THEN free ELSE {own[o]}
  /\ own' = [own EXCEPT ![o] = c]
  /\ free' = free \ {c}

\* A destination a value is written to: only a cci_value allocates a cell.
Opens(h, d) ==
  \/ h \in Ref /\ d = ref[h] /\ UNCHANGED <<own, free>>
  \/ h \in Object /\ d.at = 0 /\ Opened(h, d.cell)

\* cci_value() has no cell yet, a list or a map has one from the start.
Default(o) ==
  /\ o \notin alive
  /\ alive' = alive \cup {o}
  /\ \/ KindOf[o] = "any" /\ UNCHANGED <<own, cell, free>>
     \/ /\ KindOf[o] # "any"
        /\ \E c \in Cell :
             Opened(o, c) /\ cell' = [cell EXCEPT ![c] = Empty(KindOf[o])]
  /\ UNCHANGED ref

\* Destroying or leaving a cell gives it back and ends every use of it.
Deallocated(c) ==
  /\ cell' = [b \in Cell |-> IF b = c THEN Null ELSE cell[b]]
  /\ free' = free \cup ({c} \cap Cell)
  /\ Forget(LAMBDA pl : pl.cell = c)

\* What CopyFrom leaves at d.  It destroys the destination first: a copy of an
\* element of the destination reads freed memory.
Copies(d, s) ==
  IF s # NoPlace /\ Beneath(s, d) /\ Read(s) # Null THEN Scalars ELSE {Read(s)}

\* A list (map) takes lists (maps) only.
Accepts(h, v) == h \in Object => KindOf[h] \in {"any", v.kind}

CopyTo(h, s) ==
  /\ s \in Usable
  /\ Accepts(h, Read(At(s)))
  /\ \E d \in Place :
       /\ Opens(h, d)
       /\ IF At(s) = d THEN UNCHANGED <<cell, ref>>
          ELSE /\ \E v \in Copies(d, At(s)) : Fits(d, v) /\ cell' = Put(d, v)
               /\ ForgetElements(d)

CopyAssign(h, s) ==
  /\ h \in Usable
  /\ CopyTo(h, s)
  /\ UNCHANGED alive

\* *this = that on an object just initialised.
CopyConstruct(o, s) ==
  /\ o \notin alive
  /\ CopyTo(o, s)
  /\ alive' = alive \cup {o}

\* cci_value takes the cell over.
MoveConstruct(o, p) ==
  /\ o \notin alive /\ p \in alive
  /\ KindOf[o] = "any" /\ KindOf[p] = "any"
  /\ alive' = alive \cup {o}
  /\ own' = [own EXCEPT ![o] = own[p], ![p] = NoCell]
  /\ UNCHANGED <<cell, free, ref>>

\* The content goes to d, what the source holds afterwards is left behind.
MoveContent(d, s, left) ==
  /\ Fits(d, Read(s))
  /\ cell' = [Put(d, Read(s)) EXCEPT ![s.cell] = Put(s, left)[s.cell]]
  /\ Follow(s, d)

\* A list (map) object keeps its cell and is empty afterwards.
MoveConstructContent(o, p) ==
  /\ o \notin alive /\ p \in alive
  /\ KindOf[p] # "any" /\ KindOf[o] \in {"any", KindOf[p]}
  /\ alive' = alive \cup {o}
  /\ \E c \in free : Opened(o, c) /\ MoveContent(Top(c), At(p), Empty(KindOf[p]))

\* Mutant: the source keeps the cell it has given away.
MoveAssignShared(o, p) ==
  /\ {o, p} \subseteq alive
  /\ KindOf[o] = "any" /\ KindOf[p] = "any"
  /\ own[o] # own[p]
  /\ own' = [own EXCEPT ![o] = own[p]]
  /\ Deallocated(own[o])
  /\ UNCHANGED alive

\* Mutant: the old cell is not given back.
MoveAssignLeaks(o, p) ==
  /\ {o, p} \subseteq alive
  /\ KindOf[o] = "any" /\ KindOf[p] = "any"
  /\ own[o] # own[p]
  /\ own' = [own EXCEPT ![o] = own[p], ![p] = NoCell]
  /\ UNCHANGED <<alive, cell, free, ref>>

MoveAssign(o, p) ==
  /\ {o, p} \subseteq alive
  /\ KindOf[o] = "any" /\ KindOf[p] = "any"
  /\ own[o] # own[p]
  /\ own' = [own EXCEPT ![o] = own[p], ![p] = NoCell]
  /\ Deallocated(own[o])
  /\ UNCHANGED alive

MoveAssignContent(o, p) ==
  /\ {o, p} \subseteq alive
  /\ KindOf[p] # "any" /\ KindOf[o] \in {"any", KindOf[p]} /\ o # p
  /\ \E c \in Cell : Opened(o, c) /\ MoveContent(Top(c), At(p), Empty(KindOf[p]))
  /\ UNCHANGED alive

\* The objects exchange their cells.
Swap(o, p) ==
  /\ {o, p} \subseteq alive /\ o # p
  /\ KindOf[o] = KindOf[p]
  /\ own' = [own EXCEPT ![o] = own[p], ![p] = own[o]]
  /\ UNCHANGED <<alive, cell, free, ref>>

\* cci_value::swap(reference): the places exchange what they hold.
SwapContent(o, r) ==
  /\ o \in alive /\ KindOf[o] = "any"
  /\ ref[r] \in Place
  /\ own[o] # ref[r].cell        \* bound: not with itself or its own element
  /\ Fits(ref[r], Read(At(o)))
  /\ \E c \in Cell :
       /\ Opened(o, c)
       /\ cell' = [Put(ref[r], cell[c]) EXCEPT ![c] = Read(ref[r])]
       /\ ref' = [q \in Ref |->
                    IF ref[q] \notin Place THEN ref[q]
                    ELSE IF Beneath(ref[q], Top(c)) THEN [ref[q] EXCEPT !.cell = ref[r].cell]
                    ELSE IF Beneath(ref[q], ref[r]) THEN [ref[q] EXCEPT !.cell = c]
                    ELSE ref[q]]
  /\ UNCHANGED alive

Destroy(o) ==
  /\ o \in alive
  /\ alive' = alive \ {o}
  /\ own' = [own EXCEPT ![o] = NoCell]
  /\ Deallocated(own[o])

-----------------------------------------------------------------------------
(* References, and what they share with the objects (cci_value_ref).          *)

\* A reference is bound once; assigning to it writes to its place.
Bind(r, pl) ==
  /\ ref[r] = Forgotten
  /\ ref' = [ref EXCEPT ![r] = pl]

Release(r) ==
  /\ ref[r] # Forgotten
  /\ ref' = [ref EXCEPT ![r] = Forgotten]
  /\ UNCHANGED <<alive, own, cell, free>>

TakeRef(r, o) ==
  /\ o \in alive /\ KindOf[o] = "any"
  /\ Bind(r, At(o))
  /\ UNCHANGED <<alive, own, cell, free>>

\* at, operator[], front, back and the iterators.
TakeElement(r, o, i) ==
  /\ o \in alive /\ own[o] # NoCell
  /\ IsTree(cell[own[o]]) /\ i \in DOMAIN cell[own[o]].items
  /\ Bind(r, [cell |-> own[o], at |-> i])
  /\ UNCHANGED <<alive, own, cell, free>>

\* set_null, set_bool ... set_string, set_list, set_map.
Set(h, v) ==
  /\ h \in Usable
  /\ h \in Object => KindOf[h] = "any"
  /\ \E d \in Place :
       /\ Opens(h, d)
       /\ Fits(d, v)
       /\ cell' = Put(d, v)
       /\ ForgetElements(d)
  /\ UNCHANGED alive

\* cci_value_ref::move leaves null, that of a list (map) an empty list (map).
MoveOut(o, h, left) ==
  /\ o \notin alive /\ KindOf[o] = "any"
  /\ h \in Usable /\ At(h) \in Place
  /\ left = Null => ~(h \in Object /\ KindOf[h] # "any")
  /\ left # Null => left = Empty(Read(At(h)).kind)
  /\ alive' = alive \cup {o}
  /\ \E c \in free : Opened(o, c) /\ MoveContent(Top(c), At(h), left)

-----------------------------------------------------------------------------
(* Lists and maps, through an object or a reference to a whole value.         *)

\* h is a list (map) at d.
Names(h, d, k) ==
  /\ h \in Usable
  /\ At(h) = d /\ d \in Place /\ d.at = 0
  /\ cell[d.cell].kind = k

Items(d) == cell[d.cell].items

\* Growing may reallocate the elements.
Rebuilt(d, items) ==
  /\ cell' = [cell EXCEPT ![d.cell].items = items]
  /\ ForgetElements(d)
  /\ UNCHANGED <<alive, own, free>>

\* The value is copied before the list grows.
PushBack(h, s) ==
  \E d \in Place :
    /\ Names(h, d, "list") /\ Len(Items(d)) < MaxLen
    /\ s \in Usable /\ ~IsTree(Read(At(s)))
    /\ Rebuilt(d, Append(Items(d), AsElem(Read(At(s)))))

PushBackMove(h, p) ==
  \E d \in Place :
    /\ Names(h, d, "list") /\ Len(Items(d)) < MaxLen
    /\ p \in alive /\ KindOf[p] = "any" /\ ~IsTree(Read(At(p)))
    /\ cell' = [c \in Cell |->
                  IF c = own[p] THEN Null
                  ELSE IF c = d.cell
                  THEN [cell[c] EXCEPT !.items = Append(@, AsElem(Read(At(p))))]
                  ELSE cell[c]]
    /\ ForgetElements(d)
    /\ UNCHANGED <<alive, own, free>>

\* The elements in front of pos go to the new array before the value is
\* copied: one of them is null by then.
InsertedElem(d, pos, s) ==
  IF s # NoPlace /\ Beneath(s, d) /\ s.at <= pos THEN Nil ELSE AsElem(Read(s))

Insert(h, pos, n, s) ==
  \E d \in Place :
    /\ Names(h, d, "list") /\ Len(Items(d)) + n <= MaxLen
    /\ pos \in 0 .. Len(Items(d))
    /\ s \in Usable /\ ~IsTree(Read(At(s)))
    /\ Rebuilt(d, SubSeq(Items(d), 1, pos)
                    \o [i \in 1 .. n |-> InsertedElem(d, pos, At(s))]
                    \o SubSeq(Items(d), pos + 1, Len(Items(d))))

\* erase(first, last), erase(pos) and pop_back: the elements behind move up.
Erase(h, k, i, j) ==
  \E d \in Place :
    /\ Names(h, d, k) /\ i <= j /\ j <= Len(Items(d))
    /\ cell' = [cell EXCEPT ![d.cell].items =
                  SubSeq(@, 1, i - 1) \o SubSeq(@, j + 1, Len(@))]
    /\ Forget(LAMBDA pl : Beneath(pl, d) /\ pl.at >= i)
    /\ UNCHANGED <<alive, own, free>>

Clear(h, k) == \E d \in Place : Names(h, d, k) /\ Rebuilt(d, <<>>)

\* The entry a lookup by key finds: the first.
First(d, k) == CHOOSE i \in Keyed(cell[d.cell], k) :
                 \A j \in Keyed(cell[d.cell], k) : i <= j

\* operator[]: a missing key is added with null.
Lookup(r, h, k) ==
  \E d \in Place :
    /\ Names(h, d, "map")
    /\ ref[r] = Forgotten
    /\ Keyed(cell[d.cell], k) = {} => Len(Items(d)) < MaxLen
    /\ IF Keyed(cell[d.cell], k) # {}
       THEN /\ Bind(r, [cell |-> d.cell, at |-> First(d, k)])
            /\ UNCHANGED cell
       ELSE /\ cell' = [cell EXCEPT ![d.cell].items =
                          Append(@, [key |-> k, val |-> Nil])]
            /\ ref' = [q \in Ref |->
                 IF q = r THEN [cell |-> d.cell, at |-> Len(Items(d)) + 1]
                 ELSE IF ref[q] \in Place /\ Beneath(ref[q], d) THEN Forgotten
                 ELSE ref[q]]
    /\ UNCHANGED <<alive, own, free>>

\* push_entry does not look for the key.
PushEntry(h, k, s) ==
  \E d \in Place :
    /\ Names(h, d, "map") /\ Len(Items(d)) < MaxLen
    /\ s \in Usable /\ ~IsTree(Read(At(s)))
    /\ Rebuilt(d, Append(Items(d), [key |-> k, val |-> AsElem(Read(At(s)))]))

\* erase(key): every entry with the key goes.
EraseKey(h, k) ==
  \E d \in Place :
    /\ Names(h, d, "map")
    /\ cell' = [cell EXCEPT ![d.cell].items =
                  KeepAt(@, DOMAIN @ \ Keyed(cell[d.cell], k))]
    /\ Forget(LAMBDA pl : Beneath(pl, d) /\
                \E i \in Keyed(cell[d.cell], k) : i <= pl.at)
    /\ UNCHANGED <<alive, own, free>>

-----------------------------------------------------------------------------
\* What a program does with an object of the classes cci_value, cci_value_list
\* and cci_value_map,
ObjectSteps(o) ==
  \/ Default(o)
  \/ Destroy(o)
  \/ \E h \in Handle : CopyConstruct(o, h)
  \/ \E p \in Object : MoveConstruct(o, p)
  \/ \E p \in Object : MoveConstructContent(o, p)
  \/ \E p \in Object : MoveAssign(o, p)
  \/ \E p \in Object : MoveAssignContent(o, p)
  \/ \E p \in Object : Swap(o, p)
  \/ \E r \in Ref : SwapContent(o, r)
  \/ \E r \in Ref : TakeRef(r, o)
  \/ \E r \in Ref, i \in 1 .. MaxLen : TakeElement(r, o, i)

\* with a reference to a value (cci_value_ref),
ReferenceSteps(h) ==
  \/ \E s \in Handle : CopyAssign(h, s)
  \/ \E v \in Scalars \cup {Empty("list"), Empty("map")} : Set(h, v)
  \/ \E o \in Object, k \in {"null", "list", "map"} : MoveOut(o, h, Empty(k))

\* to a list (cci_value_list_ref)
ListSteps(h) ==
  \/ \E s \in Handle : PushBack(h, s)
  \/ \E p \in Object : PushBackMove(h, p)
  \/ \E s \in Handle, pos \in 0 .. MaxLen, n \in 1 .. MaxLen : Insert(h, pos, n, s)
  \/ \E i, j \in 1 .. MaxLen : Erase(h, "list", i, j)
  \/ Clear(h, "list")

\* and to a map (cci_value_map_ref).
MapSteps(h) ==
  \/ \E r \in Ref, k \in Key : Lookup(r, h, k)
  \/ \E s \in Handle, k \in Key : PushEntry(h, k, s)
  \/ \E k \in Key : EraseKey(h, k)
  \/ \E i, j \in 1 .. MaxLen : Erase(h, "map", i, j)
  \/ Clear(h, "map")

Next ==
  \/ \E r \in Ref : Release(r)
  \/ \E o \in Object : ObjectSteps(o)
  \/ \E h \in Handle : ReferenceSteps(h) \/ ListSteps(h) \/ MapSteps(h)

Spec == Init /\ [][Next]_vars

-----------------------------------------------------------------------------
(* A cell of the pool belongs to one object or to the pool: an object that    *)
(* gave its cell away, or was destroyed, has none (own_pimpl_), and no cell   *)
(* is lost or given back twice (cci_value.cpp, impl_pool).                    *)
CellsHaveOneOwner ==
  /\ \A o, p \in Object : own[o] = own[p] /\ o # p => own[o] = NoCell
  /\ \A o \in Object \ alive : own[o] = NoCell
  /\ free = Cell \ {own[o] : o \in Object}

(* A reference that was neither invalidated nor lost its object points into   *)
(* the cell of a living object, at an element that exists: the cell is not    *)
(* the next object's by now (LIFO reuse of the pool).                         *)
RefsAreLive ==
  \A r \in Ref : ref[r] \in Place =>
    /\ \E o \in alive : own[o] = ref[r].cell
    /\ ref[r].at > 0 => /\ IsTree(cell[ref[r].cell])
                        /\ ref[r].at \in DOMAIN cell[ref[r].cell].items

Denotes(o) ==
  IF o \notin alive THEN Absent
  ELSE IF own[o] = NoCell THEN Null ELSE cell[own[o]]

Store == INSTANCE ValueStore WITH val <- [o \in Object |-> Denotes(o)]

(* Whatever cells and references they use, first-class values are distinct    *)
(* objects: an operation changes the object it names, and a second one only   *)
(* by handing over a value (cci_value.h, "strict value semantics").           *)
ImplementsValueStore == Store!Spec
=============================================================================

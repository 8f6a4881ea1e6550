----------------------------- MODULE VariantData -----------------------------
(* The data a cci_value represents: null, an atom (a boolean, a number or a   *)
(* string, all copied as a whole), a list of elements or a map of entries.    *)
(* Bound: the elements of a list or a map are atoms or null.                  *)
EXTENDS Naturals, Sequences

CONSTANTS
  Atom,
  Key,       \* keys of map entries
  Nil,       \* the element null
  MaxLen     \* bound: elements of a list or a map

Elem == Atom \cup {Nil}

Entry == [key : Key, val : Elem]

Null == [kind |-> "null", items |-> <<>>]
Empty(k) == [kind |-> k, items |-> <<>>]
Scalar(e) == IF e = Nil THEN Null ELSE [kind |-> "atom", items |-> <<e>>]

Scalars == {Scalar(e) : e \in Elem}

Lists == [kind : {"list"}, items : {s \in Seq(Elem) : Len(s) <= MaxLen}]
Maps == [kind : {"map"}, items : {s \in Seq(Entry) : Len(s) <= MaxLen}]

Data == Scalars \cup Lists \cup Maps

\* The element a scalar is inside a list or a map.
AsElem(v) == IF v = Null THEN Nil ELSE v.items[1]

IsTree(v) == v.kind \in {"list", "map"}

ElemAt(v, i) == IF v.kind = "map" THEN v.items[i].val ELSE v.items[i]

PutAt(v, i, e) ==
  [v EXCEPT !.items[i] = IF v.kind = "map" THEN [@ EXCEPT !.val = e] ELSE e]

\* Positions of the entries with key k.
Keyed(v, k) == {i \in DOMAIN v.items : v.items[i].key = k}

\* w is v or one of its elements.
Holds(v, w) ==
  \/ w = v
  \/ IsTree(v) /\ \E i \in DOMAIN v.items : w = Scalar(ElemAt(v, i))
=============================================================================

SPECIFICATION Spec
CONSTANTS
  v1 = v1
  v2 = v2
  l1 = l1
  Object = {v1, v2, l1}
  KindOf <- Classes
  Ref = {r1}
  Cell = {c1, c2, c3}
  NoCell = NoCell
  NoPlace = NoPlace
  Forgotten = Forgotten
  Absent = Absent
  Atom = {a}
  Nil = Nil
  Key = {k}
  MaxLen = 2
INVARIANTS
  CellsHaveOneOwner
  RefsAreLive
PROPERTIES
  ImplementsValueStore
SYMMETRY Interchangeable

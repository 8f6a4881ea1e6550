SPECIFICATION Spec
CONSTANTS
  Handle = {h1, h2, h3, h4}
  Param = {p1, p2}
  NoParam = NoParam
  Type = {t1, t2}
  Untyped = Untyped
  Gone = Gone
INVARIANTS
  TypeOK
  BackLinks
  NoDanglingHandle
  TypedHandlesFit
PROPERTIES
  ImplementsWeakReferences
SYMMETRY Addresses

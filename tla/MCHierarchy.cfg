SPECIFICATION Spec
CONSTANTS
  top = top
  leaf = leaf
  Outside = Outside
  Place = {Outside, top, leaf}
  Path <- Paths
  MaxBrokers = 3
  Name = {a}
  Exposable <- ExposeAny
  Value = {v0, v1}
  NoValue = NoValue
  Originator = {own}
  Unknown = Unknown
  Owner = own
INVARIANTS
  RegisteredAtRoute
  UsedIsRegistered
  HiddenOrShared
  ListIsWhatIsFound
PROPERTIES
  SeenStaysSeen
  ViewsAreStores
SYMMETRY Values

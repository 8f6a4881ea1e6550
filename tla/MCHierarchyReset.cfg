SPECIFICATION Spec
CONSTANTS
  top = top
  leaf = leaf
  Outside = Outside
  Place = {Outside, top, leaf}
  Path <- Paths
  MaxBrokers = 2
  Name = {a}
  Exposable <- ExposeAny
  Value = {v0}
  NoValue = NoValue
  Originator = {own}
  Unknown = Unknown
  Owner = own
PROPERTIES
  ResetNamesOrigin

SPECIFICATION Spec
CONSTANTS
  Proc = {p1, p2}
  Name = {a, b}
  Value = {v0, v1}
  NoValue = NoValue
  Originator = {o1}
  NoOriginator = NoOriginator
  Callback = {c1}
  Ignorable <- AnyNames
  MaxCallbacks = 2
INVARIANTS
  RegistryIsLive
  UsedHasParam
  PresetIsSingle
PROPERTIES
  ImplementsPresetStore
SYMMETRY NamesAndProcs

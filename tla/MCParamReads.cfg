SPECIFICATION Spec
CONSTANTS
  v0 = v0
  v1 = v1
  own = own
  oth = oth
  Proc = {p1}
  Value = {v0, v1}
  DefaultValue = v0
  NoValue = NoValue
  Originator = {own, oth}
  Owner = own
  Callback = {c1}
  HookKind = {"pre_write", "post_write", "pre_read", "post_read"}
  Registrant = {oth}
  Self = Self
  Key = {Self}
  NoPwd = NoPwd
  WriterPwd = {NoPwd}
  Mutable = FALSE
  NoPreset = NoPreset
  Presets <- AnyPreset
  ReportThrows = {TRUE, FALSE}
  MaxCallbacks = 2
INVARIANTS
  FastReadSound
  OncallIsOneFrame
  ImmutableHoldsInitial

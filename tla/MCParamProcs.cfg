SPECIFICATION FairSpec
CONSTANTS
  v0 = v0
  v1 = v1
  own = own
  oth = oth
  Proc = {p1, p2}
  Value = {v0, v1}
  DefaultValue = v0
  NoValue = NoValue
  Originator = {own}
  Owner = own
  Callback = {c1}
  HookKind = {"pre_write","post_write"}
  Registrant = {own}
  Self = Self
  Key = {Self}
  NoPwd = NoPwd
  WriterPwd = {NoPwd}
  Mutable = TRUE
  NoPreset = NoPreset
  Presets = {NoPreset}
  ReportThrows = {FALSE}
  MaxCallbacks = 1
INVARIANTS
  OncallIsOneFrame
PROPERTIES
  EveryCallEnds

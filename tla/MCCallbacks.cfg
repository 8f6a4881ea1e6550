SPECIFICATION Spec
CONSTANTS
  g = g
  t1 = t1
  t2 = t2
  u = u
  h = h
  int = int
  Impl = {i1, i2, i3, i4}
  Null = Null
  Free = Free
  Gone = Gone
  Holder = {g, t1, t2, u, h}
  ClassOf <- Classes
  Generic = Generic
  ParamSig = int
  MaxVec = 1
  MaxNest = 1
INVARIANTS
  CountsMatchPointers
  RunningCallbackLives
  SignaturesMatch
SYMMETRY Interchangeable

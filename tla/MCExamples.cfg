SPECIFICATION Spec
CHECK_DEADLOCK FALSE
INVARIANTS
    LogsAreGolden
    TiedParamsAgree
PROPERTIES
    EveryProgramEnds

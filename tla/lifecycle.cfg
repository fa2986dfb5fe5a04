CONSTANTS
    MaxActive = 2
    Configs <- MCConfigs
SPECIFICATION Spec
CHECK_DEADLOCK FALSE
INVARIANTS
    ServesAsConfigured
    ExitZeroIsGraceful
    NobodyBlocksOnErrCh
PROPERTIES
    SignalEndsProcess
    FailureEndsProcess

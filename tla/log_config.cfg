\* The config listener against a concurrent logging thread, three config
\* changes and three log calls.  The run stops when both bounds are used up.
CONSTANTS
    Alpha <- MCAlpha
    Names <- MCNames
    Root = "root"
    NameOrder <- MCNameOrder
    DefaultFmt <- MCDefaultFmt
    Configs <- MCConfigs
    MsgLevels <- MCMsgLevels
    MaxChanges = 3
    MaxMsgs = 3
SPECIFICATION Spec
CHECK_DEADLOCK FALSE
INVARIANT ConfigApplied RemovedLoggerSilent

SPECIFICATION PollingSpec
CONSTANTS
    d1 = d1
    d2 = d2
    Device <- MCDevice
    GpuUnit <- MCGpuUnit
    Kinds <- MCKinds
    HistorySize = 2
    MaxTime = 5
PROPERTIES
    ImplementsSampleCopy
    AnswersAreComplete
\* the clock is bounded
CHECK_DEADLOCK FALSE

SPECIFICATION Spec
CONSTANTS
    Hosts <- Machines
    Machine <- MachineOf
    Answers <- AnswersOf
    Mounted <- Disks
    RefreshEvery = 2
    StaleAfter = 3
    Skew = 1
    SetBacks = {1, 4}
    MaxTime = 6
INVARIANTS
    PassedIsChecked
    FailureIsTold
    DevicesAnsweredOnce
CHECK_DEADLOCK FALSE

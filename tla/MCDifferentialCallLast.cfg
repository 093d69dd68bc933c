SPECIFICATION BothSpec
CONSTANTS
    MaxCallDepth = 3
    StackFrameSize = 1
    StackFrameGaps = TRUE
    Word = 256
    InsnSize = 2
    TextStart = 2
    StackStart = 0
    StackLen = 4
    Readable = {1, 2, 4, 68}
    Writable = {1, 4}
    Immediates <- MCImmediates
    Arith <- MCArith
    SyscallKeys = {0, 1}
    SyscallCost <- MCSyscallCost
    SyscallFails <- MCSyscallFails
    SyscallValue <- MCSyscallValue
    TextLen = 3
    MCVersions = {"V0", "V2", "V3"}
    Programs <- MCCallLastPrograms
    Compiled <- EndsInCall
    Dead = Dead
    Budgets = {0, 3, 8}
    MaxRuns = 1
    CheckpointDistance = 2
    MeterWord = 32
INVARIANT SameResult
CHECK_DEADLOCK FALSE

SPECIFICATION BothSpec
CONSTANTS
    MaxCallDepth = 3
    StackFrameSize = 1
    StackFrameGaps = TRUE
    Word = 256
    InsnSize = 2
    TextStart = 2
    StackStart = 0
    StackLen = 4
    Readable = {1, 2, 4, 68}
    Writable = {1, 4}
    Immediates <- MCImmediates
    Arith <- MCArith
    SyscallKeys = {0, 1}
    SyscallCost <- MCSyscallCost
    SyscallFails <- MCSyscallFails
    SyscallValue <- MCSyscallValue
    TextLen = 3
    MCVersions = {"V0", "V2", "V3"}
    Programs <- MCPrograms
    Compiled <- EndsInNoCall
    Budgets = {0, 1, 7}
    MaxRuns = 2
    Dead = Dead
    CheckpointDistance = 2
    MeterWord = 32
INVARIANTS TypeOK MeterConsistent CallsNested VerifiedNeverPanics
INVARIANTS OverrunBounded HostStackMatchesDepth EnginesAgree
PROPERTIES CallerFramesStable ImplementsExecution JitImplementsExecution
PROPERTIES BothTerminate
CHECK_DEADLOCK FALSE

SPECIFICATION DebugSpec
CONSTANTS
    MaxCallDepth = 2
    StackFrameSize = 1
    StackFrameGaps = TRUE
    Word = 256
    InsnSize = 2
    TextStart = 2
    StackStart = 0
    StackLen = 4
    Readable = {0, 1, 2, 4, 68}
    Writable = {1, 4}
    Immediates <- MCImmediates
    Arith <- MCArith
    SyscallKeys = {0}
    SyscallCost <- MCSyscallCost
    SyscallFails <- MCSyscallFails
    SyscallValue <- MCSyscallValue
    TextLen = 3
    MCVersions = {"V0", "V3"}
    Programs <- MCDebugged
    Budgets = {0, 5}
    MaxRuns = 2
    Dead = Dead
    TextSectionOffset = 3
    BytecodeStart = 1
    ExitCodes = 16
    ClientValues = {2}
    ClientAddresses = {0, 3, 5}
    MaxCommands = 5
INVARIANTS EndReported
PROPERTIES BreakpointsStop Undisturbed ControlReturns
CHECK_DEADLOCK FALSE

SPECIFICATION Spec
CONSTANTS
    ByteBits = 2
    HostBase <- MCHostBase
    InsnSize = 8
    InsnSizeLog = 3
    TextStart = 512
    CellAddress = 1024
    MaxCallDepth = 3
    StackFrameSize = 16
    StackFrameGaps = TRUE
    SyscallKeys = {5, 6}
    SyscallCost <- MCSyscallCost
    SyscallFails <- MCSyscallFails
    SyscallValue <- MCSyscallValue
    RuntimeEnvironmentKey = 20
    TextSection <- MCTextSection
    PcSection <- MCPcSection
    LoadFunction <- MCLoadFunction
    StoreFunction <- MCStoreFunction
    SyscallFunction <- MCSyscallFunction
    TracePush <- MCTracePush
    Programs <- MCPrograms
    Budgets <- MCBudgets
    EbpfVm <- MCEbpfVm
    StackTop <- MCStackTop
    StackWords = 60
    HostReturn <- MCHostReturn
    Clobbered = 4660
INVARIANTS
    NeverFaults
    ExecutesLikeInterpreter
    CodeFits
CHECK_DEADLOCK FALSE

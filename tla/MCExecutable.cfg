CONSTANTS
    Word = 64
    CallImm = 5
    UsizeMax = 999
    EhdrSize = 2
    PhdrSize = 2
    ShdrSize = 2
    RelSize = 2
    SymSize = 2
    DynSize = 2
    Align = 2
    Builtins <- MCBuiltins
    Inputs <- MCInputs
SPECIFICATION Spec
INVARIANTS LoaderAssumptions TablesSound CallsResolve AddressesPlaced SectionsReadable StrictImageSound
CHECK_DEADLOCK FALSE

CONSTANTS
    Programs <- MCPrograms
    Texts <- MCTexts
    Codes <- MCCodes
    Loader <- MCLoader
    OffSpan <- MCOffSpan
    ImmSpan <- MCImmSpan
    Hash <- MCHash
SPECIFICATION ToolSpec
INVARIANT CallsEndBlocks
CHECK_DEADLOCK FALSE

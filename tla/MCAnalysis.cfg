CONSTANTS
    Programs <- MCPrograms
    Texts <- MCTexts
    Codes <- MCCodes
    Loader <- MCLoader
    OffSpan <- MCOffSpan
    ImmSpan <- MCImmSpan
    Hash <- MCHash
SPECIFICATION ToolSpec
INVARIANTS ComponentsExact DominatorsExact FlowExact PassesAgree Reassembles
PROPERTIES FlowEnds
CHECK_DEADLOCK FALSE

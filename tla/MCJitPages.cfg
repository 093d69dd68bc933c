CONSTANTS
    Executables = {e1, e2}
    PageCount = 5
    page_size = 2
    PcCounts = {1, 3}
    CodeSizes = {4}
SPECIFICATION Spec
INVARIANTS PagesAccounted CompiledSealed
PROPERTIES CallsReturn

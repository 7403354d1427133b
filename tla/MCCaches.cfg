SPECIFICATION Spec
CONSTANTS
    r1 = r1
    r2 = r2
    e1 = e1
    e2 = e2
    Reader <- Readers2
    Editor <- Editors2
    PageTTL = 1
    MenuTTL = 2
    LoadTime = 1
    MaxWrites = 1
    MaxClears = 2
    MaxMenus = 1
INVARIANTS TypeOK StalenessBounded OutdatedOnlyByOverlap
SYMMETRY Symmetry
CHECK_DEADLOCK FALSE

SPECIFICATION Spec
CONSTANTS
    Processes = {p1, p2, p3}
    Boot = boot
    Lines <- MC_Lines
    STEPS = 2
CHECK_DEADLOCK FALSE
INVARIANTS
    TypeOK
    ContextIntact
    OwnAddressSpace
    NoLineBlocked
PROPERTIES
    OthersRun

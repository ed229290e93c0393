SPECIFICATION Spec
CONSTANTS
    Processes = {p1, p2, p3}
    Boot = boot
    Lines <- MC_Lines
    Vectors <- MC_Vectors
    STEPS = 2
CHECK_DEADLOCK FALSE
INVARIANTS
    TypeOK
    RegistersIntact
    BootStackKept
PROPERTIES
    ImplementsScheduler

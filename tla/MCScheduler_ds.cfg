SPECIFICATION Spec
CONSTANTS
    Processes = {p1, p2, p3}
    Boot = boot
    Lines <- MC_Timer
    STEPS = 2
CHECK_DEADLOCK FALSE
INVARIANT OnlyProgramsFault

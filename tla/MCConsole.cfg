SPECIFICATION Spec
CONSTANTS
    WIDTH = 3
    HEIGHT = 2
    PAGE_CELLS = 8
    Values <- MC_Values
    BITS = 8
    Frequencies <- MC_Frequencies
    STACK = 9
    FIFO = 2
    INTERRUPTS = 3
CHECK_DEADLOCK FALSE
INVARIANTS
    TypeOK
    LogReadable
    ScreenShowsTail
    TickRate
PROPERTIES
    AllPrinted

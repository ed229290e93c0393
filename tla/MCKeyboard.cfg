SPECIFICATION Spec
CONSTANTS
    Letters = {"a"}
    special_keys <- MC_special_keys
    KEYBOARD_QUEUE_SIZE = 2
    UINT_MODULUS = 5
    FIFO = 1
INVARIANTS
    TypeOK
    InOrder
    NoStuckModifier
PROPERTIES
    PortDrains

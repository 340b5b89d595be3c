\* A char of two bits; texts of up to six characters, buffers of up to six bytes.
SPECIFICATION Spec
CONSTANTS
    Width = 4
    TextLen = 6
    RawLen = 6
INVARIANTS
    Decoded
PROPERTIES
    CoroutineEnds
CHECK_DEADLOCK FALSE

SPECIFICATION Spec
CONSTANTS
    Base = 4
    Xor <- BitXor
    StaticIv <- Iv
    NumberBytes = 3
    Lengths <- AllLengths
INVARIANTS
    NoncesDiffer
    LengthIsRead
\* The session is over when there are no more sequence numbers.
CHECK_DEADLOCK FALSE

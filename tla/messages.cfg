SPECIFICATION FairSpec
CONSTANTS
    Base = 2
    Script <- Answer
    Contents = {1}
    SocketBuffer = 3
    MaxAltered = 3
INVARIANTS
    TypeOK
    BoundaryKept
    MessagesInv
    RefusesOnlyAltered
PROPERTIES
    StreamSpec
    NeverStalls

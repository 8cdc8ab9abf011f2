SPECIFICATION Spec
CONSTANTS
    Base = 2
    Script <- Answer
    Contents = {1}
    SocketBuffer = 3
    MaxAltered = 0
INVARIANT
    ReturnsAsDocumented

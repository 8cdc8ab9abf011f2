SPECIFICATION Spec
CONSTANTS
    Clients = {c1}
    NoClient = NoClient
    KeyPairs = {k1}
    Backlog = 1
    MaxGarbled = 0
INVARIANT
    SendReturns

SPECIFICATION Spec
CONSTANTS
    Clients = {c1, c2, c3}
    NoClient = NoClient
    KeyPairs = {k1, k2}
    Backlog = 2
    MaxGarbled = 2
SYMMETRY Symmetry
INVARIANTS
    TypeOK
    Agreement
    MismatchedPairServesNobody
    OneConnection
    ExitCodesAgree
    HandshakeInv
PROPERTY
    SessionSpec

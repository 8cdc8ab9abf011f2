SPECIFICATION FairSpec
CONSTANTS
    Clients = {c1, c2}
    NoClient = NoClient
    KeyPairs = {k1, k2}
    Backlog = 1
    MaxGarbled = 1
PROPERTIES
    Termination
    HonestRunSucceeds

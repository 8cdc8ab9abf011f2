SPECIFICATION Spec
CONSTANTS
    Base = 2
    Transcripts = {server, client}
    Messages <- SmallMessages
    MaxMessages = 2
    MaxHashes = 2
SYMMETRY Symmetry
INVARIANTS
    TypeOK
    HashTellsMessages
    HashesAgree

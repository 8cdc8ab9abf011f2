SPECIFICATION FairSpec
CONSTANTS
    Texts = {t1}
    MaxPlaintext = 3
    Capacity = 2
    TagLen = 2
    Modulus = 3
    SocketBuffer = 3
    MaxRecords = 3
    MaxGarbled = 2
INVARIANTS
    TypeOK
    NonceUnique
    InStep
    RecordInv
    RejectsOnlyAltered
PROPERTIES
    ChannelSpec
    Delivery
    SendEnds
    ReceiverEnds

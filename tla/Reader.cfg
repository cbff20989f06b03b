SPECIFICATION ReaderSpec
CONSTANTS
    MaxSnr = 3
    CacheAcks = TRUE
    MaxSamples = 2
    MaxBits = 3
    CountMod = 2
INVARIANTS
    ReaderTypeOK
    Contiguous
    DeliveredBehind
    NoSilentLoss
    GivenUpWasTold
    MissingTailAnchored
    AckSound
PROPERTY DeliveryInOrder

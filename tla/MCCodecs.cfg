CONSTANTS
    Words <- SomeWords
    Users <- SomeUsers
    KeyTable <- SomeTable
    Sticks <- SomeSticks
    CtrlFlags = {4, 300}
    Commands = {0, 1, 2, 4, 8}
    Coordinates <- SomeCoordinates
    Bodies <- SomeBodies
    Units <- SomeUnits
    MaxUnits = 3
    MaxPacket = 5
    MaxLost = 1
    MaxSet = 4
    Payloads <- SomePayloads
    Lengths = {0, 1}
    Count = 3
    MaxChunk = 3
    MaxBuf = 6
    KeepBuf = 3
SPECIFICATION Spec
INVARIANTS ChallengeRead CorruptionDetected TruncationSafe OneFieldEach GpsRoundTrip CutsDontMatter LossIsLocal BuffersBounded InOrder EveryFrameDelivered
PROPERTIES AnswerAccepted
CHECK_DEADLOCK FALSE

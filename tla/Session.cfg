CONSTANTS
    DoEncryption = TRUE
    PresharedSecret = FALSE
    SeqMod = 8
    NonceMod = 6
    RenegAbove = 3
    ClientISN = {6}
    ServerISN = {6}
    MaxData = 2
    MaxRetransmits = 2
    MaxOut = 2
    MaxSrvOut = 1
    MaxInFlight = 2
    MaxCopies = 1
    Duplicates = FALSE
SPECIFICATION Spec
CONSTRAINT WithinBounds
INVARIANT TypeOK
INVARIANT RetiredBytesReceived
INVARIANT NoFatalExit
PROPERTY ClientStreamReliable
PROPERTY ServerStreamReliable
PROPERTY NonceNeverReused

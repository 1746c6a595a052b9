\* Handshake with a pre-shared secret: late or repeated ENC answers.
CONSTANTS
    DoEncryption = TRUE
    PresharedSecret = TRUE
    SeqMod = 8
    NonceMod = 6
    RenegAbove = 3
    ClientISN = {6}
    ServerISN = {6}
    MaxData = 2
    MaxRetransmits = 3
    MaxOut = 2
    MaxSrvOut = 1
    MaxInFlight = 2
    MaxCopies = 2
    Duplicates = FALSE
SPECIFICATION Spec
CONSTRAINT WithinBounds
INVARIANT NoFatalExit

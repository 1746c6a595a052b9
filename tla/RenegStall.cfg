\* A key renegotiation whose ENC query or answer is lost.
CONSTANTS
    DoEncryption = TRUE
    PresharedSecret = FALSE
    SeqMod = 8
    NonceMod = 6
    RenegAbove = 3
    ClientISN = {6}
    ServerISN = {6}
    MaxData = 2
    MaxRetransmits = 2
    MaxOut = 0
    MaxSrvOut = 0
    MaxInFlight = 2
    MaxCopies = 1
    Duplicates = FALSE
SPECIFICATION FairSpec
CONSTRAINT WithinBounds
PROPERTY RenegotiationCompletes

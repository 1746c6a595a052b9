\* Sequence numbers modulo 4 with up to four bytes buffered: an old MSG
\* answer whose acknowledgement wraps around into the buffer length.
CONSTANTS
    DoEncryption = FALSE
    PresharedSecret = FALSE
    SeqMod = 4
    NonceMod = 6
    RenegAbove = 3
    ClientISN = {2}
    ServerISN = {2}
    MaxData = 1
    MaxRetransmits = 2
    MaxOut = 4
    MaxSrvOut = 0
    MaxInFlight = 2
    MaxCopies = 1
    Duplicates = FALSE
SPECIFICATION Spec
CONSTRAINT WithinBounds
INVARIANT RetiredBytesReceived

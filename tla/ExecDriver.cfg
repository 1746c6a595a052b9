\* A child that writes three bytes, two server inputs into a one-byte stdin
\* pipe, eviction at any time.
CONSTANTS
    MaxOut = 3
    MaxIn = 2
    StdinCap = 1
SPECIFICATION FairSpec
INVARIANT DeliveredInOrder
PROPERTY ChildExitEndsSession

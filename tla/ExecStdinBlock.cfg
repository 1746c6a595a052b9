\* A child that does not read its stdin.
CONSTANTS
    MaxOut = 1
    MaxIn = 2
    StdinCap = 1
SPECIFICATION FairSpec
PROPERTY WriteReturns

\* The child writes and exits while readOutput has not yet appended.
CONSTANTS
    MaxOut = 2
    MaxIn = 0
    StdinCap = 1
SPECIFICATION Spec
INVARIANT ExitOutputDelivered

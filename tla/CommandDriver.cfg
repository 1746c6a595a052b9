\* Tunnels, session creation, evictions and every handler, the ones that
\* lock d.mu or globalController.mu again included.  Those hang the
\* transport goroutine for good (RelockDeadlock.cfg), so a state with no
\* successor is expected here.
CONSTANTS
    Commands <- CmdsAll
    MaxCommands = 3
    MaxTunnels = 2
    MaxReads = 1
    MaxExec = 1
SPECIFICATION FairSpec
CHECK_DEADLOCK FALSE
INVARIANT TypeOK
PROPERTY RequestsAnswered

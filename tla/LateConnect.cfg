\* A TUNNEL_CONNECT the server sent before the command session was evicted
\* is delivered after Heartbeat closed its driver.
CONSTANTS
    Commands <- CmdsLateConnect
    MaxCommands = 2
    MaxTunnels = 1
    MaxReads = 1
    MaxExec = 1
SPECIFICATION Spec
INVARIANT NoTunnelAfterClose

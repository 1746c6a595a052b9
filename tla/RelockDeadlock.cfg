\* The server sends tunnel data or asks for a shutdown: handleTunnelData
\* locks d.mu, which processPackets holds, and OnShutdown ->
\* KillAllSessions locks the command session's s.mu, which DataIncoming
\* holds.
CONSTANTS
    Commands <- CmdsRelock
    MaxCommands = 2
    MaxTunnels = 1
    MaxReads = 1
    MaxExec = 1
SPECIFICATION Spec
INVARIANT NoSelfWait

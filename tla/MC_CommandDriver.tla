-------------------------- MODULE MC_CommandDriver --------------------------
(* Sets of command packets the server may send, for CommandDriver.  A     *)
(* request is req = TRUE; tid names the tunnel a TUNNEL_DATA or           *)
(* TUNNEL_CLOSE is about.                                                 *)
EXTENDS CommandDriver

C(id, req, tid) == [id |-> id, req |-> req, tid |-> tid]

\* Tunnels opened, commands answered at once, shell sessions created, an
\* error request and a response of the server for tunnel data, and the
\* requests whose handlers lock again.
CmdsAll ==
    {C("TUNNEL_CONNECT", TRUE, 0), C("PING", TRUE, 0), C("SHELL", TRUE, 0),
     C("ERROR", TRUE, 0), C("TUNNEL_DATA", FALSE, 1),
     C("TUNNEL_DATA", TRUE, 1), C("TUNNEL_CLOSE", TRUE, 1), C("SHUTDOWN", TRUE, 0)}

\* Tunnel data and a shutdown.
CmdsRelock ==
    {C("TUNNEL_CONNECT", TRUE, 0), C("TUNNEL_DATA", TRUE, 1), C("SHUTDOWN", TRUE, 0)}

\* Shell sessions and tunnel requests.
CmdsLateConnect == {C("SHELL", TRUE, 0), C("TUNNEL_CONNECT", TRUE, 0)}
=============================================================================

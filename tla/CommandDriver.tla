---------------------------- MODULE CommandDriver ----------------------------
(***************************************************************************)
(* The command driver (pkg/driver/command/driver.go) of the command       *)
(* session, with the goroutines and mutexes it shares with the session    *)
(* (pkg/session), the controller (src/unnamed/part_002) and the callbacks *)
(* of cmd/dnscat-service (newCommandSession).                             *)
(*                                                                         *)
(* Goroutine 0 is the transport loop (dns.Driver.Run): it feeds the       *)
(* command session the server's command packets (Session.DataIncoming ->  *)
(* handleMSG -> Driver.DataReceived -> processPackets -> handlers), runs  *)
(* Heartbeat on a timeout and polls the session in doSend.  Goroutine t,  *)
(* t in 1..MaxTunnels, is the tunnelReader of tunnel t.  Each step that   *)
(* takes a mutex waits at a label for it; sync.Mutex is not re-entrant,  *)
(* so a goroutine waiting for a mutex it holds waits forever.             *)
(*                                                                         *)
(* Command packets are records [id, req, tid]; their payloads, names and  *)
(* request ids are abstracted away.  The command session is session 0 of  *)
(* the controller; sessions 1.. are the exec sessions CreateSession adds, *)
(* whose own drivers are not modelled.                                    *)
(***************************************************************************)
EXTENDS Integers, Sequences, FiniteSets

CONSTANTS
    Commands,      \* the command packets the server may send
    MaxCommands,   \* bound: command packets the server sends in all
    MaxTunnels,    \* bound: tunnels the driver opens (d.tunnelID)
    MaxReads,      \* bound: reads a tunnel's connection returns data for
    MaxExec        \* bound: exec sessions CreateSession adds

Loop == 0                           \* the transport goroutine
Readers == 1..MaxTunnels            \* tunnelReader goroutines, by tunnel id
Goroutines == {Loop} \cup Readers
NoOwner == -1
Mutexes == {"ctrl", "sess", "drv"}  \* globalController.mu, s.mu, d.mu

CmdIds == {"PING", "SHELL", "EXEC", "DOWNLOAD", "UPLOAD", "SHUTDOWN", "DELAY",
           "TUNNEL_CONNECT", "TUNNEL_DATA", "TUNNEL_CLOSE", "ERROR"}

Command == [id : CmdIds, req : BOOLEAN, tid : 0..MaxTunnels]

ASSUME Commands \subseteq Command /\ MaxCommands \in Nat

VARIABLES
    owner,      \* owner[m]: the goroutine holding mutex m, or NoOwner
    pc,         \* pc[g]: where goroutine g is
    issued,     \* command packets the server has sent
    frame,      \* the commands of the MSG the loop is delivering
    cur,        \* the command a handler is working on across a wait
    stream,     \* d.stream: command packets not yet handled
    outgoing,   \* d.outgoingData: packets the driver produced
    sent,       \* packets GetOutgoing handed to the session
    tunnels,    \* DOMAIN d.tunnels
    conn,       \* conn[t]: "none", "open" or "closed" (tunnel t's net.Conn)
    reads,      \* reads[t]: reads of tunnel t that returned data
    nextTunnel, \* d.tunnelID
    drvShut,    \* d.isShutdown
    nSessions,  \* len(globalController.sessions)
    shut,       \* the sessions whose isShutdown is set
    asked,      \* history: requests handed to handlers that owe a response
    answered,   \* history: responses appended to outgoingData
    exited      \* os.Exit(0) in doSend

vars == <<owner, pc, issued, frame, cur, stream, outgoing, sent, tunnels, conn, reads,
          nextTunnel, drvShut, nSessions, shut, asked, answered, exited>>

\* The mutex a goroutine waits for at each of its waiting labels.
WaitsFor ==
    [in_sess |-> "sess", in_poll |-> "drv", dr_drv |-> "drv", pp_drv |-> "drv",
     as_ctrl |-> "ctrl", ka_ctrl |-> "ctrl", ka_sess |-> "sess",
     td_drv |-> "drv", tc_drv |-> "drv",
     hb_ctrl |-> "ctrl", hb_sess |-> "sess", hb_drv |-> "drv",
     gn_ctrl |-> "ctrl", go_sess |-> "sess",
     rd_drv |-> "drv", cl_drv |-> "drv"]

Free(m) == owner[m] = NoOwner
Take(g, ms) == [m \in Mutexes |-> IF m \in ms THEN g ELSE owner[m]]
Give(ms)    == [m \in Mutexes |-> IF m \in ms THEN NoOwner ELSE owner[m]]
Goto(g, l)  == pc' = [pc EXCEPT ![g] = l]

Resp(c)  == [kind |-> "resp", cmd |-> c.id, tid |-> c.tid]
TData(t) == [kind |-> "tdata", cmd |-> "TUNNEL_DATA", tid |-> t]
TClose(t) == [kind |-> "tclose", cmd |-> "TUNNEL_CLOSE", tid |-> t]
\* A request that its handler answers (TUNNEL_DATA, TUNNEL_CLOSE and ERROR
\* handlers return nil; every handler returns nil for a response).
Owes(c) == c.req /\ c.id \notin {"TUNNEL_DATA", "TUNNEL_CLOSE", "ERROR"}

NumOwed(cs) == Cardinality({i \in DOMAIN cs : Owes(cs[i])})

-----------------------------------------------------------------------------
(* The transport goroutine.                                                *)

\* Run reads an answer with a MSG of the command session carrying one or
\* two command packets; controller.DataIncoming finds the session
\* under globalController.mu.  It does not look at isShutdown.
Receive ==
    /\ ~exited /\ pc[Loop] = "idle" /\ Free("ctrl")
    /\ \E k \in 1..2 :
          /\ issued + k <= MaxCommands
          /\ issued' = issued + k
          /\ frame' \in [1..k -> Commands]
    /\ Goto(Loop, "in_sess")
    /\ UNCHANGED <<owner, cur, stream, outgoing, sent, tunnels, conn, reads,
                   nextTunnel, drvShut, nSessions, shut, asked, answered, exited>>

\* Session.DataIncoming locks s.mu for the whole call.
DataIncomingLock ==
    /\ ~exited /\ pc[Loop] = "in_sess" /\ Free("sess")
    /\ owner' = Take(Loop, {"sess"})
    /\ Goto(Loop, "in_poll")
    /\ UNCHANGED <<issued, frame, cur, stream, outgoing, sent, tunnels, conn, reads,
                   nextTunnel, drvShut, nSessions, shut, asked, answered, exited>>

\* Session.pollDriverForData -> Driver.GetOutgoing(-1) under d.mu: all of
\* outgoingData moves to the session.  A driver that is shut down and empty
\* returns nil, and Kill is then a no-op: only Kill shuts the driver down.
Poll == IF drvShut /\ outgoing = <<>> THEN UNCHANGED <<sent, outgoing>>
        ELSE sent' = sent \o outgoing /\ outgoing' = <<>>

PollDriver ==
    /\ ~exited /\ pc[Loop] = "in_poll" /\ Free("drv")
    /\ Poll
    /\ Goto(Loop, "dr_drv")
    /\ UNCHANGED <<owner, issued, frame, cur, stream, tunnels, conn, reads,
                   nextTunnel, drvShut, nSessions, shut, asked, answered, exited>>

\* handleMSG accepts the frame and calls Driver.DataReceived, which writes
\* the payload to d.stream under d.mu.
DataReceived ==
    /\ ~exited /\ pc[Loop] = "dr_drv" /\ Free("drv")
    /\ stream' = stream \o frame /\ frame' = <<>>
    /\ asked' = asked + NumOwed(frame)
    /\ Goto(Loop, "pp_drv")
    /\ UNCHANGED <<owner, issued, cur, outgoing, sent, tunnels, conn, reads,
                   nextTunnel, drvShut, nSessions, shut, answered, exited>>

\* processPackets locks d.mu until it returns.
ProcessPacketsLock ==
    /\ ~exited /\ pc[Loop] = "pp_drv" /\ Free("drv")
    /\ owner' = Take(Loop, {"drv"})
    /\ Goto(Loop, "pp_loop")
    /\ UNCHANGED <<issued, frame, cur, stream, outgoing, sent, tunnels, conn, reads,
                   nextTunnel, drvShut, nSessions, shut, asked, answered, exited>>

\* Mutant of ProcessPacketsDone: processPackets returns after one packet.
ProcessPacketsDoneEarly ==
    /\ ~exited /\ pc[Loop] = "pp_loop"
    /\ owner' = Give({"drv", "sess"})
    /\ \/ Goto(Loop, "idle")
       \/ Goto(Loop, "gn_ctrl")
    /\ UNCHANGED <<issued, frame, cur, stream, outgoing, sent, tunnels, conn, reads,
                   nextTunnel, drvShut, nSessions, shut, asked, answered, exited>>

\* ReadPacket finds no complete packet: processPackets returns, and so do
\* DataReceived, handleMSG and DataIncoming, unlocking d.mu and s.mu.
ProcessPacketsDone ==
    /\ ~exited /\ pc[Loop] = "pp_loop" /\ stream = <<>>
    /\ owner' = Give({"drv", "sess"})
    /\ \/ Goto(Loop, "idle")
       \/ Goto(Loop, "gn_ctrl")     \* DataIncoming returned true: doSend
    /\ UNCHANGED <<issued, frame, cur, stream, outgoing, sent, tunnels, conn, reads,
                   nextTunnel, drvShut, nSessions, shut, asked, answered, exited>>

\* Mutant of HandleAtOnce: every request gets a response, handleError's
\* included.
HandleAtOnceAnswersRequests ==
    /\ ~exited /\ pc[Loop] = "pp_loop" /\ stream # <<>>
    /\ LET c == Head(stream)
       IN  /\ ~c.req \/ c.id \in {"PING", "DOWNLOAD", "UPLOAD", "DELAY", "ERROR"}
           /\ IF c.req
              THEN outgoing' = Append(outgoing, Resp(c)) /\ answered' = answered + 1
              ELSE UNCHANGED <<outgoing, answered>>
    /\ stream' = Tail(stream)
    /\ UNCHANGED <<owner, pc, issued, frame, cur, sent, tunnels, conn, reads,
                   nextTunnel, drvShut, nSessions, shut, asked, exited>>

\* processPackets hands the next packet to handlePacket, with d.mu held.
\* The handlers that answer at once (handlePing, handleDownload and
\* handleUpload, whose file errors also yield a response, handleDelay,
\* handleError), and every handler given a response rather than a request:
HandleAtOnce ==
    /\ ~exited /\ pc[Loop] = "pp_loop" /\ stream # <<>>
    /\ LET c == Head(stream)
       IN  /\ ~c.req \/ c.id \in {"PING", "DOWNLOAD", "UPLOAD", "DELAY", "ERROR"}
           /\ IF Owes(c)
              THEN outgoing' = Append(outgoing, Resp(c)) /\ answered' = answered + 1
              ELSE UNCHANGED <<outgoing, answered>>
    /\ stream' = Tail(stream)
    /\ UNCHANGED <<owner, pc, issued, frame, cur, sent, tunnels, conn, reads,
                   nextTunnel, drvShut, nSessions, shut, asked, exited>>

\* handleShell and handleExec call CreateSession (newCommandSession's
\* callback): NewExecSession, then controller.AddSession under
\* globalController.mu.
HandleCreateSession ==
    /\ ~exited /\ pc[Loop] = "pp_loop" /\ stream # <<>>
    /\ Head(stream).req /\ Head(stream).id \in {"SHELL", "EXEC"}
    /\ cur' = Head(stream) /\ stream' = Tail(stream)
    /\ Goto(Loop, "as_ctrl")
    /\ UNCHANGED <<owner, issued, frame, outgoing, sent, tunnels, conn, reads,
                   nextTunnel, drvShut, nSessions, shut, asked, answered, exited>>

\* NewExecSession may fail (the callback then returns 0 and adds nothing);
\* either way the handler answers.
AddSession ==
    /\ ~exited /\ pc[Loop] = "as_ctrl" /\ Free("ctrl")
    /\ \/ nSessions <= MaxExec /\ nSessions' = nSessions + 1
       \/ UNCHANGED nSessions
    /\ outgoing' = Append(outgoing, Resp(cur)) /\ answered' = answered + 1
    /\ Goto(Loop, "pp_loop")
    /\ UNCHANGED <<owner, issued, frame, cur, stream, sent, tunnels, conn, reads,
                   nextTunnel, drvShut, shut, asked, exited>>

\* handleTunnelConnect: net.Dial (with d.mu held); on success a new tunnel
\* id, the tunnel in d.tunnels and its tunnelReader started.
HandleTunnelConnect ==
    /\ ~exited /\ pc[Loop] = "pp_loop" /\ stream # <<>>
    /\ Head(stream).req /\ Head(stream).id = "TUNNEL_CONNECT"
    /\ \/ UNCHANGED <<tunnels, conn, nextTunnel, pc>>          \* dial failed
       \/ LET t == nextTunnel + 1
          IN  /\ t \in Readers
              /\ nextTunnel' = t
              /\ tunnels' = tunnels \cup {t}
              /\ conn' = [conn EXCEPT ![t] = "open"]
              /\ Goto(t, "read")
    /\ outgoing' = Append(outgoing, Resp(Head(stream))) /\ answered' = answered + 1
    /\ stream' = Tail(stream)
    /\ UNCHANGED <<owner, issued, frame, cur, sent, reads, drvShut, nSessions, shut, asked, exited>>

\* handleTunnelData and handleTunnelClose look the tunnel up under d.mu,
\* which processPackets holds: the goroutine waits for itself, and the
\* rest of the handler never runs.
HandleTunnelData ==
    /\ ~exited /\ pc[Loop] = "pp_loop" /\ stream # <<>>
    /\ Head(stream).req /\ Head(stream).id = "TUNNEL_DATA"
    /\ cur' = Head(stream) /\ stream' = Tail(stream)
    /\ Goto(Loop, "td_drv")
    /\ UNCHANGED <<owner, issued, frame, outgoing, sent, tunnels, conn, reads,
                   nextTunnel, drvShut, nSessions, shut, asked, answered, exited>>

HandleTunnelClose ==
    /\ ~exited /\ pc[Loop] = "pp_loop" /\ stream # <<>>
    /\ Head(stream).req /\ Head(stream).id = "TUNNEL_CLOSE"
    /\ cur' = Head(stream) /\ stream' = Tail(stream)
    /\ Goto(Loop, "tc_drv")
    /\ UNCHANGED <<owner, issued, frame, outgoing, sent, tunnels, conn, reads,
                   nextTunnel, drvShut, nSessions, shut, asked, answered, exited>>

\* handleShutdown calls OnShutdown, i.e. controller.KillAllSessions, which
\* locks globalController.mu and then calls IsShutdown on every session,
\* the command session (session 0, held by DataIncoming) first.
HandleShutdown ==
    /\ ~exited /\ pc[Loop] = "pp_loop" /\ stream # <<>>
    /\ Head(stream).req /\ Head(stream).id = "SHUTDOWN"
    /\ cur' = Head(stream) /\ stream' = Tail(stream)
    /\ Goto(Loop, "ka_ctrl")
    /\ UNCHANGED <<owner, issued, frame, outgoing, sent, tunnels, conn, reads,
                   nextTunnel, drvShut, nSessions, shut, asked, answered, exited>>

KillAllSessionsLock ==
    /\ ~exited /\ pc[Loop] = "ka_ctrl" /\ Free("ctrl")
    /\ owner' = Take(Loop, {"ctrl"})
    /\ Goto(Loop, "ka_sess")
    /\ UNCHANGED <<issued, frame, cur, stream, outgoing, sent, tunnels, conn, reads,
                   nextTunnel, drvShut, nSessions, shut, asked, answered, exited>>

\* Run's read deadline passes: controller.Heartbeat, then doSend.
Timeout ==
    /\ ~exited /\ pc[Loop] = "idle"
    /\ Goto(Loop, "hb_ctrl")
    /\ UNCHANGED <<owner, issued, frame, cur, stream, outgoing, sent, tunnels, conn,
                   reads, nextTunnel, drvShut, nSessions, shut, asked, answered, exited>>

\* killIgnoredSessions locks globalController.mu ...
HeartbeatLock ==
    /\ ~exited /\ pc[Loop] = "hb_ctrl" /\ Free("ctrl")
    /\ owner' = Take(Loop, {"ctrl"})
    /\ Goto(Loop, "hb_sess")
    /\ UNCHANGED <<issued, frame, cur, stream, outgoing, sent, tunnels, conn, reads,
                   nextTunnel, drvShut, nSessions, shut, asked, answered, exited>>

\* ... and kills every live session (IsShutdown takes its s.mu) whose
\* MissedTransmissions passed MaxRetransmits; which ones did is left open.
\* Killing the command session calls Driver.Close while the controller
\* lock is held.
HeartbeatScan ==
    /\ ~exited /\ pc[Loop] = "hb_sess" /\ Free("sess")
    /\ \E evicted \in SUBSET ((0..(nSessions - 1)) \ shut) :
          /\ shut' = shut \cup evicted
          /\ IF 0 \in evicted
             THEN Goto(Loop, "hb_drv") /\ UNCHANGED owner
             ELSE Goto(Loop, "gn_ctrl") /\ owner' = Give({"ctrl"})
    /\ UNCHANGED <<issued, frame, cur, stream, outgoing, sent, tunnels, conn, reads,
                   nextTunnel, drvShut, nSessions, asked, answered, exited>>

\* Driver.Close: under d.mu, isShutdown set and every tunnel's connection
\* closed and deleted.
CloseAll ==
    /\ drvShut' = TRUE
    /\ conn' = [t \in Readers |-> IF t \in tunnels THEN "closed" ELSE conn[t]]
    /\ tunnels' = {}

DriverClose ==
    /\ ~exited /\ pc[Loop] = "hb_drv" /\ Free("drv")
    /\ CloseAll
    /\ owner' = Give({"ctrl"})
    /\ Goto(Loop, "gn_ctrl")
    /\ UNCHANGED <<issued, frame, cur, stream, outgoing, sent, reads, nextTunnel,
                   nSessions, shut, asked, answered, exited>>

\* doSend -> controller.GetOutgoing -> getNextActive: under
\* globalController.mu, the next session round-robin whose IsShutdown
\* (s.mu) is false; none left: os.Exit(0).  Another session than the
\* command session is polled through its own driver, not modelled.
GetNextActive ==
    /\ ~exited /\ pc[Loop] = "gn_ctrl" /\ Free("ctrl") /\ Free("sess")
    /\ LET active == (0..(nSessions - 1)) \ shut
       IN  IF active = {}
           THEN exited' = TRUE /\ UNCHANGED pc
           ELSE /\ \E s \in active : Goto(Loop, IF s = 0 THEN "go_sess" ELSE "idle")
                /\ UNCHANGED exited
    /\ UNCHANGED <<owner, issued, frame, cur, stream, outgoing, sent, tunnels, conn,
                   reads, nextTunnel, drvShut, nSessions, shut, asked, answered>>

\* Session.GetOutgoing under s.mu: pollDriverForData (Driver.GetOutgoing
\* under d.mu), then the frame is built from what the session holds.
SessionGetOutgoing ==
    /\ ~exited /\ pc[Loop] = "go_sess" /\ Free("sess") /\ Free("drv")
    /\ Poll
    /\ Goto(Loop, "idle")
    /\ UNCHANGED <<owner, issued, frame, cur, stream, tunnels, conn, reads,
                   nextTunnel, drvShut, nSessions, shut, asked, answered, exited>>

-----------------------------------------------------------------------------
(* tunnelReader t.                                                         *)

\* Conn.Read returns data, or an error: EOF from the remote end at any
\* time, always once the connection was closed on this side.
TunnelRead(t) ==
    /\ ~exited /\ pc[t] = "read"
    /\ \/ conn[t] = "open" /\ reads[t] < MaxReads
          /\ reads' = [reads EXCEPT ![t] = @ + 1] /\ Goto(t, "rd_drv")
       \/ Goto(t, "cl_drv") /\ UNCHANGED reads
    /\ UNCHANGED <<owner, issued, frame, cur, stream, outgoing, sent, tunnels, conn,
                   nextTunnel, drvShut, nSessions, shut, asked, answered, exited>>

\* The data becomes a TUNNEL_DATA request appended under d.mu.
TunnelAppend(t) ==
    /\ ~exited /\ pc[t] = "rd_drv" /\ Free("drv")
    /\ outgoing' = Append(outgoing, TData(t))
    /\ Goto(t, "read")
    /\ UNCHANGED <<owner, issued, frame, cur, stream, sent, tunnels, conn, reads,
                   nextTunnel, drvShut, nSessions, shut, asked, answered, exited>>

\* closeTunnel under d.mu: a tunnel still in d.tunnels is closed, deleted
\* and reported with a TUNNEL_CLOSE request; the reader then returns.
CloseTunnel(t) ==
    /\ ~exited /\ pc[t] = "cl_drv" /\ Free("drv")
    /\ IF t \in tunnels
       THEN /\ conn' = [conn EXCEPT ![t] = "closed"]
            /\ tunnels' = tunnels \ {t}
            /\ outgoing' = Append(outgoing, TClose(t))
       ELSE UNCHANGED <<conn, tunnels, outgoing>>
    /\ Goto(t, "done")
    /\ UNCHANGED <<owner, issued, frame, cur, stream, sent, reads, nextTunnel,
                   drvShut, nSessions, shut, asked, answered, exited>>

\* After os.Exit no goroutine runs.
Exited == exited /\ UNCHANGED vars

-----------------------------------------------------------------------------

\* main: the command session (newCommandSession) is the controller's only
\* session; its driver is empty and no tunnel exists.
Init ==
    /\ owner = [m \in Mutexes |-> NoOwner]
    /\ pc = [g \in Goroutines |-> IF g = Loop THEN "idle" ELSE "none"]
    /\ issued = 0 /\ frame = <<>> /\ cur = [id |-> "PING", req |-> FALSE, tid |-> 0]
    /\ stream = <<>> /\ outgoing = <<>> /\ sent = <<>>
    /\ tunnels = {} /\ conn = [t \in Readers |-> "none"]
    /\ reads = [t \in Readers |-> 0] /\ nextTunnel = 0 /\ drvShut = FALSE
    /\ nSessions = 1 /\ shut = {}
    /\ asked = 0 /\ answered = 0 /\ exited = FALSE

LoopWork ==
    \/ DataIncomingLock \/ PollDriver \/ DataReceived
    \/ ProcessPacketsLock \/ ProcessPacketsDone
    \/ HandleAtOnce \/ HandleCreateSession \/ AddSession \/ HandleTunnelConnect
    \/ HandleTunnelData \/ HandleTunnelClose \/ HandleShutdown \/ KillAllSessionsLock
    \/ HeartbeatLock \/ HeartbeatScan \/ DriverClose
    \/ GetNextActive \/ SessionGetOutgoing

LoopStep == Receive \/ Timeout \/ LoopWork

ReaderStep(t) == TunnelRead(t) \/ TunnelAppend(t) \/ CloseTunnel(t)

Next == LoopStep \/ (\E t \in Readers : ReaderStep(t)) \/ Exited

\* The Go scheduler runs every runnable goroutine; the server's commands
\* and the read deadline are not assumed to come.
Fairness ==
    /\ WF_vars(LoopWork)
    /\ \A t \in Readers : WF_vars(ReaderStep(t))

Spec == Init /\ [][Next]_vars
FairSpec == Spec /\ Fairness

-----------------------------------------------------------------------------
(* Properties                                                              *)

Out == [kind : {"resp", "tdata", "tclose"}, cmd : CmdIds, tid : 0..MaxTunnels]

TypeOK ==
    /\ owner \in [Mutexes -> Goroutines \cup {NoOwner}]
    /\ pc[Loop] \in DOMAIN WaitsFor \cup {"idle", "pp_loop"}
    /\ \A t \in Readers : pc[t] \in {"none", "read", "rd_drv", "cl_drv", "done"}
    /\ stream \in Seq(Command) /\ outgoing \in Seq(Out) /\ sent \in Seq(Out)
    /\ tunnels \subseteq Readers /\ conn \in [Readers -> {"none", "open", "closed"}]
    /\ nextTunnel \in 0..MaxTunnels /\ shut \subseteq 0..(nSessions - 1)
    /\ answered <= asked

\* No goroutine ever waits for a mutex it holds itself: every nested lock
\* on the paths from DataIncoming (s.mu, then d.mu in processPackets) and
\* from Heartbeat (globalController.mu) takes a mutex its caller left free.
NoSelfWait ==
    \A g \in Goroutines :
        pc[g] \in DOMAIN WaitsFor => owner[WaitsFor[pc[g]]] # g

\* Driver.Close leaves no tunnel open: once the command session's driver
\* is shut down, d.tunnels is empty and no connection is open, whatever the
\* tunnel readers and late command packets do.
NoTunnelAfterClose ==
    drvShut => tunnels = {} /\ \A t \in Readers : conn[t] # "open"

\* Every request handed to the driver that owes a response is eventually
\* answered in outgoingData: processPackets handles every complete packet
\* in the stream before it returns, and no handler blocks for good, unless
\* the transport goroutine waits for a mutex it holds itself (NoSelfWait,
\* checked on its own).
RequestsAnswered ==
    \A n \in 1..MaxCommands : asked >= n ~> (answered >= n \/ ~NoSelfWait)
====

----------------------------- MODULE ExecDriver -----------------------------
(***************************************************************************)
(* The exec driver (pkg/driver/console.go, ExecDriver) of a session that   *)
(* runs a child process, with the three goroutines that touch it:         *)
(*                                                                         *)
(*  - readOutput, which reads the child's stdout pipe and appends to      *)
(*    d.outgoingData under d.mu;                                          *)
(*  - the wait goroutine of NewExecDriver, whose cmd.Wait returns once    *)
(*    the child exited, closes the parent's ends of the stdin and stdout  *)
(*    pipes (os/exec closes them after Wait), then sets d.isShutdown;    *)
(*  - the transport goroutine, which polls the driver from                *)
(*    Session.pollDriverForData, writes the server's data to the child's  *)
(*    stdin in DataReceived, and kills the session on eviction or FIN.    *)
(*                                                                         *)
(* The child itself is an environment process: it writes output, reads   *)
(* stdin, and exits, in any order.  Output bytes are numbered 1, 2, ... in *)
(* the order the child writes them; server input is counted.              *)
(***************************************************************************)
EXTENDS Naturals, Sequences

CONSTANTS
    MaxOut,     \* bound: bytes the child writes to stdout
    MaxIn,      \* bound: MSG payloads the server sends to the child
    StdinCap    \* bytes the stdin pipe buffers before a write blocks

VARIABLES
    child,      \* "running" or "exited"
    written,    \* bytes the child has written to stdout
    pipe,       \* bytes in the stdout pipe, not yet read
    pipeOpen,   \* the parent's read end of the stdout pipe is open
    rpc,        \* readOutput: "read", "append" (holding rbuf) or "done"
    rbuf,       \* the bytes readOutput read and has not yet appended
    wpc,        \* wait goroutine: "wait", "lock" or "done"
    outgoing,   \* d.outgoingData
    shut,       \* d.isShutdown
    stdin,      \* bytes in the stdin pipe, not yet read by the child
    stdinOpen,  \* the parent's write end of the stdin pipe is open
    lpc,        \* transport goroutine: "idle", or "writing" in stdin.Write
    inputs,     \* MSG payloads the server has sent
    sess,       \* the session: "live", "done" (driver reported done) or "killed"
    sessBuf,    \* the session's OutgoingBuffer: bytes taken, not yet acked
    delivered   \* history: every byte GetOutgoing has returned, in order

vars == <<child, written, pipe, pipeOpen, rpc, rbuf, wpc, outgoing, shut,
          stdin, stdinOpen, lpc, inputs, sess, sessBuf, delivered>>

childVars == <<child, written, stdin>>
readerVars == <<pipe, pipeOpen, rpc, rbuf>>
sessVars == <<lpc, inputs, sess, sessBuf, delivered>>

-----------------------------------------------------------------------------
(* The child process.                                                      *)

ChildWrite ==
    /\ child = "running" /\ written < MaxOut
    /\ written' = written + 1
    /\ pipe' = Append(pipe, written + 1)
    /\ UNCHANGED <<child, stdin, pipeOpen, rpc, rbuf, wpc, outgoing, shut,
                   stdinOpen, sessVars>>

ChildReadStdin ==
    /\ child = "running" /\ stdin > 0
    /\ stdin' = stdin - 1
    /\ UNCHANGED <<child, written, readerVars, wpc, outgoing, shut, stdinOpen, sessVars>>

\* The child exits on its own; its end of the stdin pipe goes with it.
ChildExit ==
    /\ child = "running"
    /\ child' = "exited" /\ stdin' = 0
    /\ UNCHANGED <<written, readerVars, wpc, outgoing, shut, stdinOpen, sessVars>>

-----------------------------------------------------------------------------
(* readOutput.                                                             *)

\* r.Read returns some of the bytes in the pipe; EOF once the child exited
\* and the pipe is empty; an error once Wait closed the read end, whatever
\* the pipe still holds.
ReadOutput ==
    /\ rpc = "read"
    /\ \/ /\ pipeOpen /\ pipe # <<>>
          /\ \E k \in 1..Len(pipe) :
                /\ rbuf' = SubSeq(pipe, 1, k)
                /\ pipe' = SubSeq(pipe, k + 1, Len(pipe))
          /\ rpc' = "append"
       \/ /\ pipeOpen /\ pipe = <<>> /\ child = "exited"
          /\ rpc' = "done" /\ UNCHANGED <<pipe, rbuf>>
       \/ /\ ~pipeOpen
          /\ rpc' = "done" /\ UNCHANGED <<pipe, rbuf>>
    /\ UNCHANGED <<childVars, pipeOpen, wpc, outgoing, shut, stdinOpen, sessVars>>

\* The bytes read are appended to d.outgoingData under d.mu.
AppendOutput ==
    /\ rpc = "append"
    /\ outgoing' = outgoing \o rbuf
    /\ rbuf' = <<>> /\ rpc' = "read"
    /\ UNCHANGED <<childVars, pipe, pipeOpen, wpc, shut, stdinOpen, sessVars>>

-----------------------------------------------------------------------------
(* The wait goroutine.                                                     *)

\* cmd.Wait returns once the child exited, and closes the parent's pipe
\* ends before it does.
Wait ==
    /\ wpc = "wait" /\ child = "exited"
    /\ pipeOpen' = FALSE /\ stdinOpen' = FALSE
    /\ wpc' = "lock"
    /\ UNCHANGED <<childVars, pipe, rpc, rbuf, outgoing, shut, sessVars>>

\* Mutant of WaitShutdown: the wait goroutine returns without marking the
\* driver shut down.
WaitShutdownSkip ==
    /\ wpc = "lock"
    /\ wpc' = "done"
    /\ UNCHANGED <<childVars, readerVars, outgoing, shut, stdinOpen, sessVars>>

\* d.isShutdown = true under d.mu.
WaitShutdown ==
    /\ wpc = "lock"
    /\ shut' = TRUE /\ wpc' = "done"
    /\ UNCHANGED <<childVars, readerVars, outgoing, stdinOpen, sessVars>>

-----------------------------------------------------------------------------
(* The transport goroutine, through the session.                           *)

\* ExecDriver.Close, called by Session.Kill: under d.mu, nothing if already
\* shut down; otherwise shut down, stdin closed and the child killed.
Close ==
    IF shut THEN UNCHANGED <<shut, stdinOpen, child, stdin>>
    ELSE /\ shut' = TRUE /\ stdinOpen' = FALSE
         /\ IF child = "running" THEN child' = "exited" /\ stdin' = 0
                                 ELSE UNCHANGED <<child, stdin>>

\* Mutant of PollDriver: GetOutgoing copies d.outgoingData without
\* removing what it returned.
PollDriverNoTrim ==
    /\ sess = "live" /\ lpc = "idle"
    /\ IF shut /\ outgoing = <<>>
       THEN /\ IF sessBuf = <<>>
               THEN sess' = "done" /\ Close
               ELSE UNCHANGED <<sess, shut, stdinOpen, child, stdin>>
            /\ UNCHANGED <<outgoing, sessBuf, delivered>>
       ELSE /\ sessBuf' = sessBuf \o outgoing
            /\ delivered' = delivered \o outgoing
            /\ UNCHANGED <<outgoing, sess, shut, stdinOpen, child, stdin>>
    /\ UNCHANGED <<written, readerVars, wpc, lpc, inputs>>

\* Session.pollDriverForData: GetOutgoing(-1) under d.mu returns nil once
\* the driver is shut down and empty, and the session kills itself if its
\* own buffer is empty too; otherwise it takes all of d.outgoingData.
PollDriver ==
    /\ sess = "live" /\ lpc = "idle"
    /\ IF shut /\ outgoing = <<>>
       THEN /\ IF sessBuf = <<>>
               THEN sess' = "done" /\ Close
               ELSE UNCHANGED <<sess, shut, stdinOpen, child, stdin>>
            /\ UNCHANGED <<outgoing, sessBuf, delivered>>
       ELSE /\ sessBuf' = sessBuf \o outgoing
            /\ delivered' = delivered \o outgoing
            /\ outgoing' = <<>>
            /\ UNCHANGED <<sess, shut, stdinOpen, child, stdin>>
    /\ UNCHANGED <<written, readerVars, wpc, lpc, inputs>>

\* The server acknowledges some of the session's buffered bytes (handleMSG).
Ack ==
    /\ sess = "live" /\ sessBuf # <<>>
    /\ \E k \in 1..Len(sessBuf) : sessBuf' = SubSeq(sessBuf, k + 1, Len(sessBuf))
    /\ UNCHANGED <<childVars, readerVars, wpc, outgoing, shut, stdinOpen,
                   lpc, inputs, sess, delivered>>

\* handleMSG passes a payload to DataReceived, which writes it to stdin on
\* the transport goroutine, with s.mu held.  A write to a closed pipe, or
\* to a child that is gone, fails at once; a full pipe blocks the write.
DataReceived ==
    /\ sess = "live" /\ lpc = "idle" /\ inputs < MaxIn
    /\ inputs' = inputs + 1
    /\ IF stdinOpen /\ child = "running"
       THEN IF stdin < StdinCap THEN stdin' = stdin + 1 /\ UNCHANGED lpc
                                ELSE lpc' = "writing" /\ UNCHANGED stdin
       ELSE UNCHANGED <<stdin, lpc>>
    /\ UNCHANGED <<child, written, readerVars, wpc, outgoing, shut, stdinOpen,
                   sess, sessBuf, delivered>>

\* The blocked stdin.Write returns: the child read enough, or it is gone.
WriteDone ==
    /\ lpc = "writing"
    /\ \/ child = "running" /\ stdin < StdinCap /\ stdin' = stdin + 1
       \/ child = "exited" /\ UNCHANGED stdin
    /\ lpc' = "idle"
    /\ UNCHANGED <<child, written, readerVars, wpc, outgoing, shut, stdinOpen,
                   inputs, sess, sessBuf, delivered>>

\* Heartbeat evicts the session, or the server's FIN ends it: Session.Kill.
Kill ==
    /\ sess = "live" /\ lpc = "idle"
    /\ sess' = "killed" /\ Close
    /\ UNCHANGED <<written, readerVars, wpc, outgoing, lpc, inputs, sessBuf, delivered>>

\* Once the session is over nothing is left for the transport loop to do.
SessionOver ==
    /\ sess # "live" /\ rpc = "done" /\ wpc = "done"
    /\ UNCHANGED vars

-----------------------------------------------------------------------------

\* NewExecDriver started the child and both goroutines.
Init ==
    /\ child = "running" /\ written = 0 /\ pipe = <<>> /\ pipeOpen = TRUE
    /\ rpc = "read" /\ rbuf = <<>> /\ wpc = "wait"
    /\ outgoing = <<>> /\ shut = FALSE
    /\ stdin = 0 /\ stdinOpen = TRUE
    /\ lpc = "idle" /\ inputs = 0
    /\ sess = "live" /\ sessBuf = <<>> /\ delivered = <<>>

Child == ChildWrite \/ ChildReadStdin \/ ChildExit
Reader == ReadOutput \/ AppendOutput
Waiter == Wait \/ WaitShutdown
Loop == PollDriver \/ Ack \/ WriteDone

Next == Child \/ Reader \/ Waiter \/ Loop \/ DataReceived \/ Kill \/ SessionOver

\* The goroutines run when they can, the transport loop polls the session
\* on every pass and the server acknowledges what it received; the child,
\* the server's input and the session's eviction are not assumed to come.
Fairness == WF_vars(Reader) /\ WF_vars(Waiter) /\ WF_vars(Loop)

Spec == Init /\ [][Next]_vars
FairSpec == Spec /\ Fairness

-----------------------------------------------------------------------------
(* Properties                                                              *)

Bytes(n) == [i \in 1..n |-> i]

\* GetOutgoing hands the session the child's output once each and in order:
\* what it returned so far is the first bytes the child wrote.
DeliveredInOrder == delivered = Bytes(Len(delivered))

\* A child that exits ends its session: the wait goroutine shuts the driver
\* down, readOutput drains what is left, and GetOutgoing then reports done.
ChildExitEndsSession == child = "exited" ~> sess # "live"

\* GetOutgoing reports done (nil) only when no more output will come
\* (spec.md §6): a session that ends because its driver is done has handed
\* on every byte the child wrote.
ExitOutputDelivered == sess = "done" => delivered = Bytes(written)

\* The transport goroutine is never stuck in a write to the child's stdin
\* (spec.md §5: no lock is held across blocking I/O, and the transport loop
\* never blocks on a background task).
WriteReturns == lpc = "writing" ~> lpc = "idle"
====

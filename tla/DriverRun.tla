----------------------------- MODULE DriverRun ------------------------------
(***************************************************************************)
(* The receive side of Driver.Run (pkg/tunnel/dns/dns.go): the loop reads *)
(* whatever datagram reaches its socket (ReadFromUDP does not look at the *)
(* source, and the transaction id is never compared with the query's),   *)
(* parses it, decodes the answers and hands the bytes to the controller.  *)
(* What one iteration makes of a datagram is DnsTransport's Receive; this *)
(* module is the loop around it.  The timeout branch (Heartbeat, doSend)  *)
(* and the controller are in module Session.                               *)
(***************************************************************************)
EXTENDS DnsTransport

CONSTANTS
    Domains,      \* values of d.Domain
    Datagrams     \* datagrams that can reach the socket

VARIABLES
    domain,       \* d.Domain, fixed when the driver is created
    loop          \* "reading": the loop is at ReadFromUDP; "hung": inside
                  \* decodeDNSName for ever; "crashed": the process panicked

vars == <<domain, loop>>

Init ==
    /\ domain \in Domains
    /\ loop = "reading"

\* One iteration of the loop on datagram dg: skipped (parse error, rcode,
\* no answer, decode error), handed on, or the loop never comes back.
Read(dg) ==
    /\ loop = "reading"
    /\ loop' = CASE Receive(domain, dg).status = "loop"  -> "hung"
                 [] Receive(domain, dg).status = "panic" -> "crashed"
                 [] OTHER                                -> "reading"
    /\ UNCHANGED domain

Next == \E dg \in Datagrams : Read(dg)

Spec == Init /\ [][Next]_vars

\* Driver.Run keeps serving its sessions whatever reaches its socket: no
\* datagram, from the server or not, stops the loop of reads.
ReceiveSurvives == loop = "reading"
====

---------------------------- MODULE CommandCodec ----------------------------
(***************************************************************************)
(* The command sub-protocol codec (src/unnamed/part_001) and the framing  *)
(* loop of the command driver (processPackets, command/driver.go).         *)
(*                                                                         *)
(* A packet is a record with the fields of every body; a command uses the *)
(* ones its case of ToBytes writes and leaves the others at their zero     *)
(* value.  Bytes are naturals below 256, strings and data are sequences of *)
(* bytes.  ToBytes, parsePacket, readNTString and ReadPacket are           *)
(* operators; processPackets is RECURSIVE.  A small state machine hands   *)
(* the framed stream of the server's packets to the driver in chunks of   *)
(* any size, as MSG payloads arrive, and runs processPackets after each.  *)
(***************************************************************************)
EXTENDS Naturals, Sequences, SequencesExt

CONSTANTS
    Packets,      \* the packets the server may send
    MaxPackets    \* bound: packets the server sends

\* PacketType (part_001)
CommandPing == 0
CommandShell == 1
CommandExec == 2
CommandDownload == 3
CommandUpload == 4
CommandShutdown == 5
CommandDelay == 6
TunnelConnect == 4096
TunnelData == 4097
TunnelClose == 4098
CommandError == 65535
KnownCmds == {CommandPing, CommandShell, CommandExec, CommandDownload,
              CommandUpload, CommandShutdown, CommandDelay, TunnelConnect,
              TunnelData, TunnelClose, CommandError}

Zero == [s1 |-> <<>>, s2 |-> <<>>, n |-> 0, port |-> 0, data |-> <<>>]

-----------------------------------------------------------------------------
(* Encoding: binary.Write big-endian, writeNTString, ToBytes.              *)

Be16(x) == <<x \div 256, x % 256>>
Be32(x) == <<(x \div 16777216) % 256, (x \div 65536) % 256, (x \div 256) % 256, x % 256>>

\* binary.BigEndian.Uint16 / Uint32 of the bytes b.
Num(b) == FoldLeft(LAMBDA acc, y : acc * 256 + y, 0, b)

writeNTString(s) == s \o <<0>>

\* The body of ToBytes after the packed id and the command id.
BodyOf(p) ==
    CASE p.cmd = CommandPing     -> writeNTString(p.s1)
      [] p.cmd = CommandShell    -> IF p.req THEN writeNTString(p.s1) ELSE Be16(p.n)
      [] p.cmd = CommandExec     -> IF p.req THEN writeNTString(p.s1) \o writeNTString(p.s2)
                                            ELSE Be16(p.n)
      [] p.cmd = CommandDownload -> IF p.req THEN writeNTString(p.s1) ELSE p.data
      [] p.cmd = CommandUpload   -> IF p.req THEN writeNTString(p.s1) \o p.data ELSE <<>>
      [] p.cmd = CommandDelay    -> IF p.req THEN Be32(p.n) ELSE <<>>
      [] p.cmd = TunnelConnect   -> IF p.req THEN Be32(p.n) \o writeNTString(p.s1) \o Be16(p.port)
                                            ELSE Be32(p.n)
      [] p.cmd = TunnelData      -> IF p.req THEN Be32(p.n) \o p.data ELSE <<>>
      [] p.cmd = TunnelClose     -> IF p.req THEN Be32(p.n) \o writeNTString(p.s1) ELSE <<>>
      [] p.cmd = CommandError    -> Be16(p.n) \o writeNTString(p.s1)
      [] OTHER                   -> <<>>     \* CommandShutdown, and no case

\* Packet.ToBytes without the length: packed id (direction bit 0x8000 set
\* for a response), command id, body.
Body(p) ==
    Be16((p.rid % 32768) + (IF p.req THEN 0 ELSE 32768)) \o Be16(p.cmd) \o BodyOf(p)

ToBytes(p) == Be32(Len(Body(p))) \o Body(p)

-----------------------------------------------------------------------------
(* Decoding: a reader is the sequence of bytes left.                      *)

\* Mutant of readNTString: the terminating 0 is left in the reader.
readNTStringKeepZero(r) ==
    LET i == SelectInSeq(r, LAMBDA y : y = 0)
    IN  IF i = 0 THEN [v |-> r, rest |-> <<>>]
        ELSE [v |-> SubSeq(r, 1, i - 1), rest |-> SubSeq(r, i, Len(r))]

\* readNTString: the bytes up to the first 0, which is consumed; all that
\* is left when there is none.
readNTString(r) ==
    LET i == SelectInSeq(r, LAMBDA y : y = 0)
    IN  IF i = 0 THEN [v |-> r, rest |-> <<>>]
        ELSE [v |-> SubSeq(r, 1, i - 1), rest |-> SubSeq(r, i + 1, Len(r))]

\* binary.Read of a k-byte integer: io.ReadFull consumes what is there and,
\* short of k bytes, leaves the value 0.
ReadNum(r, k) ==
    IF Len(r) >= k THEN [v |-> Num(SubSeq(r, 1, k)), rest |-> SubSeq(r, k + 1, Len(r))]
    ELSE [v |-> 0, rest |-> <<>>]

\* The body fields parsePacket fills in for each command, from reader r.
ParseBody(cmd, req, r) ==
    LET nt1 == readNTString(r)
        n16 == ReadNum(r, 2)
        n32 == ReadNum(r, 4)
    IN CASE cmd = CommandPing     -> [Zero EXCEPT !.s1 = nt1.v]
         [] cmd = CommandShell    -> IF req THEN [Zero EXCEPT !.s1 = nt1.v]
                                     ELSE [Zero EXCEPT !.n = n16.v]
         [] cmd = CommandExec     -> IF req THEN [Zero EXCEPT !.s1 = nt1.v,
                                                  !.s2 = readNTString(nt1.rest).v]
                                     ELSE [Zero EXCEPT !.n = n16.v]
         [] cmd = CommandDownload -> IF req THEN [Zero EXCEPT !.s1 = nt1.v]
                                     ELSE [Zero EXCEPT !.data = r]
         [] cmd = CommandUpload   -> IF req THEN [Zero EXCEPT !.s1 = nt1.v, !.data = nt1.rest]
                                     ELSE Zero
         [] cmd = CommandDelay    -> IF req THEN [Zero EXCEPT !.n = n32.v] ELSE Zero
         [] cmd = TunnelConnect   ->
               IF req THEN LET host == readNTString(n32.rest)
                           IN  [Zero EXCEPT !.n = n32.v, !.s1 = host.v,
                                            !.port = ReadNum(host.rest, 2).v]
               ELSE [Zero EXCEPT !.n = n32.v]
         [] cmd = TunnelData      -> IF req THEN [Zero EXCEPT !.n = n32.v, !.data = n32.rest]
                                     ELSE Zero
         [] cmd = TunnelClose     -> IF req THEN [Zero EXCEPT !.n = n32.v,
                                                  !.s1 = readNTString(n32.rest).v]
                                     ELSE Zero
         [] cmd = CommandError    -> [Zero EXCEPT !.n = n16.v, !.s1 = readNTString(n16.rest).v]
         [] OTHER                 -> Zero    \* CommandShutdown

\* parsePacket: "packet too short" under 4 bytes, "unknown command_id" for
\* a command id outside PacketType, else the packet.
parsePacket(data) ==
    IF Len(data) < 4 THEN [ok |-> FALSE]
    ELSE LET packed == Num(SubSeq(data, 1, 2))
             cmd == Num(SubSeq(data, 3, 4))
             req == packed < 32768
         IN  IF cmd \notin KnownCmds THEN [ok |-> FALSE]
             ELSE [ok |-> TRUE,
                   pkt |-> [rid |-> packed % 32768, req |-> req, cmd |-> cmd]
                           @@ ParseBody(cmd, req, SubSeq(data, 5, Len(data)))]

\* ReadPacket on the buffer buf: "wait" while the length or the frame is
\* incomplete (buf untouched), otherwise the frame is consumed and parsed.
\* (The overflow test of length + 4 needs a length of 2^32 - 4 or more and
\* is not reached by the frames modelled.)
ReadPacket(buf) ==
    IF Len(buf) < 4 THEN [status |-> "wait", rest |-> buf]
    ELSE LET length == Num(SubSeq(buf, 1, 4))
         IN  IF Len(buf) < length + 4 THEN [status |-> "wait", rest |-> buf]
             ELSE LET r == parsePacket(SubSeq(buf, 5, 4 + length))
                      rest == SubSeq(buf, 5 + length, Len(buf))
                  IN  IF r.ok THEN [status |-> "pkt", pkt |-> r.pkt, rest |-> rest]
                      ELSE [status |-> "err", rest |-> rest]

\* Mutant of processPackets: one packet per call (an if for the for loop).
processPacketsOnce(buf) ==
    LET r == ReadPacket(buf)
    IN  IF r.status = "pkt" THEN [pkts |-> <<r.pkt>>, rest |-> r.rest]
        ELSE [pkts |-> <<>>, rest |-> r.rest]

\* processPackets: handles packets until ReadPacket waits or fails, and
\* returns the packets handled and the stream left.
RECURSIVE processPackets(_)
processPackets(buf) ==
    LET r == ReadPacket(buf)
    IN  IF r.status = "pkt"
        THEN LET x == processPackets(r.rest)
             IN  [pkts |-> <<r.pkt>> \o x.pkts, rest |-> x.rest]
        ELSE [pkts |-> <<>>, rest |-> r.rest]

-----------------------------------------------------------------------------
(* The server's packets reach d.stream in chunks.                          *)

VARIABLES
    sent,     \* the packets the server sent, in order
    wire,     \* bytes of their frames not yet delivered
    stream,   \* d.stream
    handled   \* the packets processPackets handed to handlePacket

vars == <<sent, wire, stream, handled>>

Init ==
    /\ sent \in SeqOf(Packets, MaxPackets) \ {<<>>}
    /\ wire = FlattenSeq([i \in DOMAIN sent |-> ToBytes(sent[i])])
    /\ stream = <<>> /\ handled = <<>>

\* Driver.DataReceived: the next chunk written to d.stream, then
\* processPackets.
DataReceived ==
    /\ wire # <<>>
    /\ \E k \in 1..Len(wire) :
          LET x == processPackets(stream \o SubSeq(wire, 1, k))
          IN  /\ wire' = SubSeq(wire, k + 1, Len(wire))
              /\ stream' = x.rest
              /\ handled' = handled \o x.pkts
    /\ UNCHANGED sent

\* Everything the server sent has arrived.
Delivered == wire = <<>> /\ UNCHANGED vars

Next == DataReceived \/ Delivered

Spec == Init /\ [][Next]_vars

-----------------------------------------------------------------------------
(* Properties                                                              *)

\* ToBytes and parsePacket agree (spec.md §8, the round-trip law): every
\* packet the server sends decodes, from its own frame, to itself.
RoundTrip ==
    \A i \in DOMAIN sent :
        ReadPacket(ToBytes(sent[i])) = [status |-> "pkt", pkt |-> sent[i], rest |-> <<>>]

\* processPackets hands handlePacket exactly the packets of a known
\* command the server sent, in order, however the stream is cut into MSG
\* payloads, and every one of them once all the bytes have arrived.
KnownSent == SelectSeq(sent, LAMBDA p : p.cmd \in KnownCmds)

FramesHandled ==
    /\ IsPrefix(handled, KnownSent)
    /\ wire = <<>> => handled = KnownSent
====

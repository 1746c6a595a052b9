---------------------------- MODULE PacketCodec -----------------------------
(***************************************************************************)
(* The dnscat2 frames (pkg/protocol/packet.go): Packet.ToBytes and Parse. *)
(*                                                                         *)
(* A packet is a record with the header fields and the fields of every   *)
(* body; a packet type uses the ones its case of ToBytes writes and       *)
(* leaves the others at their zero value, as Parse leaves them.  Strings  *)
(* and data are sequences of bytes.                                       *)
(***************************************************************************)
EXTENDS Naturals, Sequences, SequencesExt

\* PacketType, EncSubtype and Options
PacketTypeSYN == 0
PacketTypeMSG == 1
PacketTypeFIN == 2
PacketTypeENC == 3
PacketTypePING == 255
EncSubtypeInit == 0
EncSubtypeAuth == 1
OptName == 1
OptCommand == 32
MaxPacketSize == 1024

\* Op applied to the value of x, x evaluated once.
LOCAL With(x, Op(_)) == CHOOSE y \in {Op(v) : v \in {x}} : TRUE

Zeros(n) == [i \in 1..n |-> 0]

\* The body fields of a packet as Parse leaves them before it reads any.
NoBody == [seq |-> 0, ack |-> 0, options |-> 0, name |-> <<>>, data |-> <<>>,
           subtype |-> 0, flags |-> 0, key |-> Zeros(64), auth |-> Zeros(32)]

LOCAL Be16(x) == <<x \div 256, x % 256>>
LOCAL Num(b) == FoldLeft(LAMBDA acc, y : acc * 256 + y, 0, b)

\* writeNTString
writeNTString(s) == s \o <<0>>

\* Packet.ToBytes: the header (packet id, type, session id), then the body
\* of the type.  A string field (name, reason, ping data) is in name.
ToBytes(p) ==
    Be16(p.id) \o <<p.type>> \o Be16(p.sid) \o
    CASE p.type = PacketTypeSYN ->
            Be16(p.seq) \o Be16(p.options)
            \o (IF p.options % 2 = 1 THEN writeNTString(p.name) ELSE <<>>)
      [] p.type = PacketTypeMSG -> Be16(p.seq) \o Be16(p.ack) \o p.data
      [] p.type \in {PacketTypeFIN, PacketTypePING} -> writeNTString(p.name)
      [] p.type = PacketTypeENC ->
            Be16(p.subtype) \o Be16(p.flags)
            \o (CASE p.subtype = EncSubtypeInit -> p.key
                  [] p.subtype = EncSubtypeAuth -> p.auth
                  [] OTHER -> <<>>)

-----------------------------------------------------------------------------
(* Parse.  A reader is the sequence of bytes left; a failed read is an    *)
(* error of Parse.                                                         *)

\* binary.Read of a uint16: io.ReadFull, an error short of two bytes.
Read16(r) ==
    IF Len(r) >= 2 THEN [ok |-> TRUE, v |-> Num(SubSeq(r, 1, 2)), rest |-> SubSeq(r, 3, Len(r))]
    ELSE [ok |-> FALSE]

\* readNTString: the bytes before the first 0, which is consumed; an error
\* when the reader runs out first.
readNTString(r) ==
    LET i == SelectInSeq(r, LAMBDA b : b = 0)
    IN  IF i = 0 THEN [ok |-> FALSE]
        ELSE [ok |-> TRUE, v |-> SubSeq(r, 1, i - 1), rest |-> SubSeq(r, i + 1, Len(r))]

\* bytes.Reader.Read into a zeroed array of n bytes: io.EOF when nothing
\* is left, else the bytes there are, at most n, and no error.
ReadArray(r, n) ==
    IF r = <<>> THEN [ok |-> FALSE]
    ELSE LET k == IF Len(r) < n THEN Len(r) ELSE n
         IN  [ok |-> TRUE, v |-> SubSeq(r, 1, k) \o Zeros(n - k)]

\* The body of a packet of type t read from r.
ParseBody(t, r) ==
    CASE t = PacketTypeSYN ->
            LET seq == Read16(r)
                opts == Read16(seq.rest)
                name == readNTString(opts.rest)
            IN  IF ~seq.ok \/ ~opts.ok THEN [ok |-> FALSE]
                ELSE IF opts.v % 2 = 1 /\ ~name.ok THEN [ok |-> FALSE]
                ELSE [ok |-> TRUE, b |-> [NoBody EXCEPT !.seq = seq.v, !.options = opts.v,
                                          !.name = IF opts.v % 2 = 1 THEN name.v ELSE <<>>]]
      [] t = PacketTypeMSG ->
            LET seq == Read16(r)
                ack == Read16(seq.rest)
            IN  IF ~seq.ok \/ ~ack.ok THEN [ok |-> FALSE]
                ELSE [ok |-> TRUE, b |-> [NoBody EXCEPT !.seq = seq.v, !.ack = ack.v,
                                          !.data = ack.rest]]
      [] t \in {PacketTypeFIN, PacketTypePING} ->
            LET s == readNTString(r)
            IN  IF ~s.ok THEN [ok |-> FALSE] ELSE [ok |-> TRUE, b |-> [NoBody EXCEPT !.name = s.v]]
      [] t = PacketTypeENC ->
            LET sub == Read16(r)
                flags == Read16(sub.rest)
                key == ReadArray(flags.rest, 64)
                auth == ReadArray(flags.rest, 32)
                b == [NoBody EXCEPT !.subtype = sub.v, !.flags = flags.v]
            IN  IF ~sub.ok \/ ~flags.ok THEN [ok |-> FALSE]
                ELSE CASE sub.v = EncSubtypeInit ->
                            IF key.ok THEN [ok |-> TRUE, b |-> [b EXCEPT !.key = key.v]]
                            ELSE [ok |-> FALSE]
                       [] sub.v = EncSubtypeAuth ->
                            IF auth.ok THEN [ok |-> TRUE, b |-> [b EXCEPT !.auth = auth.v]]
                            ELSE [ok |-> FALSE]
                       [] OTHER -> [ok |-> TRUE, b |-> b]
      [] OTHER -> [ok |-> FALSE]      \* "unknown message type"

\* Parse: "packet too short" under 5 bytes, "packet too long" over
\* MaxPacketSize, else the header and the body.
Parse(data) ==
    IF Len(data) < 5 \/ Len(data) > MaxPacketSize THEN [ok |-> FALSE]
    ELSE With(ParseBody(data[3], SubSeq(data, 6, Len(data))), LAMBDA body :
              IF ~body.ok THEN [ok |-> FALSE]
              ELSE [ok |-> TRUE,
                    pkt |-> [id |-> Num(SubSeq(data, 1, 2)), type |-> data[3],
                             sid |-> Num(SubSeq(data, 4, 5))] @@ body.b])

\* PeekSessionID
PeekSessionID(data) ==
    IF Len(data) < 5 THEN [ok |-> FALSE] ELSE [ok |-> TRUE, v |-> Num(SubSeq(data, 4, 5))]

\* GetMSGSize: the length of an empty MSG.
GetMSGSize == Len(ToBytes([id |-> 0, type |-> PacketTypeMSG, sid |-> 0] @@ NoBody))
====

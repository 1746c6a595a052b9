-------------------------------- MODULE Wire --------------------------------
(***************************************************************************)
(* The path of a frame between a session and the server, composed from   *)
(* the codecs: Session.GetOutgoing serialises a packet (PacketCodec),     *)
(* encrypts and signs it (Encryptor); Driver.doSend puts it in a query    *)
(* name (DnsTransport).  The server's answer goes back through            *)
(* Driver.Run (DnsTransport) and Session.DataIncoming, which checks the   *)
(* signature, decrypts and parses.                                         *)
(*                                                                         *)
(* The server is not in this repository.  Its side (Server* below) is     *)
(* written from spec.md: sections 6 (transport encoding) and 7 (the wire- *)
(* level layout of signature and nonce), not from the client's code, so   *)
(* that the round trip compares the client with the protocol.             *)
(***************************************************************************)
EXTENDS Naturals, Sequences, SequencesExt

LOCAL PC == INSTANCE PacketCodec
LOCAL DT == INSTANCE DnsTransport
LOCAL EN == INSTANCE Encryptor

CONSTANTS
    Domains,      \* values of d.Domain
    WirePackets,  \* dnscat2 packets sent, in both directions
    MaxBuffer     \* bytes waiting in a session's outgoing buffer

Types == {DT!TypeTXT, DT!TypeCNAME, DT!TypeMX, DT!TypeA, DT!TypeAAAA}

\* The client's encryptor and the server's view of the same keys.
ClientKeys == [nonce |-> 513, myWriteKey |-> 1, myMacKey |-> 2,
               theirWriteKey |-> 3, theirMacKey |-> 4]
ServerKeys == [write |-> 3, mac |-> 4, readWrite |-> 1, readMac |-> 2]

-----------------------------------------------------------------------------
(* The client.                                                             *)

\* Session.GetOutgoing after the packet is built: ToBytes, then Encrypt
\* and Sign when shouldEncrypt.
ClientSeal(e, encrypt, p) ==
    IF ~encrypt THEN [e |-> e, data |-> PC!ToBytes(p)]
    ELSE DT!With(EN!Encrypt(e, PC!ToBytes(p)), LAMBDA x : [e |-> x.e, data |-> EN!Sign(x.e, x.data)])

\* Session.DataIncoming up to the handlers: CheckSignature and Decrypt
\* when shouldEncrypt, then Parse.
ClientOpen(e, encrypt, data) ==
    IF ~encrypt THEN PC!Parse(data)
    ELSE DT!With(EN!CheckSignature(e, data), LAMBDA c :
         IF ~c.ok THEN [ok |-> FALSE]
         ELSE DT!With(EN!Decrypt(e, c.data), LAMBDA d :
              IF ~d.ok THEN [ok |-> FALSE] ELSE PC!Parse(d.data)))

\* Driver.doSend from the frame on: the query name, a type, the query.
ClientQuery(domain, frame, qtype) ==
    DT!BuildDNSQuery(0, DT!encodeDNSNameOfData(domain, frame), qtype)

\* GetOutgoing in an established session with n bytes in the outgoing
\* buffer and the maxLength doSend passes: 8 bytes reserved when
\* encrypting, data up to what is left after an empty MSG.  Negative
\* where make([]byte, dataLen) panics.
MSGDataLen(domain, encrypt, n) ==
    LET maxLength == DT!MaxDNSCatLength(domain) - (IF encrypt THEN 8 ELSE 0)
    IN  IF n < maxLength - PC!GetMSGSize THEN n ELSE maxLength - PC!GetMSGSize

\* CreateMSG
MSGPacket(data) == [id |-> 0, type |-> PC!PacketTypeMSG, sid |-> 0] @@ [PC!NoBody EXCEPT !.data = data]

-----------------------------------------------------------------------------
(* The server, from spec.md.                                               *)

LOCAL Be16(x) == <<x \div 256, x % 256>>
LOCAL Hex(b) == [i \in 1..2 * Len(b) |->
                    IF i % 2 = 1 THEN DT!HexDigit(b[(i + 1) \div 2] \div 16)
                    ELSE DT!HexDigit(b[i \div 2] % 16)]
LOCAL Chunks(s, k) == [i \in 1..((Len(s) + k - 1) \div k) |->
                          LET c == SubSeq(s, (i - 1) * k + 1, IF i * k < Len(s) THEN i * k ELSE Len(s)) IN c \o PC!Zeros(k - Len(c))]

\* The labels of the question name of a query, read from its wire form.
RECURSIVE WireLabels(_, _)
WireLabels(q, off) ==
    IF q[off + 1] = 0 THEN <<>>
    ELSE <<SubSeq(q, off + 2, off + 1 + q[off + 1])>> \o WireLabels(q, off + 1 + q[off + 1])

\* The frame a query carries: the name with the domain suffix or the
\* wildcard prefix stripped, the separators removed, hex-decoded.
ServerReadQuery(domain, q) ==
    LET name == DT!JoinLabels(WireLabels(q, 12))
        hex == IF domain = <<>> THEN SubSeq(name, Len(DT!WildcardPrefix) + 2, Len(name))
               ELSE SubSeq(name, 1, Len(name) - Len(domain) - 1)
    IN  DT!HexDecode(SelectSeq(hex, LAMBDA c : c # DT!Dot)).data

\* The records an answer of type t carrying payload is made of: hex text,
\* a hex name under the domain (or the wildcard label), or A/AAAA records
\* of 3/15 bytes of the length-prefixed payload behind a sequence byte.
ServerRecords(domain, t, payload) ==
    LET wname(h) ==
            DT!With(FlattenSeq([i \in 1..((Len(h) + 62) \div 63) |->
                        <<Len(SubSeq(h, 63 * i - 62, Min({63 * i, Len(h)})))>>
                        \o SubSeq(h, 63 * i - 62, Min({63 * i, Len(h)}))]), LAMBDA name :
                IF domain = <<>> THEN <<Len(DT!WildcardPrefix)>> \o DT!WildcardPrefix \o name \o <<0>>
                ELSE name \o DT!encodeDNSName(domain))
        seqd(k) == DT!With(Chunks(<<Len(payload)>> \o payload, k), LAMBDA c :
                       [i \in DOMAIN c |-> <<i>> \o c[i]])
    IN  CASE t = DT!TypeTXT   -> << <<2 * Len(payload)>> \o Hex(payload) >>
          [] t = DT!TypeCNAME -> <<wname(Hex(payload))>>
          [] t = DT!TypeMX    -> << <<0, 10>> \o wname(Hex(payload)) >>
          [] t = DT!TypeA     -> seqd(3)
          [] t = DT!TypeAAAA  -> seqd(15)

\* The order a resolver hands the records on in.
Orders == {"same", "rotated", "reversed"}
Arrange(rrs, o) ==
    CASE o = "same" -> rrs
      [] o = "rotated" -> IF rrs = <<>> THEN rrs ELSE Tail(rrs) \o <<Head(rrs)>>
      [] o = "reversed" -> Reverse(rrs)

\* The answer to query q: the question echoed, each record behind a
\* compression pointer to it.
ServerAnswer(domain, q, t, payload, o) ==
    DT!With(ServerRecords(domain, t, payload), LAMBDA recs :
        SubSeq(q, 1, 2) \o <<129, 128>> \o Be16(1) \o Be16(Len(recs)) \o <<0, 0, 0, 0>>
        \o SubSeq(q, 13, Len(q))
        \o FlattenSeq(Arrange([i \in DOMAIN recs |->
                                  <<192, 12>> \o Be16(t) \o <<0, 1, 0, 0, 0, 60>>
                                  \o Be16(Len(recs[i])) \o recs[i]], o)))

\* Header, the 6-byte signature, the 2-byte nonce, the encrypted body;
\* the signature covers header, nonce and encrypted body.
ServerSeal(frame, nonce) ==
    LET header == SubSeq(frame, 1, EN!HeaderLength)
        body == <<nonce \div 256, nonce % 256>>
                \o EN!XORKeyStream(SubSeq(frame, EN!HeaderLength + 1, Len(frame)), nonce, ServerKeys.write)
    IN  header \o EN!Mac(ServerKeys.mac, header \o body) \o body

ServerOpen(data) ==
    LET header == SubSeq(data, 1, EN!HeaderLength)
        rest == SubSeq(data, EN!HeaderLength + EN!SignatureLength + 1, Len(data))
        nonce == rest[1] * 256 + rest[2]
    IN  IF SubSeq(data, EN!HeaderLength + 1, EN!HeaderLength + EN!SignatureLength)
             # EN!Mac(ServerKeys.readMac, header \o rest)
        THEN [ok |-> FALSE]
        ELSE [ok |-> TRUE, frame |-> header \o EN!XORKeyStream(Tail(Tail(rest)), nonce, ServerKeys.readWrite)]

-----------------------------------------------------------------------------
(* One exchange: the session sends a frame in a query, the server reads  *)
(* it and answers with a frame of its own, the client receives it.  Each  *)
(* variable is <<>> until its step has happened.                          *)

VARIABLES
    wdomain,     \* d.Domain
    wenc,        \* shouldEncrypt
    up,          \* the packet sent, the record type and the query
    serverGot,   \* what the server read from the query
    down,        \* the packet the server sent and the answer datagram
    clientGot    \* what Session.DataIncoming parsed from it

wireVars == <<wdomain, wenc, up, serverGot, down, clientGot>>

WireInit ==
    /\ wdomain \in Domains /\ wenc \in BOOLEAN
    /\ up = <<>> /\ serverGot = <<>> /\ down = <<>> /\ clientGot = <<>>

Send(p, t, msg) ==
    /\ up = <<>>
    /\ up' = <<[pkt |-> p, type |-> t, msg |-> msg,
                query |-> ClientQuery(wdomain, ClientSeal(ClientKeys, wenc, p).data, t)]>>
    /\ UNCHANGED <<wdomain, wenc, serverGot, down, clientGot>>

\* Session.GetOutgoing and Driver.doSend with a handshake, SYN, FIN, PING
\* or MSG packet, in a query of type t.
SendPacket == \E p \in WirePackets, t \in Types : Send(p, t, FALSE)

\* The same with the MSG GetOutgoing cuts from n bytes waiting (the record
\* type does not change the query name).
SendMSG ==
    \E n \in 0..MaxBuffer :
        /\ MSGDataLen(wdomain, wenc, n) >= 0
        /\ Send(MSGPacket(PC!Zeros(MSGDataLen(wdomain, wenc, n))), DT!TypeTXT, TRUE)

ServerReceive ==
    /\ up # <<>> /\ serverGot = <<>>
    /\ serverGot' = DT!With(ServerReadQuery(wdomain, up[1].query), LAMBDA f :
                         <<IF wenc THEN ServerOpen(f) ELSE [ok |-> TRUE, frame |-> f]>>)
    /\ UNCHANGED <<wdomain, wenc, up, down, clientGot>>

\* The server answers the query with packet p in the record type asked
\* for, the resolver passing the records on in order o.
ServerReply ==
    /\ serverGot # <<>> /\ down = <<>>
    /\ \E p \in WirePackets, o \in Orders :
          down' = <<[pkt |-> p,
                     dgram |-> ServerAnswer(wdomain, up[1].query, up[1].type,
                                 IF wenc THEN ServerSeal(PC!ToBytes(p), 700) ELSE PC!ToBytes(p), o)]>>
    /\ UNCHANGED <<wdomain, wenc, up, serverGot, clientGot>>

\* Driver.Run on the answer, then Session.DataIncoming on the bytes.
ClientReceive ==
    /\ down # <<>> /\ clientGot = <<>>
    /\ clientGot' = DT!With(DT!Receive(wdomain, down[1].dgram), LAMBDA r :
                         <<IF r.status = "data" THEN ClientOpen(ClientKeys, wenc, r.data) ELSE [ok |-> FALSE]>>)
    /\ UNCHANGED <<wdomain, wenc, up, serverGot, down>>

\* The exchange is over.
Exchanged == clientGot # <<>> /\ UNCHANGED wireVars

WireNext == SendPacket \/ SendMSG \/ ServerReceive \/ ServerReply \/ ClientReceive \/ Exchanged

-----------------------------------------------------------------------------
(* Properties.                                                             *)

\* Driver.MaxDNSCatLength bounds the MSG frames GetOutgoing builds so
\* that, encrypted and signed, hex-encoded by Driver.encodeDNSName with a
\* period every 61 digits and put under the domain, every one travels in
\* a legal query name: at most 255 bytes on the wire, no label over 63.
QueryFits ==
    up # <<>> /\ up[1].msg =>
        /\ Len(up[1].query) - 16 <= DT!MaxDNSLength
        /\ \A l \in Range(WireLabels(up[1].query, 12)) : Len(l) <= 63

\* A packet the session sends (ToBytes, Encrypt, Sign, then the query name
\* of doSend) is the frame the server reads, whatever the domain, record
\* type and encryption; and a packet the server sends, in that record
\* type and with the records in any order, comes out of Driver.Run and
\* Session.DataIncoming (CheckSignature, Decrypt, Parse) as it went in.
TunnelRoundTrip ==
    /\ serverGot # <<>> => serverGot[1] = [ok |-> TRUE, frame |-> PC!ToBytes(up[1].pkt)]
    /\ clientGot # <<>> => clientGot[1] = [ok |-> TRUE, pkt |-> down[1].pkt]
====

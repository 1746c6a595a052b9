------------------------------- MODULE Session -------------------------------
(***************************************************************************)
(* One dnscat2 client session (pkg/session/session.go) driven by the DNS   *)
(* transport loop (pkg/tunnel/dns/dns.go Run/doSend) through a controller  *)
(* holding this single session (pkg/controller), talking to a dnscat2     *)
(* server over DNS.  DNS gives one answer per query, but queries and      *)
(* answers may be lost, duplicated and delivered in any order, and the    *)
(* loop resends on a 50 ms timeout, so several queries and answers for    *)
(* the same session are in flight at once.                                *)
(*                                                                         *)
(* Cryptography is abstracted to key identities: an Encryptor is a number *)
(* (its key pair); a frame carries the identity of the Encryptor that     *)
(* signed and encrypted it, or 0 when it travels in the clear, and a side *)
(* accepts a frame exactly when it holds that key.  Bytes of a stream are *)
(* numbered by their position in it, so a byte's value says where in the  *)
(* stream it belongs.                                                      *)
(*                                                                         *)
(* The server is not part of this repository; it is modelled from the     *)
(* protocol description as an honest peer that answers every query it     *)
(* accepts and answers a repeated query again.                            *)
(***************************************************************************)
EXTENDS Integers, Sequences, FiniteSets, Bags

CONSTANTS
    DoEncryption,     \* session.DoEncryption
    PresharedSecret,  \* TRUE when session.PresharedSecret # ""
    SeqMod,           \* 2^16: sequence numbers are uint16
    NonceMod,         \* 2^16: the Encryptor nonce is a uint16
    RenegAbove,       \* 0xFFF0: ShouldRenegotiate is nonce > RenegAbove
    ClientISN,        \* initial MySeq values (rand.Intn(0xFFFF))
    ServerISN,        \* initial sequence numbers of the server
    MaxData,          \* MSG payload budget: maxLength - 8 - GetMSGSize
    MaxRetransmits,   \* controller.MaxRetransmits; negative disables eviction
    MaxOut,           \* bound: bytes the client driver produces
    MaxSrvOut,        \* bound: bytes the server sends to the client
    MaxInFlight,      \* bound: distinct frames the network holds per direction
    MaxCopies,        \* bound: copies of one frame the network holds
    Duplicates        \* TRUE when the network may deliver a frame twice

ASSUME /\ DoEncryption \in BOOLEAN /\ PresharedSecret \in BOOLEAN
       /\ Duplicates \in BOOLEAN
       /\ SeqMod > 0 /\ NonceMod > RenegAbove + 1 /\ RenegAbove >= 0
       /\ ClientISN \subseteq 0..(SeqMod - 1) /\ ServerISN \subseteq 0..(SeqMod - 1)
       /\ MaxData > 0 /\ MaxRetransmits \in Int
       /\ MaxOut \in Nat /\ MaxSrvOut \in Nat /\ MaxInFlight > 0 /\ MaxCopies > 0

VARIABLES
    sess,       \* the Session struct, its Driver included (field drv)
    srv,        \* the server's end of the session
    queries,    \* bag of the frames of DNS queries in the network
    answers,    \* bag of the frames of DNS answers in the network
    tpc,        \* transport loop: "start" before the first doSend, then "loop"
    exited      \* "no"; "ok" after os.Exit(0); "error" after os.Exit(1)

vars == <<sess, srv, queries, answers, tpc, exited>>

States == {"BeforeInit", "BeforeAuth", "New", "Established"}

\* Missed-transmission counts above MaxRetransmits are told apart by nothing
\* but the eviction test, so the counter saturates one above it.
MissedCap == IF MaxRetransmits < 0 THEN 0 ELSE MaxRetransmits + 1

MinOf(a, b) == IF a < b THEN a ELSE b

\* The first n bytes of a buffer (copy(data, s.OutgoingBuffer[:dataLen])).
Take(s, n) == SubSeq(s, 1, MinOf(n, Len(s)))

-----------------------------------------------------------------------------
(* Frames (protocol/packet.go).  Every frame has every field; the ones its *)
(* type does not use stay 0 or empty.  sub is the ENC subtype, pub the     *)
(* Encryptor whose public key an ENC init carries.                         *)

Frame(type, sub, seq, ack, data, pub) ==
    [type |-> type, sub |-> sub, key |-> 0, seq |-> seq, ack |-> ack,
     data |-> data, pub |-> pub]

NoFrame == Frame("NONE", "none", 0, 0, <<>>, 0)

EncInit(pub) == Frame("ENC", "init", 0, 0, <<>>, pub)
EncAuth      == Frame("ENC", "auth", 0, 0, <<>>, 0)
Syn(seq)     == Frame("SYN", "none", seq, 0, <<>>, 0)
Msg(seq, ack, data) == Frame("MSG", "none", seq, ack, data, 0)
Fin          == Frame("FIN", "none", 0, 0, <<>>, 0)

\* Putting a frame on the network; a full network drops it.  A frame sent
\* twice (a retransmission, or a repeated answer) travels as two copies.
Put(net, f) ==
    IF \/ f \in DOMAIN net /\ net[f] < MaxCopies
       \/ f \notin DOMAIN net /\ Cardinality(DOMAIN net) < MaxInFlight
    THEN net (+) SetToBag({f}) ELSE net

\* Taking a copy off the network; a duplicating network may leave it there.
Taken(net, f) == {net (-) SetToBag({f})} \cup (IF Duplicates THEN {net} ELSE {})

-----------------------------------------------------------------------------
(* The driver (driver.Driver; console.go ConsoleDriver).  pending is its  *)
(* outgoingData, eof that its reader goroutine has returned, closed its   *)
(* isShutdown.  produced and received are the two streams it has written  *)
(* and been given.                                                         *)

\* Driver.GetOutgoing(-1): nil when shut down and empty, else all pending.
DriverDone(d) == d.closed /\ d.pending = <<>>

\* Session.Kill: mark the session shut down and close its driver.
Kill(x) == IF x.shutdown THEN x
           ELSE [x EXCEPT !.shutdown = TRUE, !.drv.closed = TRUE]

\* Session.pollDriverForData.
PollDriverForData(x) ==
    IF DriverDone(x.drv)
    THEN IF x.outBuf = <<>> THEN Kill(x) ELSE x
    ELSE [x EXCEPT !.outBuf = @ \o x.drv.pending, !.drv.pending = <<>>]

\* Session.shouldEncrypt.
ShouldEncrypt(x) == DoEncryption /\ x.state # "BeforeInit"

-----------------------------------------------------------------------------
(* Session.GetOutgoing: the set of possible [s |-> session, f |-> frame]  *)
(* outcomes; NoFrame when it returns nil.                                  *)

\* Encrypt, Sign, stamp LastTransmit and count a missed transmission.
Stamp(x, f) ==
    [s |-> [x EXCEPT !.nonce = IF ShouldEncrypt(x) THEN (@ + 1) % NonceMod ELSE @,
                     !.lastTxZero = FALSE,
                     !.missed = MinOf(@ + 1, MissedCap)],
     f |-> [f EXCEPT !.key = IF ShouldEncrypt(x) THEN x.enc ELSE 0]]

\* The frame for the current state (the switch on s.State).
StateFrame(x) ==
    CASE x.state = "BeforeInit" -> EncInit(x.enc)
      [] x.state = "BeforeAuth" -> EncAuth
      [] x.state = "New"        -> Syn(x.mySeq)
      [] x.state = "Established" ->
            LET data == Take(x.outBuf, MaxData)
            IN  IF data = <<>> /\ x.shutdown THEN Fin
                ELSE Msg(x.mySeq, x.theirSeq, data)

\* Mutant: a pending renegotiation is sent again instead of waited for.
TransmitNoWait(x) ==
    IF x.state = "Established" /\ ShouldEncrypt(x) /\ x.nonce > RenegAbove
    THEN Stamp([x EXCEPT !.newEnc = x.enc + 1], EncInit(x.enc + 1))
    ELSE Stamp(x, StateFrame(x))

\* Everything after the canTransmitYet test.
Transmit(x) ==
    IF x.state = "Established" /\ ShouldEncrypt(x) /\ x.nonce > RenegAbove
    THEN IF x.newEnc # 0
         THEN [s |-> x, f |-> NoFrame]      \* renegotiation unanswered: wait
         ELSE Stamp([x EXCEPT !.newEnc = x.enc + 1], EncInit(x.enc + 1))
    ELSE Stamp(x, StateFrame(x))

\* Time is abstract: after LastTransmit was zeroed the delay has elapsed,
\* otherwise it may or may not have.
GetOutgoing(x) ==
    LET y == PollDriverForData(x)
    IN  {Transmit(y)} \cup (IF y.lastTxZero THEN {} ELSE {[s |-> y, f |-> NoFrame]})

-----------------------------------------------------------------------------
(* Session.DataIncoming: [s |-> session, ret |-> sendRightAway,           *)
(* fatal |-> TRUE when the handler calls os.Exit(1)].                      *)

R(x, ret) == [s |-> x, ret |-> ret, fatal |-> FALSE]
Fatal(x)  == [s |-> x, ret |-> FALSE, fatal |-> TRUE]

\* A faulty check that also takes unsigned, unencrypted frames once keys
\* are in use.
VerifiedOrClear(x, f) == IF ShouldEncrypt(x) THEN f.key \in {0, x.enc} ELSE f.key = 0

\* CheckSignature and Decrypt succeed only with the key the frame was made
\* with; a frame read in the clear must have been sent in the clear.
Verified(x, f) == IF ShouldEncrypt(x) THEN f.key = x.enc ELSE f.key = 0

HandleSYN(x, f) ==
    IF x.state = "New"
    THEN R([x EXCEPT !.theirSeq = f.seq, !.missed = 0, !.state = "Established"], TRUE)
    ELSE R(x, FALSE)

(* Faulty variants of handleMSG: the buffer sliced one byte short; the   *)
(* SEQ test dropped; the test of the acknowledgement against the buffer *)
(* length dropped.                                                       *)
HandleMSGShortSlice(x, f) ==
    LET acked == (f.ack - x.mySeq) % SeqMod
    IN  IF x.state # "Established" \/ f.seq # x.theirSeq \/ acked > Len(x.outBuf)
        THEN R(x, FALSE)
        ELSE R([x EXCEPT !.missed = 0,
                         !.lastTxZero = @ \/ acked > 0 \/ f.data # <<>>,
                         !.theirSeq = (@ + Len(f.data)) % SeqMod,
                         !.outBuf = IF acked > 0 THEN SubSeq(@, acked, Len(@)) ELSE @,
                         !.mySeq = (@ + acked) % SeqMod,
                         !.drv.received = @ \o f.data],
               acked > 0)

HandleMSGNoSeqTest(x, f) ==
    LET acked == (f.ack - x.mySeq) % SeqMod
    IN  IF x.state # "Established" \/ acked > Len(x.outBuf)
        THEN R(x, FALSE)
        ELSE R([x EXCEPT !.missed = 0,
                         !.lastTxZero = @ \/ acked > 0 \/ f.data # <<>>,
                         !.theirSeq = (@ + Len(f.data)) % SeqMod,
                         !.outBuf = SubSeq(@, acked + 1, Len(@)),
                         !.mySeq = (@ + acked) % SeqMod,
                         !.drv.received = @ \o f.data],
               acked > 0)

HandleMSGNoAckBound(x, f) ==
    LET acked == (f.ack - x.mySeq) % SeqMod
    IN  IF x.state # "Established" \/ f.seq # x.theirSeq
        THEN R(x, FALSE)
        ELSE R([x EXCEPT !.missed = 0,
                         !.lastTxZero = @ \/ acked > 0 \/ f.data # <<>>,
                         !.theirSeq = (@ + Len(f.data)) % SeqMod,
                         !.outBuf = SubSeq(@, acked + 1, Len(@)),
                         !.mySeq = (@ + acked) % SeqMod,
                         !.drv.received = @ \o f.data],
               acked > 0)

HandleMSG(x, f) ==
    LET acked == (f.ack - x.mySeq) % SeqMod
    IN  IF x.state # "Established" \/ f.seq # x.theirSeq \/ acked > Len(x.outBuf)
        THEN R(x, FALSE)
        ELSE R([x EXCEPT !.missed = 0,
                         !.lastTxZero = @ \/ acked > 0 \/ f.data # <<>>,
                         !.theirSeq = (@ + Len(f.data)) % SeqMod,
                         !.outBuf = SubSeq(@, acked + 1, Len(@)),
                         !.mySeq = (@ + acked) % SeqMod,
                         !.drv.received = @ \o f.data],
               acked > 0)

HandleFIN(x) == R([Kill(x) EXCEPT !.lastTxZero = TRUE, !.missed = 0], TRUE)

\* Mutant of handleENC: the renegotiation swaps in NewEncryptor but leaves
\* s.NewEncryptor set (the reset at line 469 forgotten).
HandleENCKeepNew(x, f) ==
    CASE x.state = "BeforeInit" ->
            IF f.sub # "init" THEN Fatal(x)
            ELSE R([x EXCEPT !.state = IF PresharedSecret THEN "BeforeAuth" ELSE "New"], TRUE)
      [] x.state = "BeforeAuth" ->
            IF f.sub # "auth" THEN Fatal(x) ELSE R([x EXCEPT !.state = "New"], TRUE)
      [] x.state = "Established" ->
            IF x.newEnc = 0 \/ f.sub # "init" THEN Fatal(x)
            ELSE R([x EXCEPT !.enc = x.newEnc, !.nonce = 0], TRUE)
      [] OTHER -> Fatal(x)

\* The server's authenticator always matches: the peer is honest.  In
\* Established the frame's public key field is all zeros unless it is an
\* init, and SetTheirPublicKey then fails.
HandleENC(x, f) ==
    CASE x.state = "BeforeInit" ->
            IF f.sub # "init" THEN Fatal(x)
            ELSE R([x EXCEPT !.state = IF PresharedSecret THEN "BeforeAuth" ELSE "New"], TRUE)
      [] x.state = "BeforeAuth" ->
            IF f.sub # "auth" THEN Fatal(x) ELSE R([x EXCEPT !.state = "New"], TRUE)
      [] x.state = "Established" ->
            IF x.newEnc = 0 \/ f.sub # "init" THEN Fatal(x)
            ELSE R([x EXCEPT !.enc = x.newEnc, !.newEnc = 0, !.nonce = 0], TRUE)
      [] OTHER -> Fatal(x)

DataIncoming(x, f) ==
    LET y == PollDriverForData(x)
    IN  IF ~Verified(y, f) THEN R(y, FALSE)
        ELSE CASE f.type = "SYN" -> HandleSYN(y, f)
               [] f.type = "MSG" -> HandleMSG(y, f)
               [] f.type = "FIN" -> HandleFIN(y)
               [] f.type = "ENC" -> HandleENC(y, f)

-----------------------------------------------------------------------------
(* The controller holding this one session and the transport loop.        *)

\* controller.killIgnoredSessions, run by controller.Heartbeat.
Heartbeat(x) ==
    IF MaxRetransmits >= 0 /\ ~x.shutdown /\ x.missed > MaxRetransmits
    THEN Kill(x) ELSE x

\* dns.Driver.doSend: with no open session left the process exits.
DoSend(x) ==
    IF x.shutdown
    THEN /\ sess' = x /\ exited' = "ok" /\ UNCHANGED queries
    ELSE /\ \E o \in GetOutgoing(x) :
               /\ sess' = o.s
               /\ queries' = IF o.f = NoFrame THEN queries ELSE Put(queries, o.f)
         /\ UNCHANGED exited

\* Run: the send before the loop.
Start ==
    /\ tpc = "start" /\ tpc' = "loop"
    /\ DoSend(sess)
    /\ UNCHANGED <<srv, answers>>

\* Run: the 50 ms read deadline passes; Heartbeat, then doSend.
Timeout ==
    /\ tpc = "loop" /\ exited = "no"
    /\ DoSend(Heartbeat(sess))
    /\ UNCHANGED <<srv, answers, tpc>>

\* Run: an answer arrives; controller.DataIncoming routes it to the
\* session, and the loop sends at once when the session asks for it.
Receive(f) ==
    /\ tpc = "loop" /\ exited = "no"
    /\ answers' \in Taken(answers, f)
    /\ LET r == DataIncoming(sess, f)
       IN  IF r.fatal THEN /\ sess' = r.s /\ exited' = "error" /\ UNCHANGED queries
           ELSE IF r.ret THEN DoSend(r.s)
           ELSE /\ sess' = r.s /\ UNCHANGED <<queries, exited>>
    /\ UNCHANGED <<srv, tpc>>

\* The driver's reader goroutine appends what it read (readStdin).
DriverRead ==
    /\ exited = "no" /\ ~sess.drv.eof /\ sess.drv.produced < MaxOut
    /\ sess' = [sess EXCEPT !.drv.pending = Append(@, sess.drv.produced + 1),
                            !.drv.produced = @ + 1]
    /\ UNCHANGED <<srv, queries, answers, tpc, exited>>

\* The reader hits end of input and marks the driver shut down.
DriverEOF ==
    /\ exited = "no" /\ ~sess.drv.eof
    /\ sess' = [sess EXCEPT !.drv.eof = TRUE, !.drv.closed = TRUE]
    /\ UNCHANGED <<srv, queries, answers, tpc, exited>>

-----------------------------------------------------------------------------
(* The server's end, modelled from the protocol description (its code is  *)
(* not in this repository).  key is the client Encryptor it shares keys   *)
(* with, buf its unacknowledged outgoing bytes, recv the client stream it *)
(* has accepted.                                                           *)

\* A query the server can check: the handshake's key-init travels in the
\* clear (and is answered again when repeated); everything else must be
\* made with the key the server holds.
ServerAccepts(q) ==
    IF ~DoEncryption THEN q.key = 0
    ELSE \/ /\ q.key = 0 /\ q.type = "ENC" /\ q.sub = "init"
            /\ srv.key \in {0, q.pub}
         \/ q.key # 0 /\ q.key = srv.key

\* The server's side of the stop-and-wait exchange: the same sequence and
\* acknowledgement arithmetic as the client's, answered with its own.
ServerMSG(y, q) ==
    LET acked == (q.ack - y.mySeq) % SeqMod
        z == IF q.seq = y.theirSeq /\ acked <= Len(y.buf)
             THEN [y EXCEPT !.buf = SubSeq(@, acked + 1, Len(@)),
                            !.mySeq = (@ + acked) % SeqMod,
                            !.theirSeq = (@ + Len(q.data)) % SeqMod,
                            !.recv = @ \o q.data]
             ELSE y
    IN  [v |-> z, a |-> Msg(z.mySeq, z.theirSeq, Take(z.buf, MaxData))]

\* [v |-> new server state, a |-> answer]; the answer is made with the key
\* the query was made with (an answer to a key renegotiation still uses
\* the old key).
ServerAnswer(y, q) ==
    LET r == CASE y.closed -> [v |-> y, a |-> Fin]
               [] q.type = "ENC" /\ q.sub = "init" ->
                     [v |-> [y EXCEPT !.key = q.pub], a |-> EncInit(0)]
               [] q.type = "ENC" -> [v |-> y, a |-> EncAuth]
               [] q.type = "SYN" ->
                     [v |-> IF y.established THEN y
                            ELSE [y EXCEPT !.established = TRUE, !.theirSeq = q.seq],
                      a |-> Syn(y.mySeq)]
               [] q.type = "MSG" ->
                     IF y.established THEN ServerMSG(y, q) ELSE [v |-> y, a |-> NoFrame]
               [] q.type = "FIN" -> [v |-> [y EXCEPT !.closed = TRUE], a |-> Fin]
    IN  [r EXCEPT !.a = IF @ = NoFrame THEN @ ELSE [@ EXCEPT !.key = q.key]]

ServerRecv(q) ==
    /\ queries' \in Taken(queries, q)
    /\ IF ServerAccepts(q)
       THEN LET r == ServerAnswer(srv, q)
            IN  /\ srv' = r.v
                /\ answers' = IF r.a = NoFrame THEN answers ELSE Put(answers, r.a)
       ELSE UNCHANGED <<srv, answers>>
    /\ UNCHANGED <<sess, tpc, exited>>

\* The server's application writes one more byte to the client.
ServerWrite ==
    /\ srv.produced < MaxSrvOut
    /\ srv' = [srv EXCEPT !.buf = Append(@, srv.produced + 1), !.produced = @ + 1]
    /\ UNCHANGED <<sess, queries, answers, tpc, exited>>

\* The server's operator closes the session; it answers FIN from now on.
ServerClose ==
    /\ ~srv.closed
    /\ srv' = [srv EXCEPT !.closed = TRUE]
    /\ UNCHANGED <<sess, queries, answers, tpc, exited>>

\* The network loses a query or an answer.
LoseQuery(q) ==
    /\ queries' = queries (-) SetToBag({q})
    /\ UNCHANGED <<sess, srv, answers, tpc, exited>>

LoseAnswer(a) ==
    /\ answers' = answers (-) SetToBag({a})
    /\ UNCHANGED <<sess, srv, queries, tpc, exited>>

\* After os.Exit nothing of the client runs any more.
Exited == exited # "no" /\ UNCHANGED vars

-----------------------------------------------------------------------------
InitSession(isn) ==
    [state |-> IF DoEncryption THEN "BeforeInit" ELSE "New",
     mySeq |-> isn, theirSeq |-> 0, outBuf |-> <<>>,
     enc |-> IF DoEncryption THEN 1 ELSE 0, newEnc |-> 0, nonce |-> 0,
     lastTxZero |-> TRUE, missed |-> 0, shutdown |-> FALSE,
     drv |-> [pending |-> <<>>, eof |-> FALSE, closed |-> FALSE,
              produced |-> 0, received |-> <<>>]]

Init ==
    /\ sess \in {InitSession(i) : i \in ClientISN}
    /\ srv \in {[key |-> 0, established |-> FALSE, mySeq |-> i, theirSeq |-> 0,
                 buf |-> <<>>, recv |-> <<>>, produced |-> 0, closed |-> FALSE] :
                i \in ServerISN}
    /\ queries = EmptyBag /\ answers = EmptyBag
    /\ tpc = "start" /\ exited = "no"

Next ==
    \/ Start \/ Timeout \/ \E f \in BagToSet(answers) : Receive(f)
    \/ DriverRead \/ DriverEOF
    \/ \E q \in BagToSet(queries) : ServerRecv(q)
    \/ ServerWrite \/ ServerClose
    \/ \E q \in BagToSet(queries) : LoseQuery(q)
    \/ \E a \in BagToSet(answers) : LoseAnswer(a)
    \/ Exited

Spec == Init /\ [][Next]_vars

\* Run loops forever: its read deadline passes every 50 ms when no answer
\* comes, and it reads every answer that arrives; the server answers every
\* query that reaches it.  The network is not fair: it may lose anything.
FairSpec ==
    /\ Spec
    /\ WF_vars(Timeout)
    /\ WF_vars(\E f \in BagToSet(answers) : Receive(f))
    /\ WF_vars(\E q \in BagToSet(queries) : ServerRecv(q))

-----------------------------------------------------------------------------
(* Properties                                                              *)

ByteRange(n) == 1..n
Stream(n) == [i \in 1..n |-> i]

FrameType == [type : {"NONE", "SYN", "MSG", "FIN", "ENC"}, sub : {"none", "init", "auth"},
              key : Nat, seq : 0..(SeqMod - 1), ack : 0..(SeqMod - 1),
              data : Seq(Nat), pub : Nat]

\* Every variable stays in its range, and a pending NewEncryptor is always
\* the one after the current Encryptor: handleENC's swap clears
\* s.NewEncryptor, so a renegotiation never starts from stale keys.
TypeOK ==
    /\ sess.state \in States
    /\ sess.mySeq \in 0..(SeqMod - 1) /\ sess.theirSeq \in 0..(SeqMod - 1)
    /\ sess.outBuf \in Seq(ByteRange(MaxOut))
    /\ sess.nonce \in 0..(NonceMod - 1)
    /\ sess.missed \in 0..MissedCap
    /\ sess.newEnc \in {0, sess.enc + 1}
    /\ sess.drv.pending \in Seq(ByteRange(MaxOut))
    /\ sess.drv.received \in Seq(ByteRange(MaxSrvOut))
    /\ IsABag(queries) /\ BagToSet(queries) \subseteq FrameType
    /\ IsABag(answers) /\ BagToSet(answers) \subseteq FrameType
    /\ tpc \in {"start", "loop"} /\ exited \in {"no", "ok", "error"}

\* Each direction of the session implements a reliable stream: the server
\* accepts exactly the client driver's bytes, in order, once each
\* (Session.GetOutgoing building MSG frames, handleMSG retiring acknowledged
\* bytes), and the client hands its driver exactly the server's bytes, in
\* order, once each (handleMSG's sequence test and TheirSeq update).
ClientToServer == INSTANCE ReliableStream
    WITH Bytes <- ByteRange(MaxOut), written <- Stream(sess.drv.produced), read <- srv.recv
ServerToClient == INSTANCE ReliableStream
    WITH Bytes <- ByteRange(MaxSrvOut), written <- Stream(srv.produced), read <- sess.drv.received

ClientStreamReliable == ClientToServer!Spec
ServerStreamReliable == ServerToClient!Spec

\* handleMSG retires a byte from OutgoingBuffer only once the server holds
\* it: the bytes gone from the buffer (and not waiting in the driver) are
\* never more than the server has accepted, whatever stale, duplicated or
\* reordered acknowledgements arrive.
RetiredBytesReceived ==
    sess.drv.produced - Len(sess.outBuf) - Len(sess.drv.pending) <= Len(srv.recv)

\* No frame the honest server sent, however late or often it arrives, makes
\* DataIncoming's handlers end the client with os.Exit(1).
NoFatalExit == exited # "error"

\* The send nonce of one Encryptor is never used twice: GetNonce's uint16
\* counter only grows while those keys are in use, because GetOutgoing
\* starts a renegotiation once it passes 0xFFF0 and then sends nothing
\* until the server answers, and Heartbeat evicts a session whose
\* handshake frames go unanswered before the counter can come round.  A
\* step that keeps the keys never lowers the nonce.
NonceNeverReused == [][sess'.enc = sess.enc => sess'.nonce >= sess.nonce]_vars

\* A key renegotiation GetOutgoing starts (NewEncryptor set once the nonce
\* passes 0xFFF0) is eventually settled: handleENC swaps the keys, or the
\* session ends (killed by Heartbeat's retransmit limit, a FIN, or exit).
RenegotiationCompletes ==
    sess.newEnc # 0 ~> (sess.newEnc = 0 \/ sess.shutdown \/ exited # "no")
=============================================================================

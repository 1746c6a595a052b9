----------------------------- MODULE MC_Codecs ------------------------------
(* Instances for the codecs: CommandCodec's packets, and for Wire the      *)
(* domains and dnscat2 packets.  The two specifications share nothing, so *)
(* one model checks both: a behaviour is either a command stream (part    *)
(* "commands", Wire's variables at rest) or a tunnel exchange (part       *)
(* "tunnel", CommandCodec's variables at rest: nothing sent), or a key   *)
(* exchange of Handshake against an attacker (part "handshake").          *)
EXTENDS CommandCodec, Wire

LOCAL P == INSTANCE PacketCodec

Rids == {0, 32767}
Strs == {<<>>, <<65, 66>>}
Datas == {<<>>, <<0, 65>>}
N16 == {0, 513}
N32 == {1, 65794}

Pkt(rid, req, cmd, body) == [rid |-> rid, req |-> req, cmd |-> cmd] @@ body

\* The body fields each (command, direction) carries.
Bodies(cmd, req) ==
    CASE cmd = CommandPing -> {[Zero EXCEPT !.s1 = s] : s \in Strs}
      [] cmd \in {CommandShell, CommandDownload} /\ req -> {[Zero EXCEPT !.s1 = s] : s \in Strs}
      [] cmd \in {CommandShell, CommandExec} /\ ~req -> {[Zero EXCEPT !.n = x] : x \in N16}
      [] cmd = CommandExec -> {[Zero EXCEPT !.s1 = s, !.s2 = t] : s, t \in Strs}
      [] cmd = CommandDownload -> {[Zero EXCEPT !.data = d] : d \in Datas}
      [] cmd = CommandUpload /\ req -> {[Zero EXCEPT !.s1 = s, !.data = d] : s \in Strs, d \in Datas}
      [] cmd = CommandDelay /\ req -> {[Zero EXCEPT !.n = x] : x \in N32}
      [] cmd = TunnelConnect /\ req -> {[Zero EXCEPT !.n = x, !.s1 = s, !.port = 80] : x \in N32, s \in Strs}
      [] cmd = TunnelConnect -> {[Zero EXCEPT !.n = x] : x \in N32}
      [] cmd = TunnelData /\ req -> {[Zero EXCEPT !.n = x, !.data = d] : x \in N32, d \in Datas}
      [] cmd = TunnelClose /\ req -> {[Zero EXCEPT !.n = x, !.s1 = s] : x \in N32, s \in Strs}
      [] cmd = CommandError -> {[Zero EXCEPT !.n = x, !.s1 = s] : x \in N16, s \in Strs}
      [] OTHER -> {Zero}

AllPackets ==
    UNION {{Pkt(rid, req, cmd, b) : b \in Bodies(cmd, req)} :
           rid \in Rids, req \in BOOLEAN, cmd \in KnownCmds}

-----------------------------------------------------------------------------
(* Wire.                                                                   *)

\* "x.co", and domains of 63, 100 and 104 bytes (labels of at most 63):
\* 104 is the longest for which an encrypted session still builds a MSG.
Name(k) == [i \in 1..k |-> IF i % 60 = 0 THEN 46 ELSE 97]
WireDomains == {<<>>, <<120, 46, 99, 111>>}
LongDomains == WireDomains \cup {Name(63), Name(100), Name(104)}

\* One packet of each type and subtype, with ids and lengths whose bytes
\* are all different from zero and from each other where it matters.
D(t) == [id |-> 4660, type |-> t, sid |-> 43981] @@ P!NoBody
Key == [i \in 1..64 |-> (i * 7) % 256]
Auth == [i \in 1..32 |-> (i * 11) % 256]
SomePackets ==
    { [D(P!PacketTypeSYN) EXCEPT !.seq = 258, !.options = P!OptName + P!OptCommand, !.name = <<110, 109>>],
      [D(P!PacketTypeSYN) EXCEPT !.seq = 258],
      [D(P!PacketTypeMSG) EXCEPT !.seq = 772, !.ack = 1286, !.data = <<0, 1, 255, 65>>],
      [D(P!PacketTypeFIN) EXCEPT !.name = <<98, 121, 101>>],
      [D(P!PacketTypeENC) EXCEPT !.subtype = P!EncSubtypeInit, !.key = Key],
      [D(P!PacketTypeENC) EXCEPT !.subtype = P!EncSubtypeAuth, !.auth = Auth],
      [D(P!PacketTypePING) EXCEPT !.name = <<112, 105, 110, 103>>] }

-----------------------------------------------------------------------------
VARIABLE part

-----------------------------------------------------------------------------
(* Handshake: two key pairs on each side, one for the attacker.           *)

VARIABLES psk, cstate, cenc, cnew, exited, sstate, senc, sSecrets, net

HS == INSTANCE Handshake
        WITH ClientKeys <- <<"c1", "c2">>, ServerKeys <- <<"s1", "s2">>, AttackerKey <- "a"

hsVars == <<psk, cstate, cenc, cnew, exited, sstate, senc, sSecrets, net>>

\* The handshake variables of a behaviour that runs a codec.
HandshakeAtRest ==
    /\ psk = FALSE /\ cstate = "BeforeInit" /\ cenc = HS!NewEncryptor("c1")
    /\ cnew = HS!NoEncryptor /\ exited = FALSE /\ sstate = "Init"
    /\ senc = HS!NewEncryptor("s1") /\ sSecrets = {} /\ net = {}

-----------------------------------------------------------------------------

codecVars == <<vars, wireVars, part, hsVars>>

CodecsAtRest ==
    /\ sent = <<>> /\ wire = <<>> /\ stream = <<>> /\ handled = <<>>
WireAtRest ==
    /\ wdomain = <<>> /\ wenc = FALSE
    /\ up = <<>> /\ serverGot = <<>> /\ down = <<>> /\ clientGot = <<>>

CodecInit ==
    \/ part = "commands" /\ Init /\ WireAtRest /\ HandshakeAtRest
    \/ part = "tunnel" /\ WireInit /\ CodecsAtRest /\ HandshakeAtRest
    \/ part = "handshake" /\ HS!Init /\ CodecsAtRest /\ WireAtRest

\* A handshake stops for good once the client exits (os.Exit) or both
\* ends are done with their one renegotiation, so the run allows states
\* with no successor.
CodecNext ==
    \/ part = "commands" /\ Next /\ UNCHANGED <<wireVars, part, hsVars>>
    \/ part = "tunnel" /\ WireNext /\ UNCHANGED <<vars, part, hsVars>>
    \/ part = "handshake" /\ HS!Next /\ UNCHANGED <<vars, wireVars, part>>

CodecSpec == CodecInit /\ [][CodecNext]_codecVars

\* With a pre-shared secret, a client whose handleENC passed BeforeAuth
\* shares its keys with the server and not with the attacker, whatever
\* frames the attacker dropped, replayed or forged (Handshake).
PskAuthenticates == HS!PskAuthenticates

\* When handleENC swaps in the NewEncryptor of a renegotiation, keys the
\* server held are followed by keys the server holds (Handshake).
RenegKeepsPeer == HS!RenegKeepsPeer
====

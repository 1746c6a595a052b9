------------------------------ MODULE Handshake ------------------------------
(***************************************************************************)
(* The key exchange of a session (pkg/crypto/encryptor.go and the ENC     *)
(* paths of pkg/session/session.go) against a network attacker.            *)
(*                                                                         *)
(* Keys are names: the public key of a private key is its name, ECDH of   *)
(* two keys is the set of the two (so both ends get the same secret), and *)
(* a SHA3 hash is the tuple of its inputs.  A frame is accepted as signed *)
(* by a MAC key exactly when it carries that key.  The client's session   *)
(* runs the code's handshake: ENC init in BeforeInit, ENC auth when a     *)
(* pre-shared secret is set, SYN, and one renegotiation once Established. *)
(* The server is not in this repository and is written from spec.md §7:  *)
(* it answers each of those frames once it has checked it.                 *)
(*                                                                         *)
(* The attacker holds the private key AttackerKey, sees every frame,      *)
(* drops or replays any of them (the network is the set of frames ever    *)
(* sent, delivered in any order, any number of times, or never) and        *)
(* forges every frame it can build from what it knows: any public key, an *)
(* authenticator it saw or can compute with its guess of the pre-shared   *)
(* secret, a signature with a MAC key of a secret it shares.              *)
(***************************************************************************)
EXTENDS FiniteSets

CONSTANTS
    ClientKeys,     \* <<first, renegotiated>> private keys of the client
    ServerKeys,     \* <<first, renegotiated>> private keys of the server
    AttackerKey     \* the attacker's private key

Keys == {ClientKeys[1], ClientKeys[2], ServerKeys[1], ServerKeys[2], AttackerKey}
None == "none"
\* No signature (a frame sent in the clear), no payload (SYN), no pending
\* NewEncryptor.
NoSig == <<>>
NoVal == <<>>
NoEncryptor == [priv |-> None, their |-> None]

VARIABLES
    psk,        \* PresharedSecret != ""
    cstate,     \* the client session's State
    cenc,       \* its Encryptor: [priv, their] (their = None before the key)
    cnew,       \* its NewEncryptor, NoEncryptor when no renegotiation is pending
    exited,     \* the client called os.Exit(1)
    sstate,     \* the server's view of the session
    senc,       \* the server's keys
    sSecrets,   \* every shared secret the server has held
    net         \* every frame sent so far

vars == <<psk, cstate, cenc, cnew, exited, sstate, senc, sSecrets, net>>

-----------------------------------------------------------------------------
(* The Encryptor.                                                          *)

\* NewEncryptor: a fresh key pair.
NewEncryptor(k) == [priv |-> k, their |-> None]

\* SetTheirPublicKey: the peer's key, from which ECDH gives the secret.
\* On the wire a public key is the one-tuple <<k>>.
SetTheirPublicKey(e, pub) == [e EXCEPT !.their = pub[1]]
PubKey(k) == <<k>>
Secret(e) == {e.priv, e.their}

\* makeKey: SHA3(sharedSecret || keyName).
MakeKey(secret, keyName) == <<secret, keyName>>

\* makeAuthenticator: SHA3(role || sharedSecret || my public key || their
\* public key || pre-shared secret).
Authenticator(role, secret, myPub, theirPub, pskValue) ==
    <<role, secret, myPub, theirPub, pskValue>>

\* The client's GetMyAuthenticator and GetTheirAuthenticator.
MyAuthenticator(e) == Authenticator("client", Secret(e), e.priv, e.their, "psk")
TheirAuthenticator(e) == Authenticator("server", Secret(e), e.priv, e.their, "psk")

\* A frame on the wire: its direction, ENC init / ENC auth / SYN, the key
\* or authenticator it carries, and the MAC key that signed it (NoSig when
\* sent in the clear).
Frame(dir, type, val, sig) == [dir |-> dir, type |-> type, val |-> val, sig |-> sig]

\* Encrypt and Sign with the client's (or the server's) write and MAC keys.
ClientSigned(e, type, val) == Frame("up", type, val, MakeKey(Secret(e), "client_mac_key"))
ServerSigned(e, type, val) == Frame("down", type, val, MakeKey(Secret(e), "server_mac_key"))

-----------------------------------------------------------------------------
(* The client session.                                                     *)

\* Session.New with DoEncryption: a key pair, state BeforeInit.
Init ==
    /\ psk \in BOOLEAN
    /\ cstate = "BeforeInit" /\ cenc = NewEncryptor(ClientKeys[1]) /\ cnew = NoEncryptor
    /\ exited = FALSE
    /\ sstate = "Init" /\ senc = NewEncryptor(ServerKeys[1]) /\ sSecrets = {}
    /\ net = {}

\* GetOutgoing's frame in the handshake states: ENC init with the public
\* key (in the clear: shouldEncrypt is false in BeforeInit), ENC auth with
\* the authenticator, or SYN, encrypted and signed.
ClientSend ==
    /\ ~exited
    /\ cstate # "Established"
    /\ net' = net \cup {CASE cstate = "BeforeInit" -> Frame("up", "init", PubKey(cenc.priv), NoSig)
                          [] cstate = "BeforeAuth" -> ClientSigned(cenc, "auth", MyAuthenticator(cenc))
                          [] cstate = "New"        -> ClientSigned(cenc, "syn", NoVal)}
    /\ UNCHANGED <<psk, cstate, cenc, cnew, exited, sstate, senc, sSecrets>>

\* GetOutgoing once ShouldRenegotiate: a NewEncryptor, and its key in an
\* ENC init under the current keys (one renegotiation in this model).
ClientRenegotiate ==
    /\ ~exited
    /\ cstate = "Established" /\ cnew = NoEncryptor /\ cenc.priv = ClientKeys[1]
    /\ cnew' = NewEncryptor(ClientKeys[2])
    /\ net' = net \cup {ClientSigned(cenc, "init", PubKey(ClientKeys[2]))}
    /\ UNCHANGED <<psk, cstate, cenc, exited, sstate, senc, sSecrets>>

\* Mutant: the signature of an incoming frame is not checked.
ClientAcceptsAny(f) == TRUE

\* DataIncoming: once shouldEncrypt, CheckSignature with their MAC key
\* (a frame that fails it is dropped), then handleENC or handleSYN.
ClientAccepts(f) ==
    cstate = "BeforeInit" \/ f.sig = MakeKey(Secret(cenc), "server_mac_key")

\* Mutant: the server's authenticator is not compared.
TheirAuthenticatorOKAny(f) == TRUE

\* bytes.Equal(pkt.ENC.Authenticator, GetTheirAuthenticator()).
TheirAuthenticatorOK(f) == f.val = TheirAuthenticator(cenc)

\* handleENC
HandleENC(f) ==
    CASE cstate = "BeforeInit" ->
            IF f.type # "init" THEN exited' = TRUE /\ UNCHANGED <<cstate, cenc, cnew>>
            ELSE /\ cenc' = SetTheirPublicKey(cenc, f.val)
                 /\ cstate' = IF psk THEN "BeforeAuth" ELSE "New"
                 /\ UNCHANGED <<cnew, exited>>
      [] cstate = "BeforeAuth" ->
            IF f.type # "auth" \/ ~TheirAuthenticatorOK(f)
            THEN exited' = TRUE /\ UNCHANGED <<cstate, cenc, cnew>>
            ELSE cstate' = "New" /\ UNCHANGED <<cenc, cnew, exited>>
      [] cstate = "Established" ->
            \* an auth frame has no public key: SetTheirPublicKey fails
            IF cnew = NoEncryptor \/ f.type # "init" THEN exited' = TRUE /\ UNCHANGED <<cstate, cenc, cnew>>
            ELSE /\ cenc' = SetTheirPublicKey(cnew, f.val)
                 /\ cnew' = NoEncryptor
                 /\ UNCHANGED <<cstate, exited>>
      [] OTHER -> exited' = TRUE /\ UNCHANGED <<cstate, cenc, cnew>>

\* handleSYN: New moves to Established, other states ignore it.
HandleSYN ==
    /\ cstate' = IF cstate = "New" THEN "Established" ELSE cstate
    /\ UNCHANGED <<cenc, cnew, exited>>

ClientReceive(f) ==
    /\ ~exited /\ f.dir = "down"
    /\ ClientAccepts(f)
    /\ IF f.type = "syn" THEN HandleSYN ELSE HandleENC(f)
    /\ UNCHANGED <<psk, sstate, senc, sSecrets, net>>

-----------------------------------------------------------------------------
(* The server, from spec.md §7.                                            *)

ServerAccepts(f) == f.sig = MakeKey(Secret(senc), "client_mac_key")

\* Its authenticators put the client's key first, as the client does.
ServerAuthenticator(role) == Authenticator(role, Secret(senc), senc.their, senc.priv, "psk")

ServerReceive(f) ==
    /\ f.dir = "up"
    /\ \/ /\ sstate = "Init" /\ f.type = "init" /\ f.sig = NoSig
          /\ senc' = SetTheirPublicKey(senc, f.val)
          /\ sstate' = IF psk THEN "Auth" ELSE "New"
          /\ sSecrets' = sSecrets \cup {Secret(senc')}
          /\ net' = net \cup {Frame("down", "init", PubKey(senc.priv), NoSig)}
       \/ /\ sstate = "Auth" /\ f.type = "auth" /\ ServerAccepts(f)
          /\ f.val = ServerAuthenticator("client")
          /\ sstate' = "New"
          /\ net' = net \cup {ServerSigned(senc, "auth", ServerAuthenticator("server"))}
          /\ UNCHANGED <<senc, sSecrets>>
       \/ /\ sstate = "New" /\ f.type = "syn" /\ ServerAccepts(f)
          /\ sstate' = "Established"
          /\ net' = net \cup {ServerSigned(senc, "syn", NoVal)}
          /\ UNCHANGED <<senc, sSecrets>>
       \/ /\ sstate = "Established" /\ f.type = "init" /\ ServerAccepts(f)
          /\ senc.priv = ServerKeys[1]
          /\ senc' = SetTheirPublicKey(NewEncryptor(ServerKeys[2]), f.val)
          /\ sSecrets' = sSecrets \cup {Secret(senc')}
          /\ net' = net \cup {ServerSigned(senc, "init", PubKey(ServerKeys[2]))}
          /\ UNCHANGED sstate
    /\ UNCHANGED <<psk, cstate, cenc, cnew, exited>>

-----------------------------------------------------------------------------
(* The attacker.                                                           *)

\* Secrets it shares (ECDH with its own key) and the authenticators it
\* saw or can compute with its guess of the pre-shared secret.
AttackerSecrets == {{AttackerKey, k} : k \in Keys}
AttackerAuths ==
    {f.val : f \in {g \in net : g.type = "auth"}}
    \cup UNION {{Authenticator(r, s, p, q, "guess") : r \in {"client", "server"}, p \in s, q \in s} :
                s \in AttackerSecrets}
AttackerSigs ==
    {NoSig} \cup {MakeKey(s, l) : s \in AttackerSecrets, l \in {"client_mac_key", "server_mac_key"}}

\* Every frame the attacker can put on the wire.
Forged ==
    {Frame(d, "init", PubKey(k), g) : d \in {"up", "down"}, k \in Keys, g \in AttackerSigs}
    \cup {Frame(d, "auth", v, g) : d \in {"up", "down"}, v \in AttackerAuths, g \in AttackerSigs}
    \cup {Frame(d, "syn", NoVal, g) : d \in {"up", "down"}, g \in AttackerSigs}

-----------------------------------------------------------------------------

Next ==
    \/ ClientSend
    \/ ClientRenegotiate
    \/ \E f \in net \cup Forged : ClientReceive(f)
    \/ \E f \in net \cup Forged : ServerReceive(f)

Spec == Init /\ [][Next]_vars

-----------------------------------------------------------------------------
(* Properties.                                                             *)

TypeOK ==
    /\ psk \in BOOLEAN /\ exited \in BOOLEAN
    /\ cstate \in {"BeforeInit", "BeforeAuth", "New", "Established"}
    /\ cenc.priv \in Keys /\ cenc.their \in Keys \cup {None}
    /\ cnew \in {NoEncryptor, NewEncryptor(ClientKeys[2])}
    /\ sstate \in {"Init", "Auth", "New", "Established"}
    /\ sSecrets \subseteq SUBSET Keys

\* With a pre-shared secret, a client that leaves the authentication step
\* (handleENC in BeforeAuth comparing the server's authenticator) shares
\* its keys with the server and not with the attacker, whatever frames the
\* attacker swapped, replayed or forged on the way.
PskAuthenticates ==
    psk /\ cstate \in {"New", "Established"} => Secret(cenc) \in sSecrets

\* A renegotiation never hands the session to the attacker: when handleENC
\* swaps in NewEncryptor, keys the server held are followed by keys the
\* server holds, because the server's answer must pass CheckSignature under
\* the old keys.
RenegKeepsPeer ==
    [][cstate = "Established" /\ cenc' # cenc /\ Secret(cenc) \in sSecrets
         => Secret(cenc') \in sSecrets']_vars
==============================================================================

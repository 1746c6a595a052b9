# TLA+ models of the dnscat2 Go client

These modules model the Go client in `src/go-client` and `src/unnamed`,
and TLC checks them. The client carries a reliable, encrypted byte stream
between a local driver (console, exec, command multiplexer, ping) and a
dnscat2 server, using nothing but DNS queries and answers.

## The system

| Part | Source | State | Operations |
|---|---|---|---|
| Session | `pkg/session/session.go` | state (BeforeInit, BeforeAuth, New, Established), MySeq, TheirSeq, OutgoingBuffer, Encryptor / NewEncryptor, LastTransmit, MissedTransmissions, isShutdown | `GetOutgoing`, `DataIncoming` → `handleSYN/MSG/FIN/ENC`, `Kill`, `Destroy` |
| Crypto Engine | `pkg/crypto/encryptor.go` | key pair, shared keys, send nonce | `SetTheirPublicKey`, `Encrypt`/`Sign`, `CheckSignature`/`Decrypt`, `ShouldRenegotiate` |
| Packet Codec | `pkg/protocol/packet.go` | none | `Create*`, `ToBytes`, `Parse`, `PeekSessionID`, `GetMSGSize` |
| Controller | `unnamed/part_002` | list of sessions, round-robin index | `AddSession`, `GetOutgoing`, `DataIncoming`, `Heartbeat` (eviction), `KillAllSessions` |
| Transport loop | `pkg/tunnel/dns/dns.go` | the UDP socket | `Run` (50 ms read deadline), `doSend` |
| Transport Encoding | `pkg/tunnel/dns/dns.go`, `protocol.go` | none | `MaxDNSCatLength`, hex names, `BuildDNSQuery`, `ParseDNSResponse`, `decodeDNSName`, answer decoding, A/AAAA reassembly |
| Drivers | `pkg/driver/console.go` (console, exec), `ping.go`, `command/driver.go` | outgoing data, shutdown flag, child process, tunnels | reader and wait goroutines, `GetOutgoing`, `DataReceived`, `Close`, command handlers |
| Command Codec | `unnamed/part_001` | none | `ReadPacket`, `parsePacket`, `ToBytes` |
| Service / CLI | `cmd/dnscat-service` | config | wiring, `OnShutdown` → `KillAllSessions` |

How the parts interact:

- One goroutine runs `dns.Driver.Run`. It first calls `doSend`. It then waits up to 50 ms for an answer.
- On a timeout it calls `controller.Heartbeat`, which evicts sessions that have more than MaxRetransmits unanswered sends. It then calls `doSend`.
- On an answer it calls `controller.DataIncoming`. When the session asks for it, the loop also calls `doSend` at once.
- `doSend` takes the next live session (round-robin) and calls its `GetOutgoing`. When no session is live, the process exits with `os.Exit(0)`.
- Drivers run their own goroutines (stdin reader, child-process reader, tunnel readers). These append to a buffer under the driver's lock, and the session drains that buffer in `pollDriverForData`.

What makes the client hard to get right:

- DNS loses, repeats and reorders queries and answers.
- The loop resends every PacketDelay, so several copies of a frame and several answers can be in flight at once.
- Sequence numbers and the nonce are 16-bit and wrap.
- Key renegotiation swaps encryptors mid-stream.
- Driver goroutines and callbacks take locks that the transport goroutine may already hold.

What makes it correct:

- Each direction is a reliable ordered stream (the `ReliableStream` module).
- No byte leaves the outgoing buffer before the peer holds it.
- Frames that arrive late or are repeated are ignored, never fatal.
- A renegotiation either completes or ends the session.
- Every session that ends tells the server with a FIN.
- No goroutine waits on a lock that it, or the goroutine it waits for, already holds.

## Modules

- **`ReliableStream`** is the abstract specification of one direction of a session.
  - `written` is what the writer's driver produced; `read` is what the reader's driver was given.
  - `Deliver` hands the reader the next k ≥ 1 bytes.
- **`Session`** models one session, its console driver, the controller holding it, the transport loop, and the server and network.
  - `sess` holds the `Session` struct, with the driver in `sess.drv`.
  - Each handler is a pure operator that returns the new session:
    - `GetOutgoing` and `Transmit` return a set of `[s, f]` pairs, the new session and the frame to send (or `NoFrame`).
    - `DataIncoming` and `Handle*` return `[s, ret, fatal]`.
  - The transport actions compose those operators the way the code calls them:
    - `Start` is the first `doSend`.
    - `Timeout` is `Heartbeat` followed by `doSend`.
    - `Receive` is `DataIncoming`, followed by `doSend` when it returns true, or `os.Exit(1)` when a handler calls it.
  - `DriverRead` and `DriverEOF` are the stdin goroutine.
  - Abstractions:
    - **Crypto.** A frame carries the identity of the Encryptor that made it (0 in the clear). `Verified` accepts it exactly when that is the receiver's key.
    - **Stream bytes.** Bytes are numbered by their position in the stream, so a byte out of place is visible.
    - **Time.** After `LastTransmit` is zeroed, `canTransmitYet` holds. Otherwise it may or may not hold.
    - **Missed counter.** `missed` saturates at MaxRetransmits + 1, because nothing reads it beyond the eviction test.
  - The network holds two bags of frames, `queries` and `answers`:
    - a frame can be lost (`LoseQuery`, `LoseAnswer`) and delivered in any order;
    - a resent frame is a second copy, up to `MaxCopies`;
    - with `Duplicates`, a delivered frame may stay in the bag.
  - The server (`Server*`) is not in this repository, so it is modelled from the protocol description (spec.md §4) as an honest peer:
    - it answers every query it can check, and answers a repeated query again;
    - it uses the same stop-and-wait arithmetic as the client;
    - it answers FIN once closed.
  - The refinement `ClientToServer == INSTANCE ReliableStream WITH written <- Stream(sess.drv.produced), read <- srv.recv`, and its mirror `ServerToClient`, are checked as properties.
- **`CommandDriver`** models the command session's driver (`command/driver.go`) together with the goroutines and mutexes it shares with the session, the controller and the callbacks of `newCommandSession`.
  - Goroutine `Loop` (0) is the transport loop; goroutine t ∈ 1..MaxTunnels is the `tunnelReader` of tunnel t.
  - `owner[m]` is the goroutine holding `globalController.mu` ("ctrl"), the command session's `s.mu` ("sess") or `d.mu` ("drv").
  - `pc[g]` is where goroutine g is. Every label that takes a mutex is in `WaitsFor`, so a goroutine waiting for a mutex it holds is visible: `sync.Mutex` is not re-entrant.
  - The transport loop's actions follow the call chain: `Receive` (controller `DataIncoming`), `DataIncomingLock`, `PollDriver`, `DataReceived`, `ProcessPacketsLock`, then one action per handler, and `ProcessPacketsDone`. `Timeout` runs `HeartbeatLock`, `HeartbeatScan` and `DriverClose`, then `GetNextActive` and `SessionGetOutgoing` (`doSend`).
  - Command packets are records `[id, req, tid]`. The server sends up to `MaxCommands` of them from the set `Commands`, one or two per MSG.
  - Sessions other than the command session are counted (`nSessions`, `shut`); their drivers are not modelled. `getNextActive` may pick any live session, which covers its round-robin order.
  - Dial results and file errors are nondeterministic; payloads, names and request ids are abstracted away.
- **`ExecDriver`** models an exec session's driver (`ExecDriver` in `console.go`):
  - `readOutput` (`ReadOutput`, `AppendOutput`);
  - the wait goroutine (`Wait`, which closes the pipes as `os/exec` does after the child exits, and `WaitShutdown`);
  - the transport loop's calls: `PollDriver` (`GetOutgoing` with `pollDriverForData`), `DataReceived` with a stdin pipe of `StdinCap` bytes that blocks when full (`WriteDone`), `Ack` and `Kill` (eviction or FIN, then `Close`).
  - The child process is the environment: it writes numbered bytes, reads stdin and exits, in any order.
- **`CommandCodec`** models the command sub-protocol codec (`part_001`) as operators: `ToBytes`, `writeNTString`, `parsePacket`, `readNTString` and `ReadPacket`, plus `processPackets` as a RECURSIVE operator. A small state machine cuts the frames of the server's packets into chunks of every size and runs `processPackets` after each, as `DataReceived` does.
- **`PacketCodec`** models the outer dnscat2 frames (`packet.go`) as operators on byte sequences: `ToBytes`, `Parse` (with `binary.Read`'s error on a short read and `bytes.Reader.Read`'s zero-filled short read for the ENC key and authenticator), `readNTString`, `writeNTString`, `PeekSessionID` and `GetMSGSize`.
- **`Encryptor`** models the framing of `encryptor.go` byte for byte: `GetNonce` (a uint16 that wraps), `ShouldRenegotiate`, `Encrypt` (header, 2-byte nonce, XORed body), `Sign` (the signature between header and body), `CheckSignature` and `Decrypt`. Salsa20 is a keystream that depends on key, nonce and position (`KeyStream`), and the truncated SHA3 MAC is a keyed digest of every byte it covers (`Mac`, `Digest`). Both sides use the same two functions, so what is checked is where each piece goes and the order of the steps.
- **`DnsTransport`** models the DNS encoding (`dns.go`, `protocol.go`) as operators:
  - sending: `MaxDNSCatLength`, hex encoding with a period after every 61 digits (`encodeDNSNameOfData`), and the wire name and query (`encodeDNSName`, `BuildDNSQuery`);
  - receiving: `ParseDNSResponse`, which walks questions and answers with `decodeDNSName` (labels and compression pointers, 0-based offsets as in the code);
  - decoding: `decodeDNSResponse` with `removeDomain`, `decodeHex` and the A/AAAA reassembly (`Reassemble`: `sort.Slice` by the first byte, then a length-prefixed buffer);
  - `Receive` is what one iteration of `Driver.Run` makes of a datagram: bytes for `DataIncoming`, "skip" (logged, the loop goes on), "loop" (decodeDNSName never returns) or "panic".
  - Expensive intermediate values are bound with `With(x, LAMBDA v : ...)`, a LET whose value TLC computes once.
- **`Wire`** composes the three codecs into one exchange through the DNS tunnel:
  - `SendPacket` / `SendMSG`: the session builds a packet (`GetOutgoing`, with the MSG cut to `MSGDataLen`), seals it (`ToBytes`, `Encrypt`, `Sign`) and `doSend` puts it in a query;
  - `ServerReceive` / `ServerReply`: the server, which is not in this repository, reads the frame from the query name and answers with a packet of its own in the record type asked for (TXT, CNAME, MX, A, AAAA), its resolver passing the records on in any of three orders. This side is written from spec.md §3 and §7;
  - `ClientReceive`: `Driver.Run` (`DnsTransport!Receive`) then `Session.DataIncoming` up to the handlers (`CheckSignature`, `Decrypt`, `Parse`).
- **`Handshake`** models the key exchange of a session against a network attacker:
  - the Encryptor's key agreement as symbols: a key pair is a name, ECDH of two keys is the set of the two, and SHA3 (`makeKey`, `makeAuthenticator`) is the tuple of its inputs, so two ends agree exactly when they hashed the same things in the same order;
  - the client's session as the code runs it: `ClientSend` is `GetOutgoing` in BeforeInit (ENC init in the clear), BeforeAuth (ENC auth) and New (SYN); `ClientRenegotiate` is `GetOutgoing` starting the one renegotiation; `ClientReceive` is `DataIncoming` with `CheckSignature` (`ClientAccepts`), `handleSYN` and the whole of `handleENC`, its four `os.Exit(1)` paths included (`exited`);
  - the server, written from spec.md §6 and §7 (it is not in this repository), answering each frame it can check;
  - the attacker, who holds a key pair of its own, sees every frame, delivers any of them in any order and any number of times, and forges every frame it can build: any public key in the clear, an authenticator it saw or computed with a wrong pre-shared secret, a signature with a MAC key of a secret it shares.
- **`DriverRun`** is the read loop of `Driver.Run` around `DnsTransport!Receive`: it reads any datagram that reaches the socket (the source and transaction id are never compared with the query's) and goes on reading, hangs, or crashes.
- **`MC_Session`**, **`MC_CommandDriver`**, **`MC_ExecDriver`**, **`MC_Codecs`** and **`MC_DriverRun`** instantiate the modules for TLC.
  - `MC_Session` bounds the number of Encryptors to two: the first one and one renegotiation.
  - `MC_Codecs` checks `CommandCodec` and `Wire` in one model. A behaviour is either a command stream (`part = "commands"`, Wire's variables at rest) or a tunnel exchange (`part = "tunnel"`, nothing sent on the command stream). The two share no state. A third kind of behaviour (`part = "handshake"`) runs `Handshake`, with two key pairs for each end and one for the attacker.
  - `MC_DriverRun` builds stray datagrams from a few bytes.
  - The others define the sets of commands and packets the cfgs use.

## Runs

```
tlc -workers 2 -config <cfg> <MC module>
```

| Run | Module, cfg | Expect | What it shows |
|---|---|---|---|
| session | `MC_Session`, `Session.cfg` | pass (1.17M states, about 45 s) | With encryption, one renegotiation, MySeq wrapping from 6 through 0 (mod 8), and a lossy reordering network: both streams refine `ReliableStream`, no retired byte is missing at the server (`RetiredBytesReceived`), no server frame makes the client exit with an error (`NoFatalExit`), a pending NewEncryptor is always the next key (`TypeOK`), and no Encryptor uses a send nonce twice (`NonceNeverReused`): the renegotiation threshold and eviction stop the uint16 counter before it comes round. |
| psk_late_auth | `MC_Session`, `SessionPSK.cfg` | violation | With a pre-shared secret, the answer to a resent ENC auth arrives after the session moved to New, and `handleENC` calls `os.Exit(1)` (session.go:473). spec.md §7 says such a frame is logged and ignored. |
| reneg_stall | `MC_Session`, `RenegStall.cfg` | violation (liveness) | The renegotiation ENC init is lost. `GetOutgoing` then returns nil forever without counting a missed send (session.go:213), so the session neither renegotiates nor is evicted. |
| stale_ack_wrap | `MC_Session`, `StaleAckWrap.cfg` | violation | With sequence numbers mod 4 and four buffered bytes, a stale MSG answer's acknowledgement passes `(Ack - MySeq) & 0xFFFF <= len(OutgoingBuffer)` and retires three bytes the server never received. In the real code this needs about 65,336 or more bytes in the unbounded buffer. |
| command_driver | `MC_CommandDriver`, `CommandDriver.cfg` | pass (202K states, about 25 s) | Every handler, tunnels opened and closed by their readers, shell sessions, evictions and `Driver.Close`: the driver never answers more requests than it was asked (`TypeOK`), and every request the driver owes an answer is answered unless the loop hangs on its own mutex (`RequestsAnswered`). Deadlock is not checked here because that hang is real (next run). |
| relock_deadlock | `MC_CommandDriver`, `RelockDeadlock.cfg` | violation | `processPackets` holds `d.mu` while `handleTunnelData` locks it again (driver.go:305, and `handleTunnelClose` at 327). A SHUTDOWN runs `OnShutdown` → `KillAllSessions`, which locks the command session's `s.mu`, already held by `DataIncoming` (service.go:159, part_002:143). Either hangs the client for good. |
| late_connect | `MC_CommandDriver`, `LateConnect.cfg` | violation | Neither the controller's nor the session's `DataIncoming` checks `isShutdown`. A TUNNEL_CONNECT that arrives after Heartbeat killed the command session and closed its driver opens a tunnel that nothing will ever close. |
| exec_driver | `MC_ExecDriver`, `ExecDriver.cfg` | pass | The session gets the child's output once and in order (`DeliveredInOrder`), and a child that exits always ends its session (`ChildExitEndsSession`). |
| exec_exit_race | `MC_ExecDriver`, `ExecExitRace.cfg` | violation | `cmd.Wait` closes the stdout pipe when the child exits, and the wait goroutine then sets `isShutdown`. This can happen before `readOutput` has read the last output (console.go:184). `GetOutgoing` then returns the done sentinel and the output is lost. spec.md §6 says done means no more data will ever be produced. |
| exec_stdin_block | `MC_ExecDriver`, `ExecStdinBlock.cfg` | violation (liveness) | `DataReceived` writes to the child's stdin on the transport goroutine with `s.mu` held (console.go:211). A child that does not read blocks every session. spec.md §5 says no lock is held across blocking I/O. |
| codec_roundtrip | `MC_Codecs`, `CodecRoundTrip.cfg` | pass (277K states, about 2.5 min with coverage) | Every command in both directions decodes from its own frame to itself (`RoundTrip`, spec.md §8). However one or two frames are cut into MSG payloads, `processPackets` hands every packet over once and in order (`FramesHandled`). Through the DNS tunnel: every MSG `GetOutgoing` builds under `MaxDNSCatLength`, encrypted or not, travels in a legal query name of at most 255 bytes with labels of at most 63 (`QueryFits`). Every dnscat2 packet type, sealed or in the clear and in every record type, reaches the server as the frame `ToBytes` made. Every packet the server answers with, whatever the order of the A/AAAA records, comes out of `Driver.Run` and `DataIncoming` as it went in (`TunnelRoundTrip`). Against an attacker who replays and forges frames, a client with a pre-shared secret only leaves BeforeAuth holding keys the server holds (`PskAuthenticates`), and a renegotiation only swaps in keys the server holds (`RenegKeepsPeer`). A handshake may end for good (the client's `os.Exit(1)`, or both ends done), so deadlock is not checked. |
| dns_pointer_loop | `MC_DriverRun`, `DnsPointerLoop.cfg` | violation | A datagram whose question name is a compression pointer to itself makes `decodeDNSName` jump for ever (protocol.go:225: no hop limit, no check that a pointer goes backwards). `Driver.Run` never reads again. An answer of two A records, one with no data, makes the `sort.Slice` less function index `Data[0]` of an empty slice (dns.go:163), and the process panics. `Run` reads any datagram that reaches its socket, so neither needs the server. |

### Bounds and why they are enough

**Session.** The `session` run uses:

- **Sequence space.** `SeqMod = 8`, with the client's initial MySeq at 6. This is SeqMod − 2, the analogue of 0xFFFE, the largest value `rand.Intn(0xFFFF)` returns. With `MaxOut = 2`, MySeq crosses the wrap.
- **Nonce.** `NonceMod = 6` and `RenegAbove = 3`, so a session reaches the renegotiation threshold after a few encrypted sends, and the swap, the stale-key frames and the nonce reset all happen.
- **Payload.** `MaxData = 2` lets a MSG carry both bytes, or one of them when only one is buffered.
- **Server output.** `MaxSrvOut = 1` gives one byte of server-to-client data, enough to test the SEQ check against repeated answers.
- **Network.** `MaxInFlight = 2` distinct frames per direction let an old answer overtake a new one, and `MaxCopies = 1`.
- **Eviction.** `MaxRetransmits = 2`, so eviction can happen.

The PSK run keeps `MaxCopies = 2` and `MaxRetransmits = 3`. Two copies let a resent auth travel beside the first. The handshake sends are never reset by ENC answers, so the limit must stay above their number, as the default of 20 does.

**CommandDriver.** Three commands (one or two per MSG) from eight kinds, and two tunnels with one read each. This is enough for:

- a tunnel's reader closing it while the loop handles another command;
- `Driver.Close` closing a tunnel whose reader then finds it gone;
- a second tunnel id, and a shell session added beside the command session;
- a heartbeat between two MSGs.

**ExecDriver.** Three output bytes let a read take part of the pipe and leave the rest, before or after the child exits. A one-byte stdin pipe and two inputs make a write block.

**CommandCodec.** Request ids 0 and 0x7FFF, in both directions, set every bit of the packed id. Strings are empty or two bytes; data holds a 0 byte; numbers are 513 (16 bits) and 65794 (32 bits), so every byte of a field is distinct from its neighbours. The 142 packets are taken alone and in every pair, with every cut of the stream. Strings never hold a 0, which `writeNTString` cannot carry.

**Codecs, tunnel part.** Two domains for the round trip (none, so the wildcard prefix, and "x.co") and three long ones for `QueryFits`: 63 bytes (the longest label), 100 bytes, and 104, the longest for which an encrypted session still builds a MSG.

- `SendMSG` takes every buffer size from 0 to `MaxBuffer = 130`. The largest MSG any domain allows carries 106 bytes (no domain, in the clear), so the cut at the bound happens for every domain, and a bound that forgot the hex doubling builds a name longer than 255 bytes.
- The seven packets cover every type and ENC subtype: a SYN with name and command options, a plain SYN, a MSG with data, FIN, ENC init (64-byte key), ENC auth and PING. Ids and lengths have distinct non-zero bytes, so a byte out of place shows.
- An ENC init frame (73 bytes, 81 sealed) takes 25 to 28 A records or 5 to 6 AAAA records, so the three orders move records across the whole payload.

**Codecs, handshake part.** Two key pairs per end are the first keys and one renegotiation; the attacker's one key pair is enough to stand in the middle of either. Both values of the pre-shared secret setting are explored. The client exits or finishes within 13 steps, so the frame set stays small (1,022 states).

**DriverRun.** Question names of up to two bytes from {0, 1, 65, 192, 12} include the pointer to offset 12, the question itself. Two A records with data of 0 or 4 bytes include the empty one.

### Fairness

`Session.FairSpec` assumes weak fairness for three things, and nothing for the network, which may lose anything:

- `Timeout`: the read deadline passes every 50 ms.
- Reading an available answer: the loop blocks in `ReadFromUDP`.
- The server answering a query.

`CommandDriver.FairSpec` assumes weak fairness for the transport goroutine's work once a MSG is in hand, and for each tunnel reader: the Go scheduler runs runnable goroutines. It assumes nothing for the server's commands or the read deadline.

`ExecDriver.FairSpec` assumes weak fairness for `readOutput`, the wait goroutine and the transport loop's polling, write completion and the server's acknowledgements. It assumes nothing for the child, the server's input or eviction.

`MC_Codecs` and `DriverRun` check safety only and assume no fairness. The handshake part assumes nothing of the network either: the attacker may withhold any frame. In `DriverRun`, `loop` leaving "reading" is already the failure: `decodeDNSName` never returns, or the process panics.

## Mutants

Each property of a passing run is broken by a plausible fault in the code it is about:

| Fault | Mutant | Property that catches it |
|---|---|---|
| the renegotiation swap leaves `s.NewEncryptor` set | `HandleENCKeepNew` | `TypeOK` (Session) |
| buffer sliced one byte short | `HandleMSGShortSlice` | `ClientStreamReliable` |
| SEQ test dropped | `HandleMSGNoSeqTest` | `ServerStreamReliable` |
| ack bound dropped | `HandleMSGNoAckBound` | `RetiredBytesReceived` |
| unsigned frames accepted once keys are in use | `VerifiedOrClear` | `NoFatalExit` |
| every request answered, the error handler's too | `HandleAtOnceAnswersRequests` | `TypeOK` (CommandDriver) |
| `processPackets` handles one packet per call | `ProcessPacketsDoneEarly` | `RequestsAnswered` |
| `GetOutgoing` copies without trimming | `PollDriverNoTrim` | `DeliveredInOrder` |
| the wait goroutine never sets `isShutdown` | `WaitShutdownSkip` | `ChildExitEndsSession` |
| `readNTString` leaves the 0 in the reader | `readNTStringKeepZero` | `RoundTrip` |
| `processPackets` with an `if` for its loop | `processPacketsOnce` | `FramesHandled` |
| `MaxDNSCatLength` without the halving for hex | `MaxDNSCatLengthNoHalf` | `QueryFits` |
| A/AAAA records taken in arrival order, without the sort | `ReassembleUnsorted` | `TunnelRoundTrip` |
| a pending renegotiation sent again instead of waited for | `TransmitNoWait` | `NonceNeverReused` |
| the server's authenticator not compared in BeforeAuth | `TheirAuthenticatorOKAny` | `PskAuthenticates` |
| incoming frames taken without `CheckSignature` | `ClientAcceptsAny` | `RenegKeepsPeer` |

## Not modelled yet, and the plan

1. **`Controller`.** Several sessions, each with its own shutdown path, round-robin in `getNextActive`, and a history of FINs sent. The property: a session that ends on its own side sends a FIN. Today the FIN is skipped whenever the session is killed outside `GetOutgoing` (session.go:156, part_002:72).
2. **Nonce wrap without eviction.** `NonceNeverReused` holds in the `session` run. With `-max-retransmits -1` (documented as infinite, service.go:233), eviction never happens, and a handshake frame resent without answer wraps the 16-bit nonce (encryptor.go:178). TLC finds that with `MaxRetransmits` set to -1. The instance is not kept as a run, because every run slot holds a finding.
3. **Handshake frames and the query size.** `GetOutgoing` bounds only MSG frames. ENC and SYN frames outgrow a 255-byte name under long domains (session.go:194). With encryption, domains of 105 to 112 bytes make `make([]byte, dataLen)` panic (session.go:229). `Wire` leaves both cases out, because no run slot is left for them.
4. **Unknown command ids.** A packet with an unknown command id fails `parsePacket` after its frame was consumed, so no not-implemented error is sent (spec.md §4.3). `FramesHandled` is violated once such a packet is added to `Packets`. That instance is not kept as a run.

Some parts will stay out:

- **Ping driver.** It is a diagnostic driver, and the `IsPing` branches of the session are not modelled. Reading it shows one hazard, which has no run because every run slot holds a finding. A ping session cuts the 16 ping bytes to `maxLength - GetPINGSize()` (session.go:187). The driver's own length check never fires, because the session polls it with -1. Under a domain of 100 bytes or more the echo therefore never matches, and above 115 bytes `make` panics.
- **Pure computation.** Salsa20, SHA3 and the P-256 arithmetic, and the SAS word list (`PrintSAS`, display only). `Encryptor` replaces the ciphers with keyed stand-ins, and `Handshake` replaces ECDH and SHA3 with symbols.
- **Authenticator order.** The client's `makeAuthenticator` hashes its own public key before the server's (encryptor.go:169), the "local public key, peer public key" order of spec.md §6. The model's server hashes the client's key first too, the order under which the two ends agree. Whether the real server does so is outside this repository.
- **I/O glue.** Flag parsing, the OS service wrapper and config loading.
- **Time.** How long `net.Dial` in `handleTunnelConnect` takes while the transport goroutine holds `s.mu` and `d.mu` (driver.go:237). The models have no clock.

# ArkTunnel in TLA+

ArkTunnel is a proxy whose traffic looks like a Bitcoin node's. A client on the user's
machine offers SOCKS5, HTTP CONNECT or a TUN device; a server with a public address dials
the targets. Between them runs an encrypted stream: BIP 324 v2 (or RLPx, an Ethereum
transport), carrying a marker that tells a client from a real peer, then a request, then
data.

This directory holds models of the parts of ArkTunnel whose correctness depends on order,
interruption and concurrency, the TLC configurations that check them on small instances,
and proofs that hold for every value of the constants. Line numbers are those of the
repository; all paths are under `src/`.

Contents: [1 The system](#1-the-system) · [2 Modules](#2-modules) ·
[3 Runs](#3-runs-and-bounds) · [4 Fairness](#4-fairness) · [5 Proofs](#5-proofs) ·
[6 Disagreements](#6-where-the-code-and-its-documents-disagree) ·
[7 Not modelled](#7-what-is-not-modelled) · [8 What is left](#8-what-is-left)

To check a run, `tlc -config X.cfg M` with the configuration and the module section 3 names;
to check the proofs, `tlapm M.tla` for each module of the table in section 5 and for
`SequenceLemmas`.

## 1 The system

```
application --SOCKS5/HTTP/TUN--> client                                 server --> target
                                  pool -> failover -> handshake  ==>  accept loop
                                  activation (ARK1, hello, request) ==> probe tracker
                                  relay  <== encrypted stream, TCP ==> handle_connection
                                                                       relay / UDP NAT
                                                                       splice --> bitcoind
```

| Part | Source | State it keeps | Operations |
|---|---|---|---|
| bip324 stream | `ark-core/src/bip324/mod.rs` | `flush_buf`, `flush_pos`, `RecvState`, `read_buf`, cipher counters | `poll_read`, `poll_write`, `poll_flush`, `poll_shutdown` |
| bip324 ciphers | `ark-core/src/bip324/cipher.rs` | keys, chunk, block and packet counters, keystream buffer | seal, receive length, receive contents, rekey every 224 |
| bip324 handshake | `ark-core/src/bip324/handshake.rs` | the bytes read so far | key and garbage, terminator, version packet, marker, v1 prefix |
| rlpx handshake | `ark-core/src/rlpx/handshake.rs` | messages as they were on the wire, MAC seeds | auth, ack, Hello, marker, relay of a node to geth |
| rlpx stream | `ark-core/src/rlpx/{mod,framing}.rs` | `write_buf`, `flush_buf`, `read_buf`, MAC and AES states | the same four poll functions |
| transport mux | `ark-core/src/transport.rs` | none | connect, accept, session marker |
| arkframe | `ark-core/src/arkframe.rs` | none | v2 hello and ack, request, status, UDP datagrams |
| activation | `ark-client/src/proxy.rs` | the step of one session | marker, hello, ack with a deadline, request, status |
| connection pool | `ark-client/src/pool.rs` | queue of idle transports with their age | acquire, refill, background fill |
| endpoint failover | `ark-client/src/endpoints.rs` | failures, demotions, preference | order candidates, record success or failure, connect |
| front ends | `ark-client/src/{socks5,http_proxy}.rs` | one session; the application's last UDP address | CONNECT, UDP ASSOCIATE, the client's half of the relay |
| tun mode | `ark-client/src/{tun,main}.rs` | routes of the host, `RouteJanitor` | install, undo, stop |
| accept loop | `ark-server/src/run.rs` | configuration in use, one task per connection | accept, handle, splice, reload, gc |
| metrics | `ark-server/src/metrics.rs` | atomic counters and a gauge | increment, decrement without underflow |
| probe tracker | `ark-server/src/probe_defense.rs` | failures and tarpit per address | is_tarpitted, record_failure, gc, tarpit_close |
| udp relay | `ark-server/src/run.rs:380-494` | NAT table of 256 destinations | forward, reply, evict |
| server configuration | `ark-server/src/{config,init,add_user}.rs` | `server.toml` | load, save, init, add user |
| pool registry | `ark-client/src/pool_registry.rs` | signed list and its cache | fetch, verify, fall back |

How they interact. The pool, its refills and its filler call the failover, which opens a
TCP connection and runs the handshake; a session takes a transport from the pool and
activates it; the relay copies both ways through two encrypted streams, one per direction,
that share only the socket. At the server the accept loop asks the tracker, spawns a task
per connection and, after the task has ended, tells the tracker what it was. Tasks share
the tracker and the pool under mutexes, the counters as atomics, the configuration
through a watch channel.

What is hard:

* `select!` and `copy_bidirectional` abandon a read or a write at any byte, and TCP
  delivers any fragment: the stream's state must live in the struct, not in a future.
* Two ciphers of one packet rekey at different moments and must agree at both ends.
* Locks are released across awaits (pool), snapshots outlive changes (failover,
  configuration, probe tracker at accept), deadlines race answers (v2 ack).
* Both ends of the handshake write before they read, over buffers of finite size.
* A server must tell a client, a node and a probe apart from bytes that look alike.
* Routes, a cache and a configuration file outlive the process that changes them, which may
  fail or be killed between any two steps, and the files have more than one writer.

What makes each part correct: a direction of a stream is a reliable byte channel; no
keystream or nonce is used twice and both ends agree; the pool hands out fresh transports
and is refilled; a demoted endpoint is a failing one and every endpoint is tried before a
connect fails; an address is refused exactly while its tarpit lasts, every probe is
released, the gauge is exact; replies reach the client under the name it used; a client is
never refused by the handshake nor told it is connected before it is; what one end of a
session sends the other gets, and a reset of either comes out at the other; the tunnel never
carries itself and the host's routes come back; a client dials what its URI or its registry's
owner lists; a user who was added stays, and a reload is never lost.

Everything in this code that is hard to test, line by line, is the list `hazards` of
`PROJECT.json`, with the properties that would notice it going wrong.

## 2 Modules

A definition named `XBug` is `X` with a slip that a maintainer could make. It is used by
no specification: putting it in the place of `X` shows that the property named for it
can fail, and `PROJECT.json` (`mutants`) says which one that is. `map` there names the
lines each definition models.

| Module | Models | Composes |
|---|---|---|
| `ByteChannel` | what an encrypted transport promises: a reliable byte stream | |
| `Bip324Stream` | one direction of a BIP 324 stream and its TCP | refines `ByteChannel` |
| `Bip324StreamProofs` | the theorems about the stream, its refinement with them | extends `Bip324Stream` |
| `Bip324Ciphers` | the two ciphers of one direction, at both ends | assumed by `Bip324Stream` |
| `RlpxHandshake` | both RLPx handshake functions, clients and nodes, the leg to geth | |
| `RlpxStream` | one direction of an RLPx stream and its TCP | |
| `Rlpx` | a connection: the handshake, then the stream | extends both |
| `Handshake` | both BIP 324 handshake functions, other peers, the splice of a v1 node | framing from `Bip324Stream` |
| `Session` | activation against the server's half, up to the relay | over two `ByteChannel`s |
| `TcpRelay` | a SOCKS5 or HTTP session from application to target | extends `Session` |
| `UdpRelay` | the server's end of a UDP association, with its NAT table | |
| `Socks5Udp` | the association from the application's sockets to the hosts | extends `UdpRelay` |
| `Proxy`, `MCProxy` | the front end's choice: activation, then a TCP relay or an association | extends `TcpRelay`, `Socks5Udp` |
| `ConnPool` | the pool, its callers, refills and filler | |
| `Endpoints`, `MCEndpoints` | registry and failover, several tasks | |
| `ProbePolicy` | what the tracker promises, nothing kept lazily | |
| `ProbeTracker` | the tracker as it is | refines `ProbePolicy` |
| `Server` | accept loop, connection tasks, counters, reload, gc | extends `ProbeTracker` |
| `TunRoutes` | the routes of tun mode on three systems | |
| `PoolRegistry` | URI, signed registry, shared cache, several clients | |
| `ServerConfig` | `server.toml`, its commands, the server that reloads it | |
| `Host`, `MCHost` | what outlives the programs: one of the three at a time | extends the three |
| `Selection` | what `retain` and `filter` keep of a sequence | used by the tracker, its policy, the NAT table, the candidates and the registry |
| `Bip324Proofs` | theorems about the ciphers and the handshake | extends `Bip324Ciphers`, `Handshake` |
| `RlpxProofs` | theorems about an RLPx connection | extends `Rlpx` |
| `ConnectProofs` | theorems about the failover and the pool | extends `Endpoints`, `ConnPool` |
| `ServerProofs` | theorems about the counters, the tracker and the accept loop | extends `Server` |
| `RelayProofs` | theorems about TCP sessions and UDP associations | extends `Proxy` |
| `HostProofs` | theorems about `server.toml`, the registry and the routes | extends `Host` |
| `SequenceLemmas` | facts the proofs share: least elements, sequences, what is kept of them | |

**Bip324Stream.** Variables carry the fields' names. A byte on the wire is a *cell*: the
packet's counter, the stream bytes it carries, whether it is a decoy, and its offset.
Nothing is encrypted; instead a buffer opens exactly when it holds the right cells in the
right order and the receiver's counter is the packet's. The length field is opened under
`recvL` and the body under `recvP`, as in the code; a length decrypted under the wrong
counter is any length. The actions are the calls: `PollWrite` (drain what is in flight,
seal the caller's bytes as one packet, commit, send what TCP takes, return Ok),
`PollWritePending`, `PollFlush` (also `poll_shutdown`, which only flushes, mod.rs:310-316),
and `poll_read` split at its loop's arms: `PollRead` starts one, `ReadLength` and
`ReadBody` are the arms, `ReadPending` and `ReadClosed` its other exits. A poll in progress
is `want > 0`; TCP may give any number of bytes at every arm. `DropWriter` and `Reset` end
the connection; `PeerDecoy` is what a BIP 324 peer may send and this code's writer never does.

**Selection.** `Vec::retain` and `Iterator::filter` keep elements by a test. `Kept(s, I)` is
what is left of *s* at the places *I*, in order; it says what `SelectSeq` says, without the
recursion in its definition, so that its facts can be proved (`SequenceLemmas`).

**ByteChannel.** Byte *k* of the stream is the number *k*. A channel accepts, delivers at
least one byte at a time, flushes, disconnects, and reports the end of the stream only
after every flushed byte.

**Bip324Ciphers.** The ciphers with the code's own constants (interval 224, 3-byte lengths,
32-byte keys, 64-byte blocks). A keystream byte is its name: key generation, nonce,
position. The buffer that `fill_keystream` keeps, the rekeying that takes 32 bytes from it
and the nonce derived from the two counters are computed as in the code.

**RlpxHandshake.** A message is its form and who sent it. The forms are what the responder's
peek and the decoders tell apart, among them the two that are mistaken for another (`long`,
`high`) and the one Ethereum nodes sent before EIP-8. Session keys and MAC seeds are the
tuples they are hashed from, so that two ends agree exactly when they put the same bytes in
the same roles. `read_exact` waits for a whole message, so that a message arrives whole. The
`front` leg is a peer and the server, the `back` leg the server and geth; a probe is held by
`tarpit_close` (`HoldEnds`).

**RlpxStream.** Like `Bip324Stream`, with `write_buf` and `flush_buf` apart, and with
`PollReadPending` dropping the `recv_frame` future together with the bytes it has taken and
the MAC states it has advanced (rlpx/mod.rs:106). The 3-byte size field wraps at `SizeMod`.
**Rlpx** runs it after the handshake of a client.

**Handshake.** Both functions byte by byte: `Put` and `Take` are `write_all` and
`read_exact` over a TCP that holds `NetCap` bytes in each direction. A step of either
function (`at`) ends when its read is complete. Garbage is made of the terminator's first
byte, the hardest case for `skip_garbage`; its comparison before each of
`MAX_GARBAGE_LEN` reads and not after the last is kept. The peer may be this code's client,
a Bitcoin v1 node (its prefix is recognised and the bytes are replayed to bitcoind) or a v2
node (handled as a probe), and may leave at any time.

**Session.** `client` and `server` are the two programs' steps; bytes towards the client
are kept one by one, since `read_exact` with a deadline may stop between any two of them
and forgets those it has taken. A byte's value is modelled where it matters: what it says
when it is read as a status. The server may be one that never acks, and either program may
be killed at any time.

**TcpRelay.** `ask` is the front end's conversation with the application, `over` the ends of
input the relays have seen. `copy_bidirectional` is its four effects: forward, return, pass
an end of input on (which both transports do as a flush, so that nothing crosses the tunnel:
`AppIsOver`, `TargetIsOver`), and drop both streams after an error. An HTTP application may
have sent data behind its request, which `BufReader` takes and `into_inner` drops (`lost`).
Each copy loop has a buffer of its own: while it is full and the write behind it is blocked, the
loop does not read, and so does not see that the side it reads from has been reset. `up` and
`down` stand for both loops' buffers and all between them: the loop at the far end reads while
they hold less than `CopyBuf` data bytes, the one at the near end while they hold less than
`Room`. `ClientDrops` and `ServerDrops` say at which read or write an end notices that a side is
gone. The application and the target take what is returned or forwarded to them if they like,
and may stop for good.

**UdpRelay, Socks5Udp.** The NAT table is a sequence, the least recently used first. `Forward`
evicts, drops the idle, then inserts, in the code's order; `Reply` refreshes whatever is
there; `ReplyFails` is the failure of either call of the server's second future. `history` is what the table would be with no limit and no timeout, `named` the names
the client has used. The client's three futures end together when one returns
(`AssociationEnds`, `OutboundFails`), the server's two likewise; `clientAddr` is where
replies go. **Proxy** puts the activation before either kind of session.

**ConnPool.** An idle transport is its age. `pop_fresh` is one step (it holds the lock);
`maybe_refill` is three (check, open, push), as its locks are. The number of refill tasks
is bounded by the set `Refills`; `background_fill` is `Filler`.

**Endpoints.** `Candidates` is `ordered_candidates`; `Start` takes the snapshot, `TryFails`
and `TrySucceeds` are attempts, during which the other tasks change the registry. `streak`
is history: the failures recorded since the last success.

**ProbeTracker, ProbePolicy, Server.** `inner` is the map. Its operations are one step each
(a mutex). `Server` has one slot per connection whose field `at` is the point its task has
reached, down to single atomic operations of `metrics.rs`: `LoadActive` and `SwapActive`
are the load and one turn of the `compare_exchange_weak` loop. `Accept` uses the tracker's
answer and clones the configuration; `Punish` is `record_failure` and the start of
`tarpit_close`. `late` is history: for the current quarantine of an address, the connections
of that address that were under way when it began, and the failures told since. `ProbePolicy`
takes the words of the code's constants (probe_defense.rs:36-37, :40-41) for the promise; the
header of the file puts the limit one failure later (section 6).

**TunRoutes.** `Script` is the list of commands of each system with what undoes each;
`Install`, `InstallFails` and `Undo` interpret it, so that the order in the code is the order
in the list. The routing table is the system's: a route needs its device, two routes to one
destination need two metrics, a deletion removes the first match. tun2socks may die at any
moment, and its routes with it; `Killed` is a signal nobody handles. On Windows a deletion
names a network without its mask, and takes all routes that begin at that address: `Deleted`
lets `route delete 0.0.0.0`, which undoes the half 0/1, take the default routes too. On macOS
reading the system's resolvers (tun.rs:319) may fail as well; the model has no step of its own
for it, since giving up there leaves what a failing first half leaves when no resolver has been
given a route.

**PoolRegistry.** A document is who signed it, its number and its servers. `std::fs::write` is
two steps (`OpenCache`, `WriteCache`), between which another client reads or writes; over
what another has written since, a shorter text leaves a tail that does not parse (`Torn`).
`EndpointsAreVouchedFor` says for a client without a key that it dials exactly the hosts and
backups of its URI.
Nothing compares ages, so `Fetch` returns any document ever signed.

**ServerConfig.** A configuration is its set of users. `Truncate` and `Write` are the save;
`alone` marks a command that nothing overlapped, and `kept` the users such commands have
printed: `ReloadDropsNobody` is about those. Two writes at once leave a text that does not
parse; the model keeps it so until the next write, which is exact for two terminals. `signalled`, `loading` and `changed` are the SIGHUP pending, where the reload is
between `recv`, reading the file (`text`) and sending the configuration, and whether the file
has changed since the last signal.

## 3 Runs and bounds

A run checks its configuration against the module of the same name unless it says otherwise.
Each passing run also has, for every property, a mutated definition that breaks it.

**stream** (`MCBip324Stream.cfg`). Length fields of 3 bytes, 2 bytes of overhead, packets of
0 to 2 bytes, three packets and three bytes in all, TCP of 5 bytes. TCP holds less than a
packet of one byte (6), so every packet is split, inside both fields; reads are shorter and
longer than a packet's payload; there are two packet boundaries and a decoy may lie at each.
Checks `NeverDesynchronised`, `DeliveredIsPrefix`, `FlushOutlivesWriter`, the refinement
`ImplementsByteChannel`, and
`AcceptedIsDelivered`: a byte accepted by a `poll_write` that left its packet in
`flush_buf` still arrives.

**ciphers** (`MCBip324Ciphers.cfg`). The real constants and 675 packets: three rekeyings, the
last ones being where a leftover of the buffer would show; up to two packets in flight, so
that sender and receiver are on different sides of a rekeying. That no keystream of a
replaced key is left over is due to 224 lengths and a key filling whole blocks (224·3 + 32 =
11·64), not to the buffer being cleared: it would be otherwise with another interval.

**rlpx** (`MCRlpx.cfg`, module `Rlpx`). Every peer of `Peers`, two forms of geth's ack, any end
leaving at any time; then frames of up to 5 bytes with a size field that wraps at 4, so that
oversized frames occur. `SessionsAgree`, `PeersAreRecognised` and `HandshakesEnd` are about the
handshake. What holds of the stream as it is: no wrong byte is ever delivered
(`DeliveredIsPrefix`), and a frame fails to open only after a torn read or when it is too
large (`OnlyTornOrOversized`). **rlpx_cancel** (`MCRlpxCancel.cfg`, module `RlpxStream`) shows
the torn read of section 6; its size field does not wrap within the bound.

**handshake** (`MCHandshake.cfg`). Every garbage length from 0 to 3 (the longest the protocol
allows is 3, the longest this code sends 2), keys of 3 bytes, TCP of 3 bytes, so that even
the longest garbage of a foreign node fits and is then refused. Two clients of this code need
`NetCap + 1 >= MaxGarbage` (the assumption): with `NetCap = 1` TLC finds both ends blocked in
`write_all`. In the code the garbage is at most 4094 bytes and a socket buffer several times
that.

**session** (`MCProxy.cfg`, module `MCProxy`). An ack of 3 bytes (first, middle, last), two
data bytes in each direction: one may be dropped with an HTTP request and one remain. The
deadline may expire before the first byte of the ack, between any two of them, or never. For
an association, three hosts and a table of two, two names, one host with two names and each
name with two hosts, two sockets. `CopyBuf` is 1 and `Room` 2: the two data bytes of a direction
fill everything between an application and a target that takes nothing, so that a reset behind
them is hidden, and one is enough to fill the far end's buffer. An association begins with a client that asks for no
capability; the rest of the negotiation is covered by the TCP sessions, which run the same
code up to the request. **session_late_ack** (`MCSessionLateAck.cfg`) and **relay_end**
(`MCRelayEnd.cfg`), both of module `TcpRelay`, are disagreements of section 6.

**pool** (`MCConnPool.cfg`). Capacity 2, two callers, two refill tasks and the filler: three
tasks may be between the check and the push while the pool has one place. Two ticks of
time to live give entries that are fresh, old and stale.

**endpoints** (`MCEndpoints.cfg`). Threshold 3 as in the code, three endpoints of which two
are the same host and port and so share a record, two tasks.

**server** (`MCServer.cfg`). Two slots, two addresses, four connections: an address may trip
the tracker twice while the other slot is at any point of its task. Two ticks each of window
and tarpit, so that a failure and a tarpit may be current, at their end, and past.

**host** (`MCHost.cfg`, module `MCHost`). Each behaviour is of one of three parts, which share
nothing. Routes: two gateways, a default route of either metric or two of them, a resolver
that is the gateway, one that is not and one with a route of its own. Registry: two clients,
two keys, so that they follow the same registry, two, or none; lists of no server, one
transport, and two; URIs with a repeated host and with backups. Configuration: two terminals
and three commands, so that one command can overlap another after a third was alone.

Cut-off. The counters that bound a behaviour (`MaxBytes`, `MaxPackets`, `MaxAccepts`,
`MaxData`, `MaxNumber`, the set `Users`, `V1Len`) are in the guards of the actions that count. No configuration uses
symmetry. `CHECK_DEADLOCK FALSE` is set in all runs: a stream whose bytes are exhausted, a
session that has ended, a pool full and aged with no caller, all really stop; where someone
must not wait for ever a liveness property says so.

## 4 Fairness

* `Bip324Stream`: weak fairness of the reader and of `PollFlush` with room in TCP. The
  reactor wakes a task whose socket is ready, and tokio's copy loop flushes when its source
  has nothing to read. Writes, drops and resets have none.
* `Handshake`: weak fairness of each end's steps; TCP delivers. None for `Speak` (a pooled
  transport may wait as long as it likes) nor for `Leave`.
* `RlpxHandshake`: weak fairness of each end's steps, of the hold's end (a timer) and of the
  relay to geth. None for `Leaves`; geth and nodes that answer do so in the end.
* `TcpRelay`, `Proxy`: weak fairness of the two programs' tasks, of what `copy_bidirectional`
  and `select!` do when a stream has ended, and of delivery between the two programs. The
  deadline is part of the client's steps (a timer fires); a dial ends, at the latest by the
  system's timeout. None for the application, the target, the hosts, resolution or being
  killed, nor for `ClientReturns` and `ServerForwards`, which wait for the application and the
  target to take data: `ResetsEndBoth` allows a relay to last while an end takes nothing for
  good (`HeldUp`), and in no other case.
* `ConnPool`: weak fairness of the filler, which is a loop with a sleep, and strong fairness
  of its success: if it tries for ever the network answers once. Callers and refills have
  none, and `RefilledAgain` excuses only states in which a caller is at work.
* `Endpoints`: weak fairness of each task's attempt, which `CONNECT_DEADLINE` ends; name
  resolution, outside the deadline (endpoints.rs:153), ends by the resolver's own timeouts.
* `Server`: weak fairness of what a task does by itself. None for the handshake or the
  relay, which wait for the peer without a deadline, nor for gc, reload or time.
* `RlpxStream`, `Bip324Ciphers`, `Host`: safety only, no fairness.

## 5 Proofs

Every theorem holds for all values of the constants that satisfy the `ASSUME` of its module.
Most of these say that a number is positive or a set finite. The others:

* `CipherAssumption`: the lengths between two rekeyings and the new key fill whole blocks
  (224·3 + 32 = 11·64); without it the keystream would be used twice (section 3, ciphers).
* `HandshakeAssumption`: TCP holds at least the longest garbage this code sends; a v1 node sends at
  least its prefix, which is shorter than a key.
* `RlpxAssumption`: the size field can say the padding's block (`2^24 >= 16`).
* `TrackerAssumption`: it takes two failures or more to trip the tracker.
* `RegistryAssumption`, `RouteAssumption`, `ConfigAssumption`, `AssociationAssumption`: the
  values that stand for "none" are not among the keys, gateways, users and sockets; the lists
  are lists; no resolver is one of the destinations that tun mode itself names.

| Module | Theorem | Says |
|---|---|---|
| `Bip324StreamProofs` | `IInvInvariant` | `Spec => []IInv`, the inductive invariant |
| | `TypeCorrect` | `Spec => []TypeOK` |
| | `StaysSynchronised` | `Spec => []NeverDesynchronised`: no packet fails to open, no read returns zero bytes |
| | `DeliversPrefix` | `Spec => []DeliveredIsPrefix` |
| | `FlushedIsKept` | `Spec => []FlushOutlivesWriter` |
| | `StreamImplementsChannel` | `Spec => ImplementsByteChannel`, a refinement |
| `Bip324Proofs` | `CiphersStayInStep` | `CipherSpec => []NeverGarbled` |
| | `NoncesAreFresh` | `CipherSpec => NonceUsedOnce`, an action property |
| | `KeystreamIsFresh` | `CipherSpec => KeystreamUsedOnce`, an action property |
| | `ClientsAreRecognised` | `Spec => []ClientIsRecognised` |
| | `SplicesVerbatim` | `Spec => []SpliceIsVerbatim` |
| `RlpxProofs` | `EndsAgree` | `RlpxSpec => []SessionsAgree` |
| | `PeersAreTakenForWhatTheyAre` | `RlpxSpec => []PeersAreRecognised` |
| | `DeliversPrefix` | `RlpxSpec => []DeliveredIsPrefix` |
| | `FailsForTwoReasons` | `RlpxSpec => []OnlyTornOrOversized` |
| `ConnectProofs` | `DemotionsAreEarned` | `Spec => []DemotedIsFailing` |
| | `ConnectsStartWell` | `Spec => StartsWell`, an action property |
| | `OvershootIsBounded` | `PoolSpec => []OvershootBounded` |
| | `OldestComesFirst` | `PoolSpec => []OldestFirst` |
| | `PooledIsFresh` | `PoolSpec => ServedFresh`, an action property |
| `ServerProofs` | `GaugeIsExact` | `Spec => []ActiveIsExact` |
| | `TrackerImplementsPolicy` | `Spec => ImplementsProbePolicy`, a refinement |
| | `LateProbesStayFew` | `Spec => []LateProbesAreBounded` |
| `RelayProofs` | `RelayInvariant` | `ProxySpec => []RelayInv`, the inductive invariant of a session |
| | `SuccessIsReal` | `ProxySpec => []AnswerIsTruthful` |
| | `NothingIsMixedIn` | `ProxySpec => []DataIsVerbatim` |
| | `FailureHasAReason` | `ProxySpec => []FailsForAReason` |
| | `RecentAddressesAreKept` | `ProxySpec => []RecentAreKept` |
| | `RepliesGoByTheirNames` | `ProxySpec => []RepliesAreNamed` |
| `HostProofs` | `EditsAreKept` | `Spec => []SerialEditsAreKept` |
| | `LastReloadCounts` | `Spec => []ReloadIsNotLost` |
| | `ReloadsDropNobody` | `Spec => ReloadDropsNobody`, an action property |
| | `DialsWhatIsVouchedFor` | `Spec => []EndpointsAreVouchedFor` |
| | `TunnelNeverLoops` | `Spec => []NeverLoops` |
| | `TunnelRestores` | `Spec => []RoutesRestored` |

With them every safety invariant and every action property of the passing runs is proved.

### The stream

The argument. `NeverDesynchronised` is far from inductive: that the next packet opens
depends on what every earlier step put on the wire. `IInv` says what the wire is and where
the two ends stand in it:

* `WireCells`, `Runs`, `Boundaries`: the bytes TCP has accepted are packets, each complete
  or the last, in the order of their counters, carrying consecutive bytes of the stream. To
  avoid recursion over packets it is said locally: after a byte that is not its packet's
  last comes the next one, and where a packet ends the next starts at the next counter and
  at the next byte.
* `WriterInv`: the writer's `flush_buf` is the packet sealed last, and the wire ends where
  `flush_pos` says.
* `ReaderInv`: `RecvState` holds exactly the bytes of the current field taken so far, and
  the two receive counters are those of the packet the field belongs to (one apart between
  its length and its body).
* `PlaintextInv`: what was delivered and what is in `read_buf` are the bytes opened so far.
* `FlushInv`: flushed bytes lie in packets that TCP has whole, unless there was a reset.

Each action has a lemma (`PollWriteStep`, ..., `ReadClosedStep`). The writers' share
`DriveStep`: TCP takes *k* more bytes of the packet in flight, and runs and boundaries
extend. The readers' share `TakenBytes`, `LengthAhead` and `BodyAhead`: the next bytes of
the wire are those of the field the reader is in. The refinement adds `PollOpen` (no poll
survives an error) and maps each action to `Accept`, `Flush`, `Deliver`, `Disconnect`,
`EndOfStream` or a stutter.

### The ciphers

`NeverGarbled` is about one packet; the window holds several, sealed before and after a
rekeying. `InStep` says that the packets sealed and not yet opened are one stretch of the
states a cipher goes through: the receiver's is the first, the sender's the last, and each
packet was sealed under the one in its place (`LengthRun`, `PacketRun`). Sealing adds a state
at the end and opening takes one off the front, whatever a state is, so that the argument does
not depend on when a cipher rekeys; it does depend on both ends advancing at the same calls.

Freshness is about the sender alone. Nonces: `NonceBehind` says that the last nonce is that of
the state before the sender's, and each call moves (key, counter) on in their lexical order.
Keystream: `LengthBehind` says how far into its stream the sender has come (`At`: the buffer is
what was generated and not used) and that a key starts with an empty buffer (`Aligned`), which
is where `CipherAssumption` is needed.

### The BIP 324 handshake

What an end sends is a sequence fixed by its garbage and who it is (`Sent`). `ClientInv` says
for each step of either end how much it has consumed and written (`Consumed`, `Written`), that
the bytes in its read, in TCP and still to be written continue the sequence at that place
(`Reads`, `Ahead`), and that nothing is missing between the two (`Writes`). The terminator
begins like the garbage, so that `skip_garbage` stops at the first place that the sequence
allows; that it stops before `MAX_GARBAGE_LEN` is the range of the garbage this code sends.
`Places` adds who may be where, and that only an end that has left makes the other fail.
`SpliceInv` says of a v1 node that its bytes are in bitcoind, or in the read that recognises
the prefix, or on their way, in order.

### RLPx

The handshake. `WireInv` lists what may be on the wire by where the two ends are; `SessionInv`
says that the frame states an end holds are those it derives from the messages of both, and
counts frames while it waits. That the two derivations agree is then a matter of which message
is hashed in which role. `FrontInv` is what the server takes its peer for. All of it is said of
both legs, the one to geth included, for every peer and either form of geth's ack.

The stream. `WireBytes` is the local form of "whole frames in order" used for BIP 324, but a
frame may say less than it holds: its size wraps. `WriterInv` is about the frame in flight and
the bytes in `write_buf` behind it. `ReaderInv` has two cases: a reader that has dropped nothing
is between two frames, which its MAC state counts; one that was torn has counted too few
(`ingress <= 2 * seq + 1`), and that inequality never closes again, so that no later
frame opens. A wrong byte would need a frame that opens, hence none is delivered.

### The pool

`PoolInv` is `OvershootBounded` with the types of what it counts. The sum of entries, refills
in flight and the filler's connection is the right measure: opening a connection moves one
unit of it, and only a task that passes the check adds one. A task passes the check when the
pool has room, so the sum after it is at most `PoolSize` plus everything that can be in
flight. `NoGain` covers the steps that add nothing.

`OldestFirst` needs no more than the types: a push appends age 0, time ages everybody, and
`pop_fresh` drops a prefix. That it is the right prefix is `StaleFrontStops`: the model
says *the* place of the first fresh entry with CHOOSE, and `LeastElement` shows there is one.
`ServedFresh` follows: what comes after a fresh entry is younger.

### The failover

`DemotedIsFailing` needs `CountsTheStreak`: below the threshold, `consecutive_failures` is
the number of failures since the last success. It would be false above it (the count is
reset when it trips), which is why `streak` stops at the threshold. The steps of a connect
do not occur in the argument: only the two reports change the registry.

`StartsWell` is about the first of three sequences put behind each other: the preferred
endpoint, the others that are not demoted, the demoted. `FirstCandidate` goes by which of them
is the first that is not empty. `PlanInv` is what is left: `preferred` is a place of the URI.

### The server's gauge

`ActiveIsExact` is inductive with the types of the slots: the gauge is the cardinality of
`Started`, and each step moves one slot (`Moves`) into the set, out of it, or neither.
`NeverSaturates` is the reason that the test for 0 in `inc_session_end` never matters: the
task that runs it is itself counted.

### The probe tracker

The tracker keeps what the policy has forgotten: failures out of the window, tarpits that are
over, records nobody asks for. `Table` is the type of such a map, `RecentOf` and `LeftOf` the
policy's two values computed from it; the refinement mapping is those two for each address.
Every operation is a step of the policy or none: `QueryStep` (a query drops what is old, which
changes neither value), `FailureStep` (`Count`, `Trip`, or nothing for an address in quarantine),
`SweepStep` (gc removes only records whose values are the policy's empty ones) and `PassStep`.
The last is where laziness could show: the tracker ages everything and drops later, the policy
drops at once. `RetainedOlder` says that this comes to the same, since a failure that has left
the window never returns, and `RetainedAppend` that a new failure is always in it.

`LateProbesAreBounded` compares the accept loop with the policy's quarantine. The tracker is
asked at accept and told after the handshake, so that failures are told during a quarantine: of
connections let in before it. `LateInv` says that those told and those undecided (`Undecided`,
the slots that may still tell) are together no more than were undecided when it began. `Accept`
adds to the undecided only where the record it has just cleaned says that `LeftOf` is 0
(`AcceptLate`); `Punish` begins the count anew or moves one connection from the undecided to the
told (`PunishLate`); every other step of a task only takes one away (`HandleLate`,
`QuietKeepsLate`), and time and gc can end a quarantine but begin none.

### The session

`RelayInv` says what is on the two ways between client and server, for an ack of any length
and any amount of data:

* `StepsInv`: where the two programs may be at the same time; the server is never ahead of
  what the client has sent.
* `UpInv`: towards the server lie the marker, then the request, then the application's data,
  each only while the server waits for it or for what precedes it.
* `DownInv`: towards the client lie what is left of an ack, then the status, then data. A
  client that has given the ack up may take any byte of it for the status, and
  `ValueFacts` is why that never opens a session: no byte of an ack is zero. Hence, when a
  session is open, ack and status have been consumed and only data follows.
* `ReasonInv`: a byte of an ack is before such a client only if the deadline has expired and
  the server does answer.

Each action has a lemma. Those that move data say what is left of a sequence (`Drops`) or what
it has become (`Extends`) and use two facts on consecutive data (`DropData`, `ExtendData`). An
association takes the same steps up to the request, hence the theorems are about `ProxySpec`.

### The UDP association

`RecentAreKept` compares the table with `history`, the table of a server without limits. The two
are related entry by entry (`TablesInv`): an address has one entry in `history` (`Single`);
what the table has, `history` has, in the same order (`Follows`); and what only `history` has is
too old, or has as many entries behind it as the table holds (`Recent`). Both tables then move
the address in use to their ends, the server after it has evicted and dropped the idle. In
`RecentStay` an evicted entry is the first of a full table, hence the entries of the table
behind it are all in `history` behind it too (an injection: `FS_Injection`). Time only makes
entries older.

`RepliesAreNamed` needs `NamesInv`: every entry of the table is under a name the application has
used for that address, and the client knows an address to reply to as soon as the server has one.

### The configuration file

`SerialEditsAreKept` is not inductive: a command that nobody overlaps must still find, when
it writes, what it has read. `ConfigInv` adds that every copy still to be written has all that
is to be kept (`KeptInv`), that a command that is `alone` is the only one busy (`AloneInv`),
that a new UUID is nowhere before its command writes it (`UsedInv`, `FirstInv`), what a
reload may miss (`FreshInv`: only what a signal still pending will bring), and that what has
been read and not yet sent has everybody the server serves and must keep (`ReadInv`), which
is what `ReloadsDropNobody` needs.

### The registry

`RegistryInv`: a document in a client's hands was signed by whom it follows (`Holds`), only a
client with a registry asks for one (`Asks`), and what a client that is up dials is of its URI or
of such a document (`Vouched`). The cache is no part of it: whatever lies there, torn, old or
another registry's, is verified before it is taken.

### The routes

`TunInv` relates the table to `undo`, the commands recorded:

* `Distinct`: a route is told by destination and metric, so that a deletion removes the one meant;
* `BypassFirst`, `Bypassed`: for a route into the device, the command that undoes it comes after
  the one that undoes the server's own route, and the server's route is there while that is
  recorded. As undoing goes backwards (`undo` is taken from its end), `NeverLoops` follows in
  every state of an installation, an undoing, or after a kill;
* `OthersKept`: routes other than the default are those of before and those recorded;
* `DefaultKept`, `DefaultMoves`: the default route has its own, since on Linux it is taken and
  given back. With a single one it is `Held` by the tunnel, `Dropped` by it and not yet back, or
  `Back`.

* `HalfTakesDefaults`: on Windows the half 0/1 is recorded once, by the third command
  (`WindowsHalves`), and the default routes are there as long as it has not been undone.

`RoutesRestored` is `OthersKept` and these with nothing recorded. Its three exceptions (several
default routes, a failure between two commands, and Windows, where what is left is stated
exactly) are section 6's.

### What is model-checked only

* The liveness properties: `AcceptedIsDelivered`, `HandshakesEnd`, `EveryPeerIsAnswered`,
  `AsksAreAnswered`, `ResetsEndBoth`, `EndsTogether`, `RefilledAgain`, `EveryConnectEnds` and
  `ProbesAreReleased`. The prover has no rules for fairness and ENABLED.
* The disagreements of section 6, each a counterexample of a run.
* The types of modules whose invariants needed only some of them: there the theorem's own
  invariant has the types it needs (`RegistryType`, `PoolInv`, `UdpTypeOK`, ...).

## 6 Where the code and its documents disagree

The list `findings` of `PROJECT.json` quotes both sides. Shown by a run:

* an RLPx read that is abandoned within a frame loses the stream (`rlpx_cancel`);
* a v2 ack after the deadline fails the session that has fallen back to v1
  (`session_late_ack`);
* a relay does not end when either side closes, not even when both have: no transport passes
  an end of input on (`relay_end`).

Seen in the source while modelling, and described by a model above though no run is spent on
it:

* transports: an RLPx flush reports Ok while bytes wait in `write_buf`; the static key of an
  RLPx server is drawn anew by each process, so that published URIs do not outlive it; the old
  auth form of other Ethereum implementations is not accepted; frames of a node are
  relayed to geth under another session's keys; a Bitcoin v2 node is dropped as a probe and
  not spliced; `skip_garbage` refuses a peer that sends the full 4095 bytes of garbage;
* client: the pool exceeds its capacity (what does hold is `OvershootBounded`); HTTP methods
  other than CONNECT are answered 400 and not 405; a comment says that UDP bypasses the
  tunnel, which it does not;
* tun mode: on Linux a failure after `ip route del default` loses the default route, and of
  several default routes another one may come back; on Windows undoing 0/1 takes the default
  routes as well; SIGTERM is not handled; the bypass
  route is made for one endpoint, so that a failover to another runs into the tunnel;
* registry: a document has no `expires`, so that any signed list is accepted for ever, and
  its endpoints replace those of the URI without the URI's checks;
* server: a UUID revoked by a reload is accepted from a connection opened before it; the
  tarpit trips at `MAX_FAILS_PER_WINDOW` failures, and the header of the file says when they
  exceed it.

## 7 What is not modelled

* Cryptography (`ellswift.rs`, `ecies.rs`, MACs): its results are assumed, as named bytes
  that open or do not. Byte layouts of requests, addresses, datagrams, markers and URIs
  (`arkframe.rs`, `uri.rs`): the models say which forms are told apart, not how.
* `shaping.rs` and cover frames: nothing sends them. `bip324/handshake.rs:187-262` and
  `bip324/mod.rs:237-250` are not called.
* `doh.rs`, `verify`, `ark-probe`, the metrics HTTP endpoint, logging, command lines: one
  request and its answer, without state that outlives it.
* The TUN packet path: tun2socks, a separate program, handles the packets.
* Of the handshakes, a real BIP 324 or Ethereum node is what this code sees of it. A flat ack
  whose first key byte is 0xc0 or more is taken for an RLP list (rlpx/handshake.rs:526);
  `DecodesAck` takes every flat ack for what it is, and no property depends on it.

## 8 What is left

Every part with state of its own is modelled. What would add most:

1. Proofs: that an RLPx stream whose reads are not abandoned refines `ByteChannel` as a BIP 324
   stream does (`StreamInv` has what the mapping needs, except what a flush promises); the exact
   form of the two findings about Linux's default route, that is, that it is lost in no other case.
2. Models: the request and datagram codec of `arkframe.rs` against a reference definition, as
   operators over short byte strings; the DoH forwarder with its upstream list.
3. Composition: a failover under `TunRoutes`, which today follows one endpoint, and the pool's
   transports under `Session`, which today begins with a fresh one.

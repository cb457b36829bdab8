# paqet in TLA+

Specifications of the core of [paqet](../src/README.md), a tunnel that carries TCP and UDP
over KCP/smux inside hand-made TCP packets sent and received with pcap. Each module is
translated from the Go code; TLC checks it on small instances and TLAPS proves every
safety property that the passing runs check, for every instance. All paths below are under `src/`.

## 1. The system

A **client** (`internal/client`, `internal/forward`, `internal/socks`) keeps a few tunnels
to one **server** (`internal/server`). A tunnel is a KCP session over a packet conn
(`internal/socket`, two pcap handles), with a smux session on it that carries one stream
per request. Client and server dress packets as TCP with a *flag combo*, one for each
direction; firewalls on the way drop some combos, and the client looks for one that works.

| Component | State it keeps | Operations | Interaction |
|---|---|---|---|
| flag cycler (`client/flag_cycler.go`) | position in the list of combos, failure count | Fail, Succeed, ForceNext, SetIdx | called by the probe, by every goroutine that reconnects and by the health check; its own mutex |
| timedConn (`client/timed_conn.go`, `client/dial.go`) | the current connection, mutex `mu` | newStrm, newConn, createConn, health check, close | any number of request goroutines, one health check and one shutdown goroutine per tunnel; I/O runs outside `mu` |
| client start (`client/client.go`, `cmd/run/client.go`, `pkg/iterator`) | list of tunnels, round-robin index | probe of each tunnel, Start, Next | one goroutine, then all requests |
| UDP pool (`client/udp.go`, `udp_pool.go`, `forward/udp.go`, `socks/udp_handle.go`) | key → stream | UDP, CloseUDP, reader goroutines | a handler per datagram, a reader per stream; lock per map access |
| relays (`forward/tcp.go`, `socks/tcp_handle.go`, `server/tcp.go`, `server/udp.go`) | two ends, errCh | open, copy, closeBoth, drain | one handler and two copying goroutines |
| server (`server/*.go`, `socket/send_handle.go`) | the listener and the packet conn; flags and sequence state per client address | Start, accept loop, shutdown; TCPF and PING handlers, deferred clears | a goroutine per session and per stream, which Start waits for; two tables with their own locks |
| send handle (`socket/send_handle.go`) | sequence numbers per address | Write, ObservePeerSYN | KCP's senders and recvLoop |
| packet conn (`socket/socket.go`, `recv_handle.go`) | bounded channel, buffer pool, context | New, recvLoop, ReadFrom, WriteTo, Close | one reader of pcap, one KCP reader, many writers |
| protocol (`protocol/protocol.go`) | none | Read, Write | every stream's first message |
| KCP/smux wrappers (`tnet/kcp`) | third-party sessions | Dial, Accept, Ping, Close | used by timedConn and the server |
| configuration (`conf`) | what is derived from the file | detection, defaults, validation | read by everything after it |
| detection of the network, logging, tools | none after start, or a log channel | | |

**What is hard.** Network I/O is done outside every lock, so what was read before it
(the connection, the active combo, the pool's entry) may be stale after it. Several goroutines
notice the same dead tunnel and repair it at once. Clean-up goes by key (an address, a
flow's hash), not by identity, so it may hit a successor. The TCPF and PING messages travel on
separate streams and are handled by separate goroutines. Buffers are recycled. Timeouts
race answers. `PROJECT.json` lists these hazards line by line, with the property that
would catch each, or the reason why there is none.

**What makes each part correct.** *Cycler and timedConn*: one live connection per tunnel
that requests neither replace nor kill; no session leaked on any error path; failures charged to
the combo that failed; recovery once the network permits; requests that return; no tunnel after the shutdown. *Start*: what is accepted as a configuration
fits the parts it is for; flags and addresses reach the server as they were given; no
connection left behind by the probe, no working combo passed over, no service without a tunnel. *UDP
pool*: one stream per flow, read by exactly one goroutine, never forgotten open. *Relays*: both
ends closed, no hanging goroutine, no direction cut short without a cause. *Server*: a client's flags in
force, and the sequence numbers to it unbroken, while its session is up; a signal ends it. *Packet conn*: each packet once,
in order, with its own bytes; Close ends everything.

## 2. The modules

Atomicity is the same everywhere: a step is what one goroutine does between two points at
which another may see the difference. A body under a mutex is one step; a network operation is
a step of its own, with one disjunct for each outcome. A goroutine's local variables are
variables of the model where they are used after such a point. A name of a heap object
(connection, stream, buffer, connState) that nobody refers to is garbage and is used again, so
the sets of names are bounds on objects alive at a time, not on the length of a behaviour.
Operators whose comment begins with "Mutant:" are variants of the next definition as a slip
would write it; `PROJECT.json` pairs each with the property that notices it. They are in no
specification.

**SharedSlot** is the abstract specification: what `newConn` promises for `tc.conn`, and `Client.UDP` for
each key, as their callers see it. A slot holds at most one usable item; a user is handed that item, or,
only if there is none, one that was made for it alone, in one step. TimedConn implements it with
`slot <- UsableConn` (`tc.conn` while its session is open) and `held <- Handed` (what `newConn` has returned
to a caller at `open`); UdpPool with `pool[k]` and the streams of the handlers that write, for each `k`.
The look, the dial outside the lock and the second look are steps that leave the slot as it is. That a
tunnel is never replaced while it lives, that a lost race is answered with the winner's connection, and
that no two users are handed different usable items, are one statement there: `ImplementsSlot`.

**FlagCycler** has no variables: a cycler is a record `[idx, failures]` and each method, which
holds `fc.mu` throughout, an operator from record to record. TimedConn extends it, ClientStart has an
instance of it whose constants are the configured values.

**TimedConn** is one tunnel after its probe. `tcConn` is `tc.conn`; `sess`, `sock` and `combo`
describe each `kcp.Conn`: the smux session is open, the pcap handles are open, the flags it was
dialled with. A session may die (`SessionDies`: keepalive, the server) with its sockets left
open; only `Close` closes both. A caller is a goroutine in `newStrm`:

| action | code |
|---|---|
| Check | `newConn` 20-27, the first look under `tc.mu` |
| Dial, SendTCPF, Verify | `createConn`: flags read and KCP dialled, TCPF sent, PING answered or not |
| Abandon | the `conn.Close()` of `createConn`'s error paths |
| Reconnected | `flags.Succeed()`, before the lock |
| Install | `newConn` 42-50, the second look under `tc.mu`; the loser closes its own |
| OpenStrm, CallerFail, Retry | `newStrm`'s loop |
| HealthTick, HealthPing, HealthFail, HealthClose, HealthStop | `healthCheckLoop` |
| Cancel, TimedClose | the signal, and `Client.Start`'s shutdown goroutine |

The network is `passes`, the combos that it carries both ways, `oneway`, and `calm`, after which it neither
changes nor fails what it carries. `oneway` are combos that reach the server and are blocked on the way
back, on a network where the server's own flags are not. `Ping` takes any PONG, and the server sends one with its
own flags when the PING is handled before the TCPF, in a goroutine of its own (`server/handle.go:25`); so on these combos
`Verify`, `HealthPing` and ClientStart's `VerifyOk` may succeed (`Pong`), and the tunnel carries nothing. That
race itself is in ServerFlags; here it is an answer that may come or not. With the context done the packet conns refuse all I/O, so `Cancel`
empties both sets for good: sessions still open, also one that a reconnecting goroutine installs after
`tc.close` has run, can only die. `combo` is reset to 0 with the session because it is never
read again; this only merges states.

**ClientStart** is the sequence before, from the file to the first requests, and composes four modules
without variables of their own:

- **Config**: `LoadFromFile`'s three passes over a raw record: `Detect`, `SetDefaults`, `Valid`; and
  `Panics`, since validation goes on after an error and then meets nil pointers. Fields that no other
  part depends on are one bit, `rest`: do they pass.
- **TcpFlags**: the three forms of a flag combination (the configuration's string, `conf.TCPF`, the word of
  the TCPF message), the operators between them, and `CombosFor`, `newFlagCycler`'s list.
- **Protocol**: `Write` and `Read` of the control messages over a sequence of fields of their width.
- **FlagCycler**.

`Load` takes any configuration of the instance; `Begin` picks a network (`passes` and `oneway` as above), and `Dial` to `FallbackErr` are
`newTimedConn`: the sweep (phase 1) and the fallback (phase 2), for each tunnel. `Return` hands the tunnel to
`Start`; what its TCPF told the server has gone through `Write` and `Read` then. `Request` does the same with
an address, on a stream that may be cut off anywhere. `open` counts connections. `TunnelMatchesCycler` is
what `TimedConn!Init` assumes, and `ConfigFits` what the other modules assume of their constants, so the
modules meet there. `startClient` logs the error of `Start` and goes on; with no tunnel the
first request indexes an empty list (`panicked`). The model keeps this.

**UdpPool** is `Client.UDP`/`CloseUDP` with the code that calls them, which is alike in
`forward/udp.go` and `socks/udp_handle.go`. A handler carries one datagram (Lookup, NewStrm,
Header, Insert, Write, CloseKey); a stream's reader ends for any reason (ReadEnds) and closes its
key (CloseReader). `CloseUDP(0)` after an error of `Client.UDP` is taken to find nothing.
A stream is `dead` when its peer or session is gone: writing to it may still succeed.

**ServerFlags** is the server. `start`, `lsn`, `live` and `sock` are `Start`, its accept loop, the context
and the packet conn; `Signal`, `CloseListener` (the helper goroutine of `listen`), `AcceptError` and `StartReturns`
(`wg.Wait`) their steps, and `PcapFails` the fatal error after which `Accept` fails for ever. A session's
`status` runs through `up`, `ended` (AcceptStrm failed), and the three deferred steps of `handleConn`: the
two halves of `ClearClientTCPF`, which take two locks, and `conn.Close`. TCPF and PING are handled by
goroutines of their own; `HandlePing` may come before `SetFlags`. KCP sends the PONG again until it is
acknowledged, each time with the flags of the moment. The list of the server's own flags is one
combo, `Default`. Each session has its address from the constant `RemoteAddr`; MCServerFlags has one in
which they differ and one in which they do not.

**SendHandle** is one address's `connState` between two clears: `Find` and `Create` are the two
critical sections of `getOrCreateConnState`, `Take` what `Write` does under `cs.mu`, `Observe` is
`ObservePeerSYN`. The kind of packet, S, S+A or other, decides the acknowledgement and the advance.
`end` and `syn` are history variables. The sequence space is `0 .. W-1` with the code's
wrap-around (`W` is 2^32). The map's key hashes the bytes of an address, and a 4-byte and a 16-byte form of
one IPv4 address have different keys: `seen` says whether recvLoop's is the one that `Write` uses. On a
server it always is, since the address came from recvLoop; on a client with a literal server address it
is not, and what is observed is never acknowledged. On a client nothing clears the entry before the process ends; on a
server ServerFlags says when.

**PacketConn** is `New`, `recvLoop`, `recvCh`, `payloadPool`, `ReadFrom`, `WriteTo` and `Close`. `handles` are the
open pcap handles and `life` how far `New` or `Close` has come; either half of `New` may fail, and then leaves
open what it has opened. A write is two steps, the check of the context and the packet; Close is three. The
memory of the buffers is a variable, so that a buffer handed back too early shows as wrong bytes in `out`. A
payload is its number. A select is one step that takes any case that is ready.

**Relay** is the shape that `forward/tcp.go`, `socks/tcp_handle.go`, `server/tcp.go` and
`server/udp.go` share: two copiers, `errCh` with room for two, first report or context, `closeBoth`,
drain with a timeout. They differ in which end is closed first: the variable `first` starts with
either. Data is counted in units of one Read.

## 3. The runs

Each run is its cfg file of the same name. Bounds and results (distinct states):

| run | instance | states | shows |
|---|---|---|---|
| TimedConn_safety | 2 callers, health check, 4 connections, 2 combos, 1 retry; symmetry | 251,908 | sessions owned, streams on the installed connection, live tunnel neither replaced nor killed; implements SharedSlot |
| TimedConn_recovers | 1 caller, health check, 3 connections, 2 combos, max_failures 2, 2 retries | 247,932 | recovery once the network settles and answers on no blocked combo; requests return; the tunnel ends with the program |
| TimedConn_livelock | 2 callers, no health check, 2 combos | violated | recovery fails, see below |
| TimedConn_abandoned | 1 caller, 1 combo | violated | a replaced connection keeps its sockets |
| ClientStart | 4 flag lists, 3 values of max_failures, 4 of conn, 4 of each address, 3 fallbacks, 2 tunnels, hosts to one byte too many, a port beyond 16 bits; networks with and without faults, and with combos blocked one way | 39,979 | what is accepted fits; combos distinct; single flags and addresses arrive; the probe leaves nothing, agrees with its cycler, passes over no working combo |
| UdpPool | 2 handlers, 3 streams, 2 keys | 391,399 | pool invariants; dead streams leave; implements SharedSlot per key |
| UdpPool_reader_aba | 1 handler, 2 streams, 1 key | violated | a reader closes its successor's stream |
| ServerFlags | 2 sessions at distinct addresses, 2 combos, a pcap failure, a signal | 677,637 | flags and sequence state kept, the PONG gets through, Start returns |
| ServerFlags_same_addr | 2 sessions at one address | violated | the late clear removes the successor's flags |
| SendHandle | 2 writers, recvLoop, 2 objects, 2 keys, W = 4, lengths to 3 | 4,312,726 | numbers unbroken, SYNs acknowledged |
| PacketConn | channel of 2, 4 buffers, 5 packets, 2 writers | 723,426 | packets once, in order, intact; no late write; Close ends everything |
| Relay | 2 units each way | 177,930 | ends closed, no cut without a cause, nobody hangs |

**Why the bounds are enough.** Every race in these modules is between two parties at one object: two
callers at `tc.conn`, two handlers at a key, a stream and its successor under one key, a session and
its successor at one address, two writers of one connState with the observer. The instances
have both parties, an object for each and one more (`Conns` exceeds the callers by two:
`tc.conn`, what the health check holds, and one for each caller, so that Dial is never short of
names; this is `ConnsAssumption`). Two retries, two failures and two combos are the least with
which a count can be started, kept and wrapped around; that failures reach every combo of a longer list is
proved (`FailuresReachCombo`). PacketConn reads more packets than the
channel, recvLoop and ReadFrom together can hold, and all of them may come in pooled buffers.
`W = 4` with lengths up to 3 wraps in every other step. In ClientStart the flag lists are: none, letters out
of order, a list with the ninth letter, and an unknown letter; three fallbacks of nineteen hold the user's default,
one more with its forward flags and one without; `ASSUME` checks the whole list for duplicates. What is proved
does not depend on any of these numbers.

**Deadlock.** ServerFlags and Relay stop when their sessions or their relay have ended, PacketConn when it is
closed or was never made, and ClientStart when the configuration is rejected or the program has panicked, so
deadlock is not checked there. Everywhere else it is.

### Where the code differs from what it says

Four runs have a counterexample; each states a sentence of the repository.

- *TimedConn_livelock.* "On repeated failures the timedConn's flagCycler advances to the next TCP flag
  combo automatically" (`client/dial.go:14`). A failure is charged to the combo that is active when
  the dial ends, not to the one it was made with. With `max_failures = 1` and two combos of
  which one works, two goroutines that fail together on the bad one advance the cycler twice,
  past the good one and back, and on a network that never changes this can go on for ever.
- *TimedConn_abandoned.* A timedConn "wraps a single persistent KCP/smux connection". When smux has
  closed the session by itself, `newConn` overwrites `tc.conn` without closing it, and its
  packet conn with two pcap handles and `recvLoop` stays.
- *UdpPool_reader_aba.* The pool is said to be safe for concurrent use. `CloseUDP` goes by key: the
  write to a dead stream fails, its handler closes the key, the next datagram puts a new stream
  there, and the old reader's deferred `CloseUDP` closes the new one.
- *ServerFlags_same_addr.* The TCPF "tells the server which TCP flags to use" for this client. A
  session that ends clears the entry of its address even if a newer session has set it.

The models show more of the kind. No run states these; the properties nearest to them are worded so that they claim
no more than the code does.

- *A PONG that vouches for another combo.* At startup paqet "uses the first one that passes both ways" (README.md:95), and
  the ping of a reconnect "ensures the new combo actually carries traffic both ways" (`client/dial.go:15-17`). A PONG may have been sent with the
  server's own flags, before the TCPF was handled, and then says nothing of the combo (`oneway`). So the probe passes over no
  working combo but may end before the first one (`NoWorkingComboSkipped`); and `Recovers` has the premise `oneway = {}`. Without
  it the run TimedConn_recovers has a counterexample, a client that stays on the blocked combo: such answers keep the health
  check content, or a reconnect that succeeds on one resets the failure that it has counted, so that the cycler never moves.
- *Rotation.* README.md:197 says of `local_flag: ["PA", "A"]` that it "round-robins between PA and A". A client's flags go
  through the cycler, which keeps the first entry (`client/flag_cycler.go:210`). `FlagsAsConfigured` speaks of one
  entry, and of more says only that no other flags are used.
- *The example with fixed ports.* README.md:187-204 shows a client with port 32100 in both families and `conn: 4`.
  `conf/conf.go:157` rejects it: `ConfigFits` is what is accepted, and the example is not.
- *The end of a relay.* The comment at `socks/tcp_handle.go:78-81` says that closing both ends "ensures any data already read
  from the stream is fully written to the app connection before we tear down". `closeBoth` closes both ends before the other
  copier has written what it holds, and `WriteError` is then its next step. `DeliversUnlessCut` limits the causes of such a cut and has this one among them.
- A client whose server address is a literal never acknowledges an observed SYN (SendHandle, `seen = "other"`).
- An unparsable server address, two address families one of which does not parse, or, with protocol kcp, a missing
  `kcp` section end in a nil pointer instead of an error (`Panics`).
- A failed `NewRecvHandle` leaves the send handle open (PacketConn).
- Sequence state is created again by packets sent between the clear and `conn.Close` (ServerFlags).

## 4. Fairness

Safety is checked without fairness. The liveness properties assume weak fairness of

- the steps of a goroutine that are not waiting for a peer: the scheduler runs it, and its
  I/O has a timeout (`probe_timeout`, the five seconds of the health check's ping, the dial
  timeouts of the relays, the one-second timeout of pcap);
- the health check's ticker;
- `Request` in TimedConn: `newConn` reconnects only when a request asks for a stream, so a tunnel
  without traffic need not recover, and `Recovers` says so by this assumption;
- `ReadEnds` of a UDP reader only on a stream that is no longer open, where its read fails at once.
  On an open stream nothing is assumed;
- in ServerFlags the messages of a client that has connected: the TCPF is read, the PING comes, KCP
  repeats the PONG;
- the end of a session over which nothing can arrive any more: in TimedConn once the context is done, in
  ServerFlags once the socket has failed or is closed. smux's keepalive is on by default and ends it;
- `Read` on a closed pcap handle, which fails.

Nothing is assumed of peers, firewalls, packets, deadlines, other sessions dying, pcap errors, or of the
signal. That a network settles (`calm`), carries a combo and answers on none that it blocks (`oneway = {}`) is the premise of
`Recovers`, not an assumption of its specification.

## 5. The proofs

`TimedConn_proofs`, `UdpPool_proofs`, `SendHandle_proofs`, `ServerFlags_proofs`, `PacketConn_proofs`,
`Relay_proofs`, `Protocol_proofs` and `ClientStart_proofs` hold theorems that tlapm (1.4.5, Z3, Zenon
and LS4) checks for every value of the constants under the named assumptions of their modules.
All but `Protocol_proofs`, which is about operators, follow one argument: an invariance theorem shows that the module's `IInv` holds initially and is kept
by every action, one lemma per action and in it one step per conjunct; the properties that TLC
checks then follow from `IInv`.

- **TimedConn.** `NoLeakedSession` and `StreamsOnInstalled` are not inductive. `Install` closes
  `loc[c]`: this spares `tc.conn` only because a connection in the making is known to its maker alone
  (`OwnersAlone`), and that is so because `Dial` takes a new one, while a caller that was
  handed `tc.conn` is at `open` and owns nothing (`LocalsAssigned`). Health check and shutdown
  close what they read before, possibly no longer `tc.conn`, but never an owned one. Proved:
  `TypeCorrect`, `SessionsOwned`, `StreamsSafe`, and the action property `TunnelSpared`; and `SlotImplemented`, the refinement: initial states map to initial states and each step to
  a step of SharedSlot or a stutter. Its heart is `Install`, which is `Make` for the winner and `Get` for the
  loser, and needs `OwnersAlone` for "made for it alone". For liveness, which stays with TLC, two
  theorems give the measures: `RequestsRunOut` (`StepsLeft`, what a caller may still do, falls with each of its steps and is touched by nobody
  else) and `FailuresReachCombo` (each failure brings the cycler one step nearer to any given combo). Assumed: `MaxFailures`, `NCombos` and `MaxRetries` positive, `NoConn` no connection.
- **UdpPool.** `Drained` needs to know who answers for a pooled stream without a reader: the one
  handler with `new` (`OneReader`). That it is one needs `MakersAlone`, since a stream that two
  handlers held while inserting would be announced as new twice. `NoLeakedStream` needs `Keyed`: a
  stream must be under the key that its reader will close. Proved: `TypeCorrect`,
  `PoolDrained`, `NoLeak`, `ReadersUnique`, and `SlotsImplemented`, the refinement for each key.
- **SendHandle.** Whoever is at `use` has the map's object (`UsersHaveEntry`), which `Create`'s second
  look ensures, and nobody else changes an object; so the object stays where the last packet and
  the last SYN left it (`EntryCurrent`). Proved: `TypeCorrect`, `StreamUnbroken`, `SynsAcked`, for any
  `W` and `MaxLen`.
- **ServerFlags.** Proved: `TypeCorrect`; and, assuming that sessions have different addresses (`OwnAddress`),
  `FlagsStayInForce` and `SequenceStateKept`. The invariant `FlagsInv` is that of a session that is up and has been
  told its flags the table's entry is those; another session's clear goes to its own address. Without the
  assumption ServerFlags_same_addr is the counterexample. For any addresses: `NothingOutlivesStart`, by `EndInv`, since `wg.Wait` returns
  only after the listen loop, and only the loop brings a session up.
- **PacketConn.** A write past its checks began when the context was not done; `HandlesInv` says that the context is done before the send handle is closed. `InOrder` rests on two facts: the numbers of what was delivered, what `ReadFrom` holds,
  what is in `recvCh` and what `recvLoop` holds follow one another up to `count`, except for a last payload dropped at the end
  (`OrderInv`); and a buffer on its way is not in the pool and is on its way once (`BufsInv`), so that `recvLoop` writes none that
  is still to be read. `StartInv` (`recvLoop` starts once) carries it over `New`. Proved: `TypeCorrect`, `WritesEndWithClose`,
  `DeliveredInOrder`.
- **Relay.** `TypeOK` says that `errCh` never holds more than two reports, which the types do not show: `ReportsInv`
  relates what is in the channel to who has reported and what the handler has taken. `DeliversUnlessCut` needs `CauseInv`:
  until something outside breaks, the shutdown comes or one direction is complete, both ends are open and a copier ends only with its
  input delivered (`CopierInv`: what it has read it has written, but for the unit in its hands), and the handler, which closes
  after a report, finds by `ReportsInv` a copier that is gone.
  Proved: `TypeCorrect`, `EndsClosed`, `CutsHaveCause`, and `ReportsHaveRoom`: from a capacity of two on a report never
  waits, the reason why `CopiersExit` holds. Assumed: `Units` and `ErrCap` natural numbers.
- **Protocol and TcpFlags.** What comes back from each form that flags and addresses go through: `StringRoundTrip` (the cycler's
  strings), `WordRoundTrip` (the sum of the bits that are set, and the letters of the bits of a number), `FlagsMessage`
  and `AddressMessage` (`Read` after `Write`, for any host up to `MaxHost`, and after a cut at any place). `CyclerList`: since
  no two strings in `fallbackCombos` mean the same flags (`StringsDiffer`) and no pair is there twice (`FallbacksAssumption`,
  which TLC evaluates), the cycler's list has no pair of flags twice.
- **ClientStart.** `ConfigInv` says what an accepted configuration fits, by `Config`'s passes (`LoadedFits`); only without explicit
  flags are both lists the default. `SweepInv` ties the cycler to the loop variable: it is on combo `i`, and back on the
  user's when the sweep is over, because `ForceNext` has gone around the list exactly once; and while the network loses nothing, no
  combo before `i` works. `NetworkInv` keeps the combos that answer inside the list. `TunnelsInv` carries that, the flags and the count of open connections over to the tunnels.
  `FlagsAsConfigured` then needs `StringRoundTrip` and `FlagsMessage`, `DialsTarget` needs `AddressMessage`, `CombosDistinct` needs
  `CyclerList`. Proved: `TypeCorrect`, `AcceptedConfigFits`, `SweepTriesEachOnce`, `SingleFlagsArrive`, `ServerDialsTarget`,
  `NoProbeLeak`, `CyclerOfTunnel`, `ProbeSkipsNoWorking`, for any number of tunnels, all 19 fallbacks or fewer, and any flags, hosts and
  ports. Assumed: `ConfigAssumption` and `AddressAssumption`, the types of what a file and a request contain, and that `None` is no address.

**Model-checked only.** All liveness properties: fairness and leads-to are outside this prover's reach. (`RequestsRunOut`,
`FailuresReachCombo`, `ReportsHaveRoom` and `NothingOutlivesStart` are safety facts beside them, not substitutes.) Every invariant, action
property and refinement of the passing runs has its theorem. Nothing is proved of the four violated properties, naturally.

## 6. What is left out

- Within modules: header layout and TCP timestamps; the round-robin over a list of flags in the send handle; the
  several tunnels of a client (independent of one another, except in ClientStart); PacketConn's
  correlation with SYN (in SendHandle); the values of deadlines; the amount of data in a Read; the sections of the
  configuration that only set parameters of KCP, pcap, logging and the listeners; two addresses that hash to
  one key.
- Third-party code: KCP, smux, gopacket and libpcap appear by what the code relies on.
- Components: network detection parses the output of operating-system commands once, logging is a channel that
  drops lines, the diagnostic commands run once, and SOCKS5's UDP associate waits for a connection to end: there
  is no state in them to check.

`PROJECT.json` says for each hazard without a property why.

## 7. Plan

1. **Compositions**: ServerFlags with SendHandle (a clear under a newer session restarts the sequence
   numbers); UdpPool over a tunnel that dies.
2. **Proofs** of what the other liveness properties rest on, as `RequestsRunOut` and `ReportsHaveRoom` do for two of them: that a dead
   stream in the pool, a packet conn being closed and a server that was told to stop have fewer steps left after each.

Questions that share an instance go into one run, so the number of runs stays near what it is.

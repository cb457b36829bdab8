------------------------------- MODULE TimedConn -------------------------------
(***************************************************************************)
(* One timedConn of the client after its startup probe: the tunnel's       *)
(* current KCP/smux connection, the goroutines that reconnect it when they *)
(* need a stream (newStrm, newConn, createConn), the health check and the  *)
(* shutdown.  The mutex tc.mu is held only to read or replace tc.conn; all *)
(* I/O runs outside it, so every step below is what one goroutine does     *)
(* between two points at which another may run.                            *)
(*                                                                         *)
(* Conns are names for *kcp.Conn values.  A name nobody refers to is       *)
(* garbage and is used again for the next connection.                      *)
(***************************************************************************)
EXTENDS FlagCycler, FiniteSets

CONSTANTS
  Callers,      \* goroutines that open streams (TCP and UDP requests)
  Conns,        \* names of connections
  NoConn,       \* the nil connection
  MaxRetries,   \* newStrm's maxRetries
  HealthOn      \* network.tcp.health_interval > 0

ASSUME CallersAssumption == IsFiniteSet(Callers)
ASSUME ConnsAssumption ==
  IsFiniteSet(Conns) /\ Cardinality(Conns) >= Cardinality(Callers) + 2
ASSUME NoConnAssumption == NoConn \notin Conns
ASSUME MaxRetriesAssumption == MaxRetries \in Nat \ {0}
ASSUME HealthOnAssumption == HealthOn \in BOOLEAN

VARIABLES
  cycler,   \* tc.cycler
  tcConn,   \* tc.conn
  sess,     \* sess[n]: n's smux session is open (~n.IsClosed())
  sock,     \* sock[n]: n's PacketConn and its two pcap handles are open
  combo,    \* combo[n]: the flags n was dialled with; 0 once its session is dead
  pc,       \* pc[c]: where caller c is
  loc,      \* loc[c]: the local variable conn of c's newConn/createConn
  try,      \* try[c]: newStrm's loop variable
  hpc,      \* where the health check is
  hconn,    \* the connection the health check pings
  live,     \* the context is not cancelled
  closed,   \* Start's shutdown goroutine has called tc.close
  passes,   \* combos the network carries in both directions
  oneway,   \* others it carries to the server, while the server's own flags come back
  calm      \* from here on the network is stable

conns == <<tcConn, sess, sock, combo>>
caller == <<pc, loc, try>>
health == <<hpc, hconn>>
env == <<live, closed, passes, oneway, calm>>
vars == <<cycler, conns, caller, health, env>>

PCs == {"idle", "check", "dial", "tcpf", "verify", "succeed", "install",
        "open", "fail"}

\* What the garbage collector sees.
Referenced == {tcConn, hconn} \cup {loc[c] : c \in Callers}

\* newTimedConn returns with an open connection, dialled with the active
\* combo; whether it passed the probe depends on the network.
Init ==
  /\ \E i \in Combos, n \in Conns :
       /\ cycler = [idx |-> i, failures |-> 0]
       /\ tcConn = n
       /\ sess = [m \in Conns |-> m = n]
       /\ sock = [m \in Conns |-> m = n]
       /\ combo = [m \in Conns |-> IF m = n THEN i ELSE 0]
  /\ pc = [c \in Callers |-> "idle"]
  /\ loc = [c \in Callers |-> NoConn]
  /\ try = [c \in Callers |-> 0]
  /\ hpc = IF HealthOn THEN "wait" ELSE "stopped"
  /\ hconn = NoConn
  /\ live = TRUE
  /\ closed = FALSE
  /\ passes \in SUBSET Combos
  /\ oneway \in SUBSET (Combos \ passes)
  /\ calm = FALSE

At(c, l) == pc[c] = l
Goto(c, l) == pc' = [pc EXCEPT ![c] = l]

\* kcp.Conn.Close: the UDP session, the smux session and the packet conn.
Close(n) ==
  /\ sess' = [sess EXCEPT ![n] = FALSE]
  /\ sock' = [sock EXCEPT ![n] = FALSE]
  /\ combo' = [combo EXCEPT ![n] = 0]

\* What the network lets through on n now, and when it may misbehave anyway.
Carries(n) == sess[n] /\ combo[n] \in passes
MayFail(n) == ~calm \/ ~Carries(n)

\* Ping takes any PONG.  The server answers with its own flags while the TCPF is
\* not handled, which is a goroutine beside that of the PING, or when it has
\* forgotten it: ServerFlags has both.
Pong(n) == Carries(n) \/ (sess[n] /\ combo[n] \in oneway)

-------------------------------------------------------------------------------
\* A caller: newStrm, newConn and createConn.

\* A request needs a stream.
Request(c) ==
  /\ At(c, "idle")
  /\ Goto(c, "check")
  /\ try' = [try EXCEPT ![c] = 0]
  /\ UNCHANGED <<cycler, conns, loc, health, env>>

\* newConn under tc.mu: an open connection is returned as it is.
Check(c) ==
  /\ At(c, "check")
  /\ IF sess[tcConn]
     THEN Goto(c, "open") /\ loc' = [loc EXCEPT ![c] = tcConn]
     ELSE Goto(c, "dial") /\ loc' = loc
  /\ UNCHANGED <<cycler, conns, try, health, env>>

\* createConn reads the active flags, then opens the sockets and dials KCP.
\* If either fails there is no connection.  (A send handle that socket.New leaves
\* open when its other half fails belongs to none; PacketConn has that step.)
Dial(c) ==
  /\ At(c, "dial")
  /\ \/ \E n \in Conns \ Referenced :
          /\ loc' = [loc EXCEPT ![c] = n]
          /\ sess' = [sess EXCEPT ![n] = TRUE]
          /\ sock' = [sock EXCEPT ![n] = TRUE]
          /\ combo' = [combo EXCEPT ![n] = cycler.idx]
          /\ Goto(c, "tcpf")
     \/ /\ ~calm
        /\ Goto(c, "fail")
        /\ UNCHANGED <<loc, sess, sock, combo>>
  /\ UNCHANGED <<cycler, tcConn, try, health, env>>

\* createConn gives up on its connection.
Abandon(c) ==
  /\ Close(loc[c])
  /\ loc' = [loc EXCEPT ![c] = NoConn]
  /\ Goto(c, "fail")

\* sendTCPF: only a local error shows.
SendTCPF(c) ==
  /\ At(c, "tcpf")
  /\ \/ sess[loc[c]] /\ Goto(c, "verify") /\ UNCHANGED <<sess, sock, combo, loc>>
     \/ (~calm \/ ~sess[loc[c]]) /\ Abandon(c)
  /\ UNCHANGED <<cycler, tcConn, try, health, env>>

\* Mutant: the PING is sent and its answer is not waited for.
VerifyUnanswered(c) ==
  /\ At(c, "verify")
  /\ \/ /\ sess[loc[c]]
        /\ Goto(c, "succeed")
        /\ UNCHANGED <<sess, sock, combo, loc>>
     \/ MayFail(loc[c]) /\ Abandon(c)
  /\ UNCHANGED <<cycler, tcConn, try, health, env>>

\* verifyBidirectional: one PONG within probe_timeout, or none.  A PONG with the
\* server's own flags says nothing of the combo's way back.
Verify(c) ==
  /\ At(c, "verify")
  /\ \/ /\ Pong(loc[c])
        /\ Goto(c, "succeed")
        /\ UNCHANGED <<sess, sock, combo, loc>>
     \/ MayFail(loc[c]) /\ Abandon(c)
  /\ UNCHANGED <<cycler, tcConn, try, health, env>>

\* newConn after createConn succeeded, before it takes tc.mu.
Reconnected(c) ==
  /\ At(c, "succeed")
  /\ cycler' = Succeed(cycler)
  /\ Goto(c, "install")
  /\ UNCHANGED <<conns, loc, try, health, env>>

\* Mutant: the second look at tc.conn is dropped.
InstallAlways(c) ==
  /\ At(c, "install")
  /\ tcConn' = loc[c]
  /\ Goto(c, "open")
  /\ UNCHANGED <<cycler, sess, sock, combo, loc, try, health, env>>

\* Mutant: the loser of the race forgets to close its own connection.
InstallNoClose(c) ==
  /\ At(c, "install")
  /\ IF ~sess[tcConn]
     THEN tcConn' = loc[c] /\ loc' = loc
     ELSE tcConn' = tcConn /\ loc' = [loc EXCEPT ![c] = tcConn]
  /\ Goto(c, "open")
  /\ UNCHANGED <<cycler, sess, sock, combo, try, health, env>>

\* Mutant: the loser returns its own connection, which it leaves open.
InstallKeepsOwn(c) ==
  /\ At(c, "install")
  /\ IF ~sess[tcConn] THEN tcConn' = loc[c] ELSE tcConn' = tcConn
  /\ Goto(c, "open")
  /\ UNCHANGED <<cycler, sess, sock, combo, loc, try, health, env>>

\* Mutant: conn = tc.conn before conn.Close(), which closes the winner's.
InstallClosesWinner(c) ==
  /\ At(c, "install")
  /\ IF ~sess[tcConn]
     THEN tcConn' = loc[c] /\ UNCHANGED <<sess, sock, combo, loc>>
     ELSE /\ Close(tcConn)
          /\ loc' = [loc EXCEPT ![c] = tcConn]
          /\ tcConn' = tcConn
  /\ Goto(c, "open")
  /\ UNCHANGED <<cycler, try, health, env>>

\* newConn under tc.mu again: replace a dead connection, or close our own
\* and use the one another goroutine has installed meanwhile.
Install(c) ==
  /\ At(c, "install")
  /\ \/ ~sess[tcConn] /\ tcConn' = loc[c] /\ UNCHANGED <<sess, sock, combo, loc>>
     \/ /\ sess[tcConn]
        /\ Close(loc[c])
        /\ loc' = [loc EXCEPT ![c] = tcConn]
        /\ tcConn' = tcConn
  /\ Goto(c, "open")
  /\ UNCHANGED <<cycler, try, health, env>>

\* newStrm's next attempt, or its error.
Retry(c) ==
  IF try[c] + 1 < MaxRetries
  THEN try' = [try EXCEPT ![c] = @ + 1] /\ Goto(c, "check")
  ELSE try' = [try EXCEPT ![c] = 0] /\ Goto(c, "idle")

\* Mutant: an attempt whose stream did not open is not counted.
OpenStrmUncounted(c) ==
  /\ At(c, "open")
  /\ loc' = [loc EXCEPT ![c] = NoConn]
  /\ \/ sess[loc[c]] /\ Goto(c, "idle") /\ try' = [try EXCEPT ![c] = 0]
     \/ MayFail(loc[c]) /\ Goto(c, "check") /\ try' = try
  /\ UNCHANGED <<cycler, conns, health, env>>

\* conn.OpenStrm on what newConn returned; the stream is the caller's result.
OpenStrm(c) ==
  /\ At(c, "open")
  /\ loc' = [loc EXCEPT ![c] = NoConn]
  /\ \/ sess[loc[c]] /\ Goto(c, "idle") /\ try' = [try EXCEPT ![c] = 0]
     \/ MayFail(loc[c]) /\ Retry(c)
  /\ UNCHANGED <<cycler, conns, health, env>>

\* newConn after createConn failed.
CallerFail(c) ==
  /\ At(c, "fail")
  /\ cycler' = Fail(cycler)
  /\ Retry(c)
  /\ UNCHANGED <<conns, loc, health, env>>

CallerStep(c) ==
  \/ Check(c) \/ Dial(c) \/ SendTCPF(c) \/ Verify(c) \/ Reconnected(c)
  \/ Install(c) \/ OpenStrm(c) \/ CallerFail(c)

-------------------------------------------------------------------------------
\* The health check.

\* The ticker fires: a closed connection is left to newConn.
HealthTick ==
  /\ hpc = "wait"
  /\ sess[tcConn]
  /\ hconn' = tcConn
  /\ hpc' = "ping"
  /\ UNCHANGED <<cycler, conns, caller, env>>

\* Ping with a deadline of five seconds, outside the lock.
HealthPing ==
  /\ hpc = "ping"
  /\ \/ Pong(hconn) /\ hpc' = "wait" /\ hconn' = NoConn
     \/ MayFail(hconn) /\ hpc' = "fail" /\ hconn' = hconn
  /\ UNCHANGED <<cycler, conns, caller, env>>

HealthFail ==
  /\ hpc = "fail"
  /\ cycler' = Fail(cycler)
  /\ hpc' = "close"
  /\ UNCHANGED <<conns, caller, hconn, env>>

\* Mutant: the failure is charged but the connection stays open.
HealthCloseForgotten ==
  /\ hpc = "close"
  /\ hpc' = "wait"
  /\ hconn' = NoConn
  /\ UNCHANGED <<cycler, conns, caller, env>>

\* The pinged connection, whatever tc.conn is by now.
HealthClose ==
  /\ hpc = "close"
  /\ Close(hconn)
  /\ hpc' = "wait"
  /\ hconn' = NoConn
  /\ UNCHANGED <<cycler, tcConn, caller, env>>

\* The select takes ctx.Done.
HealthStop ==
  /\ hpc = "wait"
  /\ ~live
  /\ hpc' = "stopped"
  /\ UNCHANGED <<cycler, conns, caller, hconn, env>>

HealthStep == HealthPing \/ HealthFail \/ HealthClose \/ HealthStop

-------------------------------------------------------------------------------
\* The environment and the shutdown.

\* smux gives up on a session: keepalive timeout, or the server closed it.
\* A calm network ends no session that it carries.
SessionDies(n) ==
  /\ sess[n]
  /\ ~calm \/ combo[n] \notin passes
  /\ sess' = [sess EXCEPT ![n] = FALSE]
  /\ combo' = [combo EXCEPT ![n] = 0]
  /\ UNCHANGED <<cycler, tcConn, sock, caller, health, env>>

\* A firewall or NAT on the way begins or ceases to drop a combo, one way or both.
NetChange ==
  /\ ~calm
  /\ live
  /\ passes' \in SUBSET Combos
  /\ oneway' \in SUBSET (Combos \ passes')
  /\ UNCHANGED <<cycler, conns, caller, health, live, closed, calm>>

NetCalms ==
  /\ ~calm
  /\ calm' = TRUE
  /\ UNCHANGED <<cycler, conns, caller, health, live, closed, passes, oneway>>

\* The process is told to stop.  With the context done no packet conn reads or
\* writes, so nothing is carried whatever the network does ...
Cancel ==
  /\ live
  /\ live' = FALSE
  /\ passes' = {}
  /\ oneway' = {}
  /\ UNCHANGED <<cycler, conns, caller, health, closed, calm>>

\* ... and Start's goroutine calls tc.close, once.  It takes no lock, but a read
\* of tc.conn that races with Install sees the new connection or the old one,
\* which Install has found dead: as if it had come before.
TimedClose ==
  /\ ~live
  /\ ~closed
  /\ closed' = TRUE
  /\ Close(tcConn)
  /\ UNCHANGED <<cycler, tcConn, caller, health, live, passes, oneway, calm>>

Environment ==
  (\E n \in Conns : SessionDies(n)) \/ NetChange \/ NetCalms \/ Cancel \/ TimedClose

Next ==
  \/ \E c \in Callers : Request(c) \/ CallerStep(c)
  \/ HealthTick \/ HealthStep
  \/ Environment

Spec == Init /\ [][Next]_vars

\* Goroutines run, the ticker ticks, and traffic keeps arriving: newConn only
\* reconnects when a request asks for a stream.  Once the context is done nothing
\* arrives on any session, and smux's keepalive ends it.
Fairness ==
  /\ \A c \in Callers : WF_vars(CallerStep(c)) /\ WF_vars(Request(c))
  /\ WF_vars(HealthTick)
  /\ WF_vars(HealthStep)
  /\ \A n \in Conns : WF_vars(~live /\ SessionDies(n))

FairSpec == Spec /\ Fairness

-------------------------------------------------------------------------------
\* Properties.

\* The callers that alone know their connection: createConn has made it and
\* newConn has not yet installed or closed it.
Owns(c) == pc[c] \in {"tcpf", "verify", "succeed", "install"}

\* tc.conn as the callers of newConn see it: the connection if it is live, and
\* to each caller what newConn has returned to it.
UsableConn == IF sess[tcConn] THEN tcConn ELSE NoConn
Handed == [c \in Callers |-> IF pc[c] = "open" THEN loc[c] ELSE NoConn]

Slot == INSTANCE SharedSlot WITH
  Users <- Callers, Items <- Conns, None <- NoConn,
  slot <- UsableConn, held <- Handed

TypeOK ==
  /\ cycler \in Cycler
  /\ tcConn \in Conns
  /\ sess \in [Conns -> BOOLEAN]
  /\ sock \in [Conns -> BOOLEAN]
  /\ combo \in [Conns -> Combos]
  /\ pc \in [Callers -> PCs]
  /\ loc \in [Callers -> Conns \cup {NoConn}]
  /\ try \in [Callers -> 0 .. MaxRetries - 1]
  /\ hpc \in {"wait", "ping", "fail", "close", "stopped"}
  /\ hconn \in Conns \cup {NoConn}
  /\ live \in BOOLEAN
  /\ closed \in BOOLEAN
  /\ passes \in SUBSET Combos
  /\ oneway \in SUBSET Combos
  /\ calm \in BOOLEAN

\* No session is left open that nobody will ever close: an open one is
\* tc.conn or still in the hands of the caller that made it, on every path
\* through createConn's errors and newConn's lost race.
NoLeakedSession ==
  \A n \in Conns : sess[n] => n = tcConn \/ \E c \in Callers : Owns(c) /\ loc[c] = n

\* newConn hands out tc.conn or one that has died since: no stream is opened
\* on a live connection that the health check and the shutdown cannot see.
StreamsOnInstalled ==
  \A c \in Callers : pc[c] = "open" => loc[c] = tcConn \/ ~sess[loc[c]]

\* A request never takes the tunnel down: of all the Close calls on the
\* reconnect path (createConn's error paths, the lost race) none hits a live
\* tc.conn, which other goroutines' streams are using.
RequestsNeverKillTunnel ==
  [][(\E c \in Callers : pc'[c] # pc[c]) => (sess[tcConn] => sess'[tcConn])]_vars

\* newConn is atomic to its callers, for all its two looks at tc.conn and the
\* dial between them: each gets the one live connection or, only if there is
\* none, a new one that nobody else has.  So a live tunnel is never replaced:
\* whichever of two goroutines reconnects second sees the first one's.
ImplementsSlot == Slot!Spec

\* What makes the above inductive.  A local variable holds a connection just
\* where the code has assigned one ...
LocalsAssigned ==
  /\ \A c \in Callers : (pc[c] = "open" \/ Owns(c)) <=> loc[c] # NoConn
  /\ hpc \in {"ping", "fail", "close"} => hconn # NoConn

\* ... and one that its caller owns is known to nobody else: not to another
\* caller, not to the health check, not as tc.conn.
OwnersAlone ==
  \A c \in Callers : Owns(c) =>
    /\ loc[c] # tcConn
    /\ loc[c] # hconn
    /\ \A d \in Callers \ {c} : loc[d] # loc[c]

IInv ==
  TypeOK /\ LocalsAssigned /\ OwnersAlone /\ NoLeakedSession /\ StreamsOnInstalled

\* A replaced connection's packet conn is closed: a timedConn "wraps a single
\* persistent KCP/smux connection", so it holds one pair of pcap handles.
NoAbandonedSocket == [][tcConn' # tcConn => ~sock[tcConn]]_vars

\* Once the network stays as it is and carries some combo, the client ends up
\* on a combo that works and stays there: no failure is needed to leave it.
\* The premise oneway = {} is that a PONG comes back on the flags it is to vouch
\* for.  Without it the client may stay on a combo that is blocked on the way back:
\* each reconnect accepts it on a PONG sent with the server's own flags, and
\* Succeed clears a failure that the health check may have counted.
Recovers ==
  <>(calm /\ passes # {} /\ oneway = {}) /\ []live
    => <>[](sess[tcConn] /\ combo[tcConn] \in passes)

\* The shutdown ends the tunnel for good, although requests go on reconnecting
\* and one may install its connection after tc.close has run.
ShutdownEndsTunnel == ~live ~> [](~sess[tcConn])

\* Every request gets a stream or an error: at most maxRetries attempts,
\* whatever the network and the other goroutines do.
RequestsReturn == \A c \in Callers : pc[c] # "idle" ~> pc[c] = "idle"
================================================================================

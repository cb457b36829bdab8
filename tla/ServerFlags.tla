------------------------------ MODULE ServerFlags ------------------------------
(***************************************************************************)
(* The server: Start, its listen loop and shutdown, the sessions, and      *)
(* which TCP flags go to which client.  Server.listen runs handleConn per  *)
(* session, which runs handleStrm per stream, in goroutines that Start     *)
(* waits for.  The TCPF handler writes the client's entry in the send      *)
(* handle's clientTCPF, every packet sent to the client reads it and keeps *)
(* sequence state in connStates, and the session's deferred calls clear    *)
(* both.  The tables are keyed by the client's address, not by session.    *)
(***************************************************************************)
EXTENDS FiniteSets

CONSTANTS
  Sessions,   \* KCP sessions the listener accepts, each used once
  Addrs,      \* remote addresses
  Combos,     \* flag combos
  Default,    \* the server's own flags
  NoFlags,    \* no entry in clientTCPF, or nothing asked for yet
  RemoteAddr  \* the address each session comes from

ASSUME DefaultAssumption == Default \in Combos
ASSUME NoFlagsAssumption == NoFlags \notin Combos
ASSUME RemoteAddrAssumption == RemoteAddr \in [Sessions -> Addrs]

VARIABLES
  start,       \* Server.Start: waits, returned
  lsn,         \* the listen loop: loop, accept, done
  live,        \* the context is not done
  sock,        \* the packet conn: open, failed (a fatal pcap error), closed
  status,      \* status[s]: new, up, ended, cleared, forgotten, closed
  want,        \* want[s]: the remote flags the client has asked for
  tcpf,        \* tcpf[s]: the TCPF stream's handler: none, running, done
  ping,        \* ping[s]: a PONG is queued on s and not acknowledged
  clientTCPF,  \* SendHandle.tcpF.clientTCPF
  connStates,  \* the keys of SendHandle.connStates
  verified,    \* open sessions whose PONG has reached the client
  passBack     \* combos the network lets through to the client, at least one

serverVars == <<start, lsn, live, sock>>
sessionVars == <<status, want, tcpf, ping>>
tables == <<clientTCPF, connStates>>
peers == <<verified, passBack>>
vars == <<serverVars, sessionVars, tables, peers>>

Init ==
  /\ start = "waits"
  /\ lsn = "loop"
  /\ live = TRUE
  /\ sock = "open"
  /\ status = [s \in Sessions |-> "new"]
  /\ want = [s \in Sessions |-> NoFlags]
  /\ tcpf = [s \in Sessions |-> "none"]
  /\ ping = [s \in Sessions |-> FALSE]
  /\ clientTCPF = [a \in Addrs |-> NoFlags]
  /\ connStates = {}
  /\ verified = {}
  /\ passBack \in SUBSET Combos \ {{}}

Set(f, s, v) == [f EXCEPT ![s] = v]

-------------------------------------------------------------------------------
\* Start and listen.

\* The head of the loop looks at the context.
Loop ==
  /\ lsn = "loop"
  /\ lsn' = IF live THEN "accept" ELSE "done"
  /\ UNCHANGED <<start, live, sock, sessionVars, tables, peers>>

\* The KCP listener gives s, perhaps one that was queued before the socket
\* failed.  A session it still has from that address ends: the new conversation
\* replaces it.
Accept(s) ==
  /\ lsn = "accept"
  /\ lsn' = "loop"
  /\ status[s] = "new"
  /\ status' = [t \in Sessions |->
                  IF t = s THEN "up"
                  ELSE IF RemoteAddr[t] = RemoteAddr[s] /\ status[t] = "up" THEN "ended"
                  ELSE status[t]]
  /\ UNCHANGED <<start, live, sock, want, tcpf, ping, tables, peers>>

\* Accept fails on a socket that is gone: the end if the context is done, else
\* 50 ms later once more.
AcceptError ==
  /\ lsn = "accept"
  /\ sock # "open"
  /\ lsn' = IF live THEN "loop" ELSE "done"
  /\ UNCHANGED <<start, live, sock, sessionVars, tables, peers>>

\* SIGINT or SIGTERM ...
Signal ==
  /\ live
  /\ live' = FALSE
  /\ UNCHANGED <<start, lsn, sock, sessionVars, tables, peers>>

\* Mutant: the listener is closed by Start's defer alone.
CloseListenerLate ==
  /\ ~live
  /\ lsn = "done"
  /\ sock # "closed"
  /\ sock' = "closed"
  /\ UNCHANGED <<start, lsn, live, sessionVars, tables, peers>>

\* ... and listen's helper closes the listener and the packet conn.
CloseListener ==
  /\ ~live
  /\ sock # "closed"
  /\ sock' = "closed"
  /\ UNCHANGED <<start, lsn, live, sessionVars, tables, peers>>

PcapFails ==
  /\ sock = "open"
  /\ sock' = "failed"
  /\ UNCHANGED <<start, lsn, live, sessionVars, tables, peers>>

\* wg.Wait: the listen loop, each handleConn and each handleStrm have returned.
StartReturns ==
  /\ start = "waits"
  /\ lsn = "done"
  /\ \A s \in Sessions : status[s] \in {"new", "closed"} /\ tcpf[s] # "running"
  /\ start' = "returned"
  /\ sock' = "closed"
  /\ UNCHANGED <<lsn, live, sessionVars, tables, peers>>

Server == Loop \/ AcceptError \/ CloseListener \/ StartReturns

-------------------------------------------------------------------------------
\* A session's streams.

\* handleConn accepts the TCPF stream and starts its handler.
AcceptTCPF(s) ==
  /\ status[s] = "up"
  /\ tcpf[s] = "none"
  /\ tcpf' = Set(tcpf, s, "running")
  /\ \E f \in Combos : want' = Set(want, s, f)
  /\ UNCHANGED <<serverVars, status, ping, tables, peers>>

\* Mutant: the entry is keyed to the stream's life and gone with it.
SetFlagsForStream(s) ==
  /\ tcpf[s] = "running"
  /\ tcpf' = Set(tcpf, s, "done")
  /\ clientTCPF' = Set(clientTCPF, RemoteAddr[s], NoFlags)
  /\ UNCHANGED <<serverVars, status, want, ping, connStates, peers>>

\* handleStrm, PTCPF: the handler has read the message and sets the flags; or
\* the session went away first and its read fails.
SetFlags(s) ==
  /\ tcpf[s] = "running"
  /\ tcpf' = Set(tcpf, s, "done")
  /\ \/ clientTCPF' = Set(clientTCPF, RemoteAddr[s], want[s])
     \/ status[s] # "up" /\ clientTCPF' = clientTCPF
  /\ UNCHANGED <<serverVars, status, want, ping, connStates, peers>>

\* handleStrm, PPING, in another goroutine: the client pings once it has
\* written its TCPF, not once the server has handled it.
HandlePing(s) ==
  /\ status[s] = "up"
  /\ tcpf[s] # "none"
  /\ ~ping[s]
  /\ s \notin verified
  /\ ping' = Set(ping, s, TRUE)
  /\ UNCHANGED <<serverVars, status, want, tcpf, tables, peers>>

-------------------------------------------------------------------------------
\* Packets to the client.

\* Mutant: the client's entry is never looked at.
FlagsTowardsDefault(a) == Default

\* getClientTCPF: the client's entry, or the server's own flags.
FlagsTowards(a) == IF clientTCPF[a] # NoFlags THEN clientTCPF[a] ELSE Default

\* SendHandle.Write: KCP sends the PONG, again and again until it is
\* acknowledged, each time with the flags of the moment.
SendPong(s) ==
  /\ ping[s]
  /\ live
  /\ sock = "open"
  /\ status[s] # "closed"
  /\ connStates' = connStates \cup {RemoteAddr[s]}
  /\ IF FlagsTowards(RemoteAddr[s]) \in passBack
     THEN /\ ping' = Set(ping, s, FALSE)
          /\ verified' = IF status[s] = "up" THEN verified \cup {s} ELSE verified
     ELSE UNCHANGED <<ping, verified>>
  /\ UNCHANGED <<serverVars, status, want, tcpf, clientTCPF, passBack>>

\* Mutant: the sequence state is kept per session.
SendDataBySession(s) ==
  /\ live
  /\ status[s] \in {"up", "ended", "cleared", "forgotten"}
  /\ connStates' = connStates \cup {s}
  /\ UNCHANGED <<serverVars, sessionVars, clientTCPF, peers>>

\* SendHandle.Write for the session's other packets; WriteTo refuses once the
\* context is done.
SendData(s) ==
  /\ live
  /\ status[s] \in {"up", "ended", "cleared", "forgotten"}
  /\ connStates' = connStates \cup {RemoteAddr[s]}
  /\ UNCHANGED <<serverVars, sessionVars, clientTCPF, peers>>

-------------------------------------------------------------------------------
\* The end of a session.

\* The client closes, keepalive gives up, or the socket is gone: AcceptStrm
\* fails, or handleConn sees the context.
SessionEnds(s) ==
  /\ status[s] = "up"
  /\ status' = Set(status, s, "ended")
  /\ UNCHANGED <<serverVars, want, tcpf, ping, tables, peers>>

\* The deferred calls, last first: ClearClientTCPF takes one table's lock ...
ClearFlags(s) ==
  /\ status[s] = "ended"
  /\ status' = Set(status, s, "cleared")
  /\ clientTCPF' = Set(clientTCPF, RemoteAddr[s], NoFlags)
  /\ UNCHANGED <<serverVars, want, tcpf, ping, connStates, peers>>

\* Mutant: the whole table is emptied.
ClearAllState(s) ==
  /\ status[s] = "cleared"
  /\ status' = Set(status, s, "forgotten")
  /\ connStates' = {}
  /\ UNCHANGED <<serverVars, want, tcpf, ping, clientTCPF, peers>>

\* ... then the other's ...
ClearState(s) ==
  /\ status[s] = "cleared"
  /\ status' = Set(status, s, "forgotten")
  /\ connStates' = connStates \ {RemoteAddr[s]}
  /\ UNCHANGED <<serverVars, want, tcpf, ping, clientTCPF, peers>>

\* ... and conn.Close; nothing is sent on s after it.
CloseConn(s) ==
  /\ status[s] = "forgotten"
  /\ status' = Set(status, s, "closed")
  /\ ping' = Set(ping, s, FALSE)
  /\ verified' = verified \ {s}
  /\ UNCHANGED <<serverVars, want, tcpf, tables, passBack>>

Cleanup(s) == ClearFlags(s) \/ ClearState(s) \/ CloseConn(s)

Next ==
  \/ Server \/ Signal \/ PcapFails
  \/ \E s \in Sessions :
       \/ Accept(s) \/ AcceptTCPF(s) \/ SetFlags(s) \/ HandlePing(s) \/ SendPong(s)
       \/ SendData(s) \/ SessionEnds(s) \/ Cleanup(s)

Spec == Init /\ [][Next]_vars

\* Goroutines run; a client that has connected sends its TCPF and pings; on a
\* socket that is gone a session ends, by the read error or by keepalive.
Fairness ==
  /\ WF_vars(Server)
  /\ \A s \in Sessions :
       /\ WF_vars(AcceptTCPF(s)) /\ WF_vars(SetFlags(s))
       /\ WF_vars(HandlePing(s)) /\ WF_vars(SendPong(s))
       /\ WF_vars(sock # "open" /\ SessionEnds(s)) /\ WF_vars(Cleanup(s))

FairSpec == Spec /\ Fairness

-------------------------------------------------------------------------------
\* Properties.

TypeOK ==
  /\ start \in {"waits", "returned"}
  /\ lsn \in {"loop", "accept", "done"}
  /\ live \in BOOLEAN
  /\ sock \in {"open", "failed", "closed"}
  /\ status \in [Sessions -> {"new", "up", "ended", "cleared", "forgotten", "closed"}]
  /\ want \in [Sessions -> Combos \cup {NoFlags}]
  /\ tcpf \in [Sessions -> {"none", "running", "done"}]
  /\ ping \in [Sessions -> BOOLEAN]
  /\ clientTCPF \in [Addrs -> Combos \cup {NoFlags}]
  /\ connStates \subseteq Addrs
  /\ verified \subseteq Sessions
  /\ passBack \subseteq Combos

\* The TCPF message "tells the server which TCP flags to use for packets it
\* sends back to this client": once it is handled they are used for as long as
\* the session is up, whatever other sessions come and go.
FlagsInForce ==
  \A s \in Sessions : status[s] = "up" /\ tcpf[s] = "done" =>
    FlagsTowards(RemoteAddr[s]) = want[s]

\* The packets of a session are one TCP stream: its sequence state is not
\* forgotten while it is up, whatever other sessions come and go.
StateKept ==
  [][\A s \in Sessions :
       status[s] = "up" /\ RemoteAddr[s] \in connStates => RemoteAddr[s] \in connStates']_vars

\* A client whose flags the network lets through gets its PONG, although the
\* PONG may at first have gone out with flags that it does not.
PongGetsThrough ==
  \A s \in Sessions :
    (status[s] = "up" /\ want[s] \in passBack) ~> (s \in verified \/ status[s] # "up")

\* A signal ends the server, with sessions up, half cleared or just accepted,
\* with TCPF handlers running, and also after the pcap handle has failed, when
\* the listen loop does nothing but fail.
ShutdownCompletes == ~live ~> start = "returned"
===============================================================================

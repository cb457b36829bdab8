-------------------------- MODULE ServerFlags_proofs --------------------------
(***************************************************************************)
(* What holds of the server's tables for any number of sessions, addresses *)
(* and flags, as long as no two sessions have one address.                 *)
(***************************************************************************)
EXTENDS ServerFlags, TLAPS

\* What the tables take for granted: an address is one session's.
OwnAddress == \A s, t \in Sessions : RemoteAddr[s] = RemoteAddr[t] => s = t

USE DefaultAssumption, NoFlagsAssumption, RemoteAddrAssumption

-------------------------------------------------------------------------------
\* Types.

\* The first state has the types.
LEMMA TypeInit == Init => TypeOK
BY DEF Init, TypeOK

\* The server keeps them ...
LEMMA ServerTypes ==
  ASSUME TypeOK, Server \/ Signal \/ PcapFails
  PROVE  TypeOK'
BY DEF TypeOK, Server, Loop, AcceptError, CloseListener, StartReturns, Signal, PcapFails,
       sessionVars, tables, peers

\* ... and so do the sessions.
LEMMA SessionTypes ==
  ASSUME TypeOK, NEW s \in Sessions,
         \/ Accept(s) \/ AcceptTCPF(s) \/ SetFlags(s) \/ HandlePing(s) \/ SendPong(s)
         \/ SendData(s) \/ SessionEnds(s) \/ Cleanup(s)
  PROVE  TypeOK'
<1>1. CASE Accept(s)
  <2>1. status' \in [Sessions -> {"new", "up", "ended", "cleared", "forgotten", "closed"}]
    BY <1>1 DEF Accept, TypeOK
  <2> QED BY <1>1, <2>1 DEF Accept, TypeOK, tables, peers
<1>2. CASE AcceptTCPF(s)
  BY <1>2 DEF AcceptTCPF, TypeOK, Set, serverVars, tables, peers
<1>3. CASE SetFlags(s)
  BY <1>3 DEF SetFlags, TypeOK, Set, serverVars, peers
<1>4. CASE HandlePing(s)
  BY <1>4 DEF HandlePing, TypeOK, Set, serverVars, tables, peers
<1>5. CASE SendPong(s)
  BY <1>5 DEF SendPong, TypeOK, Set, serverVars
<1>6. CASE SendData(s)
  BY <1>6 DEF SendData, TypeOK, serverVars, sessionVars, peers
<1>7. CASE SessionEnds(s)
  BY <1>7 DEF SessionEnds, TypeOK, Set, serverVars, tables, peers
<1>8. CASE Cleanup(s)
  BY <1>8 DEF Cleanup, ClearFlags, ClearState, CloseConn, TypeOK, Set, serverVars, tables, peers
<1> QED BY <1>1, <1>2, <1>3, <1>4, <1>5, <1>6, <1>7, <1>8

\* The type invariant.
THEOREM TypeCorrect == Spec => []TypeOK
<1>1. TypeOK /\ [Next]_vars => TypeOK'
  <2> SUFFICES ASSUME TypeOK, [Next]_vars PROVE TypeOK'
    OBVIOUS
  <2>1. CASE Next
    BY <2>1, ServerTypes, SessionTypes DEF Next
  <2>2. CASE UNCHANGED vars
    BY <2>2 DEF vars, serverVars, sessionVars, tables, peers, TypeOK
  <2> QED BY <2>1, <2>2
<1> QED BY <1>1, TypeInit, PTL DEF Spec

-------------------------------------------------------------------------------
\* The flags in force.

\* Inductive: a session that has its flags in the table handled a TCPF message,
\* and it could not have done so before it was accepted.
FlagsInv ==
  \A s \in Sessions :
    /\ status[s] = "new" => tcpf[s] = "none"
    /\ tcpf[s] # "none" => want[s] \in Combos
    /\ status[s] = "up" /\ tcpf[s] = "done" => clientTCPF[RemoteAddr[s]] = want[s]

\* No session is up.
LEMMA FlagsInit == Init => FlagsInv
BY DEF Init, FlagsInv

\* With addresses of their own no session changes what another was promised.
LEMMA FlagsStep ==
  ASSUME OwnAddress, TypeOK, FlagsInv, [Next]_vars
  PROVE  FlagsInv'
<1>1. CASE Server \/ Signal \/ PcapFails
  BY <1>1 DEF FlagsInv, Server, Loop, AcceptError, CloseListener, StartReturns, Signal,
              PcapFails, sessionVars, tables
<1>2. ASSUME NEW s \in Sessions, Accept(s) PROVE FlagsInv'
  BY <1>2 DEF FlagsInv, Accept, TypeOK, tables
<1>3. ASSUME NEW s \in Sessions, AcceptTCPF(s) PROVE FlagsInv'
  BY <1>3 DEF FlagsInv, AcceptTCPF, TypeOK, Set, tables
<1>4. ASSUME NEW s \in Sessions, SetFlags(s) PROVE FlagsInv'
  BY <1>4, OwnAddress DEF FlagsInv, SetFlags, TypeOK, Set, OwnAddress
<1>5. ASSUME NEW s \in Sessions, HandlePing(s) \/ SendPong(s) \/ SendData(s) PROVE FlagsInv'
  BY <1>5 DEF FlagsInv, HandlePing, SendPong, SendData, sessionVars, tables
<1>6. ASSUME NEW s \in Sessions, SessionEnds(s) PROVE FlagsInv'
  BY <1>6 DEF FlagsInv, SessionEnds, TypeOK, Set, tables
<1>7. ASSUME NEW s \in Sessions, ClearFlags(s) PROVE FlagsInv'
  BY <1>7, OwnAddress DEF FlagsInv, ClearFlags, TypeOK, Set, OwnAddress
<1>8. ASSUME NEW s \in Sessions, ClearState(s) \/ CloseConn(s) PROVE FlagsInv'
  BY <1>8 DEF FlagsInv, ClearState, CloseConn, TypeOK, Set, tables
<1>9. CASE UNCHANGED vars
  BY <1>9 DEF vars, sessionVars, tables, FlagsInv
<1> QED
  BY <1>1, <1>2, <1>3, <1>4, <1>5, <1>6, <1>7, <1>8, <1>9 DEF Next, Cleanup

\* With an address of its own, a session is answered with the flags its client
\* asked for from the moment the TCPF message is handled until it ends.
THEOREM FlagsStayInForce == ASSUME OwnAddress PROVE Spec => []FlagsInForce
<1>1. FlagsInv => FlagsInForce
  BY DEF FlagsInv, FlagsInForce, FlagsTowards
<1> QED
  BY <1>1, FlagsInit, FlagsStep, TypeCorrect, PTL DEF Spec

\* With an address of its own, a session keeps its sequence state for as long as
\* it is up: only its own deferred calls remove it.
THEOREM SequenceStateKept == ASSUME OwnAddress PROVE Spec => StateKept
<1> DEFINE Kept == \A s \in Sessions :
             status[s] = "up" /\ RemoteAddr[s] \in connStates => RemoteAddr[s] \in connStates'
<1>1. [Next]_vars => Kept
  <2> SUFFICES ASSUME [Next]_vars, NEW s \in Sessions,
                      status[s] = "up", RemoteAddr[s] \in connStates
               PROVE  RemoteAddr[s] \in connStates'
    OBVIOUS
  <2>1. CASE \E t \in Sessions : ClearState(t)
    BY <2>1, OwnAddress DEF ClearState, OwnAddress
  <2>2. CASE ~ \E t \in Sessions : ClearState(t)
    BY <2>2 DEF Next, vars, Server, Loop, AcceptError, CloseListener, StartReturns, Signal,
                PcapFails, Accept, AcceptTCPF, SetFlags, HandlePing, SendPong, SendData,
                SessionEnds, Cleanup, ClearFlags, CloseConn, tables
  <2> QED BY <2>1, <2>2
<1> QED BY <1>1, PTL DEF Spec, StateKept

-------------------------------------------------------------------------------
\* After Start has returned.

\* Inductive: the listen loop ends with the context, only a session that is served
\* has a PONG queued, and wg.Wait has seen the loop, the sessions and their TCPF
\* handlers end.
EndInv ==
  /\ lsn = "done" => ~live
  /\ \A s \in Sessions : status[s] \in {"new", "closed"} => ~ping[s]
  /\ start = "returned" =>
       /\ lsn = "done" /\ sock = "closed"
       /\ \A s \in Sessions : status[s] \in {"new", "closed"} /\ tcpf[s] # "running"

\* Start has not returned.
LEMMA EndInit == Init => EndInv
BY DEF Init, EndInv

\* After Start has returned no step begins anything.
LEMMA EndStep ==
  ASSUME TypeOK, EndInv, [Next]_vars
  PROVE  EndInv'
<1>1. CASE Server \/ Signal \/ PcapFails
  BY <1>1 DEF EndInv, TypeOK, Server, Loop, AcceptError, CloseListener, StartReturns, Signal,
              PcapFails, sessionVars
<1>2. ASSUME NEW s \in Sessions, Accept(s) PROVE EndInv'
  BY <1>2 DEF EndInv, Accept, TypeOK
<1>3. ASSUME NEW s \in Sessions, AcceptTCPF(s) \/ SetFlags(s) \/ HandlePing(s) PROVE EndInv'
  BY <1>3 DEF EndInv, AcceptTCPF, SetFlags, HandlePing, TypeOK, Set, serverVars
<1>4. ASSUME NEW s \in Sessions, SendPong(s) \/ SendData(s) PROVE EndInv'
  BY <1>4 DEF EndInv, SendPong, SendData, TypeOK, Set, serverVars, sessionVars
<1>5. ASSUME NEW s \in Sessions, SessionEnds(s) PROVE EndInv'
  BY <1>5 DEF EndInv, SessionEnds, TypeOK, Set, serverVars
<1>6. ASSUME NEW s \in Sessions, Cleanup(s) PROVE EndInv'
  BY <1>6 DEF EndInv, Cleanup, ClearFlags, ClearState, CloseConn, TypeOK, Set, serverVars
<1>7. CASE UNCHANGED vars
  BY <1>7 DEF vars, serverVars, sessionVars, EndInv
<1> QED BY <1>1, <1>2, <1>3, <1>4, <1>5, <1>6, <1>7 DEF Next

\* When Start has returned the packet conn is closed and no session and no handler
\* is left, nor does one start afterwards, in whatever order the signal, a failure of
\* pcap, the clients' messages and the deferred calls have come.
THEOREM NothingOutlivesStart ==
  Spec => [](start = "returned" =>
               /\ ~live /\ lsn = "done" /\ sock = "closed"
               /\ \A s \in Sessions :
                    status[s] \in {"new", "closed"} /\ tcpf[s] # "running" /\ ~ping[s])
<1> DEFINE Over == start = "returned" =>
               /\ ~live /\ lsn = "done" /\ sock = "closed"
               /\ \A s \in Sessions :
                    status[s] \in {"new", "closed"} /\ tcpf[s] # "running" /\ ~ping[s]
<1>1. EndInv => Over
  BY DEF EndInv
<1> HIDE DEF Over
<1>2. Spec => []Over
  BY <1>1, EndInit, EndStep, TypeCorrect, PTL DEF Spec
<1> QED BY <1>2 DEF Over
===============================================================================

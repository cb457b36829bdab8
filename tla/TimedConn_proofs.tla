---------------------------- MODULE TimedConn_proofs ----------------------------
(***************************************************************************)
(* Proofs about TimedConn: for any number of callers, connections, combos  *)
(* and retries, the reconnect path leaks no session, hands out only the    *)
(* installed connection and never takes a live one down.                   *)
(***************************************************************************)
EXTENDS TimedConn, TLAPS

\* Every position has a next one in the list.
LEMMA NextIdxInRange == \A i \in Combos : Next_idx(i) \in Combos
  BY NCombosAssumption, SMT DEF Combos, Next_idx

\* The cycler's methods keep idx inside combos and failures below the limit.
LEMMA CyclerTypes ==
  \A fc \in Cycler : Fail(fc) \in Cycler /\ Succeed(fc) \in Cycler
<1> SUFFICES ASSUME NEW fc \in Cycler
             PROVE  Fail(fc) \in Cycler /\ Succeed(fc) \in Cycler
  OBVIOUS
<1>1. fc.idx \in Combos /\ fc.failures \in 0 .. MaxFailures - 1
  BY DEF Cycler
<1>2. Fail(fc) \in Cycler
  <2>1. CASE fc.failures + 1 < MaxFailures
    BY <1>1, <2>1, MaxFailuresAssumption DEF Fail, Cycler
  <2>2. CASE ~(fc.failures + 1 < MaxFailures)
    BY <1>1, <2>2, NextIdxInRange, MaxFailuresAssumption DEF Fail, Cycler
  <2>3. QED
    BY <2>1, <2>2
<1>3. Succeed(fc) \in Cycler
  BY <1>1, MaxFailuresAssumption DEF Succeed, Cycler
<1>4. QED
  BY <1>2, <1>3

\* How many positions the cycler is before combo c, going around the list, and how
\* many failures, counted from those already made, take it there.
Before(i, c) == IF i <= c THEN c - i ELSE c - i + NCombos
Owed(fc, c) == Before(fc.idx, c) * MaxFailures - fc.failures

\* Failures with no success between bring the cycler to every combo of the list: each
\* that finds it elsewhere makes what is owed exactly one less, and nothing is owed
\* only on the combo itself.  No combo is passed over and none is tried for longer
\* than max_failures.
THEOREM FailuresReachCombo ==
  ASSUME NEW fc \in Cycler, NEW c \in Combos
  PROVE  /\ Owed(fc, c) \in Int
         /\ Owed(fc, c) <= 0 <=> fc.idx = c
         /\ fc.idx # c => Owed(Fail(fc), c) = Owed(fc, c) - 1
<1> DEFINE i == fc.idx
           k == fc.failures
           d == Before(i, c)
           M == MaxFailures
           N == NCombos
<1>1. /\ i \in 0 .. N - 1 /\ c \in 0 .. N - 1 /\ k \in 0 .. M - 1
      /\ N \in Nat \ {0} /\ M \in Nat \ {0}
  BY NCombosAssumption, MaxFailuresAssumption DEF Cycler, Combos
<1>2. d \in Nat /\ (d = 0 <=> i = c)
  BY <1>1 DEF Before
<1>3. Owed(fc, c) = d * M - k
  BY DEF Owed
<1>4. d # 0 => d * M >= M
  <2> HIDE DEF d, M
  <2> QED BY <1>1, <1>2 DEF M
<1>5. d = 0 => d * M = 0
  BY <1>1
<1>6. d * M \in Int
  BY <1>1, <1>2
<1>7. ASSUME i # c
      PROVE  Owed(Fail(fc), c) = d * M - k - 1
  <2>1. CASE k + 1 < M
    <3>1. Fail(fc).idx = i /\ Fail(fc).failures = k + 1
      BY <1>1, <2>1 DEF Fail, Cycler
    <3>2. Owed(Fail(fc), c) = d * M - (k + 1)
      BY <3>1 DEF Owed
    <3> QED BY <1>1, <1>6, <3>2
  <2>2. CASE ~(k + 1 < M)
    <3>1. Fail(fc).idx = Next_idx(i) /\ Fail(fc).failures = 0
      BY <2>2 DEF Fail
    <3>2. Next_idx(i) = IF i + 1 = N THEN 0 ELSE i + 1
      BY <1>1 DEF Next_idx
    <3>3. Before(Next_idx(i), c) = d - 1
      BY <1>1, <1>7, <3>2 DEF Before
    <3>4. Owed(Fail(fc), c) = (d - 1) * M - 0
      BY <3>1, <3>3 DEF Owed
    <3>5. (d - 1) * M = d * M - M
      <4> HIDE DEF d, M
      <4> QED BY <1>1, <1>2 DEF M
    <3> QED BY <1>1, <1>6, <2>2, <3>4, <3>5
  <2> QED BY <2>1, <2>2
<1> QED BY <1>1, <1>2, <1>3, <1>4, <1>5, <1>6, <1>7

\* Initial values of the combo and retry counters, and the latter's bound.
LEMMA Ranges ==
  /\ 0 \in Combos
  /\ 0 \in 0 .. MaxRetries - 1
  /\ \A fc \in Cycler : fc.idx \in Combos
  /\ \A t \in 0 .. MaxRetries - 1 :
       t + 1 < MaxRetries => t + 1 \in 0 .. MaxRetries - 1
<1>1. 0 \in Combos
  BY NCombosAssumption DEF Combos
<1>2. \A fc \in Cycler : fc.idx \in Combos
  BY DEF Cycler
<1>3. QED
  BY <1>1, <1>2, MaxRetriesAssumption

\* Request keeps the inductive invariant.
LEMMA RequestKeeps ==
  ASSUME IInv, NEW c \in Callers, Request(c)
  PROVE  IInv'
<1> USE NoConnAssumption DEF IInv, Request, At, Goto, conns, caller, health, env
<1>1. TypeOK'
  BY CyclerTypes, Ranges DEF TypeOK, LocalsAssigned, PCs, Owns
<1>2. LocalsAssigned'
  BY DEF TypeOK, LocalsAssigned, PCs, Owns
<1>3. OwnersAlone'
  BY DEF TypeOK, LocalsAssigned, OwnersAlone, PCs, Owns
<1>4. NoLeakedSession'
  BY DEF TypeOK, LocalsAssigned, OwnersAlone, NoLeakedSession, PCs, Owns
<1>5. StreamsOnInstalled'
  BY DEF TypeOK, LocalsAssigned, OwnersAlone, StreamsOnInstalled, PCs, Owns
<1>6. QED
  BY <1>1, <1>2, <1>3, <1>4, <1>5

\* Check keeps the inductive invariant.
LEMMA CheckKeeps ==
  ASSUME IInv, NEW c \in Callers, Check(c)
  PROVE  IInv'
<1> USE NoConnAssumption DEF IInv, Check, At, Goto, conns, caller, health, env
<1>1. TypeOK'
  BY CyclerTypes, Ranges DEF TypeOK, LocalsAssigned, PCs, Owns
<1>2. LocalsAssigned'
  BY DEF TypeOK, LocalsAssigned, PCs, Owns
<1>3. OwnersAlone'
  BY DEF TypeOK, LocalsAssigned, OwnersAlone, PCs, Owns
<1>4. NoLeakedSession'
  BY DEF TypeOK, LocalsAssigned, OwnersAlone, NoLeakedSession, PCs, Owns
<1>5. StreamsOnInstalled'
  BY DEF TypeOK, LocalsAssigned, OwnersAlone, StreamsOnInstalled, PCs, Owns
<1>6. QED
  BY <1>1, <1>2, <1>3, <1>4, <1>5

\* Dial keeps the inductive invariant.
LEMMA DialKeeps ==
  ASSUME IInv, NEW c \in Callers, Dial(c)
  PROVE  IInv'
<1> USE NoConnAssumption DEF IInv, Dial, At, Goto, Referenced, conns, caller, health, env
<1>1. TypeOK'
  <2>1. cycler' \in Cycler
    BY DEF TypeOK
  <2>2. tcConn' \in Conns
    BY DEF TypeOK, LocalsAssigned, Owns
  <2>3. sess' \in [Conns -> BOOLEAN] /\ sock' \in [Conns -> BOOLEAN]
    BY DEF TypeOK
  <2>4. combo' \in [Conns -> Combos]
    BY Ranges DEF TypeOK
  <2>5. pc' \in [Callers -> PCs]
    BY DEF TypeOK, PCs
  <2>6. loc' \in [Callers -> Conns \cup {NoConn}]
    BY DEF TypeOK
  <2>7. try' \in [Callers -> 0 .. MaxRetries - 1]
    BY Ranges DEF TypeOK
  <2>8. QED
    BY <2>1, <2>2, <2>3, <2>4, <2>5, <2>6, <2>7 DEF TypeOK
<1>2. LocalsAssigned'
  BY DEF TypeOK, LocalsAssigned, PCs, Owns
<1>3. OwnersAlone'
  BY DEF TypeOK, LocalsAssigned, OwnersAlone, PCs, Owns
<1>4. NoLeakedSession'
  BY DEF TypeOK, LocalsAssigned, OwnersAlone, NoLeakedSession, PCs, Owns
<1>5. StreamsOnInstalled'
  BY DEF TypeOK, LocalsAssigned, OwnersAlone, StreamsOnInstalled, PCs, Owns
<1>6. QED
  BY <1>1, <1>2, <1>3, <1>4, <1>5

\* SendTCPF keeps the inductive invariant.
LEMMA SendTCPFKeeps ==
  ASSUME IInv, NEW c \in Callers, SendTCPF(c)
  PROVE  IInv'
<1> USE NoConnAssumption DEF IInv, SendTCPF, At, Goto, Abandon, Close, conns, caller, health, env
<1>1. TypeOK'
  <2>1. cycler' \in Cycler
    BY DEF TypeOK
  <2>2. tcConn' \in Conns
    BY DEF TypeOK, LocalsAssigned, Owns
  <2>3. sess' \in [Conns -> BOOLEAN] /\ sock' \in [Conns -> BOOLEAN]
    BY DEF TypeOK
  <2>4. combo' \in [Conns -> Combos]
    BY Ranges DEF TypeOK
  <2>5. pc' \in [Callers -> PCs]
    BY DEF TypeOK, PCs
  <2>6. loc' \in [Callers -> Conns \cup {NoConn}]
    BY DEF TypeOK
  <2>7. try' \in [Callers -> 0 .. MaxRetries - 1]
    BY Ranges DEF TypeOK
  <2>8. QED
    BY <2>1, <2>2, <2>3, <2>4, <2>5, <2>6, <2>7 DEF TypeOK
<1>2. LocalsAssigned'
  BY DEF TypeOK, LocalsAssigned, PCs, Owns
<1>3. OwnersAlone'
  BY DEF TypeOK, LocalsAssigned, OwnersAlone, PCs, Owns
<1>4. NoLeakedSession'
  BY DEF TypeOK, LocalsAssigned, OwnersAlone, NoLeakedSession, PCs, Owns
<1>5. StreamsOnInstalled'
  BY DEF TypeOK, LocalsAssigned, OwnersAlone, StreamsOnInstalled, PCs, Owns
<1>6. QED
  BY <1>1, <1>2, <1>3, <1>4, <1>5

\* Verify keeps the inductive invariant.
LEMMA VerifyKeeps ==
  ASSUME IInv, NEW c \in Callers, Verify(c)
  PROVE  IInv'
<1> USE NoConnAssumption DEF IInv, Verify, At, Goto, Abandon, Close, Pong, Carries, conns, caller, health, env
<1>1. TypeOK'
  <2>1. cycler' \in Cycler
    BY DEF TypeOK
  <2>2. tcConn' \in Conns
    BY DEF TypeOK, LocalsAssigned, Owns
  <2>3. sess' \in [Conns -> BOOLEAN] /\ sock' \in [Conns -> BOOLEAN]
    BY DEF TypeOK
  <2>4. combo' \in [Conns -> Combos]
    BY Ranges DEF TypeOK
  <2>5. pc' \in [Callers -> PCs]
    BY DEF TypeOK, PCs
  <2>6. loc' \in [Callers -> Conns \cup {NoConn}]
    BY DEF TypeOK
  <2>7. try' \in [Callers -> 0 .. MaxRetries - 1]
    BY Ranges DEF TypeOK
  <2>8. QED
    BY <2>1, <2>2, <2>3, <2>4, <2>5, <2>6, <2>7 DEF TypeOK
<1>2. LocalsAssigned'
  BY DEF TypeOK, LocalsAssigned, PCs, Owns
<1>3. OwnersAlone'
  BY DEF TypeOK, LocalsAssigned, OwnersAlone, PCs, Owns
<1>4. NoLeakedSession'
  BY DEF TypeOK, LocalsAssigned, OwnersAlone, NoLeakedSession, PCs, Owns
<1>5. StreamsOnInstalled'
  BY DEF TypeOK, LocalsAssigned, OwnersAlone, StreamsOnInstalled, PCs, Owns
<1>6. QED
  BY <1>1, <1>2, <1>3, <1>4, <1>5

\* Reconnected keeps the inductive invariant.
LEMMA ReconnectedKeeps ==
  ASSUME IInv, NEW c \in Callers, Reconnected(c)
  PROVE  IInv'
<1> USE NoConnAssumption DEF IInv, Reconnected, At, Goto, conns, caller, health, env
<1>1. TypeOK'
  BY CyclerTypes, Ranges DEF TypeOK, LocalsAssigned, PCs, Owns
<1>2. LocalsAssigned'
  BY DEF TypeOK, LocalsAssigned, PCs, Owns
<1>3. OwnersAlone'
  BY DEF TypeOK, LocalsAssigned, OwnersAlone, PCs, Owns
<1>4. NoLeakedSession'
  BY DEF TypeOK, LocalsAssigned, OwnersAlone, NoLeakedSession, PCs, Owns
<1>5. StreamsOnInstalled'
  BY DEF TypeOK, LocalsAssigned, OwnersAlone, StreamsOnInstalled, PCs, Owns
<1>6. QED
  BY <1>1, <1>2, <1>3, <1>4, <1>5

\* Install keeps the inductive invariant.
LEMMA InstallKeeps ==
  ASSUME IInv, NEW c \in Callers, Install(c)
  PROVE  IInv'
<1> USE NoConnAssumption DEF IInv, Install, At, Goto, Close, conns, caller, health, env
<1>1. TypeOK'
  <2>1. cycler' \in Cycler
    BY DEF TypeOK
  <2>2. tcConn' \in Conns
    BY DEF TypeOK, LocalsAssigned, Owns
  <2>3. sess' \in [Conns -> BOOLEAN] /\ sock' \in [Conns -> BOOLEAN]
    BY DEF TypeOK
  <2>4. combo' \in [Conns -> Combos]
    BY Ranges DEF TypeOK
  <2>5. pc' \in [Callers -> PCs]
    BY DEF TypeOK, PCs
  <2>6. loc' \in [Callers -> Conns \cup {NoConn}]
    BY DEF TypeOK
  <2>7. try' \in [Callers -> 0 .. MaxRetries - 1]
    BY Ranges DEF TypeOK
  <2>8. QED
    BY <2>1, <2>2, <2>3, <2>4, <2>5, <2>6, <2>7 DEF TypeOK
<1>2. LocalsAssigned'
  BY DEF TypeOK, LocalsAssigned, PCs, Owns
<1>3. OwnersAlone'
  BY DEF TypeOK, LocalsAssigned, OwnersAlone, PCs, Owns
<1>4. NoLeakedSession'
  BY DEF TypeOK, LocalsAssigned, OwnersAlone, NoLeakedSession, PCs, Owns
<1>5. StreamsOnInstalled'
  BY DEF TypeOK, LocalsAssigned, OwnersAlone, StreamsOnInstalled, PCs, Owns
<1>6. QED
  BY <1>1, <1>2, <1>3, <1>4, <1>5

\* OpenStrm keeps the inductive invariant.
LEMMA OpenStrmKeeps ==
  ASSUME IInv, NEW c \in Callers, OpenStrm(c)
  PROVE  IInv'
<1> USE NoConnAssumption DEF IInv, OpenStrm, At, Goto, Retry, conns, caller, health, env
<1>1. TypeOK'
  BY CyclerTypes, Ranges DEF TypeOK, LocalsAssigned, PCs, Owns
<1>2. LocalsAssigned'
  BY DEF TypeOK, LocalsAssigned, PCs, Owns
<1>3. OwnersAlone'
  BY DEF TypeOK, LocalsAssigned, OwnersAlone, PCs, Owns
<1>4. NoLeakedSession'
  BY DEF TypeOK, LocalsAssigned, OwnersAlone, NoLeakedSession, PCs, Owns
<1>5. StreamsOnInstalled'
  BY DEF TypeOK, LocalsAssigned, OwnersAlone, StreamsOnInstalled, PCs, Owns
<1>6. QED
  BY <1>1, <1>2, <1>3, <1>4, <1>5

\* CallerFail keeps the inductive invariant.
LEMMA CallerFailKeeps ==
  ASSUME IInv, NEW c \in Callers, CallerFail(c)
  PROVE  IInv'
<1> USE NoConnAssumption DEF IInv, CallerFail, At, Goto, Retry, conns, caller, health, env
<1>1. TypeOK'
  BY CyclerTypes, Ranges DEF TypeOK, LocalsAssigned, PCs, Owns
<1>2. LocalsAssigned'
  BY DEF TypeOK, LocalsAssigned, PCs, Owns
<1>3. OwnersAlone'
  BY DEF TypeOK, LocalsAssigned, OwnersAlone, PCs, Owns
<1>4. NoLeakedSession'
  BY DEF TypeOK, LocalsAssigned, OwnersAlone, NoLeakedSession, PCs, Owns
<1>5. StreamsOnInstalled'
  BY DEF TypeOK, LocalsAssigned, OwnersAlone, StreamsOnInstalled, PCs, Owns
<1>6. QED
  BY <1>1, <1>2, <1>3, <1>4, <1>5
\* HealthTick keeps the inductive invariant.
LEMMA HealthTickKeeps ==
  ASSUME IInv, HealthTick
  PROVE  IInv'
<1> USE DEF IInv, HealthTick, conns, caller, health, env
<1>1. TypeOK'
  BY CyclerTypes, Ranges DEF TypeOK
<1>2. LocalsAssigned'
  BY NoConnAssumption DEF TypeOK, LocalsAssigned, Owns
<1>3. OwnersAlone'
  BY NoConnAssumption DEF TypeOK, LocalsAssigned, OwnersAlone, Owns
<1>4. NoLeakedSession'
  BY DEF TypeOK, NoLeakedSession, Owns
<1>5. StreamsOnInstalled'
  BY DEF TypeOK, LocalsAssigned, StreamsOnInstalled
<1>6. QED
  BY <1>1, <1>2, <1>3, <1>4, <1>5

\* HealthPing keeps the inductive invariant.
LEMMA HealthPingKeeps ==
  ASSUME IInv, HealthPing
  PROVE  IInv'
<1> USE DEF IInv, HealthPing, conns, caller, health, env
<1>1. TypeOK'
  BY CyclerTypes, Ranges DEF TypeOK
<1>2. LocalsAssigned'
  BY NoConnAssumption DEF TypeOK, LocalsAssigned, Owns
<1>3. OwnersAlone'
  BY NoConnAssumption DEF TypeOK, LocalsAssigned, OwnersAlone, Owns
<1>4. NoLeakedSession'
  BY DEF TypeOK, NoLeakedSession, Owns
<1>5. StreamsOnInstalled'
  BY DEF TypeOK, LocalsAssigned, StreamsOnInstalled
<1>6. QED
  BY <1>1, <1>2, <1>3, <1>4, <1>5

\* HealthFail keeps the inductive invariant.
LEMMA HealthFailKeeps ==
  ASSUME IInv, HealthFail
  PROVE  IInv'
<1> USE DEF IInv, HealthFail, conns, caller, health, env
<1>1. TypeOK'
  BY CyclerTypes, Ranges DEF TypeOK
<1>2. LocalsAssigned'
  BY NoConnAssumption DEF TypeOK, LocalsAssigned, Owns
<1>3. OwnersAlone'
  BY NoConnAssumption DEF TypeOK, LocalsAssigned, OwnersAlone, Owns
<1>4. NoLeakedSession'
  BY DEF TypeOK, NoLeakedSession, Owns
<1>5. StreamsOnInstalled'
  BY DEF TypeOK, LocalsAssigned, StreamsOnInstalled
<1>6. QED
  BY <1>1, <1>2, <1>3, <1>4, <1>5

\* HealthClose keeps the inductive invariant.
LEMMA HealthCloseKeeps ==
  ASSUME IInv, HealthClose
  PROVE  IInv'
<1> USE DEF IInv, HealthClose, Close, conns, caller, health, env
<1>1. TypeOK'
  BY CyclerTypes, Ranges DEF TypeOK
<1>2. LocalsAssigned'
  BY NoConnAssumption DEF TypeOK, LocalsAssigned, Owns
<1>3. OwnersAlone'
  BY NoConnAssumption DEF TypeOK, LocalsAssigned, OwnersAlone, Owns
<1>4. NoLeakedSession'
  BY DEF TypeOK, NoLeakedSession, Owns
<1>5. StreamsOnInstalled'
  BY DEF TypeOK, LocalsAssigned, StreamsOnInstalled
<1>6. QED
  BY <1>1, <1>2, <1>3, <1>4, <1>5

\* HealthStop keeps the inductive invariant.
LEMMA HealthStopKeeps ==
  ASSUME IInv, HealthStop
  PROVE  IInv'
<1> USE DEF IInv, HealthStop, conns, caller, health, env
<1>1. TypeOK'
  BY CyclerTypes, Ranges DEF TypeOK
<1>2. LocalsAssigned'
  BY NoConnAssumption DEF TypeOK, LocalsAssigned, Owns
<1>3. OwnersAlone'
  BY NoConnAssumption DEF TypeOK, LocalsAssigned, OwnersAlone, Owns
<1>4. NoLeakedSession'
  BY DEF TypeOK, NoLeakedSession, Owns
<1>5. StreamsOnInstalled'
  BY DEF TypeOK, LocalsAssigned, StreamsOnInstalled
<1>6. QED
  BY <1>1, <1>2, <1>3, <1>4, <1>5

\* NetChange keeps the inductive invariant.
LEMMA NetChangeKeeps ==
  ASSUME IInv, NetChange
  PROVE  IInv'
<1> USE DEF IInv, NetChange, conns, caller, health, env
<1>1. TypeOK'
  BY CyclerTypes, Ranges DEF TypeOK
<1>2. LocalsAssigned'
  BY NoConnAssumption DEF TypeOK, LocalsAssigned, Owns
<1>3. OwnersAlone'
  BY NoConnAssumption DEF TypeOK, LocalsAssigned, OwnersAlone, Owns
<1>4. NoLeakedSession'
  BY DEF TypeOK, NoLeakedSession, Owns
<1>5. StreamsOnInstalled'
  BY DEF TypeOK, LocalsAssigned, StreamsOnInstalled
<1>6. QED
  BY <1>1, <1>2, <1>3, <1>4, <1>5

\* NetCalms keeps the inductive invariant.
LEMMA NetCalmsKeeps ==
  ASSUME IInv, NetCalms
  PROVE  IInv'
<1> USE DEF IInv, NetCalms, conns, caller, health, env
<1>1. TypeOK'
  BY CyclerTypes, Ranges DEF TypeOK
<1>2. LocalsAssigned'
  BY NoConnAssumption DEF TypeOK, LocalsAssigned, Owns
<1>3. OwnersAlone'
  BY NoConnAssumption DEF TypeOK, LocalsAssigned, OwnersAlone, Owns
<1>4. NoLeakedSession'
  BY DEF TypeOK, NoLeakedSession, Owns
<1>5. StreamsOnInstalled'
  BY DEF TypeOK, LocalsAssigned, StreamsOnInstalled
<1>6. QED
  BY <1>1, <1>2, <1>3, <1>4, <1>5

\* Cancel keeps the inductive invariant.
LEMMA CancelKeeps ==
  ASSUME IInv, Cancel
  PROVE  IInv'
<1> USE DEF IInv, Cancel, conns, caller, health, env
<1>1. TypeOK'
  BY CyclerTypes, Ranges DEF TypeOK
<1>2. LocalsAssigned'
  BY NoConnAssumption DEF TypeOK, LocalsAssigned, Owns
<1>3. OwnersAlone'
  BY NoConnAssumption DEF TypeOK, LocalsAssigned, OwnersAlone, Owns
<1>4. NoLeakedSession'
  BY DEF TypeOK, NoLeakedSession, Owns
<1>5. StreamsOnInstalled'
  BY DEF TypeOK, LocalsAssigned, StreamsOnInstalled
<1>6. QED
  BY <1>1, <1>2, <1>3, <1>4, <1>5

\* TimedClose keeps the inductive invariant.
LEMMA TimedCloseKeeps ==
  ASSUME IInv, TimedClose
  PROVE  IInv'
<1> USE DEF IInv, TimedClose, Close, conns, caller, health, env
<1>1. TypeOK'
  BY CyclerTypes, Ranges DEF TypeOK
<1>2. LocalsAssigned'
  BY NoConnAssumption DEF TypeOK, LocalsAssigned, Owns
<1>3. OwnersAlone'
  BY NoConnAssumption DEF TypeOK, LocalsAssigned, OwnersAlone, Owns
<1>4. NoLeakedSession'
  BY DEF TypeOK, NoLeakedSession, Owns
<1>5. StreamsOnInstalled'
  BY DEF TypeOK, LocalsAssigned, StreamsOnInstalled
<1>6. QED
  BY <1>1, <1>2, <1>3, <1>4, <1>5

\* SessionDies keeps the inductive invariant.
LEMMA SessionDiesKeeps ==
  ASSUME IInv, NEW n \in Conns, SessionDies(n)
  PROVE  IInv'
<1> USE DEF IInv, SessionDies, conns, caller, health, env
<1>1. TypeOK'
  BY CyclerTypes, Ranges DEF TypeOK
<1>2. LocalsAssigned'
  BY NoConnAssumption DEF TypeOK, LocalsAssigned, Owns
<1>3. OwnersAlone'
  BY NoConnAssumption DEF TypeOK, LocalsAssigned, OwnersAlone, Owns
<1>4. NoLeakedSession'
  BY DEF TypeOK, NoLeakedSession, Owns
<1>5. StreamsOnInstalled'
  BY DEF TypeOK, LocalsAssigned, StreamsOnInstalled
<1>6. QED
  BY <1>1, <1>2, <1>3, <1>4, <1>5

\* A stuttering step keeps the inductive invariant.
LEMMA StutterKeeps ==
  ASSUME IInv, UNCHANGED vars
  PROVE  IInv'
  BY DEF IInv, TypeOK, LocalsAssigned, OwnersAlone, NoLeakedSession,
         StreamsOnInstalled, Owns, vars, conns, caller, health, env

\* The state newTimedConn leaves satisfies it.
LEMMA InitEstablishes == Init => IInv
<1> SUFFICES ASSUME Init PROVE IInv
  OBVIOUS
<1>1. PICK i \in Combos, n \in Conns :
        /\ cycler = [idx |-> i, failures |-> 0]
        /\ tcConn = n
        /\ sess = [m \in Conns |-> m = n]
        /\ sock = [m \in Conns |-> m = n]
        /\ combo = [m \in Conns |-> IF m = n THEN i ELSE 0]
  BY DEF Init
<1>2. cycler \in Cycler
  BY <1>1, MaxFailuresAssumption DEF Cycler
<1>3. sess \in [Conns -> BOOLEAN] /\ sock \in [Conns -> BOOLEAN]
  BY <1>1
<1>4. combo \in [Conns -> Combos] /\ tcConn \in Conns
  BY <1>1, Ranges
<1>5. TypeOK
  BY <1>2, <1>3, <1>4, Ranges, HealthOnAssumption DEF Init, TypeOK, PCs
<1>6. LocalsAssigned /\ OwnersAlone /\ StreamsOnInstalled
  BY NoConnAssumption
  DEF Init, LocalsAssigned, OwnersAlone, StreamsOnInstalled, Owns
<1>7. NoLeakedSession
  BY <1>1 DEF NoLeakedSession
<1>8. QED
  BY <1>5, <1>6, <1>7 DEF IInv

\* Every step keeps the inductive invariant.
LEMMA StepKeeps == IInv /\ [Next]_vars => IInv'
<1> SUFFICES ASSUME IInv, [Next]_vars
             PROVE  IInv'
  OBVIOUS
<1>1. CASE \E c \in Callers : Request(c) \/ CallerStep(c)
  <2>1. PICK c \in Callers : Request(c) \/ CallerStep(c)
    BY <1>1
  <2>2. QED
    BY <2>1, RequestKeeps, CheckKeeps, DialKeeps, SendTCPFKeeps, VerifyKeeps,
       ReconnectedKeeps, InstallKeeps, OpenStrmKeeps, CallerFailKeeps
    DEF CallerStep
<1>2. CASE HealthTick \/ HealthStep
  BY <1>2, HealthTickKeeps, HealthPingKeeps, HealthFailKeeps, HealthCloseKeeps,
     HealthStopKeeps DEF HealthStep
<1>3. CASE Environment
  BY <1>3, SessionDiesKeeps, NetChangeKeeps, NetCalmsKeeps, CancelKeeps,
     TimedCloseKeeps DEF Environment
<1>4. CASE UNCHANGED vars
  BY <1>4, StutterKeeps
<1>5. QED
  BY <1>1, <1>2, <1>3, <1>4 DEF Next

\* The inductive invariant holds throughout.
THEOREM Invariance == Spec => []IInv
  BY InitEstablishes, StepKeeps, PTL DEF Spec

\* Every variable has its type.
THEOREM TypeCorrect == Spec => []TypeOK
  BY Invariance, PTL DEF IInv

\* No session is left open without an owner, on any path of the reconnect.
THEOREM SessionsOwned == Spec => []NoLeakedSession
  BY Invariance, PTL DEF IInv

\* A caller opens its stream on tc.conn or on a session that died since.
THEOREM StreamsSafe == Spec => []StreamsOnInstalled
  BY Invariance, PTL DEF IInv

\* What a caller closes is its own, so not tc.conn.
LEMMA CallersSpareTunnel ==
  ASSUME IInv, NEW c \in Callers, Request(c) \/ CallerStep(c), sess[tcConn]
  PROVE  sess'[tcConn]
<1>1. CASE Request(c) \/ Check(c) \/ Reconnected(c) \/ OpenStrm(c) \/ CallerFail(c)
  BY <1>1 DEF Request, Check, Reconnected, OpenStrm, CallerFail, conns
<1>2. CASE Dial(c)
  BY <1>2 DEF Dial, IInv, TypeOK
<1>3. CASE SendTCPF(c) \/ Verify(c) \/ Install(c)
  <2>1. loc[c] # tcConn
    BY <1>3 DEF IInv, OwnersAlone, Owns, SendTCPF, Verify, Install, At
  <2>2. QED
    BY <1>3, <2>1 DEF IInv, TypeOK, SendTCPF, Verify, Install, Abandon, Close
<1>4. QED
  BY <1>1, <1>2, <1>3 DEF CallerStep

\* Nobody else moves a caller's program counter.
LEMMA OnlyCallersMove ==
  ASSUME [Next]_vars, NEW d \in Callers, pc'[d] # pc[d]
  PROVE  \E c \in Callers : Request(c) \/ CallerStep(c)
  BY DEF Next, HealthStep, Environment, HealthTick, HealthPing, HealthFail,
         HealthClose, HealthStop, SessionDies, NetChange, NetCalms, Cancel,
         TimedClose, vars, caller

\* No request closes a live tunnel, on an error path or after losing the race.
THEOREM TunnelSpared == Spec => RequestsNeverKillTunnel
<1>1. IInv /\ [Next]_vars
        => [(\E c \in Callers : pc'[c] # pc[c]) => (sess[tcConn] => sess'[tcConn])]_vars
  BY OnlyCallersMove, CallersSpareTunnel
<1>2. QED
  BY <1>1, Invariance, PTL DEF Spec, RequestsNeverKillTunnel

\* How many steps caller c may still take for its request: those of this attempt, and
\* eight for each attempt after it.
AttemptLeft ==
  [idle |-> 0, check |-> 7, dial |-> 6, tcpf |-> 5, verify |-> 4, succeed |-> 3,
   install |-> 2, open |-> 1, fail |-> 1]
StepsLeft(c) ==
  IF pc[c] = "idle" THEN 0 ELSE 8 * (MaxRetries - 1 - try[c]) + AttemptLeft[pc[c]]

\* A caller that moves has less left.
LEMMA CallerAdvances ==
  ASSUME TypeOK, NEW c \in Callers, CallerStep(c)
  PROVE  StepsLeft(c)' < StepsLeft(c)
<1> DEFINE t == try[c]
           left == MaxRetries - 1 - t
<1>1. t \in 0 .. MaxRetries - 1 /\ MaxRetries \in Nat \ {0} /\ left \in Nat
  BY MaxRetriesAssumption DEF TypeOK
<1>2. /\ AttemptLeft["check"] = 7 /\ AttemptLeft["dial"] = 6 /\ AttemptLeft["tcpf"] = 5
      /\ AttemptLeft["verify"] = 4 /\ AttemptLeft["succeed"] = 3 /\ AttemptLeft["install"] = 2
      /\ AttemptLeft["open"] = 1 /\ AttemptLeft["fail"] = 1
  BY DEF AttemptLeft
<1>3. CASE Check(c) \/ Dial(c) \/ SendTCPF(c) \/ Verify(c) \/ Reconnected(c) \/ Install(c)
  <2>1. /\ try'[c] = try[c]
        /\ \/ pc[c] = "check" /\ pc'[c] \in {"open", "dial"}
           \/ pc[c] = "dial" /\ pc'[c] \in {"tcpf", "fail"}
           \/ pc[c] = "tcpf" /\ pc'[c] \in {"verify", "fail"}
           \/ pc[c] = "verify" /\ pc'[c] \in {"succeed", "fail"}
           \/ pc[c] = "succeed" /\ pc'[c] = "install"
           \/ pc[c] = "install" /\ pc'[c] = "open"
    BY <1>3 DEF TypeOK, Check, Dial, SendTCPF, Verify, Reconnected, Install, Abandon, At, Goto
  <2>2. /\ StepsLeft(c) = 8 * left + AttemptLeft[pc[c]]
        /\ StepsLeft(c)' = 8 * left + AttemptLeft[pc'[c]]
    BY <2>1 DEF StepsLeft
  <2> QED BY <1>1, <1>2, <2>1, <2>2
<1>4. CASE OpenStrm(c) \/ CallerFail(c)
  <2>1. /\ pc[c] \in {"open", "fail"}
        /\ \/ pc'[c] = "idle"
           \/ pc'[c] = "check" /\ try'[c] = t + 1 /\ t + 1 < MaxRetries
    BY <1>4 DEF TypeOK, OpenStrm, CallerFail, Retry, At, Goto
  <2>2. StepsLeft(c) = 8 * left + 1
    BY <1>2, <2>1 DEF StepsLeft
  <2>3. CASE pc'[c] = "idle"
    <3>1. StepsLeft(c)' = 0
      BY <2>3 DEF StepsLeft
    <3> QED BY <1>1, <2>2, <3>1
  <2>4. CASE pc'[c] = "check" /\ try'[c] = t + 1 /\ t + 1 < MaxRetries
    <3>1. StepsLeft(c)' = 8 * (MaxRetries - 1 - (t + 1)) + 7
      BY <1>2, <2>4 DEF StepsLeft
    <3> QED BY <1>1, <2>2, <3>1
  <2> QED BY <2>1, <2>3, <2>4
<1> QED BY <1>3, <1>4 DEF CallerStep

\* A step of another goroutine leaves a caller where it is.
LEMMA OthersLeaveCaller ==
  ASSUME TypeOK, [Next]_vars, NEW c \in Callers, pc[c] # "idle", ~CallerStep(c)
  PROVE  pc'[c] = pc[c] /\ try'[c] = try[c]
<1>1. ASSUME NEW d \in Callers, d # c, Request(d) \/ CallerStep(d)
      PROVE  pc'[c] = pc[c] /\ try'[c] = try[c]
  BY <1>1 DEF TypeOK, Request, CallerStep, Check, Dial, SendTCPF, Verify, Reconnected, Install,
              OpenStrm, CallerFail, Abandon, Retry, Goto
<1>2. ~Request(c)
  BY DEF Request, At
<1>3. CASE ~ \E d \in Callers : Request(d) \/ CallerStep(d)
  BY <1>3 DEF Next, HealthStep, Environment, HealthTick, HealthPing, HealthFail,
         HealthClose, HealthStop, SessionDies, NetChange, NetCalms, Cancel,
         TimedClose, vars, caller
<1> QED BY <1>1, <1>2, <1>3

\* A request runs out of steps, at most eight for each of maxRetries attempts,
\* whatever the network and the other goroutines do meanwhile: no failure, lost race
\* or connection that dies under it gives an attempt back (RequestsReturn).
THEOREM RequestsRunOut ==
  Spec => [][\A c \in Callers : pc[c] # "idle" =>
               /\ StepsLeft(c) \in 0 .. 8 * MaxRetries
               /\ \/ StepsLeft(c)' < StepsLeft(c)
                  \/ pc'[c] = pc[c] /\ try'[c] = try[c]]_vars
<1> DEFINE RunsOut == \A c \in Callers : pc[c] # "idle" =>
               /\ StepsLeft(c) \in 0 .. 8 * MaxRetries
               /\ \/ StepsLeft(c)' < StepsLeft(c)
                  \/ pc'[c] = pc[c] /\ try'[c] = try[c]
<1>1. ASSUME TypeOK, [Next]_vars
      PROVE  RunsOut
  <2> SUFFICES ASSUME NEW c \in Callers, pc[c] # "idle"
               PROVE  /\ StepsLeft(c) \in 0 .. 8 * MaxRetries
                      /\ \/ StepsLeft(c)' < StepsLeft(c)
                         \/ pc'[c] = pc[c] /\ try'[c] = try[c]
    OBVIOUS
  <2>1. StepsLeft(c) \in 0 .. 8 * MaxRetries
    <3>1. AttemptLeft[pc[c]] \in 0 .. 7
      BY <1>1 DEF TypeOK, PCs, AttemptLeft
    <3>2. try[c] \in 0 .. MaxRetries - 1 /\ MaxRetries \in Nat \ {0}
      BY <1>1, MaxRetriesAssumption DEF TypeOK
    <3>3. StepsLeft(c) = 8 * (MaxRetries - 1 - try[c]) + AttemptLeft[pc[c]]
      BY DEF StepsLeft
    <3> QED BY <3>1, <3>2, <3>3
  <2> QED BY <1>1, <2>1, CallerAdvances, OthersLeaveCaller
<1> HIDE DEF RunsOut
<1>2. Spec => [][RunsOut]_vars
  BY <1>1, TypeCorrect, PTL DEF Spec
<1> QED BY <1>2 DEF RunsOut

\* At the start the tunnel is the slot's item and nobody has asked for it.
LEMMA SlotInit == Init => Slot!Init
<1> SUFFICES ASSUME Init PROVE Slot!Init
  OBVIOUS
<1>1. UsableConn \in Conns \cup {NoConn}
  BY InitEstablishes DEF IInv, TypeOK, UsableConn
<1>2. Handed = [c \in Callers |-> NoConn]
  BY DEF Init, Handed
<1>3. QED
  BY <1>1, <1>2 DEF Slot!Init

\* Whoever changes neither what is handed out nor tc.conn, and brings no dead
\* connection back, lets the slot's item stay or drop.
LEMMA SlotStaysOrDrops ==
  ASSUME IInv, UNCHANGED <<tcConn, Handed>>,
         sess'[tcConn] => sess[tcConn]
  PROVE  Slot!Next \/ UNCHANGED Slot!vars
<1>1. CASE UsableConn' = UsableConn
  BY <1>1 DEF Slot!vars
<1>2. CASE UsableConn' # UsableConn
  <2>1. UsableConn # NoConn /\ UsableConn' = NoConn
    BY <1>2, NoConnAssumption DEF UsableConn, IInv, TypeOK
  <2>2. QED
    BY <2>1 DEF Slot!Next, Slot!Drop
<1>3. QED
  BY <1>1, <1>2

\* A caller's step up to the last look at tc.conn is invisible or a Get, ...
LEMMA CallerMapsBefore ==
  ASSUME IInv, NEW c \in Callers,
         Request(c) \/ Check(c) \/ Dial(c) \/ SendTCPF(c) \/ Verify(c) \/ Reconnected(c)
           \/ CallerFail(c)
  PROVE  Slot!Next \/ UNCHANGED Slot!vars
<1> USE DEF At, Goto
<1>1. CASE Check(c) /\ sess[tcConn]
  <2>1. UsableConn = tcConn /\ UsableConn' = UsableConn /\ UsableConn # NoConn
    BY <1>1, NoConnAssumption DEF Check, conns, UsableConn, IInv, TypeOK
  <2>2. Handed[c] = NoConn /\ Handed' = [Handed EXCEPT ![c] = UsableConn]
    BY <1>1, <2>1 DEF Check, Handed, IInv, TypeOK
  <2>3. QED
    BY <2>1, <2>2 DEF Slot!Next, Slot!Get
<1>2. CASE ~(Check(c) /\ sess[tcConn])
  <2>1. Handed' = Handed
    BY <1>2 DEF Request, Check, Dial, SendTCPF, Verify, Reconnected, CallerFail, Abandon,
                Retry, Handed, IInv, TypeOK, caller
  <2>2. tcConn' = tcConn
    BY DEF Request, Check, Dial, SendTCPF, Verify, Reconnected, CallerFail, conns
  <2>3. sess'[tcConn] => sess[tcConn]
    BY DEF Request, Check, Dial, SendTCPF, Verify, Reconnected, CallerFail, Abandon, Close,
           Referenced, conns, IInv, TypeOK
  <2>4. QED
    BY <2>1, <2>2, <2>3, SlotStaysOrDrops
<1>3. QED
  BY <1>1, <1>2

\* ... the second look is a Make or a Get, ...
LEMMA InstallMaps ==
  ASSUME IInv, NEW c \in Callers, Install(c)
  PROVE  Slot!Next
<1> USE DEF Install, At, Goto
<1>0. Owns(c) /\ loc[c] \in Conns
  BY NoConnAssumption DEF Owns, IInv, TypeOK, LocalsAssigned
<1>1. Handed[c] = NoConn
  BY DEF Handed
<1>2. CASE ~sess[tcConn] /\ tcConn' = loc[c] /\ UNCHANGED <<sess, sock, combo, loc>>
  <2>1. UsableConn = NoConn /\ UsableConn' \in {loc[c], NoConn}
    BY <1>2 DEF UsableConn
  <2>2. Handed' = [Handed EXCEPT ![c] = loc[c]]
    BY <1>2 DEF Handed, IInv, TypeOK
  <2>3. loc[c] \in Conns \ {Handed[d] : d \in Callers}
    BY <1>0, NoConnAssumption DEF Handed, IInv, OwnersAlone, Owns
  <2>4. QED
    BY <1>1, <2>1, <2>2, <2>3 DEF Slot!Next, Slot!Make
<1>3. CASE sess[tcConn] /\ Close(loc[c]) /\ loc' = [loc EXCEPT ![c] = tcConn] /\ tcConn' = tcConn
  <2>1. UsableConn = tcConn /\ UsableConn' = tcConn /\ tcConn # NoConn
    BY <1>0, <1>3, NoConnAssumption DEF UsableConn, Close, IInv, TypeOK, OwnersAlone
  <2>2. Handed' = [Handed EXCEPT ![c] = tcConn]
    BY <1>3 DEF Handed, IInv, TypeOK
  <2>3. QED
    BY <1>1, <2>1, <2>2 DEF Slot!Next, Slot!Get
<1>4. QED
  BY <1>2, <1>3

\* ... and opening a stream a Release.
LEMMA OpenStrmMaps ==
  ASSUME IInv, NEW c \in Callers, OpenStrm(c)
  PROVE  Slot!Next
<1> USE DEF OpenStrm, At, Goto
<1>1. Handed[c] # NoConn
  BY DEF Handed, IInv, LocalsAssigned
<1>2. Handed' = [Handed EXCEPT ![c] = NoConn]
  BY DEF Handed, Retry, IInv, TypeOK
<1>3. UsableConn' = UsableConn
  BY DEF UsableConn, conns
<1>4. QED
  BY <1>1, <1>2, <1>3 DEF Slot!Next, Slot!Release

\* The health check, the network and the shutdown can only drop the item.
LEMMA OthersMap ==
  ASSUME IInv, HealthTick \/ HealthStep \/ Environment
  PROVE  Slot!Next \/ UNCHANGED Slot!vars
<1>1. UNCHANGED <<tcConn, Handed>>
  BY DEF HealthTick, HealthStep, Environment, HealthPing, HealthFail, HealthClose, HealthStop,
         SessionDies, NetChange, NetCalms, Cancel, TimedClose, conns, caller, Handed
<1>2. sess'[tcConn] => sess[tcConn]
  BY DEF HealthTick, HealthStep, Environment, HealthPing, HealthFail, HealthClose, HealthStop,
         SessionDies, NetChange, NetCalms, Cancel, TimedClose, Close, conns, IInv, TypeOK
<1>3. QED
  BY <1>1, <1>2, SlotStaysOrDrops

\* Every step of the tunnel is a step of the slot or invisible to its users.
LEMMA SlotStep ==
  ASSUME IInv, [Next]_vars
  PROVE  [Slot!Next]_(Slot!vars)
<1>1. CASE \E c \in Callers : Request(c) \/ CallerStep(c)
  BY <1>1, CallerMapsBefore, InstallMaps, OpenStrmMaps DEF CallerStep
<1>2. CASE HealthTick \/ HealthStep \/ Environment
  BY <1>2, OthersMap
<1>3. CASE UNCHANGED vars
  BY <1>3 DEF vars, conns, caller, UsableConn, Handed, Slot!vars
<1>4. QED
  BY <1>1, <1>2, <1>3 DEF Next

\* newConn implements the slot: for any number of callers its two looks at
\* tc.conn, with a dial between them, are one atomic step to each of them.
THEOREM SlotImplemented == Spec => ImplementsSlot
<1>1. IInv /\ [Next]_vars => [Slot!Next]_(Slot!vars)
  BY SlotStep
<1>2. QED
  BY <1>1, SlotInit, Invariance, PTL DEF Spec, ImplementsSlot, Slot!Spec
=================================================================================

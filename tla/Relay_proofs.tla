----------------------------- MODULE Relay_proofs -----------------------------
(***************************************************************************)
(* What holds of a relay whatever its peers send, for any size of errCh.   *)
(***************************************************************************)
EXTENDS Relay, TLAPS

USE UnitsAssumption, ErrCapAssumption

\* How many copiers have reported.
Reported ==
  (IF copier["up"] = "gone" THEN 1 ELSE 0) + (IF copier["down"] = "gone" THEN 1 ELSE 0)

\* A report is sent once and received once: those in errCh and those the handler
\* has had are the reports of the copiers that are gone.
ReportsInv ==
  /\ errCh \in Nat /\ errCh <= Reported
  /\ h \in {"open", "select"} => errCh = Reported
  /\ h \in {"close1", "close2", "drain"} =>
       todo \in {1, 2} /\ errCh + 2 = Reported + todo

\* The handler waits for the copiers with both ends closed.
ClosedInv == h \in {"drain", "returned"} => \A e \in Ends : ~isOpen[e]

\* What copier d has read it has written, but for the unit in its hands.
CopierInv(d) ==
  /\ given[d] <= taken[d] /\ taken[d] <= sent[d]
  /\ copier[d] = "write" => taken[d] = given[d] + 1
  /\ copier[d] \in {"none", "read"} => taken[d] = given[d]
  /\ h = "open" => copier[d] = "none"

\* The direction has come to the end of its input and delivered all of it.
Complete(d) == eof[d] /\ given[d] = sent[d]

\* What may cut a direction off: from outside, or the end of the other one.
Disturbed == ~live \/ \E e \in Ends : broken[e]
OneComplete == \E o \in Dirs : copier[o] = "gone" /\ Complete(o)

\* Until one of these has happened both ends are open and a copier ends only with its
\* input delivered; or no copier has ever run.
CauseInv ==
  \/ Disturbed
  \/ OneComplete
  \/ /\ h \in {"open", "select"}
     /\ \A e \in Ends : isOpen[e]
     /\ \A d \in Dirs : copier[d] \in {"report", "gone"} => Complete(d)
  \/ \A d \in Dirs : copier[d] = "none" /\ h = "returned"

\* TypeOK alone is not inductive: that errCh holds no more than two reports, and so
\* never blocks a copier, needs ReportsInv, which counts them by who has reported.
IInv ==
  /\ TypeOK
  /\ ReportsInv
  /\ ClosedInv
  /\ \A d \in Dirs : CopierInv(d)
  /\ CauseInv

\* The invariant holds before the handler has opened its ends.
LEMMA InitInv == Init => IInv
BY DEF Init, IInv, TypeOK, ReportsInv, Reported, ClosedInv, CopierInv, CauseInv, Dirs

\* There are two copiers to report.
LEMMA ReportedBound == Reported \in 0 .. 2
BY DEF Reported

-------------------------------------------------------------------------------
\* The copiers.

\* A step of one copier leaves the other's variables, the handler and the ends.
LEMMA CopierFrame ==
  ASSUME NEW d \in Dirs, CopierStep(d), TypeOK
  PROVE  /\ UNCHANGED <<first, h, todo, live, isOpen, broken, sent, eof>>
         /\ \A e \in Dirs : e # d => /\ copier'[e] = copier[e]
                                     /\ taken'[e] = taken[e] /\ given'[e] = given[e]
BY DEF CopierStep, Read, ReadEOF, ReadError, Write, WriteError, Report, Become,
       ctl, ends, data, TypeOK

\* The step of copier d itself.
LEMMA CopierMoves ==
  ASSUME NEW d \in Dirs, CopierStep(d), TypeOK, CopierInv(d)
  PROVE  /\ CopierInv(d)'
         /\ copier'[d] \in {"read", "write", "report", "gone"}
         /\ taken'[d] \in 0 .. Units /\ given'[d] \in 0 .. Units
         /\ DOMAIN copier' = Dirs
<1>1. /\ sent[d] \in 0 .. Units /\ taken[d] \in 0 .. Units /\ given[d] \in 0 .. Units
      /\ d \in DOMAIN copier /\ d \in DOMAIN taken /\ d \in DOMAIN given
      /\ DOMAIN copier = Dirs
  BY DEF TypeOK
<1>2. CASE Read(d)
  BY <1>1, <1>2 DEF Read, Become, CopierInv, ctl, data, ends
<1>3. CASE ReadEOF(d)
  BY <1>1, <1>3 DEF ReadEOF, Become, CopierInv, ctl, data, ends
<1>4. CASE ReadError(d)
  BY <1>1, <1>4 DEF ReadError, Become, CopierInv, ctl, data, ends
<1>5. CASE Write(d)
  BY <1>1, <1>5 DEF Write, Become, CopierInv, ctl, data, ends
<1>6. CASE WriteError(d)
  BY <1>1, <1>6 DEF WriteError, Become, CopierInv, ctl, data, ends
<1>7. CASE Report(d)
  BY <1>1, <1>7 DEF Report, Become, CopierInv, ctl, data, ends
<1> QED BY <1>2, <1>3, <1>4, <1>5, <1>6, <1>7 DEF CopierStep

\* A copier that reports adds to errCh what it adds to Reported.
LEMMA CopierReports ==
  ASSUME NEW d \in Dirs, CopierStep(d), TypeOK
  PROVE  errCh' - errCh = Reported' - Reported
<1>1. copier \in [Dirs -> {"none", "read", "write", "report", "gone"}] /\ errCh \in 0 .. 2
  BY DEF TypeOK
<1>2. CASE Report(d)
  BY <1>1, <1>2 DEF Report, Become, Reported, Dirs
<1>3. CASE ~Report(d)
  <2>1. errCh' = errCh /\ \E s \in {"read", "write", "report"} : Become(d, s)
    BY <1>3 DEF CopierStep, Read, ReadEOF, ReadError, Write, WriteError
  <2>2. copier[d] # "gone"
    BY <1>3 DEF CopierStep, Read, ReadEOF, ReadError, Write, WriteError
  <2> QED BY <1>1, <2>1, <2>2 DEF Become, Reported, Dirs
<1> QED BY <1>2, <1>3

\* A copier that ends undisturbed has delivered its input; one that has ended so
\* stays as it is.
LEMMA CopierCause ==
  ASSUME NEW d \in Dirs, CopierStep(d), TypeOK, CauseInv,
         \A e \in Dirs : CopierInv(e)
  PROVE  CauseInv'
<1>1. /\ UNCHANGED <<first, h, todo, live, isOpen, broken, sent, eof>>
      /\ \A e \in Dirs : e # d => /\ copier'[e] = copier[e]
                                  /\ taken'[e] = taken[e] /\ given'[e] = given[e]
  BY CopierFrame
<1>2. copier[d] \in {"read", "write", "report"}
  BY DEF CopierStep, Read, ReadEOF, ReadError, Write, WriteError, Report
<1>3. CASE Disturbed
  BY <1>1, <1>3 DEF Disturbed, CauseInv
<1>4. CASE OneComplete
  <2>1. PICK o \in Dirs : copier[o] = "gone" /\ Complete(o)
    BY <1>4 DEF OneComplete
  <2>2. o # d
    BY <1>2, <2>1
  <2>3. copier'[o] = "gone" /\ Complete(o)'
    BY <1>1, <2>1, <2>2 DEF Complete
  <2> QED BY <2>3 DEF OneComplete, CauseInv
<1>5. CASE /\ ~Disturbed /\ h \in {"open", "select"}
           /\ \A e \in Ends : isOpen[e]
           /\ \A e \in Dirs : copier[e] \in {"report", "gone"} => Complete(e)
  <2>1. Usable(Src(d)) /\ Usable(Dst(d))
    BY <1>5 DEF Disturbed, Usable, Src, Dst, Ends
  <2>2. /\ d \in DOMAIN copier /\ sent[d] \in Nat /\ taken[d] \in Nat /\ given[d] \in Nat
        /\ CopierInv(d)
    BY DEF TypeOK
  <2>3. copier'[d] \in {"report", "gone"} => Complete(d)'
    <3>1. CASE Read(d) \/ Write(d)
      BY <2>2, <3>1 DEF Read, Write, Become
    <3>2. CASE ReadEOF(d)
      BY <2>2, <3>2 DEF ReadEOF, CopierInv, Complete, data
    <3>3. CASE Report(d)
      BY <1>5, <3>3 DEF Report, Complete, data
    <3>4. ~ReadError(d) /\ ~WriteError(d)
      BY <2>1 DEF ReadError, WriteError
    <3> QED BY <3>1, <3>2, <3>3, <3>4 DEF CopierStep
  <2>4. ASSUME NEW e \in Dirs, copier'[e] \in {"report", "gone"}
        PROVE  Complete(e)'
    BY <1>1, <1>5, <2>3, <2>4 DEF Complete
  <2> QED BY <1>1, <1>5, <2>4 DEF CauseInv
<1> QED BY <1>2, <1>3, <1>4, <1>5 DEF CauseInv

\* A step of a copier keeps the invariant.
LEMMA CopierKeeps ==
  ASSUME NEW d \in Dirs, CopierStep(d), IInv
  PROVE  IInv'
<1>1. /\ TypeOK /\ ReportsInv /\ ClosedInv /\ CauseInv
      /\ \A e \in Dirs : CopierInv(e)
  BY DEF IInv
<1>2. /\ UNCHANGED <<first, h, todo, live, isOpen, broken, sent, eof>>
      /\ \A e \in Dirs : e # d => /\ copier'[e] = copier[e]
                                  /\ taken'[e] = taken[e] /\ given'[e] = given[e]
  BY <1>1, CopierFrame
<1>3. \A e \in Dirs : CopierInv(e)'
  <2>1. ASSUME NEW e \in Dirs, e # d
        PROVE  CopierInv(e)'
    BY <1>1, <1>2, <2>1 DEF CopierInv
  <2> QED BY <1>1, <2>1, CopierMoves
<1>4. ReportsInv'
  <2>1. errCh \in 0 .. 2 /\ errCh' \in Int
    BY <1>1 DEF TypeOK, CopierStep, Read, ReadEOF, ReadError, Write, WriteError, Report
  <2>2. errCh' - errCh = Reported' - Reported
    BY <1>1, CopierReports
  <2>3. Reported \in 0 .. 2 /\ Reported' \in 0 .. 2
    BY DEF Reported
  <2>4. errCh' >= errCh
    BY <2>1 DEF CopierStep, Read, ReadEOF, ReadError, Write, WriteError, Report
  <2>5. h' = h /\ todo' = todo /\ todo \in 0 .. 2
    BY <1>1, <1>2 DEF TypeOK
  <2>6. /\ errCh <= Reported
        /\ h \in {"open", "select"} => errCh = Reported
        /\ h \in {"close1", "close2", "drain"} => todo \in {1, 2} /\ errCh + 2 = Reported + todo
    BY <1>1 DEF ReportsInv
  <2>7. errCh' \in Nat /\ errCh' <= Reported'
    BY <2>1, <2>2, <2>3, <2>4, <2>6
  <2>8. h \in {"open", "select"} => errCh' = Reported'
    BY <2>1, <2>2, <2>3, <2>6
  <2>9. h \in {"close1", "close2", "drain"} => errCh' + 2 = Reported' + todo
    BY <2>1, <2>2, <2>3, <2>5, <2>6
  <2> QED BY <2>5, <2>6, <2>7, <2>8, <2>9 DEF ReportsInv
<1>5. ClosedInv'
  BY <1>1, <1>2 DEF ClosedInv
<1>6. TypeOK'
  <2>1. errCh' \in 0 .. 2
    BY <1>4 DEF ReportsInv, Reported
  <2>2. copier' \in [Dirs -> {"none", "read", "write", "report", "gone"}]
    BY <1>1 DEF TypeOK, CopierStep, Read, ReadEOF, ReadError, Write, WriteError, Report, Become
  <2>4. taken' = taken \/ taken' = [taken EXCEPT ![d] = taken[d] + 1]
    BY DEF CopierStep, Read, ReadEOF, ReadError, Write, WriteError, Report, data
  <2>5. given' = given \/ given' = [given EXCEPT ![d] = given[d] + 1]
    BY DEF CopierStep, Read, ReadEOF, ReadError, Write, WriteError, Report, data
  <2>6. taken'[d] \in 0 .. Units /\ given'[d] \in 0 .. Units
    BY <1>1, CopierMoves
  <2>7. taken' \in [Dirs -> 0 .. Units] /\ given' \in [Dirs -> 0 .. Units]
    BY <1>1, <2>4, <2>5, <2>6 DEF TypeOK
  <2> QED BY <1>1, <1>2, <2>1, <2>2, <2>7 DEF TypeOK
<1>7. CauseInv'
  BY <1>1, CopierCause
<1> QED BY <1>3, <1>4, <1>5, <1>6, <1>7 DEF IInv

-------------------------------------------------------------------------------
\* The handler.

\* The handler touches the copiers only to start them.
LEMMA HandlerKeeps ==
  ASSUME HandlerStep, IInv
  PROVE  IInv'
<1> USE DEF IInv
<1>1. CASE Open
  <2>1. \A d \in Dirs : copier[d] = "none" /\ copier'[d] = "read"
    BY <1>1 DEF Open, CopierInv
  <2>2. Reported = 0 /\ Reported' = 0
    BY <2>1 DEF Reported, Dirs
  <2>3. UNCHANGED <<first, todo, live, isOpen, broken, sent, eof, taken, given, errCh>>
        /\ h = "open" /\ h' = "select" /\ copier' = [d \in Dirs |-> "read"]
    BY <1>1 DEF Open, ends, data
  <2>4. TypeOK'
    BY <2>3 DEF TypeOK
  <2>5. ReportsInv' /\ ClosedInv'
    BY <2>2, <2>3 DEF ReportsInv, ClosedInv
  <2>6. \A d \in Dirs : CopierInv(d)'
    BY <2>1, <2>3 DEF CopierInv
  <2>7. CauseInv'
    <3>1. CASE Disturbed
      BY <2>3, <3>1 DEF Disturbed, CauseInv
    <3>2. ~OneComplete
      BY <2>1 DEF OneComplete
    <3>3. CASE /\ \A e \in Ends : isOpen[e]
               /\ h \in {"open", "select"}
      BY <2>1, <2>3, <3>3 DEF CauseInv
    <3> QED BY <2>3, <3>1, <3>2, <3>3 DEF CauseInv, Dirs
  <2> QED BY <2>4, <2>5, <2>6, <2>7
<1>2. CASE OpenFails \/ FirstReport \/ Cancelled \/ CloseFirst \/ CloseSecond
             \/ Drain \/ DrainTimeout
  <2>1. UNCHANGED <<first, live, broken, copier, sent, eof, taken, given>>
        /\ h' # "open"
    BY <1>2 DEF OpenFails, FirstReport, Cancelled, CloseFirst, CloseSecond, Drain,
                DrainTimeout, ends, data
  <2>2. \A d \in Dirs : CopierInv(d)'
    BY <2>1 DEF CopierInv
  <2>3. Reported' = Reported /\ Reported \in 0 .. 2
    BY <2>1 DEF Reported
  <2>4. ReportsInv'
    <3>1. errCh \in 0 .. 2 /\ todo \in 0 .. 2
      BY DEF TypeOK
    <3>2. CASE OpenFails \/ CloseFirst \/ CloseSecond
      BY <2>3, <3>1, <3>2 DEF OpenFails, CloseFirst, CloseSecond, ReportsInv
    <3>3. CASE FirstReport \/ Cancelled
      BY <2>3, <3>1, <3>3 DEF FirstReport, Cancelled, ReportsInv
    <3>4. CASE Drain \/ DrainTimeout
      BY <2>3, <3>1, <3>4 DEF Drain, DrainTimeout, ReportsInv
    <3> QED BY <1>2, <3>2, <3>3, <3>4
  <2>5. ClosedInv' /\ isOpen' \in [Ends -> BOOLEAN]
    <3>1. isOpen \in [Ends -> BOOLEAN]
      BY DEF TypeOK
    <3> QED BY <1>2, <3>1 DEF OpenFails, FirstReport, Cancelled, CloseFirst, CloseSecond,
              Drain, DrainTimeout, ClosedInv, ends
  <2>6. TypeOK'
    <3>1. errCh' \in 0 .. 2
      BY <2>3, <2>4 DEF ReportsInv
    <3>2. todo' \in 0 .. 2
      BY <1>2 DEF OpenFails, FirstReport, Cancelled, CloseFirst, CloseSecond, Drain,
                  DrainTimeout, TypeOK, ReportsInv
    <3>3. h' \in {"select", "close1", "close2", "drain", "returned"}
      BY <1>2 DEF OpenFails, FirstReport, Cancelled, CloseFirst, CloseSecond, Drain,
                  DrainTimeout
    <3> QED BY <2>1, <2>5, <3>1, <3>2, <3>3 DEF TypeOK
  <2>7. CauseInv'
    <3>1. CASE Disturbed
      BY <2>1, <3>1 DEF Disturbed, CauseInv
    <3>2. CASE OneComplete
      BY <2>1, <3>2 DEF OneComplete, Complete, CauseInv
    <3>3. CASE /\ ~Disturbed /\ h \in {"open", "select"}
               /\ \A d \in Dirs : copier[d] \in {"report", "gone"} => Complete(d)
      <4>1. CASE OpenFails
        <5>1. \A d \in Dirs : copier'[d] = "none" /\ h' = "returned"
          BY <2>1, <4>1 DEF OpenFails, CopierInv
        <5> QED BY <5>1 DEF CauseInv
      <4>2. CASE FirstReport
        <5>1. errCh \in Nat /\ errCh > 0 /\ errCh <= Reported
          BY <4>2 DEF FirstReport, ReportsInv
        <5>2. \E d \in Dirs : copier[d] = "gone"
          BY <5>1 DEF Reported, Dirs
        <5>3. OneComplete
          BY <3>3, <5>2 DEF OneComplete
        <5> QED BY <2>1, <5>3 DEF OneComplete, Complete, CauseInv
      <4> QED BY <1>2, <3>3, <4>1, <4>2 DEF Cancelled, CloseFirst, CloseSecond, Drain,
                                         DrainTimeout, Disturbed
    <3>4. CASE \A d \in Dirs : copier[d] = "none" /\ h = "returned"
      BY <1>2, <3>4 DEF OpenFails, FirstReport, Cancelled, CloseFirst, CloseSecond, Drain,
                        DrainTimeout, Dirs
    <3> QED BY <3>1, <3>2, <3>3, <3>4 DEF CauseInv
  <2> QED BY <2>2, <2>4, <2>5, <2>6, <2>7
<1> QED BY <1>1, <1>2 DEF HandlerStep

-------------------------------------------------------------------------------
\* The peers and the shutdown.

\* A peer that sends more has not ended, so its direction is not complete yet.
LEMMA PeersKeep ==
  ASSUME IInv, \/ \E d \in Dirs : PeerSends(d) \/ PeerEnds(d)
               \/ \E e \in Ends : Breaks(e)
               \/ Cancel \/ UNCHANGED vars
  PROVE  IInv'
<1> USE DEF IInv
<1>1. UNCHANGED <<first, h, todo, isOpen, copier, taken, given, errCh>>
  BY DEF PeerSends, PeerEnds, Breaks, Cancel, vars, ctl, ends, data
<1>2. ReportsInv' /\ ClosedInv'
  BY <1>1 DEF ReportsInv, Reported, ClosedInv
<1>3. TypeOK'
  <2>1. sent' \in [Dirs -> 0 .. Units]
    BY DEF PeerSends, PeerEnds, Breaks, Cancel, vars, data, TypeOK
  <2>2. eof' \in [Dirs -> BOOLEAN]
    BY DEF PeerSends, PeerEnds, Breaks, Cancel, vars, data, TypeOK
  <2>3. broken' \in [Ends -> BOOLEAN]
    BY DEF PeerSends, PeerEnds, Breaks, Cancel, vars, ends, TypeOK
  <2>4. live' \in BOOLEAN
    BY DEF PeerSends, PeerEnds, Breaks, Cancel, vars, TypeOK
  <2> QED BY <1>1, <2>1, <2>2, <2>3, <2>4 DEF TypeOK
<1>4. ASSUME NEW d \in Dirs
      PROVE  CopierInv(d)'
  <2>1. /\ sent[d] \in 0 .. Units /\ taken[d] \in 0 .. Units /\ given[d] \in 0 .. Units
        /\ eof[d] \in BOOLEAN /\ CopierInv(d)
    BY DEF TypeOK
  <2>2. \/ sent'[d] = sent[d] /\ (eof[d] => eof'[d])
        \/ ~eof[d] /\ sent'[d] = sent[d] + 1 /\ eof'[d] = eof[d]
    BY <1>1 DEF PeerSends, PeerEnds, Breaks, Cancel, vars, ctl, ends, data, TypeOK
  <2> QED BY <1>1, <2>1, <2>2 DEF CopierInv
<1>5. ASSUME NEW d \in Dirs, Complete(d)
      PROVE  Complete(d)'
  BY <1>1, <1>5 DEF Complete, PeerSends, PeerEnds, Breaks, Cancel, vars, ctl, ends, data, TypeOK
<1>6. Disturbed => Disturbed'
  BY DEF Disturbed, PeerSends, PeerEnds, Breaks, Cancel, vars, ctl, ends, data, TypeOK
<1>7. CauseInv'
  BY <1>1, <1>5, <1>6 DEF CauseInv, OneComplete
<1> QED BY <1>2, <1>3, <1>4, <1>7

-------------------------------------------------------------------------------
\* What follows.

\* The invariant.
THEOREM Invariance == Spec => []IInv
<1>1. IInv /\ [Next]_vars => IInv'
  BY CopierKeeps, HandlerKeeps, PeersKeep DEF Next
<1> QED BY <1>1, InitInv, PTL DEF Spec

\* The type invariant; that errCh never holds more than the two reports, whatever
\* its capacity, is not for the types alone to show.
THEOREM TypeCorrect == Spec => []TypeOK
<1>1. IInv => TypeOK
  BY DEF IInv
<1> QED BY <1>1, Invariance, PTL

\* A handler that has returned leaves both ends closed.
THEOREM EndsClosed == Spec => []ReturnedClosed
<1>1. IInv => ReturnedClosed
  BY DEF IInv, ClosedInv, ReturnedClosed
<1> QED BY <1>1, Invariance, PTL

\* A direction that ended short of what its peer sent was cut off by the shutdown, by
\* a broken end, or by the other direction, which had delivered all of its input.
THEOREM CutsHaveCause == Spec => []DeliversUnlessCut
<1>1. IInv => DeliversUnlessCut
  <2> SUFFICES ASSUME IInv, NEW d \in Dirs,
                      copier[d] \in {"report", "gone"}, given[d] < sent[d]
               PROVE  Disturbed \/ OneComplete
    BY DEF DeliversUnlessCut, Disturbed, OneComplete, Complete
  <2>1. sent[d] \in Nat /\ given[d] \in Nat
    BY DEF IInv, TypeOK
  <2>2. ~Complete(d) /\ copier[d] # "none"
    BY <2>1 DEF Complete
  <2> QED BY <2>2 DEF IInv, CauseInv
<1> QED BY <1>1, Invariance, PTL

\* With a place for each copier in errCh, as in the code, a report never has to
\* wait, not even when the handler has returned: this is why no copier stays
\* behind (CopiersExit).
THEOREM ReportsHaveRoom ==
  ErrCap >= 2 => (Spec => [](\A d \in Dirs : copier[d] = "report" => errCh < ErrCap))
<1> DEFINE Room == \A d \in Dirs : copier[d] = "report" => errCh < ErrCap
<1> SUFFICES ASSUME ErrCap >= 2
             PROVE  Spec => []Room
  OBVIOUS
<1>1. IInv => Room
  <2> SUFFICES ASSUME IInv, NEW d \in Dirs, copier[d] = "report"
               PROVE  errCh < ErrCap
    OBVIOUS
  <2>1. Reported <= 1
    BY DEF Reported, Dirs
  <2> QED BY <2>1, ReportedBound DEF IInv, ReportsInv
<1> QED BY <1>1, Invariance, PTL
===============================================================================

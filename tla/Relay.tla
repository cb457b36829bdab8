--------------------------------- MODULE Relay ---------------------------------
(***************************************************************************)
(* The relay between a socket ("conn") and a tunnel stream ("strm").  The  *)
(* same code stands in four places: the server's handleTCP and handleUDP,  *)
(* the forwarder's handleTCPConn and the SOCKS5 handleTCPConnect.  Two     *)
(* goroutines copy, one per direction, and report to errCh; the handler    *)
(* waits for the first report or the context, closes both ends, waits for  *)
(* the rest up to two seconds and returns.  A unit is what one Read gives. *)
(***************************************************************************)
EXTENDS Integers

CONSTANTS
  Units,    \* bound on the units each peer sends
  ErrCap    \* capacity of errCh (2)

ASSUME UnitsAssumption == Units \in Nat
ASSUME ErrCapAssumption == ErrCap \in Nat

Dirs == {"up", "down"}       \* socket to stream, stream to socket
Ends == {"conn", "strm"}
Src(d) == IF d = "up" THEN "conn" ELSE "strm"
Dst(d) == IF d = "up" THEN "strm" ELSE "conn"

VARIABLES
  first,    \* what closeBoth closes first: the stream in SOCKS5, else the socket
  h,        \* the handler: open, select, close1, close2, drain, returned
  todo,     \* reports the handler still waits for after closing
  live,     \* the context is not done
  isOpen,   \* isOpen[e]: we have not closed end e
  broken,   \* broken[e]: the peer of e reset it, or the tunnel died
  copier,   \* copier[d]: none, read, write, report, gone
  sent,     \* sent[d]: units d's peer has sent
  eof,      \* eof[d]: d's peer has sent all it will
  taken,    \* taken[d]: units read from d's source
  given,    \* given[d]: units written to d's destination
  errCh     \* number of reports in errCh

ctl == <<first, h, todo>>
ends == <<isOpen, broken>>
data == <<sent, eof, taken, given>>
vars == <<ctl, live, ends, copier, data, errCh>>

Init ==
  /\ first \in Ends
  /\ h = "open"
  /\ todo = 0
  /\ live = TRUE
  /\ isOpen = [e \in Ends |-> TRUE]
  /\ broken = [e \in Ends |-> FALSE]
  /\ copier = [d \in Dirs |-> "none"]
  /\ sent = [d \in Dirs |-> 0]
  /\ eof = [d \in Dirs |-> FALSE]
  /\ taken = [d \in Dirs |-> 0]
  /\ given = [d \in Dirs |-> 0]
  /\ errCh = 0

Usable(e) == isOpen[e] /\ ~broken[e]

-------------------------------------------------------------------------------
\* The copying goroutines: buffer.CopyT and CopyU.

Become(d, s) == copier' = [copier EXCEPT ![d] = s]

Read(d) ==
  /\ copier[d] = "read"
  /\ taken[d] < sent[d]
  /\ taken' = [taken EXCEPT ![d] = @ + 1]
  /\ Become(d, "write")
  /\ UNCHANGED <<ctl, live, ends, sent, eof, given, errCh>>

\* The peer has ended and everything it sent is read.
ReadEOF(d) ==
  /\ copier[d] = "read"
  /\ eof[d]
  /\ taken[d] = sent[d]
  /\ Become(d, "report")
  /\ UNCHANGED <<ctl, live, ends, data, errCh>>

ReadError(d) ==
  /\ copier[d] = "read"
  /\ ~Usable(Src(d))
  /\ Become(d, "report")
  /\ UNCHANGED <<ctl, live, ends, data, errCh>>

Write(d) ==
  /\ copier[d] = "write"
  /\ Usable(Dst(d))
  /\ given' = [given EXCEPT ![d] = @ + 1]
  /\ Become(d, "read")
  /\ UNCHANGED <<ctl, live, ends, sent, eof, taken, errCh>>

\* What was read is lost.
WriteError(d) ==
  /\ copier[d] = "write"
  /\ ~Usable(Dst(d))
  /\ Become(d, "report")
  /\ UNCHANGED <<ctl, live, ends, data, errCh>>

\* Mutant: the copy's error is reported, and its end once more.
ReportTwice(d) ==
  /\ copier[d] = "report"
  /\ errCh < ErrCap
  /\ errCh' = errCh + 2
  /\ Become(d, "gone")
  /\ UNCHANGED <<ctl, live, ends, data>>

\* Mutant: errCh without a buffer is received from by the handler only.
ReportUnbuffered(d) ==
  /\ copier[d] = "report"
  /\ h \in {"select", "drain"}
  /\ errCh' = errCh + 1
  /\ Become(d, "gone")
  /\ UNCHANGED <<ctl, live, ends, data>>

Report(d) ==
  /\ copier[d] = "report"
  /\ errCh < ErrCap
  /\ errCh' = errCh + 1
  /\ Become(d, "gone")
  /\ UNCHANGED <<ctl, live, ends, data>>

CopierStep(d) ==
  \/ Read(d) \/ ReadEOF(d) \/ ReadError(d) \/ Write(d) \/ WriteError(d) \/ Report(d)

-------------------------------------------------------------------------------
\* The handler.

\* Mutant: closeBoth is called where it should be deferred.
OpenClosesAtOnce ==
  /\ h = "open"
  /\ h' = "close1"
  /\ todo' = 2
  /\ copier' = [d \in Dirs |-> "read"]
  /\ UNCHANGED <<first, live, ends, data, errCh>>

\* The other side is opened: a dial on the server, a stream on the client.
Open ==
  /\ h = "open"
  /\ h' = "select"
  /\ copier' = [d \in Dirs |-> "read"]
  /\ UNCHANGED <<first, todo, live, ends, data, errCh>>

\* It is not, or not in time; the caller's deferred Close ends our side.
OpenFails ==
  /\ h = "open"
  /\ h' = "returned"
  /\ isOpen' = [e \in Ends |-> FALSE]
  /\ UNCHANGED <<first, todo, live, broken, copier, data, errCh>>

\* The first report: one more to wait for after closing.
FirstReport ==
  /\ h = "select"
  /\ errCh > 0
  /\ errCh' = errCh - 1
  /\ todo' = 1
  /\ h' = "close1"
  /\ UNCHANGED <<first, live, ends, copier, data>>

\* Mutant: the context's end is seen but not acted on.
CancelledIgnored ==
  /\ h = "select"
  /\ ~live
  /\ UNCHANGED vars

\* The context is done: both reports are still to come.
Cancelled ==
  /\ h = "select"
  /\ ~live
  /\ todo' = 2
  /\ h' = "close1"
  /\ UNCHANGED <<first, live, ends, copier, data, errCh>>

\* Mutant: the cancelled handler waits for the copiers without closing the ends.
CloseFirstSkipped ==
  /\ h = "close1"
  /\ h' = IF live THEN "close2" ELSE "drain"
  /\ isOpen' = IF live THEN [isOpen EXCEPT ![first] = FALSE] ELSE isOpen
  /\ UNCHANGED <<first, todo, live, broken, copier, data, errCh>>

\* closeBoth, one end ...
CloseFirst ==
  /\ h = "close1"
  /\ h' = "close2"
  /\ isOpen' = [isOpen EXCEPT ![first] = FALSE]
  /\ UNCHANGED <<first, todo, live, broken, copier, data, errCh>>

\* ... and the other.
CloseSecond ==
  /\ h = "close2"
  /\ h' = "drain"
  /\ isOpen' = [e \in Ends |-> FALSE]
  /\ UNCHANGED <<first, todo, live, broken, copier, data, errCh>>

\* The remaining reports ...
Drain ==
  /\ h = "drain"
  /\ errCh > 0
  /\ errCh' = errCh - 1
  /\ todo' = todo - 1
  /\ h' = IF todo = 1 THEN "returned" ELSE "drain"
  /\ UNCHANGED <<first, live, ends, copier, data>>

\* ... or two seconds without one.
DrainTimeout ==
  /\ h = "drain"
  /\ h' = "returned"
  /\ todo' = 0
  /\ UNCHANGED <<first, live, ends, copier, data, errCh>>

HandlerStep ==
  Open \/ OpenFails \/ FirstReport \/ Cancelled \/ CloseFirst \/ CloseSecond
    \/ Drain \/ DrainTimeout

-------------------------------------------------------------------------------
\* The peers and the shutdown.

PeerSends(d) ==
  /\ ~eof[d]
  /\ sent[d] < Units
  /\ sent' = [sent EXCEPT ![d] = @ + 1]
  /\ UNCHANGED <<ctl, live, ends, copier, eof, taken, given, errCh>>

PeerEnds(d) ==
  /\ ~eof[d]
  /\ eof' = [eof EXCEPT ![d] = TRUE]
  /\ UNCHANGED <<ctl, live, ends, copier, sent, taken, given, errCh>>

Breaks(e) ==
  /\ ~broken[e]
  /\ broken' = [broken EXCEPT ![e] = TRUE]
  /\ UNCHANGED <<ctl, live, isOpen, copier, data, errCh>>

Cancel ==
  /\ live
  /\ live' = FALSE
  /\ UNCHANGED <<ctl, ends, copier, data, errCh>>

Next ==
  \/ \E d \in Dirs : CopierStep(d) \/ PeerSends(d) \/ PeerEnds(d)
  \/ HandlerStep
  \/ \E e \in Ends : Breaks(e)
  \/ Cancel

Spec == Init /\ [][Next]_vars

\* Goroutines run; peers need not do anything.
Fairness == WF_vars(HandlerStep) /\ \A d \in Dirs : WF_vars(CopierStep(d))

FairSpec == Spec /\ Fairness

-------------------------------------------------------------------------------
\* Properties.

TypeOK ==
  /\ first \in Ends
  /\ h \in {"open", "select", "close1", "close2", "drain", "returned"}
  /\ todo \in 0 .. 2
  /\ live \in BOOLEAN
  /\ isOpen \in [Ends -> BOOLEAN]
  /\ broken \in [Ends -> BOOLEAN]
  /\ copier \in [Dirs -> {"none", "read", "write", "report", "gone"}]
  /\ sent \in [Dirs -> 0 .. Units]
  /\ eof \in [Dirs -> BOOLEAN]
  /\ taken \in [Dirs -> 0 .. Units]
  /\ given \in [Dirs -> 0 .. Units]
  /\ errCh \in 0 .. 2

\* A handler that has returned leaves both ends closed, on every path: by
\* error, end of input, shutdown, and after a drain that timed out.
ReturnedClosed == h = "returned" => \A e \in Ends : ~isOpen[e]

\* A direction that ends short of what its peer sent was cut off by the shutdown, by
\* an end that broke, or because the other direction had come to the end of its
\* input and delivered all of it: the handler closes the ends for nothing else.
\* The code does cut in the last case: closeBoth runs before the other copier has
\* written what it holds, although tcp_handle.go:78-81 says that this is waited for.
DeliversUnlessCut ==
  \A d \in Dirs : copier[d] \in {"report", "gone"} /\ given[d] < sent[d] =>
    \/ ~live
    \/ \E e \in Ends : broken[e]
    \/ \E o \in Dirs : copier[o] = "gone" /\ eof[o] /\ given[o] = sent[o]

\* No copying goroutine outlives its handler for good: after a drain that
\* timed out the late report still finds room in errCh.
CopiersExit == h = "returned" ~> \A d \in Dirs : copier[d] \in {"none", "gone"}

\* One direction's end, or the shutdown, ends the relay.
RelayEnds ==
  (h # "open" /\ (~live \/ \E d \in Dirs : copier[d] = "gone")) ~> h = "returned"
================================================================================

------------------------------- MODULE PacketConn -------------------------------
(***************************************************************************)
(* socket.PacketConn: New, which opens a pcap handle for each direction;   *)
(* recvLoop, which alone reads the one and copies each payload into a      *)
(* pooled buffer; the bounded channel recvCh; ReadFrom, which KCP calls    *)
(* from one goroutine; WriteTo, which many call, on the other handle; and  *)
(* Close.  The n-th payload read is the number n; a pooled buffer's memory *)
(* is modelled, because handing it back too early or twice would show only *)
(* as a packet with another packet's bytes.                                *)
(***************************************************************************)
EXTENDS Integers, Sequences

CONSTANTS
  Cap,        \* capacity of recvCh (64)
  Bufs,       \* buffers of payloadPool
  NoBuf,      \* poolBuf = nil: a payload larger than payloadPoolSize
  MaxPackets, \* bound on the packets that arrive
  Writers     \* goroutines that call WriteTo

ASSUME CapAssumption == Cap \in Nat \ {0}
ASSUME NoBufAssumption == NoBuf \notin Bufs
ASSUME MaxPacketsAssumption == MaxPackets \in Nat

VARIABLES
  life,    \* the PacketConn: new, half (the send handle is there), failed,
           \* open, closing, half closed, closed
  handles, \* the open pcap handles, of "send" and "recv"
  wr,      \* wr[w]: idle, past (the checks of WriteTo are behind it)
  loop,    \* recvLoop: none, read, send, done
  lpkt,    \* recvLoop's pkt
  count,   \* packets read so far
  mem,     \* mem[b]: which payload's bytes are in buffer b
  free,    \* the buffers in payloadPool
  recvCh,  \* the packets in the channel
  chOpen,  \* recvCh is not closed
  live,    \* c.ctx is not done
  rd,      \* ReadFrom: idle, wait, copy, put
  rpkt,    \* ReadFrom's pkt
  out      \* the payloads ReadFrom has returned, in order

loopVars == <<loop, lpkt, count>>
readVars == <<rd, rpkt, out>>
connVars == <<life, handles, wr>>
vars == <<connVars, loopVars, mem, free, recvCh, chOpen, live, readVars>>

\* A packet: the buffer it is in, or its own memory with the payload's number.
NoPkt == [buf |-> NoBuf, num |-> 0]
Data(pkt) == IF pkt.buf = NoBuf THEN pkt.num ELSE mem[pkt.buf]

Init ==
  /\ life = "new"
  /\ handles = {}
  /\ wr = [w \in Writers |-> "idle"]
  /\ loop = "none"
  /\ lpkt = NoPkt
  /\ count = 0
  /\ mem = [b \in Bufs |-> 0]
  /\ free = {}
  /\ recvCh = <<>>
  /\ chOpen = TRUE
  /\ live = TRUE
  /\ rd = "idle"
  /\ rpkt = NoPkt
  /\ out = <<>>

\* Buffers somebody refers to.
InUse ==
  {lpkt.buf, rpkt.buf} \cup {recvCh[n].buf : n \in DOMAIN recvCh}

\* payloadPool.Get: a buffer that was put, or a new one.
Gettable == free \cup (Bufs \ InUse)

\* Mutant: a packet without a pooled buffer puts nil.
PutAlways(pool, pkt) == pool \cup {pkt.buf}

\* payloadPool.Put, of nothing when poolBuf is nil.
Put(pool, pkt) == pool \cup ({pkt.buf} \ {NoBuf})

-------------------------------------------------------------------------------
\* recvLoop.

\* Read returns a payload; it is copied out of pcap's ring at once.
ReadPayload ==
  /\ loop = "read"
  /\ "recv" \in handles
  /\ count < MaxPackets
  /\ count' = count + 1
  /\ loop' = "send"
  /\ \/ \E b \in Gettable :
          /\ free' = free \ {b}
          /\ mem' = [mem EXCEPT ![b] = count + 1]
          /\ lpkt' = [buf |-> b, num |-> 0]
     \/ /\ lpkt' = [buf |-> NoBuf, num |-> count + 1]
        /\ UNCHANGED <<free, mem>>
  /\ UNCHANGED <<connVars, recvCh, chOpen, live, readVars>>

\* Mutant: the channel is left open.
ExitNoClose ==
  /\ loop' = "done"
  /\ chOpen' = chOpen
  /\ lpkt' = NoPkt

\* recvLoop returns; the deferred close(recvCh).
Exit ==
  /\ loop' = "done"
  /\ chOpen' = FALSE
  /\ lpkt' = NoPkt

\* The one-second pcap timeout or a frame that is not ours: the only place
\* where an idle loop sees the context.
ReadIdle ==
  /\ loop = "read"
  /\ "recv" \in handles
  /\ ~live
  /\ Exit
  /\ UNCHANGED <<connVars, count, mem, free, recvCh, live, readVars>>

\* A fatal pcap error, the closed handle's included.
ReadError ==
  /\ loop = "read"
  /\ Exit
  /\ UNCHANGED <<connVars, count, mem, free, recvCh, live, readVars>>

\* Mutant: the buffer goes back to the pool once it is in the channel.
SendThenPut ==
  /\ loop = "send"
  /\ Len(recvCh) < Cap
  /\ recvCh' = Append(recvCh, lpkt)
  /\ free' = Put(free, lpkt)
  /\ lpkt' = NoPkt
  /\ loop' = "read"
  /\ UNCHANGED <<connVars, count, mem, chOpen, live, readVars>>

\* The select's first case: room in recvCh.
Send ==
  /\ loop = "send"
  /\ Len(recvCh) < Cap
  /\ recvCh' = Append(recvCh, lpkt)
  /\ lpkt' = NoPkt
  /\ loop' = "read"
  /\ UNCHANGED <<connVars, count, mem, free, chOpen, live, readVars>>

\* Mutant: a plain send, with no case for the context.
SendBlocked ==
  /\ loop = "send"
  /\ ~live
  /\ Len(recvCh) < Cap
  /\ free' = Put(free, lpkt)
  /\ Exit
  /\ UNCHANGED <<connVars, count, mem, recvCh, live, readVars>>

\* Its second: the context is done, the packet is dropped.
SendCancelled ==
  /\ loop = "send"
  /\ ~live
  /\ free' = Put(free, lpkt)
  /\ Exit
  /\ UNCHANGED <<connVars, count, mem, recvCh, live, readVars>>

RecvLoop == ReadPayload \/ ReadIdle \/ ReadError \/ Send \/ SendCancelled

-------------------------------------------------------------------------------
\* ReadFrom.

\* Called; a read deadline that has passed already returns at once.
Call ==
  /\ rd = "idle"
  /\ loop # "none"
  /\ rd' = "wait"
  /\ UNCHANGED <<connVars, loopVars, mem, free, recvCh, chOpen, live, rpkt, out>>

\* The select: a packet ...
Receive ==
  /\ rd = "wait"
  /\ recvCh # <<>>
  /\ rpkt' = Head(recvCh)
  /\ recvCh' = Tail(recvCh)
  /\ rd' = "copy"
  /\ UNCHANGED <<connVars, loopVars, mem, free, chOpen, live, out>>

\* ... or the deadline: the packets stay in the channel ...
Timeout ==
  /\ rd = "wait"
  /\ rd' = "idle"
  /\ UNCHANGED <<connVars, loopVars, mem, free, recvCh, chOpen, live, rpkt, out>>

\* ... or the end: ctx.Done, or io.EOF once the channel is closed and empty.
ReadEnds ==
  /\ rd = "wait"
  /\ ~live \/ (~chOpen /\ recvCh = <<>>)
  /\ rd' = "idle"
  /\ UNCHANGED <<connVars, loopVars, mem, free, recvCh, chOpen, live, rpkt, out>>

\* The payload is copied to the caller's slice.
Copy ==
  /\ rd = "copy"
  /\ out' = Append(out, Data(rpkt))
  /\ rd' = "put"
  /\ UNCHANGED <<connVars, loopVars, mem, free, recvCh, chOpen, live, rpkt>>

\* The buffer goes back to the pool and ReadFrom returns.
PutBack ==
  /\ rd = "put"
  /\ free' = Put(free, rpkt)
  /\ rpkt' = NoPkt
  /\ rd' = "idle"
  /\ UNCHANGED <<connVars, loopVars, mem, recvCh, chOpen, live, out>>

ReadFrom == Receive \/ Timeout \/ ReadEnds \/ Copy \/ PutBack

-------------------------------------------------------------------------------
\* New.

\* NewSendHandle, or New fails: before the handle is open, or in SetDirection,
\* and then nobody closes it.
OpenSend ==
  /\ life = "new"
  /\ \/ life' = "half" /\ handles' = {"send"}
     \/ life' = "failed" /\ handles' \in {{}, {"send"}}
  /\ UNCHANGED <<wr, loopVars, mem, free, recvCh, chOpen, live, readVars>>

\* NewRecvHandle and the start of recvLoop, or New fails, likewise; it does not
\* close the send handle.
OpenRecv ==
  /\ life = "half"
  /\ \/ life' = "open" /\ handles' = {"send", "recv"} /\ loop' = "read"
     \/ life' = "failed" /\ handles' \in {{"send"}, {"send", "recv"}} /\ loop' = loop
  /\ UNCHANGED <<wr, lpkt, count, mem, free, recvCh, chOpen, live, readVars>>

-------------------------------------------------------------------------------
\* WriteTo.

\* The select: the context is not done and the deadline has not passed, now.
WriteCheck(w) ==
  /\ life \notin {"new", "half", "failed"}
  /\ wr[w] = "idle"
  /\ live
  /\ wr' = [wr EXCEPT ![w] = "past"]
  /\ UNCHANGED <<life, handles, loopVars, mem, free, recvCh, chOpen, live, readVars>>

\* SendHandle.Write ends in WritePacketData, or fails before it.
WritePacket(w) ==
  /\ wr[w] = "past"
  /\ wr' = [wr EXCEPT ![w] = "idle"]
  /\ UNCHANGED <<life, handles, loopVars, mem, free, recvCh, chOpen, live, readVars>>

-------------------------------------------------------------------------------
\* The end.

\* The context that New was given is done: the program stops.
ParentDone ==
  /\ live
  /\ live' = FALSE
  /\ UNCHANGED <<connVars, loopVars, mem, free, recvCh, chOpen, readVars>>

\* Close cancels the context ...
Close ==
  /\ life = "open"
  /\ life' = "closing"
  /\ live' = FALSE
  /\ UNCHANGED <<handles, wr, loopVars, mem, free, recvCh, chOpen, readVars>>

\* Mutant: the handle is closed before the context is cancelled.
CloseSendFirst ==
  /\ life \in {"open", "closing"}
  /\ handles' = handles \ {"send"}
  /\ life' = IF life = "closing" THEN "half closed" ELSE life
  /\ UNCHANGED <<wr, loopVars, mem, free, recvCh, chOpen, live, readVars>>

\* ... closes the send handle ...
CloseSend ==
  /\ life = "closing"
  /\ life' = "half closed"
  /\ handles' = handles \ {"send"}
  /\ UNCHANGED <<wr, loopVars, mem, free, recvCh, chOpen, live, readVars>>

\* ... and the other: Read fails from then on.
CloseRecv ==
  /\ life = "half closed"
  /\ life' = "closed"
  /\ handles' = handles \ {"recv"}
  /\ UNCHANGED <<wr, loopVars, mem, free, recvCh, chOpen, live, readVars>>

Next ==
  \/ OpenSend \/ OpenRecv \/ RecvLoop \/ Call \/ ReadFrom
  \/ \E w \in Writers : WriteCheck(w) \/ WritePacket(w)
  \/ ParentDone \/ Close \/ CloseSend \/ CloseRecv

Spec == Init /\ [][Next]_vars

\* recvLoop runs, Read returns within its one-second timeout and fails on a
\* closed handle, and a goroutine in ReadFrom's select is woken; packets,
\* deadlines, pcap errors and Close may never come.
Fairness ==
  /\ WF_vars(ReadIdle) /\ WF_vars("recv" \notin handles /\ ReadError)
  /\ WF_vars(Send) /\ WF_vars(SendCancelled)
  /\ WF_vars(Receive \/ ReadEnds \/ Copy \/ PutBack)

FairSpec == Spec /\ Fairness

-------------------------------------------------------------------------------
\* Properties.

Packet == [buf : Bufs \cup {NoBuf}, num : 0 .. MaxPackets]

TypeOK ==
  /\ life \in {"new", "half", "failed", "open", "closing", "half closed", "closed"}
  /\ handles \subseteq {"send", "recv"}
  /\ wr \in [Writers -> {"idle", "past"}]
  /\ loop \in {"none", "read", "send", "done"}
  /\ lpkt \in Packet
  /\ count \in 0 .. MaxPackets
  /\ mem \in [Bufs -> 0 .. MaxPackets]
  /\ free \in SUBSET Bufs
  /\ recvCh \in Seq(Packet)
  /\ chOpen \in BOOLEAN
  /\ live \in BOOLEAN
  /\ rd \in {"idle", "wait", "copy", "put"}
  /\ rpkt \in Packet
  /\ out \in Seq(0 .. MaxPackets)

\* The packets on their way to KCP, oldest first.
InFlight ==
  (IF rd = "copy" THEN <<rpkt>> ELSE <<>>) \o recvCh
    \o (IF loop = "send" THEN <<lpkt>> ELSE <<>>)

\* Every packet reaches KCP once, in order and with its own bytes, whatever
\* deadlines pass in between; only the shutdown drops one, the last.
InOrder ==
  LET delivered == Len(out)
      underway == Len(InFlight)
  IN  /\ \A n \in 1 .. delivered : out[n] = n
      /\ \A n \in 1 .. underway : Data(InFlight[n]) = delivered + n
      /\ delivered + underway = count \/ (~live /\ delivered + underway = count - 1)

\* Close ends recvLoop, so that a reconnect leaves no goroutine and no pcap
\* handle in use: not even a full channel that nobody reads any more holds it.
CloseEndsLoop == (~live /\ loop # "none") ~> loop = "done"

\* Close cancels before it closes: a write can meet the closed handle only if it
\* was past its checks when Close began; none that is called later, by KCP's
\* flushing of a session that goes on for a while, gets as far as the handle.
NoLateWrite ==
  [][\A w \in Writers : wr[w] = "idle" /\ wr'[w] = "past" => "send" \in handles]_vars

\* Nobody stays in ReadFrom after the end: neither after Close nor after a
\* pcap error, when packets may still be in the channel.
ReaderReleased == (rd = "wait" /\ (~live \/ loop = "done")) ~> rd = "idle"
================================================================================

--------------------------- MODULE PacketConn_proofs ---------------------------
(***************************************************************************)
(* What holds of a PacketConn's handles, and of the order and the bytes of *)
(* what ReadFrom returns, for any number of writers, buffers and packets.  *)
(***************************************************************************)
EXTENDS PacketConn, SequenceTheorems, TLAPS

-------------------------------------------------------------------------------
\* Types.

LEMMA DataType ==
  ASSUME TypeOK, NEW pkt \in Packet
  PROVE  Data(pkt) \in 0 .. MaxPackets
BY DEF Data, TypeOK, Packet

LEMMA PutType ==
  ASSUME NEW pool \in SUBSET Bufs, NEW pkt \in Packet
  PROVE  Put(pool, pkt) \in SUBSET Bufs
BY DEF Put, Packet

LEMMA NoPktType == NoPkt \in Packet
BY MaxPacketsAssumption DEF NoPkt, Packet

LEMMA TypeInit == Init => TypeOK
BY NoPktType, MaxPacketsAssumption DEF Init, TypeOK

LEMMA LoopTypes ==
  ASSUME TypeOK, RecvLoop
  PROVE  TypeOK'
<1>1. CASE ReadPayload
  <2>1. count \in 0 .. MaxPackets /\ count < MaxPackets
    BY <1>1 DEF ReadPayload, TypeOK
  <2>2. count + 1 \in 0 .. MaxPackets /\ 0 \in 0 .. MaxPackets
    BY <2>1, MaxPacketsAssumption
  <2> DEFINE next == count + 1
  <2>3. next \in 0 .. MaxPackets /\ mem \in [Bufs -> 0 .. MaxPackets] /\ free \in SUBSET Bufs
    BY <2>2 DEF TypeOK
  <2> HIDE DEF next
  <2>4. ASSUME NEW b \in Gettable, free' = free \ {b}, mem' = [mem EXCEPT ![b] = next],
               lpkt' = [buf |-> b, num |-> 0]
        PROVE  lpkt' \in Packet /\ free' \in SUBSET Bufs /\ mem' \in [Bufs -> 0 .. MaxPackets]
    <3>1. b \in Bufs
      BY <2>3 DEF Gettable
    <3> QED BY <2>2, <2>3, <2>4, <3>1 DEF Packet
  <2>5. ASSUME lpkt' = [buf |-> NoBuf, num |-> next], UNCHANGED <<free, mem>>
        PROVE  lpkt' \in Packet /\ free' \in SUBSET Bufs /\ mem' \in [Bufs -> 0 .. MaxPackets]
    BY <2>3, <2>5 DEF Packet
  <2>6. lpkt' \in Packet /\ free' \in SUBSET Bufs /\ mem' \in [Bufs -> 0 .. MaxPackets]
    <3>1. \/ \E b \in Gettable : /\ free' = free \ {b}
                                 /\ mem' = [mem EXCEPT ![b] = next]
                                 /\ lpkt' = [buf |-> b, num |-> 0]
          \/ lpkt' = [buf |-> NoBuf, num |-> next] /\ UNCHANGED <<free, mem>>
      BY <1>1 DEF ReadPayload, next
    <3> QED BY <2>4, <2>5, <3>1
  <2>7. count' \in 0 .. MaxPackets /\ loop' = "send"
    BY <1>1, <2>2 DEF ReadPayload
  <2>8. UNCHANGED <<connVars, recvCh, chOpen, live, readVars>>
    BY <1>1 DEF ReadPayload
  <2> QED BY <2>6, <2>7, <2>8 DEF TypeOK, connVars, readVars
<1>2. CASE ReadIdle \/ ReadError
  BY <1>2, NoPktType DEF ReadIdle, ReadError, Exit, TypeOK, connVars, readVars
<1>3. CASE Send
  <2>1. recvCh \in Seq(Packet) /\ lpkt \in Packet
    BY DEF TypeOK
  <2>2. Append(recvCh, lpkt) \in Seq(Packet)
    BY <2>1
  <2> QED BY <1>3, <2>2, NoPktType DEF Send, TypeOK, connVars, readVars
<1>4. CASE SendCancelled
  <2>1. Put(free, lpkt) \in SUBSET Bufs
    BY PutType DEF TypeOK
  <2> QED BY <1>4, <2>1, NoPktType DEF SendCancelled, Exit, TypeOK, connVars, readVars
<1> QED BY <1>1, <1>2, <1>3, <1>4 DEF RecvLoop

LEMMA ReaderTypes ==
  ASSUME TypeOK, Call \/ ReadFrom
  PROVE  TypeOK'
<1>1. CASE Call \/ Timeout \/ ReadEnds
  BY <1>1 DEF Call, Timeout, ReadEnds, TypeOK, connVars, loopVars
<1>2. CASE Receive
  <2>1. recvCh \in Seq(Packet) /\ recvCh # <<>>
    BY <1>2 DEF Receive, TypeOK
  <2>2. Head(recvCh) \in Packet /\ Tail(recvCh) \in Seq(Packet)
    BY <2>1
  <2> QED BY <1>2, <2>2 DEF Receive, TypeOK, connVars, loopVars
<1>3. CASE Copy
  <2>1. Data(rpkt) \in 0 .. MaxPackets /\ out \in Seq(0 .. MaxPackets)
    BY DataType DEF TypeOK
  <2>2. Append(out, Data(rpkt)) \in Seq(0 .. MaxPackets)
    BY <2>1
  <2> QED BY <1>3, <2>2 DEF Copy, TypeOK, connVars, loopVars
<1>4. CASE PutBack
  <2>1. Put(free, rpkt) \in SUBSET Bufs
    BY PutType DEF TypeOK
  <2> QED BY <1>4, <2>1, NoPktType DEF PutBack, TypeOK, connVars, loopVars
<1> QED BY <1>1, <1>2, <1>3, <1>4 DEF ReadFrom

LEMMA ConnTypes ==
  ASSUME TypeOK,
         \/ OpenSend \/ OpenRecv \/ ParentDone \/ Close \/ CloseSend \/ CloseRecv
         \/ \E w \in Writers : WriteCheck(w) \/ WritePacket(w)
  PROVE  TypeOK'
BY DEF TypeOK, OpenSend, OpenRecv, ParentDone, Close, CloseSend, CloseRecv, WriteCheck,
       WritePacket, connVars, loopVars, readVars

\* The type invariant.
THEOREM TypeCorrect == Spec => []TypeOK
<1>1. TypeOK /\ [Next]_vars => TypeOK'
  <2> SUFFICES ASSUME TypeOK, [Next]_vars PROVE TypeOK'
    OBVIOUS
  <2>1. CASE UNCHANGED vars
    BY <2>1 DEF TypeOK, vars, connVars, loopVars, readVars
  <2> QED BY <2>1, LoopTypes, ReaderTypes, ConnTypes DEF Next
<1> QED BY <1>1, TypeInit, PTL DEF Spec

-------------------------------------------------------------------------------
\* The handles.

\* Inductive: a PacketConn that exists and whose context is not done has not
\* begun to close, and it has its handles until then.
HandlesInv ==
  /\ life \in {"open", "closing"} => "send" \in handles
  /\ life \in {"closing", "half closed", "closed"} => ~live

LEMMA HandlesInit == Init => HandlesInv
BY DEF Init, HandlesInv

LEMMA HandlesStep == TypeOK /\ HandlesInv /\ [Next]_vars => HandlesInv'
<1> SUFFICES ASSUME TypeOK, HandlesInv, [Next]_vars PROVE HandlesInv'
  OBVIOUS
<1>1. CASE RecvLoop \/ Call \/ ReadFrom
  <2>1. UNCHANGED connVars /\ live' = live
    BY <1>1 DEF RecvLoop, ReadPayload, ReadIdle, ReadError, Send, SendCancelled, Call,
                ReadFrom, Receive, Timeout, ReadEnds, Copy, PutBack
  <2> QED BY <2>1 DEF HandlesInv, connVars
<1>2. CASE OpenSend
  BY <1>2 DEF OpenSend, HandlesInv
<1>3. CASE OpenRecv
  BY <1>3 DEF OpenRecv, HandlesInv
<1>4. CASE \E w \in Writers : WriteCheck(w) \/ WritePacket(w)
  <2>1. life' = life /\ handles' = handles /\ live' = live
    BY <1>4 DEF WriteCheck, WritePacket
  <2> QED BY <2>1 DEF HandlesInv
<1>5. CASE ParentDone
  BY <1>5 DEF ParentDone, HandlesInv, connVars
<1>6. CASE Close
  BY <1>6 DEF Close, HandlesInv
<1>7. CASE CloseSend \/ CloseRecv
  <2>1. life \in {"closing", "half closed"} /\ life' \in {"half closed", "closed"} /\ live' = live
    BY <1>7 DEF CloseSend, CloseRecv
  <2> QED BY <2>1 DEF HandlesInv
<1>8. CASE UNCHANGED vars
  BY <1>8 DEF vars, connVars, HandlesInv
<1> QED BY <1>1, <1>2, <1>3, <1>4, <1>5, <1>6, <1>7, <1>8 DEF Next

\* A write that starts once Close has closed the send handle goes no further
\* than its check of the context.
THEOREM WritesEndWithClose == Spec => NoLateWrite
<1> DEFINE Checked == \A w \in Writers :
             wr[w] = "idle" /\ wr'[w] = "past" => "send" \in handles
<1>1. TypeOK /\ HandlesInv /\ [Next]_vars => Checked
  <2> SUFFICES ASSUME TypeOK, HandlesInv, [Next]_vars,
                      NEW w \in Writers, wr[w] = "idle", wr'[w] = "past"
               PROVE  "send" \in handles
    OBVIOUS
  <2>1. CASE \E x \in Writers : WriteCheck(x)
    BY <2>1 DEF WriteCheck, HandlesInv, TypeOK
  <2>2. CASE \E x \in Writers : WritePacket(x)
    BY <2>2 DEF WritePacket, TypeOK
  <2>3. CASE RecvLoop \/ Call \/ ReadFrom
    <3>1. UNCHANGED connVars
      BY <2>3 DEF RecvLoop, ReadPayload, ReadIdle, ReadError, Send, SendCancelled, Call,
                  ReadFrom, Receive, Timeout, ReadEnds, Copy, PutBack
    <3> QED BY <3>1 DEF connVars
  <2>4. CASE OpenSend \/ OpenRecv \/ ParentDone \/ Close \/ CloseSend \/ CloseRecv
    BY <2>4 DEF OpenSend, OpenRecv, ParentDone, Close, CloseSend, CloseRecv, connVars
  <2>5. CASE UNCHANGED vars
    BY <2>5 DEF vars, connVars
  <2> QED BY <2>1, <2>2, <2>3, <2>4, <2>5 DEF Next
<1> QED BY <1>1, HandlesInit, HandlesStep, TypeCorrect, PTL DEF Spec, NoLateWrite
-------------------------------------------------------------------------------
\* The order of the packets.

\* How many payloads have left recvCh for KCP.
Taken == Len(out) + (IF rd = "copy" THEN 1 ELSE 0)

\* Inductive: what ReadFrom, recvCh and recvLoop hold continues what has been
\* delivered, and the last payload read may be gone once the context is done ...
OrderInv ==
  /\ \A n \in 1 .. Len(out) : out[n] = n
  /\ rd = "copy" => Data(rpkt) = Len(out) + 1
  /\ \A n \in 1 .. Len(recvCh) : Data(recvCh[n]) = Taken + n
  /\ loop = "send" => Data(lpkt) = count /\ count = Taken + Len(recvCh) + 1
  /\ loop # "send" =>
       \/ count = Taken + Len(recvCh)
       \/ ~live /\ loop = "done" /\ count = Taken + Len(recvCh) + 1

\* ... because nobody writes a buffer that is on its way: it is not in the pool,
\* and on its way once.
BufsInv ==
  /\ rpkt.buf \notin free /\ lpkt.buf \notin free
  /\ \A n \in 1 .. Len(recvCh) : recvCh[n].buf \notin free
  /\ rpkt.buf # NoBuf => rpkt.buf # lpkt.buf
  /\ \A n \in 1 .. Len(recvCh) : recvCh[n].buf # NoBuf =>
       /\ recvCh[n].buf # rpkt.buf
       /\ recvCh[n].buf # lpkt.buf
       /\ \A m \in 1 .. Len(recvCh) : recvCh[m].buf = recvCh[n].buf => m = n

\* recvLoop starts with the PacketConn, and once.
StartInv == life \in {"new", "half"} => loop = "none"

LEMMA StartInit == Init => StartInv
BY DEF Init, StartInv

LEMMA StartStep == StartInv /\ [Next]_vars => StartInv'
<1> SUFFICES ASSUME StartInv, [Next]_vars PROVE StartInv'
  OBVIOUS
<1>1. CASE RecvLoop \/ Call \/ ReadFrom
  <2>1. life' = life /\ (loop = "none" => loop' = "none")
    BY <1>1 DEF RecvLoop, ReadPayload, ReadIdle, ReadError, Send, SendCancelled, Call,
                ReadFrom, Receive, Timeout, ReadEnds, Copy, PutBack, connVars, loopVars
  <2> QED BY <2>1 DEF StartInv
<1>2. CASE OpenSend
  BY <1>2 DEF OpenSend, StartInv, loopVars
<1>3. CASE OpenRecv
  BY <1>3 DEF OpenRecv, StartInv
<1>4. CASE \E w \in Writers : WriteCheck(w) \/ WritePacket(w)
  <2>1. life' = life /\ loop' = loop
    BY <1>4 DEF WriteCheck, WritePacket, loopVars
  <2> QED BY <2>1 DEF StartInv
<1>5. CASE ParentDone \/ Close \/ CloseSend \/ CloseRecv \/ UNCHANGED vars
  <2>1. loop' = loop /\ (life' \in {"new", "half"} => life' = life)
    BY <1>5 DEF ParentDone, Close, CloseSend, CloseRecv, vars, connVars, loopVars
  <2> QED BY <2>1 DEF StartInv
<1> QED BY <1>1, <1>2, <1>3, <1>4, <1>5 DEF Next

LEMMA SizesType ==
  ASSUME TypeOK
  PROVE  /\ recvCh \in Seq(Packet) /\ lpkt \in Packet /\ rpkt \in Packet
         /\ free \subseteq Bufs /\ NoBuf \notin free
         /\ out \in Seq(0 .. MaxPackets)
         /\ count \in Nat /\ Len(recvCh) \in Nat /\ Len(out) \in Nat
         /\ Taken \in Nat
<1>1. /\ recvCh \in Seq(Packet) /\ lpkt \in Packet /\ rpkt \in Packet
      /\ free \subseteq Bufs /\ out \in Seq(0 .. MaxPackets) /\ count \in 0 .. MaxPackets
  BY DEF TypeOK
<1>2. count \in Nat
  BY <1>1, MaxPacketsAssumption
<1>3. Len(recvCh) \in Nat
  BY <1>1
<1>4. Len(out) \in Nat
  BY <1>1
<1>5. NoBuf \notin free
  BY <1>1, NoBufAssumption
<1>6. Taken \in Nat
  BY <1>4 DEF Taken
<1> QED BY <1>1, <1>2, <1>3, <1>4, <1>5, <1>6

LEMMA OrderInit == Init => OrderInv /\ BufsInv
BY DEF Init, OrderInv, BufsInv, Taken, NoPkt

\* recvLoop writes a buffer that nobody refers to.
LEMMA FreshBuffer ==
  ASSUME TypeOK, BufsInv, NEW b \in Gettable
  PROVE  /\ b \in Bufs /\ b # NoBuf
         /\ b # rpkt.buf
         /\ \A n \in 1 .. Len(recvCh) : b # recvCh[n].buf
<1>1. free \subseteq Bufs /\ recvCh \in Seq(Packet)
  BY DEF TypeOK
<1>2. DOMAIN recvCh = 1 .. Len(recvCh)
  BY <1>1
<1>3. CASE b \in free
  BY <1>1, <1>3, NoBufAssumption DEF BufsInv
<1>4. CASE b \in Bufs \ InUse
  BY <1>2, <1>4, NoBufAssumption DEF InUse
<1> QED BY <1>3, <1>4 DEF Gettable

LEMMA ReadPayloadKeepsOrder ==
  ASSUME TypeOK, OrderInv, BufsInv, ReadPayload
  PROVE  OrderInv' /\ BufsInv'
<1>1. /\ loop = "read" /\ loop' = "send" /\ count' = count + 1
      /\ UNCHANGED <<connVars, recvCh, chOpen, live, readVars>>
  BY DEF ReadPayload
<1>2. UNCHANGED <<recvCh, rd, rpkt, out>> /\ Taken' = Taken
  BY <1>1 DEF readVars, Taken
<1>3. count = Taken + Len(recvCh)
  BY <1>1 DEF OrderInv
<1>4. CASE lpkt' = [buf |-> NoBuf, num |-> count + 1] /\ UNCHANGED <<free, mem>>
  <2>1. Data(lpkt)' = count' /\ lpkt'.buf = NoBuf
    BY <1>1, <1>4 DEF Data
  <2>2. NoBuf \notin free
    BY NoBufAssumption DEF TypeOK
  <2>3. BufsInv'
    BY <1>2, <1>4, <2>1, <2>2 DEF BufsInv
  <2>4. Data(rpkt)' = Data(rpkt) /\ \A n \in 1 .. Len(recvCh) : Data(recvCh[n])' = Data(recvCh[n])
    BY <1>2, <1>4 DEF Data
  <2>5. OrderInv'
    BY <1>1, <1>2, <1>3, <2>1, <2>4 DEF OrderInv
  <2> QED BY <2>3, <2>5
<1>5. ASSUME NEW b \in Gettable, free' = free \ {b}, mem' = [mem EXCEPT ![b] = count + 1],
             lpkt' = [buf |-> b, num |-> 0]
      PROVE  OrderInv' /\ BufsInv'
  <2>1. /\ b \in Bufs /\ b # NoBuf /\ b # rpkt.buf
        /\ \A n \in 1 .. Len(recvCh) : b # recvCh[n].buf
    BY FreshBuffer
  <2>2. mem \in [Bufs -> 0 .. MaxPackets]
    BY DEF TypeOK
  <2>3. lpkt'.buf = b /\ mem'[b] = count + 1
    BY <1>5, <2>1, <2>2
  <2>4. Data(lpkt)' = count'
    BY <1>1, <2>1, <2>3 DEF Data
  <2>5. \A p \in Packet : p.buf # b /\ p.buf # NoBuf => mem'[p.buf] = mem[p.buf]
    BY <1>5, <2>2 DEF Packet
  <2>6. rpkt \in Packet /\ \A n \in 1 .. Len(recvCh) : recvCh[n] \in Packet
    <3>1. rpkt \in Packet /\ recvCh \in Seq(Packet)
      BY DEF TypeOK
    <3> QED BY <3>1
  <2>7. Data(rpkt)' = Data(rpkt)
    BY <1>2, <2>1, <2>5, <2>6 DEF Data
  <2>8. \A n \in 1 .. Len(recvCh) : Data(recvCh[n])' = Data(recvCh[n])
    BY <1>2, <2>1, <2>5, <2>6 DEF Data
  <2>9. OrderInv'
    BY <1>1, <1>2, <1>3, <2>4, <2>7, <2>8 DEF OrderInv
  <2>10. BufsInv'
    BY <1>2, <1>5, <2>1, <2>3 DEF BufsInv
  <2> QED BY <2>9, <2>10
<1> QED BY <1>4, <1>5 DEF ReadPayload

\* recvLoop's other steps hand the packet on, drop it at the end, or end.
LEMMA LoopKeepsOrder ==
  ASSUME TypeOK, OrderInv, BufsInv, ReadIdle \/ ReadError \/ Send \/ SendCancelled
  PROVE  OrderInv' /\ BufsInv'
<1>1. recvCh \in Seq(Packet) /\ Len(recvCh) \in Nat /\ Len(out) \in Nat /\ Taken \in Nat
  BY SizesType
<1>2. NoBuf \notin free /\ count \in Nat
  BY SizesType
<1>3. CASE ReadIdle \/ ReadError
  <2>1. /\ loop = "read" /\ loop' = "done" /\ lpkt' = NoPkt
        /\ UNCHANGED <<count, mem, free, recvCh, live, rd, rpkt, out>>
    BY <1>3 DEF ReadIdle, ReadError, Exit, readVars
  <2>2. BufsInv'
    BY <1>2, <2>1 DEF BufsInv, NoPkt
  <2>3. OrderInv'
    BY <2>1 DEF OrderInv, Taken, Data
  <2> QED BY <2>2, <2>3
<1>4. CASE Send
  <2>1. /\ loop = "send" /\ loop' = "read" /\ lpkt' = NoPkt
        /\ recvCh' = Append(recvCh, lpkt)
        /\ UNCHANGED <<count, mem, free, live, rd, rpkt, out>>
    BY <1>4 DEF Send, readVars
  <2>2. /\ Len(recvCh') = Len(recvCh) + 1
        /\ \A n \in 1 .. Len(recvCh) : recvCh'[n] = recvCh[n]
        /\ recvCh'[Len(recvCh) + 1] = lpkt
    BY <1>1, <2>1
  <2>3. \A n \in 1 .. Len(recvCh') : n \in 1 .. Len(recvCh) \/ n = Len(recvCh) + 1
    BY <1>1, <2>2
  <2>4. BufsInv'
    BY <1>2, <2>1, <2>2, <2>3 DEF BufsInv, NoPkt
  <2>5. Taken' = Taken /\ Data(lpkt) = Taken + (Len(recvCh) + 1)
    <3>1. Taken' = Taken
      BY <2>1 DEF Taken
    <3>2. Data(lpkt) = count /\ count = Taken + Len(recvCh) + 1
      BY <2>1 DEF OrderInv
    <3> QED BY <1>1, <3>1, <3>2
  <2>6. \A n \in 1 .. Len(recvCh') : Data(recvCh[n])' = Taken' + n
    BY <2>1, <2>2, <2>3, <2>5 DEF OrderInv, Data
  <2>7. count = Taken + Len(recvCh')
    <3>1. count = Taken + Len(recvCh) + 1
      BY <2>1 DEF OrderInv
    <3> QED BY <1>1, <2>2, <3>1
  <2>8. Data(rpkt)' = Data(rpkt)
    BY <2>1 DEF Data
  <2>9. OrderInv'
    BY <2>1, <2>5, <2>6, <2>7, <2>8 DEF OrderInv
  <2> QED BY <2>4, <2>9
<1>5. CASE SendCancelled
  <2>1. /\ loop = "send" /\ loop' = "done" /\ lpkt' = NoPkt /\ ~live
        /\ free' = free \cup ({lpkt.buf} \ {NoBuf})
        /\ UNCHANGED <<count, mem, recvCh, live, rd, rpkt, out>>
    BY <1>5 DEF SendCancelled, Exit, Put, readVars
  <2>2. BufsInv'
    BY <1>2, <2>1 DEF BufsInv, NoPkt
  <2>3. OrderInv'
    BY <2>1 DEF OrderInv, Taken, Data
  <2> QED BY <2>2, <2>3
<1> QED BY <1>3, <1>4, <1>5

\* ReadFrom takes the oldest packet, and hands back a buffer that is nobody
\* else's.
LEMMA ReaderKeepsOrder ==
  ASSUME TypeOK, OrderInv, BufsInv, Call \/ ReadFrom
  PROVE  OrderInv' /\ BufsInv'
<1>1. recvCh \in Seq(Packet) /\ rpkt \in Packet /\ count \in Nat
  BY SizesType
<1>2. NoBuf \notin free
  BY SizesType
<1>3. Len(recvCh) \in Nat /\ Len(out) \in Nat /\ out \in Seq(0 .. MaxPackets)
  BY SizesType
<1>4. CASE Call \/ Timeout \/ ReadEnds
  <2>1. /\ rd \in {"idle", "wait"} /\ rd' \in {"idle", "wait"}
        /\ UNCHANGED <<loop, lpkt, count, mem, free, recvCh, live, rpkt, out>>
    BY <1>4 DEF Call, Timeout, ReadEnds, loopVars
  <2>2. BufsInv'
    BY <2>1 DEF BufsInv
  <2>3. OrderInv'
    BY <2>1 DEF OrderInv, Taken, Data
  <2> QED BY <2>2, <2>3
<1>5. CASE Receive
  <2>1. /\ rd = "wait" /\ rd' = "copy" /\ recvCh # <<>>
        /\ rpkt' = Head(recvCh) /\ recvCh' = Tail(recvCh)
        /\ UNCHANGED <<loop, lpkt, count, mem, free, live, out>>
    BY <1>5 DEF Receive, loopVars
  <2>2. /\ Len(recvCh) >= 1 /\ rpkt' = recvCh[1]
        /\ Len(recvCh') = Len(recvCh) - 1
        /\ \A n \in 1 .. Len(recvCh') : recvCh'[n] = recvCh[n + 1]
    BY <1>1, <2>1
  <2>3. \A n \in 1 .. Len(recvCh') : n + 1 \in 1 .. Len(recvCh) /\ n + 1 # 1
    BY <1>3, <2>2
  <2>4. BufsInv'
    <3>1. 1 \in 1 .. Len(recvCh)
      BY <1>3, <2>2
    <3>2. \A m, n \in 1 .. Len(recvCh') : m + 1 = n + 1 => m = n
      BY <1>3, <2>2
    <3> QED BY <2>1, <2>2, <2>3, <3>1, <3>2 DEF BufsInv
  <2>5. Taken = Len(out) /\ Taken' = Len(out) + 1
    BY <1>3, <2>1 DEF Taken
  <2>6. Data(rpkt)' = Len(out) + 1
    BY <1>3, <2>1, <2>2, <2>5 DEF OrderInv, Data
  <2>7. \A n \in 1 .. Len(recvCh') : Data(recvCh[n])' = Taken' + n
    <3>1. \A n \in 1 .. Len(recvCh') : Data(recvCh[n])' = Data(recvCh[n + 1])
      BY <2>1, <2>2 DEF Data
    <3>2. \A n \in 1 .. Len(recvCh') : Data(recvCh[n + 1]) = Taken + (n + 1)
      BY <2>3 DEF OrderInv
    <3>3. ASSUME NEW n \in 1 .. Len(recvCh')
          PROVE  Data(recvCh[n])' = Taken' + n
      <4>1. Data(recvCh[n])' = Taken + (n + 1)
        BY <3>1, <3>2
      <4>2. Taken + (n + 1) = Taken' + n
        BY <1>3, <2>2, <2>5
      <4> QED BY <4>1, <4>2
    <3> QED BY <3>3
  <2>8. Taken' + Len(recvCh') = Taken + Len(recvCh)
    BY <1>3, <2>2, <2>5
  <2>9. Data(lpkt)' = Data(lpkt)
    BY <2>1 DEF Data
  <2>10. OrderInv'
    BY <2>1, <2>6, <2>7, <2>8, <2>9 DEF OrderInv
  <2> QED BY <2>4, <2>10
<1>6. CASE Copy
  <2>1. /\ rd = "copy" /\ rd' = "put" /\ out' = Append(out, Data(rpkt))
        /\ UNCHANGED <<loop, lpkt, count, mem, free, recvCh, live, rpkt>>
    BY <1>6 DEF Copy, loopVars
  <2>2. /\ Len(out') = Len(out) + 1
        /\ \A n \in 1 .. Len(out) : out'[n] = out[n]
        /\ out'[Len(out) + 1] = Data(rpkt)
    BY <1>3, <2>1
  <2>3. \A n \in 1 .. Len(out') : out'[n] = n
    <3>1. \A n \in 1 .. Len(out') : n \in 1 .. Len(out) \/ n = Len(out) + 1
      BY <1>3, <2>2
    <3> QED BY <2>1, <2>2, <3>1 DEF OrderInv
  <2>4. Taken' = Taken
    BY <1>3, <2>1, <2>2 DEF Taken
  <2>5. OrderInv'
    BY <2>1, <2>3, <2>4 DEF OrderInv, Data
  <2>6. BufsInv'
    BY <2>1 DEF BufsInv
  <2> QED BY <2>5, <2>6
<1>7. CASE PutBack
  <2>1. /\ rd = "put" /\ rd' = "idle" /\ rpkt' = NoPkt
        /\ free' = free \cup ({rpkt.buf} \ {NoBuf})
        /\ UNCHANGED <<loop, lpkt, count, mem, recvCh, live, out>>
    BY <1>7 DEF PutBack, Put, loopVars
  <2>2. BufsInv'
    BY <1>2, <2>1 DEF BufsInv, NoPkt
  <2>3. OrderInv'
    BY <2>1 DEF OrderInv, Taken, Data
  <2> QED BY <2>2, <2>3
<1> QED BY <1>4, <1>5, <1>6, <1>7 DEF ReadFrom

LEMMA ConnKeepsOrder ==
  ASSUME StartInv, OrderInv, BufsInv,
         \/ OpenSend \/ OpenRecv \/ ParentDone \/ Close \/ CloseSend \/ CloseRecv
         \/ \E w \in Writers : WriteCheck(w) \/ WritePacket(w)
         \/ UNCHANGED vars
  PROVE  OrderInv' /\ BufsInv'
<1>1. CASE \/ OpenSend \/ ParentDone \/ Close \/ CloseSend \/ CloseRecv
           \/ \E w \in Writers : WriteCheck(w) \/ WritePacket(w)
           \/ UNCHANGED vars
  <2>1. UNCHANGED <<loop, lpkt, count, mem, free, recvCh, rd, rpkt, out>>
    BY <1>1 DEF OpenSend, ParentDone, Close, CloseSend, CloseRecv, WriteCheck,
                WritePacket, vars, connVars, loopVars, readVars
  <2>2. ~live => ~live'
    BY <1>1 DEF OpenSend, ParentDone, Close, CloseSend, CloseRecv, WriteCheck,
                WritePacket, vars, connVars, loopVars, readVars
  <2>3. OrderInv'
    BY <2>1, <2>2 DEF OrderInv, Taken, Data
  <2>4. BufsInv'
    BY <2>1 DEF BufsInv
  <2> QED BY <2>3, <2>4
<1>2. CASE OpenRecv
  <2>1. /\ loop' \in {loop, "read"}
        /\ UNCHANGED <<lpkt, count, mem, free, recvCh, live, rd, rpkt, out>>
    BY <1>2 DEF OpenRecv, readVars
  <2>2. loop' = "read" => loop \in {"none", "read"}
    BY <1>2 DEF OpenRecv, StartInv
  <2>3. OrderInv'
    BY <2>1, <2>2 DEF OrderInv, Taken, Data
  <2>4. BufsInv'
    BY <2>1 DEF BufsInv
  <2> QED BY <2>3, <2>4
<1> QED BY <1>1, <1>2

LEMMA OrderStep ==
  TypeOK /\ StartInv /\ OrderInv /\ BufsInv /\ [Next]_vars => OrderInv' /\ BufsInv'
<1> SUFFICES ASSUME TypeOK, StartInv, OrderInv, BufsInv, [Next]_vars
             PROVE  OrderInv' /\ BufsInv'
  OBVIOUS
<1>1. CASE RecvLoop
  BY <1>1, ReadPayloadKeepsOrder, LoopKeepsOrder DEF RecvLoop
<1>2. CASE Call \/ ReadFrom
  BY <1>2, ReaderKeepsOrder
<1>3. CASE \/ OpenSend \/ OpenRecv \/ ParentDone \/ Close \/ CloseSend \/ CloseRecv
           \/ \E w \in Writers : WriteCheck(w) \/ WritePacket(w)
           \/ UNCHANGED vars
  BY <1>3, ConnKeepsOrder
<1> QED BY <1>1, <1>2, <1>3 DEF Next

\* The packets on their way, one by one.
LEMMA UnderWay ==
  ASSUME TypeOK
  PROVE  LET a == IF rd = "copy" THEN 1 ELSE 0
             b == IF loop = "send" THEN 1 ELSE 0
         IN  /\ Len(InFlight) = a + Len(recvCh) + b
             /\ \A n \in 1 .. Len(InFlight) :
                  InFlight[n] = IF n <= a THEN rpkt
                                ELSE IF n <= a + Len(recvCh) THEN recvCh[n - a]
                                ELSE lpkt
<1> DEFINE a == IF rd = "copy" THEN 1 ELSE 0
           b == IF loop = "send" THEN 1 ELSE 0
           first == IF rd = "copy" THEN <<rpkt>> ELSE <<>>
           last == IF loop = "send" THEN <<lpkt>> ELSE <<>>
<1>1. rpkt \in Packet /\ lpkt \in Packet /\ recvCh \in Seq(Packet)
  BY DEF TypeOK
<1>2. first \in Seq(Packet) /\ Len(first) = a /\ \A n \in 1 .. a : first[n] = rpkt
  BY <1>1
<1>3. last \in Seq(Packet) /\ Len(last) = b /\ \A n \in 1 .. b : last[n] = lpkt
  BY <1>1
<1>4. a \in {0, 1} /\ b \in {0, 1} /\ Len(recvCh) \in Nat
  BY <1>1
<1>5. InFlight = (first \o recvCh) \o last
  BY DEF InFlight
<1> HIDE DEF a, b, first, last
<1>6. /\ first \o recvCh \in Seq(Packet)
      /\ Len(first \o recvCh) = a + Len(recvCh)
      /\ \A n \in 1 .. a + Len(recvCh) :
           (first \o recvCh)[n] = IF n <= a THEN first[n] ELSE recvCh[n - a]
  BY <1>1, <1>2, ConcatProperties
<1>7. /\ Len(InFlight) = a + Len(recvCh) + b
      /\ \A n \in 1 .. a + Len(recvCh) + b :
           InFlight[n] = IF n <= a + Len(recvCh) THEN (first \o recvCh)[n]
                         ELSE last[n - (a + Len(recvCh))]
  <2> DEFINE front == first \o recvCh
             m == a + Len(recvCh)
  <2>1. front \in Seq(Packet) /\ Len(front) = m
    BY <1>6
  <2>2. InFlight = front \o last
    BY <1>5
  <2> HIDE DEF front, m
  <2>3. /\ Len(InFlight) = m + b
        /\ \A n \in 1 .. m + b :
             InFlight[n] = IF n <= m THEN front[n] ELSE last[n - m]
    BY <1>3, <2>1, <2>2, ConcatProperties
  <2> QED BY <2>3 DEF front, m
<1>8. ASSUME NEW n \in 1 .. Len(InFlight)
      PROVE  InFlight[n] = IF n <= a THEN rpkt
                           ELSE IF n <= a + Len(recvCh) THEN recvCh[n - a]
                           ELSE lpkt
  <2>1. n \in 1 .. a + Len(recvCh) + b
    BY <1>7, <1>8
  <2>2. CASE n <= a
    <3>1. n \in 1 .. a /\ n \in 1 .. a + Len(recvCh)
      BY <1>4, <2>1, <2>2
    <3> QED BY <1>2, <1>6, <1>7, <2>1, <2>2, <3>1
  <2>3. CASE ~(n <= a) /\ n <= a + Len(recvCh)
    <3>1. n \in 1 .. a + Len(recvCh)
      BY <1>4, <2>1, <2>3
    <3> QED BY <1>6, <1>7, <2>1, <2>3, <3>1
  <2>4. CASE ~(n <= a + Len(recvCh))
    <3>1. n - (a + Len(recvCh)) \in 1 .. b /\ ~(n <= a)
      BY <1>4, <2>1, <2>4
    <3> QED BY <1>3, <1>7, <2>1, <2>4, <3>1
  <2> QED BY <2>2, <2>3, <2>4
<1> QED BY <1>7, <1>8 DEF a, b

LEMMA OrderGivesInOrder == TypeOK /\ OrderInv => InOrder
<1> SUFFICES ASSUME TypeOK, OrderInv PROVE InOrder
  OBVIOUS
<1> DEFINE a == IF rd = "copy" THEN 1 ELSE 0
           b == IF loop = "send" THEN 1 ELSE 0
           sent == Len(out)
           queued == Len(recvCh)
<1>1. sent \in Nat /\ queued \in Nat /\ count \in Nat
  BY SizesType
<1>2. Taken = sent + a /\ a \in {0, 1} /\ b \in {0, 1}
  BY DEF Taken
<1>3. /\ Len(InFlight) = a + queued + b
      /\ \A n \in 1 .. Len(InFlight) :
           InFlight[n] = IF n <= a THEN rpkt
                         ELSE IF n <= a + queued THEN recvCh[n - a]
                         ELSE lpkt
  BY UnderWay
<1>4. a = 1 => Data(rpkt) = sent + 1
  BY DEF OrderInv
<1>5. \A n \in 1 .. queued : Data(recvCh[n]) = Taken + n
  BY DEF OrderInv
<1>6. b = 1 => Data(lpkt) = count /\ count = Taken + queued + 1
  BY DEF OrderInv
<1>7. b = 0 => count = Taken + queued \/ (~live /\ count = Taken + queued + 1)
  BY DEF OrderInv
<1>8. \A n \in 1 .. sent : out[n] = n
  BY DEF OrderInv
<1> HIDE DEF a, b, sent, queued
<1>9. ASSUME NEW n \in 1 .. Len(InFlight)
      PROVE  Data(InFlight[n]) = sent + n
  <2>1. n \in 1 .. a + queued + b
    BY <1>3, <1>9
  <2>2. CASE n <= a
    <3>1. a = 1 /\ n = 1
      BY <1>1, <1>2, <2>1, <2>2
    <3>2. InFlight[n] = rpkt
      BY <1>3, <1>9, <2>2
    <3> QED BY <1>4, <3>1, <3>2
  <2>3. CASE ~(n <= a) /\ n <= a + queued
    <3>1. n - a \in 1 .. queued
      BY <1>1, <1>2, <2>1, <2>3
    <3>2. InFlight[n] = recvCh[n - a]
      BY <1>3, <1>9, <2>3
    <3>3. Data(recvCh[n - a]) = Taken + (n - a)
      BY <1>5, <3>1
    <3>4. Taken + (n - a) = sent + n
      BY <1>1, <1>2, <2>1
    <3> QED BY <3>2, <3>3, <3>4
  <2>4. CASE ~(n <= a + queued)
    <3>1. b = 1 /\ n = a + queued + 1 /\ ~(n <= a)
      BY <1>1, <1>2, <2>1, <2>4
    <3>2. InFlight[n] = lpkt
      BY <1>3, <1>9, <2>4, <3>1
    <3>3. Data(lpkt) = Taken + queued + 1
      BY <1>6, <3>1
    <3>4. Taken + queued + 1 = sent + n
      BY <1>1, <1>2, <3>1
    <3> QED BY <3>2, <3>3, <3>4
  <2> QED BY <2>2, <2>3, <2>4
<1>10. sent + Len(InFlight) = count \/ (~live /\ sent + Len(InFlight) = count - 1)
  <2>1. CASE b = 1
    BY <1>1, <1>2, <1>3, <1>6, <2>1
  <2>2. CASE b = 0
    <3>1. sent + Len(InFlight) = Taken + queued
      BY <1>1, <1>2, <1>3, <2>2
    <3>2. count = Taken + queued => sent + Len(InFlight) = count
      BY <3>1
    <3>3. count = Taken + queued + 1 => sent + Len(InFlight) = count - 1
      BY <1>1, <1>2, <3>1
    <3> QED BY <1>7, <2>2, <3>2, <3>3
  <2> QED BY <1>2, <2>1, <2>2
<1> QED BY <1>8, <1>9, <1>10 DEF InOrder, sent

\* Whatever deadlines, errors and shutdown do in between, KCP is given the
\* payloads in the order they were read, each once and with its own bytes:
\* nobody writes a pooled buffer between recvLoop's copy and ReadFrom's.
THEOREM DeliveredInOrder == Spec => []InOrder
<1>1. Init => TypeOK /\ StartInv /\ OrderInv /\ BufsInv
  BY TypeInit, StartInit, OrderInit
<1>2. OrderInv /\ TypeOK => InOrder
  BY OrderGivesInOrder
<1> QED BY <1>1, <1>2, StartStep, OrderStep, TypeCorrect, PTL DEF Spec
================================================================================

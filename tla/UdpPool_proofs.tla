----------------------------- MODULE UdpPool_proofs -----------------------------
(***************************************************************************)
(* Proofs about UdpPool: for any number of handlers, streams and keys, no  *)
(* stream is leaked, none is in the pool without somebody to drain it, and *)
(* none has two readers.                                                   *)
(***************************************************************************)
EXTENDS UdpPool, TLAPS

\* Datagram keeps the inductive invariant.
LEMMA DatagramKeeps ==
  ASSUME IInv, NEW h \in Handlers, NEW k \in Keys, Datagram(h, k)
  PROVE  IInv'
<1> USE NoStrmAssumption, NoKeyAssumption DEF IInv, PCs, Datagram, Goto, At
<1>1. TypeOK'
  BY DEF TypeOK, LocalsAssigned
<1>2. LocalsAssigned'
  BY DEF TypeOK, LocalsAssigned
<1>3. MakersAlone'
  BY DEF TypeOK, LocalsAssigned, MakersAlone, Makes, Keyed
<1>4. Keyed'
  BY DEF TypeOK, LocalsAssigned, MakersAlone, Makes, Keyed, Answers
<1>5. Drained'
  BY DEF TypeOK, LocalsAssigned, MakersAlone, Makes, Keyed, Drained, Answers
<1>6. NoLeakedStream'
  BY DEF TypeOK, LocalsAssigned, MakersAlone, Makes, Keyed, NoLeakedStream
<1>7. OneReader'
  BY DEF TypeOK, LocalsAssigned, MakersAlone, Makes, OneReader, Answers
<1>8. QED
  BY <1>1, <1>2, <1>3, <1>4, <1>5, <1>6, <1>7

\* Lookup keeps the inductive invariant.
LEMMA LookupKeeps ==
  ASSUME IInv, NEW h \in Handlers, Lookup(h)
  PROVE  IInv'
<1> USE NoStrmAssumption, NoKeyAssumption DEF IInv, PCs, Lookup, Goto, At
<1>1. TypeOK'
  BY DEF TypeOK, LocalsAssigned
<1>2. LocalsAssigned'
  BY DEF TypeOK, LocalsAssigned
<1>3. MakersAlone'
  BY DEF TypeOK, LocalsAssigned, MakersAlone, Makes, Keyed
<1>4. Keyed'
  BY DEF TypeOK, LocalsAssigned, MakersAlone, Makes, Keyed, Answers
<1>5. Drained'
  BY DEF TypeOK, LocalsAssigned, MakersAlone, Makes, Keyed, Drained, Answers
<1>6. NoLeakedStream'
  BY DEF TypeOK, LocalsAssigned, MakersAlone, Makes, Keyed, NoLeakedStream
<1>7. OneReader'
  BY DEF TypeOK, LocalsAssigned, MakersAlone, Makes, OneReader, Answers
<1>8. QED
  BY <1>1, <1>2, <1>3, <1>4, <1>5, <1>6, <1>7

\* NewStrm keeps the inductive invariant.
LEMMA NewStrmKeeps ==
  ASSUME IInv, NEW h \in Handlers, NewStrm(h)
  PROVE  IInv'
<1> USE NoStrmAssumption, NoKeyAssumption DEF IInv, PCs, NewStrm, Goto, At, Return, Unknown
<1>1. TypeOK'
  <2>1. pool' \in [Keys -> Streams \cup {NoStrm}]
    BY DEF TypeOK
  <2>2. state' \in [Streams -> {"open", "dead", "closed"}]
    BY DEF TypeOK
  <2>3. skey' \in [Streams -> Keys \cup {NoKey}]
    BY DEF TypeOK
  <2>4. pc' \in [Handlers -> PCs]
    BY DEF TypeOK
  <2>5. key' \in [Handlers -> Keys \cup {NoKey}]
    BY DEF TypeOK
  <2>6. strm' \in [Handlers -> Streams \cup {NoStrm}]
    BY DEF TypeOK
  <2>7. new' \in [Handlers -> BOOLEAN]
    BY DEF TypeOK
  <2>8. QED
    BY <2>1, <2>2, <2>3, <2>4, <2>5, <2>6, <2>7 DEF TypeOK
<1>2. LocalsAssigned'
  BY DEF TypeOK, LocalsAssigned
<1>3. MakersAlone'
  BY DEF TypeOK, LocalsAssigned, MakersAlone, Makes, Keyed
<1>4. Keyed'
  BY DEF TypeOK, LocalsAssigned, MakersAlone, Makes, Keyed, Answers
<1>5. Drained'
  BY DEF TypeOK, LocalsAssigned, MakersAlone, Makes, Keyed, Drained, Answers
<1>6. NoLeakedStream'
  BY DEF TypeOK, LocalsAssigned, MakersAlone, Makes, Keyed, NoLeakedStream
<1>7. OneReader'
  BY DEF TypeOK, LocalsAssigned, MakersAlone, Makes, OneReader, Answers
<1>8. QED
  BY <1>1, <1>2, <1>3, <1>4, <1>5, <1>6, <1>7

\* Header keeps the inductive invariant.
LEMMA HeaderKeeps ==
  ASSUME IInv, NEW h \in Handlers, Header(h)
  PROVE  IInv'
<1> USE NoStrmAssumption, NoKeyAssumption DEF IInv, PCs, Header, Goto, At, Return
<1>1. TypeOK'
  BY DEF TypeOK, LocalsAssigned
<1>2. LocalsAssigned'
  BY DEF TypeOK, LocalsAssigned
<1>3. MakersAlone'
  BY DEF TypeOK, LocalsAssigned, MakersAlone, Makes, Keyed
<1>4. Keyed'
  BY DEF TypeOK, LocalsAssigned, MakersAlone, Makes, Keyed, Answers
<1>5. Drained'
  BY DEF TypeOK, LocalsAssigned, MakersAlone, Makes, Keyed, Drained, Answers
<1>6. NoLeakedStream'
  BY DEF TypeOK, LocalsAssigned, MakersAlone, Makes, Keyed, NoLeakedStream
<1>7. OneReader'
  BY DEF TypeOK, LocalsAssigned, MakersAlone, Makes, OneReader, Answers
<1>8. QED
  BY <1>1, <1>2, <1>3, <1>4, <1>5, <1>6, <1>7

\* Insert keeps the inductive invariant.
LEMMA InsertKeeps ==
  ASSUME IInv, NEW h \in Handlers, Insert(h)
  PROVE  IInv'
<1> USE NoStrmAssumption, NoKeyAssumption DEF IInv, PCs, Insert, Goto, At
<1>1. TypeOK'
  BY DEF TypeOK, LocalsAssigned
<1>2. LocalsAssigned'
  BY DEF TypeOK, LocalsAssigned
<1>3. MakersAlone'
  BY DEF TypeOK, LocalsAssigned, MakersAlone, Makes, Keyed
<1>4. Keyed'
  BY DEF TypeOK, LocalsAssigned, MakersAlone, Makes, Keyed, Answers
<1>5. Drained'
  BY DEF TypeOK, LocalsAssigned, MakersAlone, Makes, Keyed, Drained, Answers
<1>6. NoLeakedStream'
  BY DEF TypeOK, LocalsAssigned, MakersAlone, Makes, Keyed, NoLeakedStream
<1>7. OneReader'
  BY DEF TypeOK, LocalsAssigned, MakersAlone, Makes, OneReader, Answers
<1>8. QED
  BY <1>1, <1>2, <1>3, <1>4, <1>5, <1>6, <1>7

\* Write keeps the inductive invariant.
LEMMA WriteKeeps ==
  ASSUME IInv, NEW h \in Handlers, Write(h)
  PROVE  IInv'
<1> USE NoStrmAssumption, NoKeyAssumption DEF IInv, PCs, Write, Goto, At, Return
<1>1. TypeOK'
  BY DEF TypeOK, LocalsAssigned
<1>2. LocalsAssigned'
  BY DEF TypeOK, LocalsAssigned
<1>3. MakersAlone'
  BY DEF TypeOK, LocalsAssigned, MakersAlone, Makes, Keyed
<1>4. Keyed'
  BY DEF TypeOK, LocalsAssigned, MakersAlone, Makes, Keyed, Answers
<1>5. Drained'
  BY DEF TypeOK, LocalsAssigned, MakersAlone, Makes, Keyed, Drained, Answers
<1>6. NoLeakedStream'
  BY DEF TypeOK, LocalsAssigned, MakersAlone, Makes, Keyed, NoLeakedStream
<1>7. OneReader'
  BY DEF TypeOK, LocalsAssigned, MakersAlone, Makes, OneReader, Answers
<1>8. QED
  BY <1>1, <1>2, <1>3, <1>4, <1>5, <1>6, <1>7

\* CloseKey keeps the inductive invariant.
LEMMA CloseKeyKeeps ==
  ASSUME IInv, NEW h \in Handlers, CloseKey(h)
  PROVE  IInv'
<1> USE NoStrmAssumption, NoKeyAssumption DEF IInv, PCs, CloseKey, Goto, At, Return, CloseUDP
<1>1. TypeOK'
  BY DEF TypeOK, LocalsAssigned
<1>2. LocalsAssigned'
  BY DEF TypeOK, LocalsAssigned
<1>3. MakersAlone'
  BY DEF TypeOK, LocalsAssigned, MakersAlone, Makes, Keyed
<1>4. Keyed'
  BY DEF TypeOK, LocalsAssigned, MakersAlone, Makes, Keyed, Answers
<1>5. Drained'
  BY DEF TypeOK, LocalsAssigned, MakersAlone, Makes, Keyed, Drained, Answers
<1>6. NoLeakedStream'
  BY DEF TypeOK, LocalsAssigned, MakersAlone, Makes, Keyed, NoLeakedStream
<1>7. OneReader'
  BY DEF TypeOK, LocalsAssigned, MakersAlone, Makes, OneReader, Answers
<1>8. QED
  BY <1>1, <1>2, <1>3, <1>4, <1>5, <1>6, <1>7

\* ReadEnds keeps the inductive invariant.
LEMMA ReadEndsKeeps ==
  ASSUME IInv, NEW s \in Streams, ReadEnds(s)
  PROVE  IInv'
<1> USE NoStrmAssumption, NoKeyAssumption DEF IInv, PCs, ReadEnds
<1>1. TypeOK'
  BY DEF TypeOK, LocalsAssigned
<1>2. LocalsAssigned'
  BY DEF TypeOK, LocalsAssigned
<1>3. MakersAlone'
  BY DEF TypeOK, LocalsAssigned, MakersAlone, Makes, Keyed
<1>4. Keyed'
  BY DEF TypeOK, LocalsAssigned, MakersAlone, Makes, Keyed, Answers
<1>5. Drained'
  BY DEF TypeOK, LocalsAssigned, MakersAlone, Makes, Keyed, Drained, Answers
<1>6. NoLeakedStream'
  BY DEF TypeOK, LocalsAssigned, MakersAlone, Makes, Keyed, NoLeakedStream
<1>7. OneReader'
  BY DEF TypeOK, LocalsAssigned, MakersAlone, Makes, OneReader, Answers
<1>8. QED
  BY <1>1, <1>2, <1>3, <1>4, <1>5, <1>6, <1>7

\* CloseReader keeps the inductive invariant.
LEMMA CloseReaderKeeps ==
  ASSUME IInv, NEW s \in Streams, CloseReader(s)
  PROVE  IInv'
<1> USE NoStrmAssumption, NoKeyAssumption DEF IInv, PCs, CloseReader, CloseUDP
<1>1. TypeOK'
  BY DEF TypeOK, LocalsAssigned
<1>2. LocalsAssigned'
  BY DEF TypeOK, LocalsAssigned
<1>3. MakersAlone'
  BY DEF TypeOK, LocalsAssigned, MakersAlone, Makes, Keyed
<1>4. Keyed'
  BY DEF TypeOK, LocalsAssigned, MakersAlone, Makes, Keyed, Answers
<1>5. Drained'
  BY DEF TypeOK, LocalsAssigned, MakersAlone, Makes, Keyed, Drained, Answers
<1>6. NoLeakedStream'
  BY DEF TypeOK, LocalsAssigned, MakersAlone, Makes, Keyed, NoLeakedStream
<1>7. OneReader'
  BY DEF TypeOK, LocalsAssigned, MakersAlone, Makes, OneReader, Answers
<1>8. QED
  BY <1>1, <1>2, <1>3, <1>4, <1>5, <1>6, <1>7

\* StreamDies keeps the inductive invariant.
LEMMA StreamDiesKeeps ==
  ASSUME IInv, NEW s \in Streams, StreamDies(s)
  PROVE  IInv'
<1> USE NoStrmAssumption, NoKeyAssumption DEF IInv, PCs, StreamDies
<1>1. TypeOK'
  BY DEF TypeOK, LocalsAssigned
<1>2. LocalsAssigned'
  BY DEF TypeOK, LocalsAssigned
<1>3. MakersAlone'
  BY DEF TypeOK, LocalsAssigned, MakersAlone, Makes, Keyed
<1>4. Keyed'
  BY DEF TypeOK, LocalsAssigned, MakersAlone, Makes, Keyed, Answers
<1>5. Drained'
  BY DEF TypeOK, LocalsAssigned, MakersAlone, Makes, Keyed, Drained, Answers
<1>6. NoLeakedStream'
  BY DEF TypeOK, LocalsAssigned, MakersAlone, Makes, Keyed, NoLeakedStream
<1>7. OneReader'
  BY DEF TypeOK, LocalsAssigned, MakersAlone, Makes, OneReader, Answers
<1>8. QED
  BY <1>1, <1>2, <1>3, <1>4, <1>5, <1>6, <1>7
\* The empty pool satisfies the invariant.
LEMMA InitEstablishes == Init => IInv
  BY NoStrmAssumption, NoKeyAssumption
  DEF Init, IInv, TypeOK, LocalsAssigned, MakersAlone, Makes, Keyed, Drained,
      NoLeakedStream, OneReader, Answers, PCs

\* So does every step keep it.
LEMMA StepKeeps == IInv /\ [Next]_vars => IInv'
<1> SUFFICES ASSUME IInv, [Next]_vars
             PROVE  IInv'
  OBVIOUS
<1>1. CASE \E h \in Handlers : HandlerStep(h) \/ \E k \in Keys : Datagram(h, k)
  BY <1>1, DatagramKeeps, LookupKeeps, NewStrmKeeps, HeaderKeeps, InsertKeeps,
     WriteKeeps, CloseKeyKeeps DEF HandlerStep
<1>2. CASE \E s \in Streams : ReadEnds(s) \/ CloseReader(s) \/ StreamDies(s)
  BY <1>2, ReadEndsKeeps, CloseReaderKeeps, StreamDiesKeeps
<1>3. CASE UNCHANGED vars
  BY <1>3 DEF vars, IInv, TypeOK, LocalsAssigned, MakersAlone, Makes, Keyed,
              Drained, NoLeakedStream, OneReader, Answers
<1>4. QED
  BY <1>1, <1>2, <1>3 DEF Next

\* The inductive invariant holds throughout.
THEOREM Invariance == Spec => []IInv
  BY InitEstablishes, StepKeeps, PTL DEF Spec

\* Every variable has its type.
THEOREM TypeCorrect == Spec => []TypeOK
  BY Invariance, PTL DEF IInv

\* A stream in the pool always has a reader or a handler that answers for it.
THEOREM PoolDrained == Spec => []Drained
  BY Invariance, PTL DEF IInv

\* No open stream is out of reach of CloseUDP and of its maker.
THEOREM NoLeak == Spec => []NoLeakedStream
  BY Invariance, PTL DEF IInv

\* However many handlers race for a key, a stream gets at most one reader.
THEOREM ReadersUnique == Spec => []OneReader
  BY Invariance, PTL DEF IInv

\* A step that does not touch the key's entry nor what its handlers were handed
\* is invisible at the key.
LEMMA Unseen ==
  ASSUME NEW k \in Keys, pool'[k] = pool[k], Handed(k)' = Handed(k)
  PROVE  UNCHANGED Slot(k)!vars
  BY DEF Slot!vars

\* A handler's steps before the second look: a hit is a Get, all else is unseen.
LEMMA HandlerMapsBefore ==
  ASSUME IInv, NEW k \in Keys, NEW h \in Handlers,
         (\E d \in Keys : Datagram(h, d)) \/ Lookup(h) \/ NewStrm(h) \/ Header(h)
  PROVE  Slot(k)!Next \/ UNCHANGED Slot(k)!vars
<1> USE NoStrmAssumption, NoKeyAssumption DEF At, Goto
<1>1. CASE Lookup(h) /\ pool[key[h]] # NoStrm /\ key[h] = k
  <2>1. Handed(k)[h] = NoStrm /\ Handed(k)' = [Handed(k) EXCEPT ![h] = pool[k]]
    BY <1>1 DEF Lookup, Handed, IInv, TypeOK
  <2>2. pool'[k] = pool[k] /\ pool[k] # NoStrm
    BY <1>1 DEF Lookup
  <2>3. QED
    BY <2>1, <2>2 DEF Slot!Next, Slot!Get
<1>2. CASE ~(Lookup(h) /\ pool[key[h]] # NoStrm /\ key[h] = k)
  <2>1. Handed(k)' = Handed(k)
    BY <1>2 DEF Datagram, Lookup, NewStrm, Header, Return, Handed, IInv, TypeOK
  <2>2. pool'[k] = pool[k]
    BY DEF Datagram, Lookup, NewStrm, Header
  <2>3. QED
    BY <2>1, <2>2, Unseen
<1>3. QED
  BY <1>1, <1>2

\* The second look: a Make at the handler's key if it is empty, else a Get.
LEMMA InsertMaps ==
  ASSUME IInv, NEW k \in Keys, NEW h \in Handlers, Insert(h)
  PROVE  Slot(k)!Next \/ UNCHANGED Slot(k)!vars
<1> USE NoStrmAssumption, NoKeyAssumption DEF Insert, At, Goto
<1>0. strm[h] \in Streams /\ key[h] \in Keys
  BY DEF IInv, TypeOK, LocalsAssigned
<1>1. CASE key[h] # k
  <2>1. Handed(k)' = Handed(k)
    BY <1>1 DEF Handed, IInv, TypeOK
  <2>2. pool'[k] = pool[k]
    BY <1>1 DEF IInv, TypeOK
  <2>3. QED
    BY <2>1, <2>2, Unseen
<1>2. CASE key[h] = k /\ pool[k] = NoStrm
  <2>1. Handed(k)[h] = NoStrm /\ Handed(k)' = [Handed(k) EXCEPT ![h] = strm[h]]
    BY <1>2 DEF Handed, IInv, TypeOK
  <2>2. pool'[k] = strm[h]
    BY <1>2 DEF IInv, TypeOK
  <2>3. strm[h] \in Streams \ {Handed(k)[g] : g \in Handlers}
    BY <1>0 DEF Handed, IInv, MakersAlone, Makes
  <2>4. QED
    BY <1>2, <2>1, <2>2, <2>3 DEF Slot!Next, Slot!Make
<1>3. CASE key[h] = k /\ pool[k] # NoStrm
  <2>1. Handed(k)[h] = NoStrm /\ Handed(k)' = [Handed(k) EXCEPT ![h] = pool[k]]
    BY <1>3 DEF Handed, IInv, TypeOK
  <2>2. pool'[k] = pool[k]
    BY <1>3 DEF IInv, TypeOK
  <2>3. QED
    BY <1>3, <2>1, <2>2 DEF Slot!Next, Slot!Get
<1>4. QED
  BY <1>1, <1>2, <1>3

\* The write, and CloseUDP after one that failed: a Release.
LEMMA WriteMaps ==
  ASSUME IInv, NEW k \in Keys, NEW h \in Handlers, Write(h) \/ CloseKey(h)
  PROVE  Slot(k)!Next \/ UNCHANGED Slot(k)!vars
<1> USE NoStrmAssumption, NoKeyAssumption DEF At, Goto
<1>1. pool'[k] = pool[k] \/ (key[h] = k /\ pool'[k] = NoStrm)
  BY DEF Write, CloseKey, CloseUDP, IInv, TypeOK
<1>2. Handed(k)' = Handed(k) \/ (key[h] = k /\ Handed(k)' = [Handed(k) EXCEPT ![h] = NoStrm])
  <2>1. CASE Write(h) /\ ~Return(h)
    BY <2>1 DEF Write, Handed, IInv, TypeOK
  <2>2. CASE Return(h) /\ key[h] = k
    <3>1. pc'[h] = "idle" /\ \A g \in Handlers \ {h} :
            pc'[g] = pc[g] /\ key'[g] = key[g] /\ strm'[g] = strm[g]
      BY <2>2 DEF Return, IInv, TypeOK
    <3>2. QED
      BY <2>2, <3>1 DEF Handed
  <2>3. CASE Return(h) /\ key[h] # k
    <3>1. pc'[h] = "idle" /\ \A g \in Handlers \ {h} :
            pc'[g] = pc[g] /\ key'[g] = key[g] /\ strm'[g] = strm[g]
      BY <2>3 DEF Return, IInv, TypeOK
    <3>2. QED
      BY <2>3, <3>1 DEF Handed
  <2>4. QED
    BY <2>1, <2>2, <2>3 DEF CloseKey
<1>3. key[h] = k => Handed(k)[h] # NoStrm
  BY DEF Write, CloseKey, Handed, IInv, LocalsAssigned
<1>4. CASE Handed(k)' = Handed(k)
  <2>1. pool'[k] = pool[k] \/ (pool[k] # NoStrm /\ pool'[k] = NoStrm)
    BY <1>1
  <2>2. QED
    BY <1>4, <2>1, Unseen DEF Slot!Next, Slot!Drop
<1>5. CASE key[h] = k /\ Handed(k)' = [Handed(k) EXCEPT ![h] = NoStrm]
  BY <1>1, <1>3, <1>5 DEF Slot!Next, Slot!Release
<1>6. QED
  BY <1>2, <1>4, <1>5

\* Readers and dying streams can only drop the entry.
LEMMA OthersMap ==
  ASSUME IInv, NEW k \in Keys, NEW s \in Streams,
         ReadEnds(s) \/ CloseReader(s) \/ StreamDies(s)
  PROVE  Slot(k)!Next \/ UNCHANGED Slot(k)!vars
<1>1. Handed(k)' = Handed(k)
  BY DEF ReadEnds, CloseReader, StreamDies, Handed
<1>2. pool'[k] = pool[k] \/ (pool[k] # NoStrm /\ pool'[k] = NoStrm)
  BY DEF ReadEnds, CloseReader, CloseUDP, StreamDies, IInv, TypeOK
<1>3. QED
  BY <1>1, <1>2, Unseen DEF Slot!Next, Slot!Drop

\* Every step of the pool is, at every key, a step of its slot or unseen.
LEMMA SlotStep ==
  ASSUME IInv, [Next]_vars, NEW k \in Keys
  PROVE  Slot(k)!Next \/ UNCHANGED Slot(k)!vars
<1>1. CASE \E h \in Handlers : HandlerStep(h) \/ \E d \in Keys : Datagram(h, d)
  BY <1>1, HandlerMapsBefore, InsertMaps, WriteMaps DEF HandlerStep
<1>2. CASE \E s \in Streams : ReadEnds(s) \/ CloseReader(s) \/ StreamDies(s)
  BY <1>2, OthersMap
<1>3. CASE UNCHANGED vars
  BY <1>3 DEF vars, Handed, Slot!vars
<1>4. QED
  BY <1>1, <1>2, <1>3 DEF Next

\* The empty pool is, at every key, an empty slot.
LEMMA SlotInit == Init => \A k \in Keys : Slot(k)!Init
  BY NoKeyAssumption DEF Init, Handed, Slot!Init

\* Each key of the pool implements the slot: however the handlers of all flows
\* interleave, Client.UDP is one atomic step to those of each flow.
THEOREM SlotsImplemented == Spec => ImplementsSlots
<1>1. IInv /\ [Next]_vars
        => [\A k \in Keys : Slot(k)!Next \/ UNCHANGED Slot(k)!vars]_vars
  BY SlotStep
<1>2. QED
  BY <1>1, SlotInit, Invariance, PTL DEF Spec, ImplementsSlots
=================================================================================

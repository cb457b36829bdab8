-------------------------------- MODULE UdpPool --------------------------------
(***************************************************************************)
(* The client's pool of UDP streams: Client.UDP and CloseUDP, the pool     *)
(* itself, and the two places that use it alike, the forwarder's           *)
(* handleUDPPacket/handleUDPStrm and the SOCKS5 UDPHandle.  A handler      *)
(* carries one datagram; a reader drains one stream.  The pool's lock is   *)
(* held for one map access at a time, never during I/O.                    *)
(***************************************************************************)
EXTENDS FiniteSets

CONSTANTS
  Handlers,   \* goroutines that carry a datagram each
  Streams,    \* names of smux streams; one nobody refers to is used again
  Keys,       \* hash.AddrPair(local, target)
  NoStrm,     \* no stream
  NoKey       \* no key

ASSUME NoStrmAssumption == NoStrm \notin Streams
ASSUME NoKeyAssumption == NoKey \notin Keys

VARIABLES
  pool,    \* udpPool.strms
  state,   \* open; dead (peer or session gone); closed (by us)
  skey,    \* skey[s]: the key whose handler opened s
  pc,      \* pc[h]: where handler h is
  key,     \* key[h]: the key of h's datagram
  strm,    \* strm[h]: newStrm in Client.UDP, then strm in the handler
  new,     \* new[h]: Client.UDP's second result
  rd       \* rd[s]: the goroutine that reads s

vars == <<pool, state, skey, pc, key, strm, new, rd>>

PCs == {"idle", "lookup", "create", "header", "insert", "write", "close"}

Init ==
  /\ pool = [k \in Keys |-> NoStrm]
  /\ state = [s \in Streams |-> "closed"]
  /\ skey = [s \in Streams |-> NoKey]
  /\ pc = [h \in Handlers |-> "idle"]
  /\ key = [h \in Handlers |-> NoKey]
  /\ strm = [h \in Handlers |-> NoStrm]
  /\ new = [h \in Handlers |-> FALSE]
  /\ rd = [s \in Streams |-> "none"]

At(h, l) == pc[h] = l
Goto(h, l) == pc' = [pc EXCEPT ![h] = l]

\* The handler returns: its local variables are gone.
Return(h) ==
  /\ Goto(h, "idle")
  /\ key' = [key EXCEPT ![h] = NoKey]
  /\ strm' = [strm EXCEPT ![h] = NoStrm]
  /\ new' = [new EXCEPT ![h] = FALSE]

\* Names that no map, handler or reader knows.
Unknown ==
  {s \in Streams : /\ \A k \in Keys : pool[k] # s
                   /\ \A h \in Handlers : strm[h] # s
                   /\ rd[s] = "none"}

\* Mutant: the stream is closed but its entry stays.
CloseUDPKeepsEntry(k) ==
  /\ state' = [s \in Streams |-> IF s = pool[k] THEN "closed" ELSE state[s]]
  /\ pool' = pool

\* udpPool.delete: closes and forgets whatever stream is under k by now.
CloseUDP(k) ==
  /\ state' = [s \in Streams |-> IF s = pool[k] THEN "closed" ELSE state[s]]
  /\ pool' = [pool EXCEPT ![k] = NoStrm]

-------------------------------------------------------------------------------
\* A handler.

Datagram(h, k) ==
  /\ At(h, "idle")
  /\ key' = [key EXCEPT ![h] = k]
  /\ Goto(h, "lookup")
  /\ UNCHANGED <<pool, state, skey, strm, new, rd>>

\* The fast path, under the read lock.
Lookup(h) ==
  /\ At(h, "lookup")
  /\ IF pool[key[h]] # NoStrm
     THEN Goto(h, "write") /\ strm' = [strm EXCEPT ![h] = pool[key[h]]]
     ELSE Goto(h, "create") /\ strm' = strm
  /\ UNCHANGED <<pool, state, skey, key, new, rd>>

\* newStrm succeeds, or fails after its retries.
NewStrm(h) ==
  /\ At(h, "create")
  /\ \/ \E s \in Unknown :
          /\ strm' = [strm EXCEPT ![h] = s]
          /\ state' = [state EXCEPT ![s] = "open"]
          /\ skey' = [skey EXCEPT ![s] = key[h]]
          /\ Goto(h, "header")
          /\ UNCHANGED <<key, new>>
     \/ Return(h) /\ UNCHANGED <<state, skey>>
  /\ UNCHANGED <<pool, rd>>

\* The PUDP header is written; a bad address or a failed write closes the stream.
Header(h) ==
  /\ At(h, "header")
  /\ \/ Goto(h, "insert") /\ UNCHANGED <<state, key, strm, new>>
     \/ state' = [state EXCEPT ![strm[h]] = "closed"] /\ Return(h)
  /\ UNCHANGED <<pool, skey, rd>>

\* Mutant: the stream is put under key 0, which Client.UDP returns on errors.
InsertUnderZero(h) ==
  /\ At(h, "insert")
  /\ Goto(h, "write")
  /\ new' = [new EXCEPT ![h] = TRUE]
  /\ pool' = [k \in Keys \cup {NoKey} |-> IF k = NoKey THEN strm[h] ELSE pool[k]]
  /\ UNCHANGED <<state, strm, skey, key, rd>>

\* Mutant: the loser of the race leaves its stream open.
InsertNoClose(h) ==
  /\ At(h, "insert")
  /\ Goto(h, "write")
  /\ \/ /\ pool[key[h]] = NoStrm
        /\ pool' = [pool EXCEPT ![key[h]] = strm[h]]
        /\ new' = [new EXCEPT ![h] = TRUE]
        /\ strm' = strm
     \/ /\ pool[key[h]] # NoStrm
        /\ strm' = [strm EXCEPT ![h] = pool[key[h]]]
        /\ UNCHANGED <<pool, new>>
  /\ UNCHANGED <<state, skey, key, rd>>

\* Mutant: the loser of the race is told that the stream is new.
InsertAlwaysNew(h) ==
  /\ At(h, "insert")
  /\ Goto(h, "write")
  /\ new' = [new EXCEPT ![h] = TRUE]
  /\ \/ /\ pool[key[h]] = NoStrm
        /\ pool' = [pool EXCEPT ![key[h]] = strm[h]]
        /\ UNCHANGED <<state, strm>>
     \/ /\ pool[key[h]] # NoStrm
        /\ state' = [state EXCEPT ![strm[h]] = "closed"]
        /\ strm' = [strm EXCEPT ![h] = pool[key[h]]]
        /\ pool' = pool
  /\ UNCHANGED <<skey, key, rd>>

\* Mutant: the second look is dropped.
InsertAlways(h) ==
  /\ At(h, "insert")
  /\ Goto(h, "write")
  /\ pool' = [pool EXCEPT ![key[h]] = strm[h]]
  /\ new' = [new EXCEPT ![h] = TRUE]
  /\ UNCHANGED <<state, strm, skey, key, rd>>

\* The second look, under the lock.
Insert(h) ==
  /\ At(h, "insert")
  /\ Goto(h, "write")
  /\ \/ /\ pool[key[h]] = NoStrm
        /\ pool' = [pool EXCEPT ![key[h]] = strm[h]]
        /\ new' = [new EXCEPT ![h] = TRUE]
        /\ UNCHANGED <<state, strm>>
     \/ /\ pool[key[h]] # NoStrm
        /\ state' = [state EXCEPT ![strm[h]] = "closed"]
        /\ strm' = [strm EXCEPT ![h] = pool[key[h]]]
        /\ UNCHANGED <<pool, new>>
  /\ UNCHANGED <<skey, key, rd>>

\* Mutant: a failed write drops the datagram and leaves the pool alone.
WriteFailsQuietly(h) ==
  /\ At(h, "write")
  /\ \/ rd' = rd
     \/ /\ state[strm[h]] # "closed"
        /\ rd' = IF new[h] THEN [rd EXCEPT ![strm[h]] = "reading"] ELSE rd
  /\ Return(h)
  /\ UNCHANGED <<pool, state, skey>>

\* The datagram is written and the reader of a new stream started, or the
\* write fails.  A stream closed here always fails; one whose peer is gone may.
Write(h) ==
  /\ At(h, "write")
  /\ \/ /\ state[strm[h]] # "closed"
        /\ rd' = IF new[h] THEN [rd EXCEPT ![strm[h]] = "reading"] ELSE rd
        /\ Return(h)
     \/ Goto(h, "close") /\ UNCHANGED <<key, strm, new, rd>>
  /\ UNCHANGED <<pool, state, skey>>

\* The handler's CloseUDP after a failed write.
CloseKey(h) ==
  /\ At(h, "close")
  /\ CloseUDP(key[h])
  /\ Return(h)
  /\ UNCHANGED <<skey, rd>>

HandlerStep(h) ==
  \/ Lookup(h) \/ NewStrm(h) \/ Header(h) \/ Insert(h) \/ Write(h) \/ CloseKey(h)

-------------------------------------------------------------------------------
\* A reader and its stream.

\* The read fails, the deadline of eight seconds passes, the answer cannot be
\* delivered, or the context is done: the reader will close its key.
ReadEnds(s) ==
  /\ rd[s] = "reading"
  /\ rd' = [rd EXCEPT ![s] = "closing"]
  /\ UNCHANGED <<pool, state, skey, pc, key, strm, new>>

\* The reader's deferred CloseUDP.
CloseReader(s) ==
  /\ rd[s] = "closing"
  /\ CloseUDP(skey[s])
  /\ rd' = [rd EXCEPT ![s] = "none"]
  /\ UNCHANGED <<skey, pc, key, strm, new>>

\* The server closes the stream or its session dies.
StreamDies(s) ==
  /\ state[s] = "open"
  /\ state' = [state EXCEPT ![s] = "dead"]
  /\ UNCHANGED <<pool, skey, pc, key, strm, new, rd>>

Next ==
  \/ \E h \in Handlers : HandlerStep(h) \/ \E k \in Keys : Datagram(h, k)
  \/ \E s \in Streams : ReadEnds(s) \/ CloseReader(s) \/ StreamDies(s)

Spec == Init /\ [][Next]_vars

\* Handlers run, and a reader always ends on a stream that is not open: its
\* read fails at once.  Of an open stream nothing is assumed.
Fairness ==
  /\ \A h \in Handlers : WF_vars(HandlerStep(h))
  /\ \A s \in Streams : WF_vars(state[s] # "open" /\ ReadEnds(s))
  /\ \A s \in Streams : WF_vars(CloseReader(s))

FairSpec == Spec /\ Fairness

-------------------------------------------------------------------------------
\* Properties.

TypeOK ==
  /\ pool \in [Keys -> Streams \cup {NoStrm}]
  /\ state \in [Streams -> {"open", "dead", "closed"}]
  /\ skey \in [Streams -> Keys \cup {NoKey}]
  /\ pc \in [Handlers -> PCs]
  /\ key \in [Handlers -> Keys \cup {NoKey}]
  /\ strm \in [Handlers -> Streams \cup {NoStrm}]
  /\ new \in [Handlers -> BOOLEAN]
  /\ rd \in [Streams -> {"none", "reading", "closing"}]

\* h is the one that must start s's reader, or close its key.
Answers(h, s) == new[h] /\ strm[h] = s

\* h made s and has not offered it to the pool yet.
Makes(h, s) == pc[h] \in {"header", "insert"} /\ strm[h] = s

\* Every pooled stream has a reader, or a handler that will start one or close
\* the key: a flow cannot be stuck on a stream whose answers nobody reads.
Drained ==
  \A k \in Keys : pool[k] # NoStrm =>
    rd[pool[k]] # "none" \/ \E h \in Handlers : Answers(h, pool[k])

\* No stream is forgotten open: it is under its key, or being made.
NoLeakedStream ==
  \A s \in Streams : state[s] # "closed" =>
    (skey[s] \in Keys /\ pool[skey[s]] = s) \/ \E h \in Handlers : Makes(h, s)

\* Two goroutines never read the same stream ("the caller must NOT start a
\* reader"): whoever is told new=true is alone, however many raced to insert.
OneReader ==
  \A h \in Handlers, s \in Streams : Answers(h, s) =>
    rd[s] = "none" /\ \A g \in Handlers \ {h} : ~Answers(g, s)

\* A key of the pool as its handlers see it: what Client.UDP has returned to
\* those that carry a datagram of that flow.
Handed(k) == [h \in Handlers |->
  IF key[h] = k /\ pc[h] \in {"write", "close"} THEN strm[h] ELSE NoStrm]

Slot(k) == INSTANCE SharedSlot WITH
  Users <- Handlers, Items <- Streams, None <- NoStrm,
  slot <- pool[k], held <- Handed(k)

\* Client.UDP is atomic to its callers, for each key on its own: a datagram gets
\* the flow's stream or, only if there is none, a new one that no other handler
\* of the flow holds.
ImplementsSlots ==
  /\ \A k \in Keys : Slot(k)!Init
  /\ [][\A k \in Keys : Slot(k)!Next \/ UNCHANGED Slot(k)!vars]_vars

\* What makes the above inductive.  Local variables hold what the code has
\* assigned to them so far ...
LocalsAssigned ==
  \A h \in Handlers :
    /\ pc[h] # "idle" => key[h] \in Keys
    /\ pc[h] \in {"header", "insert", "write", "close"} <=> strm[h] # NoStrm
    /\ new[h] => pc[h] \in {"write", "close"}

\* ... a stream in the making is known to its maker alone ...
MakersAlone ==
  \A h \in Handlers, s \in Streams : Makes(h, s) =>
    /\ skey[s] = key[h]
    /\ rd[s] = "none"
    /\ \A k \in Keys : pool[k] # s
    /\ \A g \in Handlers \ {h} : strm[g] # s

\* ... and streams stay with the key they were opened for.
Keyed ==
  /\ \A k \in Keys : pool[k] # NoStrm => skey[pool[k]] = k
  /\ \A h \in Handlers, s \in Streams : Answers(h, s) => skey[s] = key[h]
  /\ \A s \in Streams : rd[s] # "none" => skey[s] \in Keys

IInv ==
  /\ TypeOK
  /\ LocalsAssigned
  /\ MakersAlone
  /\ Keyed
  /\ Drained
  /\ NoLeakedStream
  /\ OneReader

\* A stream whose peer is gone does not stay in the pool, so that a later
\* datagram of the flow gets a new one.
DeadStreamsLeave ==
  \A k \in Keys, s \in Streams :
    (pool[k] = s /\ state[s] # "open") ~> pool[k] # s

\* "It is safe for concurrent use": what a reader closes when it ends is the
\* stream it has read, not one that another goroutine has put in its place.
ReaderClosesOwn ==
  [][\A s \in Streams : rd[s] = "closing" /\ rd'[s] = "none" =>
       \A t \in Streams \ {s} : state'[t] = state[t]]_vars
===============================================================================

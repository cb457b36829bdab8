---------------------------- MODULE SendHandle_proofs ----------------------------
(***************************************************************************)
(* Proofs about SendHandle: for any number of senders, any sequence space  *)
(* and any payloads, the packets to one address are one stream, and, where *)
(* the address has one form, a SYN+ACK acknowledges the peer's last SYN.   *)
(***************************************************************************)
EXTENDS SendHandle, TLAPS

\* Sequence numbers wrap around inside the sequence space.
LEMMA Wraps == \A n \in Nat : n % W \in Seqs
  BY WAssumption, SMT DEF Seqs

\* A packet moves the numbers by a natural number, and so does its half.
LEMMA AdvanceNat ==
  ASSUME NEW kind, NEW len \in 0 .. MaxLen
  PROVE  /\ Advance(kind, len) \in Nat
         /\ Advance(kind, len) \div 2 + 1 \in Nat
<1>1. Advance(kind, len) \in Nat
  BY MaxLenAssumption DEF Advance
<1>2. \A n \in Nat : n \div 2 + 1 \in Nat
  BY SMT
<1>3. QED
  BY <1>1, <1>2

\* The type of a connState object.
State == [seq : Seqs, ack : Seqs, peer : Seqs \cup {NoSeq}]

\* An object that moves past a packet keeps its type and its observed SYN.
LEMMA PastType ==
  ASSUME NEW o \in State, NEW adv \in Nat, adv \div 2 + 1 \in Nat
  PROVE  /\ Past(o, adv) \in State
         /\ Past(o, adv).seq = (o.seq + adv) % W
         /\ Past(o, adv).peer = o.peer
<1>1. o.seq + adv \in Nat /\ o.ack + (adv \div 2 + 1) \in Nat
  BY WAssumption DEF State, Seqs
<1>2. o.ack + adv \div 2 + 1 = o.ack + (adv \div 2 + 1)
  BY WAssumption DEF State, Seqs
<1>3. (o.seq + adv) % W \in Seqs /\ (o.ack + adv \div 2 + 1) % W \in Seqs
  BY <1>1, <1>2, Wraps
<1>4. QED
  BY <1>3 DEF Past, State

\* Whatever a packet is, its acknowledgement is a sequence number.
LEMMA AckType ==
  ASSUME NEW kind \in Kinds, NEW o \in State
  PROVE  AckOf(kind, o) \in Seqs
<1>1. 0 \in Seqs
  BY WAssumption DEF Seqs
<1>2. o.peer # NoSeq => (o.peer + 1) % W \in Seqs
  BY Wraps, WAssumption DEF State, Seqs, NoSeq
<1>3. o.ack \in Seqs
  BY DEF State
<1>4. QED
  BY <1>1, <1>2, <1>3 DEF AckOf, Kinds

\* The inductive invariant holds initially ...
LEMMA InitIInv == Init => IInv
<1> SUFFICES ASSUME Init PROVE IInv
  OBVIOUS
<1>1. 0 \in Seqs
  BY WAssumption DEF Seqs
<1>2. TypeOK
  BY <1>1 DEF Init, TypeOK, NewState, NoPkt, Kinds
<1>3. UsersHaveEntry /\ EntryCurrent
  BY DEF Init, UsersHaveEntry, EntryCurrent
<1>4. QED
  BY <1>2, <1>3 DEF IInv

\* ... is kept by the lookup ...
LEMMA LookupKeeps ==
  ASSUME IInv, NEW a \in Actors, Call(a) \/ Find(a)
  PROVE  IInv'
<1> USE DEF KeyOf
<1>0. KeyOf(a) \in Keys
  BY DEF IInv, TypeOK, Keys
<1>1. CASE Call(a)
  BY <1>1 DEF IInv, TypeOK, UsersHaveEntry, EntryCurrent, Call, Goto
<1>2. CASE Find(a)
  <2>1. TypeOK'
    BY <1>0, <1>2 DEF IInv, TypeOK, Find, Goto
  <2>2. UsersHaveEntry' /\ EntryCurrent'
    BY <1>2 DEF IInv, TypeOK, UsersHaveEntry, EntryCurrent, Find, Goto
  <2>3. QED
    BY <2>1, <2>2 DEF IInv
<1>3. QED
  BY <1>1, <1>2

\* ... by the insertion, where the entry was missing only if nothing had been
\* sent or observed under its key ...
LEMMA CreateKeeps ==
  ASSUME IInv, NEW a \in Actors, Create(a)
  PROVE  IInv'
<1> USE DEF KeyOf, Keys
<1>0. KeyOf(a) \in Keys
  BY DEF IInv, TypeOK
<1>1. CASE entry[KeyOf(a)] # NoState
  BY <1>1 DEF IInv, TypeOK, UsersHaveEntry, EntryCurrent, Create, Goto
<1>2. CASE entry[KeyOf(a)] = NoState
  <2>1. PICK o \in Unknown : Fresh(a, o) /\ entry' = [entry EXCEPT ![KeyOf(a)] = o]
    BY <1>2 DEF Create
  <2>2. o \in States /\ o # NoState /\ \A k \in Keys : o # entry[k]
    BY <2>1, NoStateAssumption DEF Unknown
  <2>3. PICK s \in Seqs, n \in Seqs :
          cs' = [cs EXCEPT ![o] = [seq |-> s, ack |-> n, peer |-> NoSeq]]
    BY <2>1 DEF Fresh
  <2>4. TypeOK'
    BY <2>1, <2>2, <2>3 DEF IInv, TypeOK, Fresh, Create, Goto
  <2>5. \A b \in Actors \ {a} : pc'[b] = pc[b] /\ loc'[b] = loc[b]
    BY <2>1 DEF IInv, TypeOK, Fresh, Create, Goto
  <2>6. loc'[a] = o /\ entry'[KeyOf(a)] = o /\ seen' = seen
    BY <1>0, <2>1 DEF Fresh, IInv, TypeOK, Create
  <2>7. UsersHaveEntry'
    <3> SUFFICES ASSUME NEW b \in Actors, pc'[b] = "use"
                 PROVE  loc'[b] = entry'[KeyOf(b)] /\ loc'[b] # NoState
      BY <2>6 DEF UsersHaveEntry
    <3>1. CASE b = a
      BY <2>2, <2>6, <3>1
    <3>2. CASE b # a
      <4>1. loc[b] = entry[KeyOf(b)] /\ loc[b] # NoState
        BY <2>5, <3>2 DEF IInv, UsersHaveEntry
      <4>2. KeyOf(b) # KeyOf(a)
        BY <1>2, <4>1
      <4>3. entry'[KeyOf(b)] = entry[KeyOf(b)]
        BY <2>1, <4>2 DEF IInv, TypeOK
      <4>4. QED
        BY <2>5, <2>6, <3>2, <4>1, <4>3
    <3>3. QED
      BY <3>1, <3>2
  <2>8. \A k \in Keys : entry[k] # NoState =>
          entry'[k] = entry[k] /\ cs'[entry[k]] = cs[entry[k]]
    BY <1>2, <2>1, <2>2, <2>3 DEF IInv, TypeOK
  <2>9. EntryCurrent'
    BY <2>6, <2>8 DEF IInv, TypeOK, EntryCurrent, Create
  <2>10. QED
    BY <2>4, <2>7, <2>9 DEF IInv
<1>3. QED
  BY <1>1, <1>2

\* ... by a packet ...
LEMMA TakeKeeps ==
  ASSUME IInv, NEW w \in Writers, Take(w)
  PROVE  IInv'
<1> DEFINE o == cs[loc[w]]
<1>1. loc[w] = entry["written"] /\ loc[w] \in States /\ o \in State
  BY ObserverAssumption, NoStateAssumption
     DEF Take, IInv, TypeOK, UsersHaveEntry, Actors, State, KeyOf, Keys
<1>2. PICK kind \in Kinds, len \in 0 .. MaxLen :
        /\ pkt' = [pkt EXCEPT ![w] = [kind |-> kind, seq |-> o.seq, ack |-> AckOf(kind, o)]]
        /\ cs' = [cs EXCEPT ![loc[w]] = Past(o, Advance(kind, len))]
        /\ end' = (o.seq + Advance(kind, len)) % W
  BY DEF Take
<1>3. /\ Past(o, Advance(kind, len)) \in State
      /\ Past(o, Advance(kind, len)).seq = end'
      /\ Past(o, Advance(kind, len)).peer = o.peer
  BY <1>1, <1>2, AdvanceNat, PastType
<1>4. end' \in Seqs
  BY <1>3 DEF State
<1>5. TypeOK'
  BY <1>1, <1>2, <1>3, <1>4, AckType DEF IInv, TypeOK, Take, Goto, State
<1>6. UsersHaveEntry'
  BY DEF IInv, TypeOK, UsersHaveEntry, Take, Goto, KeyOf
<1>7. cs'[entry["written"]] = Past(o, Advance(kind, len))
  BY <1>1, <1>2 DEF IInv, TypeOK
<1>8. EntryCurrent'
  <2>1. entry' = entry /\ syn' = syn /\ seen' = seen /\ entry["written"] # NoState
    BY <1>1, NoStateAssumption DEF Take
  <2>2. cs'[entry["written"]].seq = end'
    BY <1>3, <1>7
  <2>3. entry[seen] # NoState => cs'[entry[seen]].peer = cs[entry[seen]].peer
    BY <1>1, <1>2, <1>3 DEF IInv, TypeOK, Keys
  <2>4. QED
    BY <2>1, <2>2, <2>3 DEF IInv, EntryCurrent
<1>9. QED
  BY <1>5, <1>6, <1>8 DEF IInv

\* ... by its emission, and by an observation.
LEMMA RestKeeps ==
  ASSUME IInv, Observe \/ \E w \in Writers : Emit(w)
  PROVE  IInv'
<1>1. CASE Observe
  <2>1. PICK s \in Seqs : cs' = [cs EXCEPT ![loc[Observer]].peer = s] /\ syn' = s
    BY <1>1 DEF Observe
  <2>2. loc[Observer] = entry[seen] /\ loc[Observer] \in States
    BY <1>1 DEF Observe, IInv, TypeOK, UsersHaveEntry, Actors, KeyOf
  <2>3. TypeOK'
    BY <1>1, <2>1, <2>2 DEF Observe, IInv, TypeOK, Goto
  <2>4. UsersHaveEntry'
    BY <1>1 DEF Observe, IInv, TypeOK, UsersHaveEntry, Goto, KeyOf
  <2>5. EntryCurrent'
    BY <1>1, <2>1, <2>2, NoStateAssumption DEF Observe, IInv, TypeOK, EntryCurrent, Keys
  <2>6. QED
    BY <2>3, <2>4, <2>5 DEF IInv
<1>2. CASE \E w \in Writers : Emit(w)
  <2>1. NoPkt \in [kind : Kinds, seq : Seqs, ack : Seqs]
    BY WAssumption DEF NoPkt, Kinds, Seqs
  <2>2. PICK w \in Writers : Emit(w)
    BY <1>2
  <2>3. TypeOK'
    BY <2>1, <2>2 DEF Emit, IInv, TypeOK, Goto
  <2>4. UsersHaveEntry'
    BY <2>2 DEF Emit, IInv, TypeOK, UsersHaveEntry, Goto, KeyOf
  <2>5. EntryCurrent'
    BY <2>2 DEF Emit, IInv, EntryCurrent
  <2>6. QED
    BY <2>3, <2>4, <2>5 DEF IInv
<1>3. QED
  BY <1>1, <1>2

\* The inductive invariant: users hold the map's object, which is up to date.
THEOREM Invariance == Spec => []IInv
<1>1. IInv /\ [Next]_vars => IInv'
  <2> SUFFICES ASSUME IInv, [Next]_vars PROVE IInv'
    OBVIOUS
  <2>1. CASE Next
    BY <2>1, LookupKeeps, CreateKeeps, TakeKeeps, RestKeeps DEF Next
  <2>2. CASE UNCHANGED vars
    BY <2>2 DEF vars, IInv, TypeOK, UsersHaveEntry, EntryCurrent, KeyOf
  <2>3. QED
    BY <2>1, <2>2
<1>2. QED
  BY InitIInv, <1>1, PTL DEF Spec

\* Types, the wrap-around of the sequence and acknowledgement numbers included.
THEOREM TypeCorrect == Spec => []TypeOK
  BY Invariance, PTL DEF IInv

\* Only Take brings a writer from its object to a packet.
LEMMA OnlyTakes ==
  ASSUME IInv, [Next]_vars, NEW w \in Writers, pc[w] = "use", pc'[w] = "emit"
  PROVE  Take(w)
  BY ObserverAssumption
     DEF Next, vars, Call, Find, Create, Take, Emit, Observe, Goto, IInv, TypeOK, Actors

\* The numbers of a taken packet come from the map's object.
LEMMA TakenFromEntry ==
  ASSUME IInv, NEW w \in Writers, Take(w)
  PROVE  /\ end # NoSeq => pkt'[w].seq = end
         /\ seen = "written" =>
              (pkt'[w].kind = "SA" /\ syn # NoSeq => pkt'[w].ack = (syn + 1) % W)
<1>1. loc[w] = entry["written"] /\ loc[w] \in States
  BY ObserverAssumption, NoStateAssumption
     DEF Take, IInv, TypeOK, UsersHaveEntry, Actors, KeyOf, Keys
<1> DEFINE o == cs[entry["written"]]
<1>2. PICK kind \in Kinds :
        pkt'[w] = [kind |-> kind, seq |-> o.seq, ack |-> AckOf(kind, o)]
  BY <1>1 DEF Take, IInv, TypeOK
<1>3. end # NoSeq => pkt'[w].seq = end
  BY <1>2 DEF IInv, EntryCurrent
<1>4. ASSUME seen = "written", pkt'[w].kind = "SA", syn # NoSeq
      PROVE  pkt'[w].ack = (syn + 1) % W
  BY <1>2, <1>4 DEF IInv, EntryCurrent, AckOf
<1>5. QED
  BY <1>3, <1>4

\* The packets to an address are one stream, for any number of senders.
THEOREM StreamUnbroken == Spec => Unbroken
<1>1. IInv /\ [Next]_vars =>
        [\A w \in Writers :
           pc[w] = "use" /\ pc'[w] = "emit" /\ end # NoSeq => pkt'[w].seq = end]_vars
  BY OnlyTakes, TakenFromEntry
<1>2. QED
  BY <1>1, Invariance, PTL DEF Spec, Unbroken

\* A SYN+ACK acknowledges the last SYN that recvLoop has observed, where both have
\* the address in one form.
THEOREM SynsAcked == Spec => SynAcked
<1>1. IInv /\ [Next]_vars =>
        [\A w \in Writers :
           pc[w] = "use" /\ pc'[w] = "emit" /\ seen = "written"
             => (pkt'[w].kind = "SA" /\ syn # NoSeq
                   => pkt'[w].ack = (syn + 1) % W)]_vars
  BY OnlyTakes, TakenFromEntry
<1>2. QED
  BY <1>1, Invariance, PTL DEF Spec, SynAcked
===================================================================================

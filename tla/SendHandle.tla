------------------------------- MODULE SendHandle -------------------------------
(***************************************************************************)
(* The sequence state a socket.SendHandle keeps for one remote address, so *)
(* that its packets look like one TCP stream: getOrCreateConnState, Write  *)
(* and ObservePeerSYN.  KCP's senders write and recvLoop observes; the map *)
(* is read under one lock and filled under another, the numbers live in an *)
(* object with a mutex of its own.  The module is about the time between   *)
(* two clears of the entry (ServerFlags): on a client, all of it.          *)
(*                                                                         *)
(* The map's key is a hash of the address's bytes, which is not the same   *)
(* for the 4 and the 16 bytes that stand for one IPv4 address.  recvLoop   *)
(* always has 4; Write has what KCP was given: recvLoop's on a server, on  *)
(* a client the 16 that a literal address of the configuration parses to.  *)
(***************************************************************************)
EXTENDS Integers

CONSTANTS
  Writers,    \* goroutines that send to the address
  Observer,   \* recvLoop
  States,     \* names of connState objects; one nobody refers to is used again
  NoState,    \* no object
  W,          \* size of the sequence space: 2^32
  MaxLen      \* bound on the length of a payload

ASSUME ObserverAssumption == Observer \notin Writers
ASSUME NoStateAssumption == NoState \notin States
ASSUME WAssumption == W \in Nat \ {0}
ASSUME MaxLenAssumption == MaxLen \in Nat

Actors == Writers \cup {Observer}
Seqs == 0 .. W - 1
NoSeq == -1
Kinds == {"S", "SA", "data"}   \* what the flags of a packet make of it
Keys == {"written", "other"}   \* the key of the address as Write has it, or not

VARIABLES
  seen,    \* the key of the address as recvLoop has it
  entry,   \* entry[k]: connStates[k]
  cs,      \* cs[o]: the object's seq, ack and peerSeq (NoSeq: ~hasPeer)
  pc,      \* idle, find, create, use, emit
  loc,     \* loc[a]: what getOrCreateConnState returns to a
  pkt,     \* pkt[w]: the packet w has the numbers of
  end,     \* the sequence number after the last packet
  syn      \* the last SYN observed

vars == <<seen, entry, cs, pc, loc, pkt, end, syn>>

NewState == [seq |-> 0, ack |-> 0, peer |-> NoSeq]
NoPkt == [kind |-> "data", seq |-> 0, ack |-> 0]

Init ==
  /\ seen \in Keys
  /\ entry = [k \in Keys |-> NoState]
  /\ cs = [o \in States |-> NewState]
  /\ pc = [a \in Actors |-> "idle"]
  /\ loc = [a \in Actors |-> NoState]
  /\ pkt = [w \in Writers |-> NoPkt]
  /\ end = NoSeq
  /\ syn = NoSeq

Goto(a, l) == pc' = [pc EXCEPT ![a] = l]

\* Objects that neither the map nor a goroutine knows.
Unknown == States \ ({entry[k] : k \in Keys} \cup {loc[a] : a \in Actors})

KeyOf(a) == IF a = Observer THEN seen ELSE "written"

\* Write is called, or recvLoop has read a SYN.
Call(a) ==
  /\ pc[a] = "idle"
  /\ Goto(a, "find")
  /\ UNCHANGED <<seen, entry, cs, loc, pkt, end, syn>>

\* getOrCreateConnState, under the read lock.
Find(a) ==
  /\ pc[a] = "find"
  /\ \/ /\ entry[KeyOf(a)] # NoState
        /\ loc' = [loc EXCEPT ![a] = entry[KeyOf(a)]]
        /\ Goto(a, "use")
     \/ entry[KeyOf(a)] = NoState /\ loc' = loc /\ Goto(a, "create")
  /\ UNCHANGED <<seen, entry, cs, pkt, end, syn>>

\* An object with random numbers.
Fresh(a, o) ==
  /\ \E s, k \in Seqs : cs' = [cs EXCEPT ![o] = [seq |-> s, ack |-> k, peer |-> NoSeq]]
  /\ loc' = [loc EXCEPT ![a] = o]

\* Mutant: the second look at the map is dropped.
CreateNoCheck(a) ==
  /\ pc[a] = "create"
  /\ \E o \in Unknown : Fresh(a, o) /\ entry' = [entry EXCEPT ![KeyOf(a)] = o]
  /\ Goto(a, "use")
  /\ UNCHANGED <<seen, pkt, end, syn>>

\* Mutant: the loser goes on with its own object, which the map does not have.
CreateKeepsOwn(a) ==
  /\ pc[a] = "create"
  /\ \E o \in Unknown :
       /\ Fresh(a, o)
       /\ entry' = [entry EXCEPT ![KeyOf(a)] = IF @ = NoState THEN o ELSE @]
  /\ Goto(a, "use")
  /\ UNCHANGED <<seen, pkt, end, syn>>

\* getOrCreateConnState, under the lock: the first to come inserts its object.
Create(a) ==
  /\ pc[a] = "create"
  /\ \/ /\ entry[KeyOf(a)] = NoState
        /\ \E o \in Unknown : Fresh(a, o) /\ entry' = [entry EXCEPT ![KeyOf(a)] = o]
     \/ /\ entry[KeyOf(a)] # NoState
        /\ loc' = [loc EXCEPT ![a] = entry[KeyOf(a)]]
        /\ UNCHANGED <<entry, cs>>
  /\ Goto(a, "use")
  /\ UNCHANGED <<seen, pkt, end, syn>>

\* How far a packet moves the sequence number: a SYN by 1, data by its length.
Advance(kind, len) == IF kind # "data" \/ len = 0 THEN 1 ELSE len

\* The number that acknowledges: the observed SYN, the estimate, or none.
AckOf(kind, o) ==
  CASE kind = "SA" /\ o.peer # NoSeq -> (o.peer + 1) % W
    [] kind = "S" -> 0
    [] OTHER -> o.ack

\* Mutant: the numbers do not wrap around.
PastNoWrap(o, adv) ==
  [o EXCEPT !.seq = @ + adv, !.ack = @ + adv \div 2 + 1]

\* The object moves on past a packet.
Past(o, adv) ==
  [o EXCEPT !.seq = (@ + adv) % W, !.ack = (@ + adv \div 2 + 1) % W]

\* Write takes the packet's numbers, under the object's mutex.
Take(w) ==
  LET o == cs[loc[w]]
  IN  /\ pc[w] = "use"
      /\ \E kind \in Kinds, len \in 0 .. MaxLen :
           /\ pkt' = [pkt EXCEPT ![w] = [kind |-> kind, seq |-> o.seq, ack |-> AckOf(kind, o)]]
           /\ cs' = [cs EXCEPT ![loc[w]] = Past(o, Advance(kind, len))]
           /\ end' = (o.seq + Advance(kind, len)) % W
      /\ Goto(w, "emit")
      /\ UNCHANGED <<seen, entry, loc, syn>>

\* The packet is serialised and written to the pcap handle, or is not.
Emit(w) ==
  /\ pc[w] = "emit"
  /\ pkt' = [pkt EXCEPT ![w] = NoPkt]
  /\ loc' = [loc EXCEPT ![w] = NoState]
  /\ Goto(w, "idle")
  /\ UNCHANGED <<seen, entry, cs, end, syn>>

\* ObservePeerSYN, under the object's mutex.
Observe ==
  /\ pc[Observer] = "use"
  /\ \E s \in Seqs :
       /\ cs' = [cs EXCEPT ![loc[Observer]].peer = s]
       /\ syn' = s
  /\ loc' = [loc EXCEPT ![Observer] = NoState]
  /\ Goto(Observer, "idle")
  /\ UNCHANGED <<seen, entry, pkt, end>>

Next ==
  \/ \E a \in Actors : Call(a) \/ Find(a) \/ Create(a)
  \/ \E w \in Writers : Take(w) \/ Emit(w)
  \/ Observe

Spec == Init /\ [][Next]_vars

-------------------------------------------------------------------------------
\* Properties.

TypeOK ==
  /\ seen \in Keys
  /\ entry \in [Keys -> States \cup {NoState}]
  /\ cs \in [States -> [seq : Seqs, ack : Seqs, peer : Seqs \cup {NoSeq}]]
  /\ pc \in [Actors -> {"idle", "find", "create", "use", "emit"}]
  /\ loc \in [Actors -> States \cup {NoState}]
  /\ pkt \in [Writers -> [kind : Kinds, seq : Seqs, ack : Seqs]]
  /\ end \in Seqs \cup {NoSeq}
  /\ syn \in Seqs \cup {NoSeq}

\* Each packet's numbers begin where the last one's ended, whichever goroutines
\* send and create the entry: to its peer it is "a single, ongoing TCP stream".
Unbroken ==
  [][\A w \in Writers :
       pc[w] = "use" /\ pc'[w] = "emit" /\ end # NoSeq => pkt'[w].seq = end]_vars

\* Where both have the address in one form, a SYN+ACK acknowledges the last SYN
\* observed, also when it is the observer that makes the entry, or loses the race
\* for it.  Where they do not, no SYN+ACK ever does.
SynAcked ==
  [][\A w \in Writers :
       pc[w] = "use" /\ pc'[w] = "emit" /\ seen = "written"
         => (pkt'[w].kind = "SA" /\ syn # NoSeq => pkt'[w].ack = (syn + 1) % W)]_vars

\* What makes both inductive: whoever is about to use an object has the map's,
\* and that object is where the last packet and the last SYN have left it.
UsersHaveEntry ==
  \A a \in Actors : pc[a] = "use" => loc[a] = entry[KeyOf(a)] /\ loc[a] # NoState

EntryCurrent ==
  /\ end # NoSeq => entry["written"] # NoState /\ cs[entry["written"]].seq = end
  /\ syn # NoSeq => entry[seen] # NoState /\ cs[entry[seen]].peer = syn

IInv == TypeOK /\ UsersHaveEntry /\ EntryCurrent
================================================================================

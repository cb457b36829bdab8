------------------------------- MODULE Protocol -------------------------------
(***************************************************************************)
(* The control messages of internal/protocol: what Proto.Write puts on a   *)
(* stream and what Proto.Read makes of it.  A wire is a sequence with one  *)
(* item for each field of fixed width and for each byte of a host; a field *)
(* keeps its width.                                                        *)
(***************************************************************************)
EXTENDS TcpFlags

CONSTANTS
  MaxHost   \* the longest host a message takes (255)

ASSUME MaxHostAssumption == MaxHost \in Nat

PPING == 1
PPONG == 2
PTCPF == 3
PTCP == 4
PUDP == 5

\* An error of Write or Read, and the type of a message that was not read.
Failed == [type |-> 0]

\* Proto.Write: the wire, empty if it returns an error.
Write(p) ==
  CASE p.type \in {PPING, PPONG} -> <<p.type>>
    [] p.type \in {PTCP, PUDP} ->
         IF Len(p.host) > MaxHost THEN <<>>
         ELSE <<p.type, p.port % 2^16, Len(p.host)>> \o p.host
    [] p.type = PTCPF ->
         <<p.type, Len(p.tcpf) % 2^8>> \o [n \in DOMAIN p.tcpf |-> Word(p.tcpf[n])]
    [] OTHER -> <<>>

\* Mutant: io.Read for io.ReadFull, so that a stream cut off gives a short host.
ReadShort(w) ==
  IF w = <<>> THEN Failed
  ELSE CASE w[1] \in {PTCP, PUDP} /\ Len(w) >= 3 ->
              [type |-> w[1], port |-> w[2], host |-> SubSeq(w, 4, Len(w))]
         [] w[1] = PTCPF /\ Len(w) >= 2 /\ Len(w) >= 2 + w[2] ->
              [type |-> PTCPF, tcpf |-> [n \in 1 .. w[2] |-> FlagsOf(w[n + 2])]]
         [] OTHER -> Failed

\* Proto.Read of a stream that carries w and then ends.
Read(w) ==
  IF w = <<>> THEN Failed
  ELSE CASE w[1] \in {PPING, PPONG} -> [type |-> w[1]]
         [] w[1] \in {PTCP, PUDP} /\ Len(w) >= 3 /\ Len(w) >= 3 + w[3] ->
              [type |-> w[1], port |-> w[2], host |-> SubSeq(w, 4, 3 + w[3])]
         [] w[1] = PTCPF /\ Len(w) >= 2 /\ Len(w) >= 2 + w[2] ->
              [type |-> PTCPF, tcpf |-> [n \in 1 .. w[2] |-> FlagsOf(w[n + 2])]]
         [] OTHER -> Failed
===============================================================================

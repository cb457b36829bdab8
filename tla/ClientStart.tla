------------------------------ MODULE ClientStart ------------------------------
(***************************************************************************)
(* The program's start: LoadFromFile and, for a client, startClient, which *)
(* calls Client.Start, which makes Transport.Conn tunnels one after the    *)
(* other, each with the startup probe of newTimedConn, and then serves     *)
(* requests round-robin over the tunnels it has.  It composes the          *)
(* configuration, the flag lists, the flag cycler and the messages.        *)
(* One goroutine until requests come; the hard part is the order of dials, *)
(* closes and cycler moves, the paths out of the probe, and the forms that *)
(* flags and addresses go through on their way to the server.              *)
(***************************************************************************)
EXTENDS Config, Protocol

CONSTANTS
  None,          \* no configuration, no request, no flags at the server
  FlagLists,     \* local_flag and remote_flag as the user may give them
  FailureCounts, \* max_failures likewise
  ConnCounts,    \* transport.conn likewise
  Hosts,         \* hosts and ports that are asked for
  Ports

\* What a YAML file can hold there, and the arguments of Client.TCP.
ASSUME ConfigAssumption ==
  /\ FlagLists \subseteq Seq(Seq(STRING))
  /\ FailureCounts \subseteq Int
  /\ ConnCounts \subseteq Int

ASSUME AddressAssumption ==
  /\ Hosts \subseteq Seq(STRING)
  /\ Ports \subseteq Nat
  /\ None \notin Hosts \X Nat

VARIABLES
  pc,      \* load, rejected, server; loaded; dial, verify, fallback: in
           \* newTimedConn; failed; serving; panicked
  cfg,     \* what LoadFromFile has derived
  combos,  \* flagCycler.combos
  cycler,  \* the cycler of the timedConn being made
  i,       \* newTimedConn's loop variable
  held,    \* the combo of newTimedConn's local conn
  items,   \* c.iter.Items: of each tunnel the combo, the cycler, the way it was
           \* made, the client's flags and those the server has been told
  turn,    \* c.iter's index, as the position it selects
  open,    \* how many connections are open
  req,     \* the last request: the address asked for and what the server dials
  passes,  \* combos the network carries in both directions
  oneway,  \* others it carries to the server, while the server's own flags come back
  faults   \* dials may fail, pings and streams be lost, the network may change

env == <<passes, oneway, faults>>
vars == <<pc, cfg, combos, cycler, i, held, items, turn, open, req, env>>

FC == INSTANCE FlagCycler WITH NCombos <- Len(combos), MaxFailures <- cfg.maxFailures

Init ==
  /\ pc = "load"
  /\ cfg = None
  /\ combos = <<>>
  /\ cycler = FC!NewCycler
  /\ i = 0
  /\ held = 0
  /\ items = <<>>
  /\ turn = 0
  /\ open = 0
  /\ req = None
  /\ passes = {}
  /\ oneway = {}
  /\ faults = FALSE

Addresses == {Unset, Bad, At(0), At(9)}

RawConfigs ==
  [role : {"client", "server"}, lf : FlagLists, rf : FlagLists,
   maxFailures : FailureCounts, conn : ConnCounts, v4 : Addresses, v6 : Addresses,
   server : {"bad", "v4", "v6"}, listen : {Bad, At(9)}, protocol : {"kcp", "other"}, kcp : BOOLEAN, rest : BOOLEAN]

\* LoadFromFile.
Load ==
  /\ pc = "load"
  /\ \E raw \in RawConfigs, found \in BOOLEAN :
       LET r == SetDefaults(Detect(raw, found))
       IN  \/ Panics(r) /\ pc' = "panicked" /\ cfg' = cfg
           \/ ~Panics(r) /\ ~Valid(r) /\ pc' = "rejected" /\ cfg' = cfg
           \/ /\ ~Panics(r) /\ Valid(r)
              /\ pc' = IF r.role = "server" THEN "server" ELSE "loaded"
              /\ cfg' = Derived(r, ExplicitFlags(raw))
  /\ UNCHANGED <<combos, cycler, i, held, items, turn, open, req, env>>

\* Client.Start begins, on some network.
Begin ==
  /\ pc = "loaded"
  /\ pc' = "dial"
  /\ combos' = CombosFor(cfg.lf, cfg.rf, cfg.explicit)
  /\ passes' \in SUBSET (0 .. Len(combos') - 1)
  /\ oneway' \in SUBSET ((0 .. Len(combos') - 1) \ passes')
  /\ faults' \in BOOLEAN
  /\ UNCHANGED <<cfg, cycler, i, held, items, turn, open, req>>

\* sendTCPF, Proto.Read and handleStrm: the flags the server uses from now on.
Told(rf) ==
  LET p == Read(Write([type |-> PTCPF, tcpf |-> rf]))
  IN  IF p.type = PTCPF /\ p.tcpf # <<>> THEN p.tcpf ELSE None

\* newTimedConn returns a tunnel and Start goes on, with a new one or to the end.
Return(c, cyc, ok) ==
  /\ items' = Append(items, [combo |-> c, cycler |-> cyc, verified |-> ok,
                            lf |-> parseFlagStr(combos[c + 1][1]),
                            told |-> Told(parseFlagStr(combos[c + 1][2]))])
  /\ cycler' = FC!NewCycler
  /\ i' = 0
  /\ held' = 0
  /\ pc' = IF Len(items) + 1 = cfg.conn THEN "serving" ELSE "dial"
  /\ UNCHANGED <<cfg, combos, turn, req, env>>

\* Phase 1, dialKCPOnly: the connection, or nothing left open and the next combo.
Dial ==
  /\ pc = "dial"
  /\ i < Len(combos)
  /\ \/ /\ pc' = "verify"
        /\ held' = cycler.idx
        /\ open' = open + 1
        /\ UNCHANGED <<cycler, i>>
     \/ /\ faults
        /\ cycler' = FC!ForceNext(cycler)
        /\ i' = i + 1
        /\ UNCHANGED <<pc, held, open>>
  /\ UNCHANGED <<cfg, combos, items, turn, req, env>>

\* Mutant: the cycler moves on although the combo works.
VerifyOkAdvances ==
  /\ pc = "verify"
  /\ held \in passes \cup oneway
  /\ Return(held, FC!ForceNext(cycler), TRUE)
  /\ open' = open

\* verifyBidirectional gets a PONG: with the flags the TCPF asked for, or, sent
\* before the TCPF was handled, with the server's own.
VerifyOk ==
  /\ pc = "verify"
  /\ held \in passes \cup oneway
  /\ Return(held, cycler, TRUE)
  /\ open' = open

\* Mutant: the connection that failed the check is not closed.
VerifyErrNoClose ==
  /\ pc = "verify"
  /\ faults \/ held \notin passes
  /\ pc' = "dial"
  /\ held' = 0
  /\ cycler' = FC!ForceNext(cycler)
  /\ i' = i + 1
  /\ UNCHANGED <<cfg, combos, open, items, turn, req, env>>

\* Mutant: the sweep does not move on.
VerifyErrSameCombo ==
  /\ pc = "verify"
  /\ faults \/ held \notin passes
  /\ pc' = "dial"
  /\ held' = 0
  /\ open' = open - 1
  /\ i' = i + 1
  /\ UNCHANGED <<cfg, combos, cycler, items, turn, req, env>>

\* It gets none in time: always where the combo is dropped on the way out, and
\* where it is dropped on the way back if no PONG has overtaken the TCPF.
VerifyErr ==
  /\ pc = "verify"
  /\ faults \/ held \notin passes
  /\ pc' = "dial"
  /\ held' = 0
  /\ open' = open - 1
  /\ cycler' = FC!ForceNext(cycler)
  /\ i' = i + 1
  /\ UNCHANGED <<cfg, combos, items, turn, req, env>>

\* Phase 2: no combo passed; back to the user's.
FallBack ==
  /\ pc = "dial"
  /\ i = Len(combos)
  /\ cycler' = FC!SetIdx(cycler, 0)
  /\ pc' = "fallback"
  /\ UNCHANGED <<cfg, combos, i, held, items, turn, open, req, env>>

\* The last dialKCPOnly, without the ping.
FallbackOk ==
  /\ pc = "fallback"
  /\ Return(cycler.idx, cycler, FALSE)
  /\ open' = open + 1

\* "server unreachable": Start returns the error at once.
FallbackErr ==
  /\ pc = "fallback"
  /\ faults
  /\ pc' = "failed"
  /\ UNCHANGED <<cfg, combos, cycler, i, held, items, turn, open, req, env>>

\* startClient logs Start's error and starts the listeners all the same.
Proceed ==
  /\ pc = "failed"
  /\ pc' = "serving"
  /\ UNCHANGED <<cfg, combos, cycler, i, held, items, turn, open, req, env>>

\* Client.TCP takes the next tunnel and writes the address; handleStrm reads it
\* and dials, if the stream is not cut off before.  With no tunnel the
\* iterator's index is out of range.
Request ==
  /\ pc = "serving"
  /\ \E h \in Hosts, p \in Ports :
       LET w == Write([type |-> PTCP, host |-> h, port |-> p])
       IN  \/ /\ items # <<>>
              /\ turn' = (turn + 1) % Len(items)
              /\ pc' = pc
              /\ \E n \in IF faults THEN 0 .. Len(w) ELSE {Len(w)} :
                   LET m == Read(SubSeq(w, 1, n))
                   IN  req' = [host |-> h, port |-> p,
                               dials |-> IF m = Failed THEN None ELSE <<m.host, m.port>>]
           \/ items = <<>> /\ pc' = "panicked" /\ UNCHANGED <<turn, req>>
  /\ UNCHANGED <<cfg, combos, cycler, i, held, items, open, env>>

NetChange ==
  /\ faults
  /\ passes' \in SUBSET FC!Combos
  /\ oneway' \in SUBSET (FC!Combos \ passes')
  /\ UNCHANGED <<pc, cfg, combos, cycler, i, held, items, turn, open, req, faults>>

Next ==
  \/ Load \/ Begin
  \/ Dial \/ VerifyOk \/ VerifyErr \/ FallBack \/ FallbackOk \/ FallbackErr
  \/ Proceed \/ Request \/ NetChange

Spec == Init /\ [][Next]_vars

-------------------------------------------------------------------------------
\* Properties.

Started == pc \notin {"load", "rejected", "server", "loaded"} /\ cfg # None

TypeOK ==
  /\ pc \in {"load", "rejected", "server", "loaded", "dial", "verify", "fallback",
             "failed", "serving", "panicked"}
  /\ Started => /\ cycler \in FC!Cycler
                /\ held \in FC!Combos
                /\ passes \in SUBSET FC!Combos
                /\ oneway \in SUBSET (FC!Combos \ passes)
                /\ \A n \in DOMAIN items : items[n].combo \in FC!Combos
  /\ i \in 0 .. Len(combos)
  /\ turn \in 0 .. MaxConn - 1
  /\ open \in Nat
  /\ faults \in BOOLEAN

\* What LoadFromFile accepts is what the other parts assume of their parameters:
\* a cycler that can fail, at least one tunnel, and, because a fixed source port
\* gives every packet conn of this client one address at the server, no second
\* tunnel beside a fixed port, in whichever family the port was set.  (The example
\* in README.md:187-204 has fixed ports and four tunnels: it is not accepted.)
ConfigFits ==
  cfg # None =>
    /\ cfg.maxFailures \in Nat \ {0}
    /\ cfg.conn \in 1 .. MaxConn
    /\ pc # "server" /\ cfg.port # 0 => cfg.conn = 1 /\ Len(items) <= 1

\* The list a cycler goes through starts with the user's pair and names no pair
\* of flags twice, so that a sweep of Len(combos) dials tries each once.
CombosDistinct ==
  LET flags == [n \in DOMAIN combos |->
                  <<parseFlagStr(combos[n][1]), parseFlagStr(combos[n][2])>>]
  IN  Started => /\ flags[1] = << <<cfg.lf[1]>>, <<cfg.rf[1]>> >>
                 /\ IsInjective(flags)

\* Through the string form of the cycler and the words of the TCPF message, a list
\* of one entry that the user has set reaches each side as it is.  Of a longer list
\* no more is said than that no other flags are used: the rotation through its
\* entries that README.md:197 speaks of does not take place, since the cycler
\* keeps the first entry only.
FlagsAsConfigured ==
  \A n \in DOMAIN items : cfg.explicit =>
    /\ Range(items[n].lf) \subseteq Range(cfg.lf)
    /\ Range(items[n].told) \subseteq Range(cfg.rf)
    /\ Len(cfg.lf) = 1 => items[n].lf = cfg.lf
    /\ Len(cfg.rf) = 1 => items[n].told = cfg.rf

\* The server dials the address the request named, or nothing: not when the
\* stream is cut off, nor when the host is too long.  A port is narrowed to 16
\* bits, so this holds of a port in range.
DialsTarget ==
  req # None =>
    /\ req.dials # None => req.dials = <<req.host, req.port>> \/ req.port >= 2^16
    /\ ~faults /\ Len(req.host) <= MaxHost => req.dials # None

\* Every connection the probe opens becomes a tunnel or is closed, on all ways
\* out of the probe, the hard failure included.
ProbeLeavesNothing == open = Len(items) + (IF pc = "verify" THEN 1 ELSE 0)

\* A tunnel starts with its cycler on the combo it was dialled with and no
\* failure counted: what TimedConn assumes in its initial state.
TunnelMatchesCycler ==
  \A n \in DOMAIN items :
    items[n].cycler = [idx |-> items[n].combo, failures |-> 0]

\* On a network that loses nothing, the probe goes past no combo that works: it
\* ends on the first of them, or before it on one that is blocked on the way back
\* and was vouched for by a PONG with the server's own flags; the user's combo is
\* taken untested only if none works.  So "the first one that passes both ways"
\* (README.md:95) is what it finds if no PONG overtakes its TCPF.
NoWorkingComboSkipped ==
  ~faults => \A n \in DOMAIN items :
    /\ items[n].verified =>
         /\ items[n].combo \in passes \cup oneway
         /\ \A c \in passes : items[n].combo <= c
    /\ ~items[n].verified => items[n].combo = 0 /\ passes = {}
===============================================================================

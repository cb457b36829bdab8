--------------------------- MODULE ClientStart_proofs ---------------------------
(***************************************************************************)
(* The startup probe for every list of flags, every number of tunnels and  *)
(* every network: what a configuration that was accepted fits, and what    *)
(* the tunnels that Client.Start makes have in common with it.             *)
(***************************************************************************)
EXTENDS ClientStart, Protocol_proofs

\* Where LoadFromFile ends, and where newTimedConn is under way.
BeforeStart == {"load", "rejected", "server", "loaded"}
Probing == {"dial", "verify", "fallback"}

\* Client.Start has begun.
Active == pc \in Probing \cup {"failed", "serving"} \/ (pc = "panicked" /\ cfg # None)

-------------------------------------------------------------------------------
\* The invariant, in parts.

\* What the rest of the program relies on in an accepted configuration.
Fits(c) ==
  /\ c.maxFailures \in Nat \ {0}
  /\ c.conn \in 1 .. MaxConn
  /\ c.lf \in Seq(SUBSET Flags) /\ c.lf # <<>>
  /\ c.rf \in Seq(SUBSET Flags) /\ c.rf # <<>>
  /\ c.explicit \in BOOLEAN
  /\ ~c.explicit => c.lf = <<{"P", "A"}>> /\ c.rf = <<{"P", "A"}>>

ConfigInv ==
  /\ pc \in {"load", "rejected"} => cfg = None
  /\ pc \in {"server", "loaded"} \/ Active => Fits(cfg)
  /\ pc = "loaded" \/ Active => (cfg.port # 0 => cfg.conn = 1)

\* Nothing has moved before Client.Start.
FreshInv ==
  pc \in BeforeStart =>
    /\ combos = <<>> /\ items = <<>> /\ req = None /\ faults = FALSE
    /\ cycler = [idx |-> 0, failures |-> 0] /\ held = 0
    /\ i = 0 /\ turn = 0 /\ open = 0

\* The network is divided: what it carries both ways, and what only to the server.
NetworkInv ==
  Active => oneway \in SUBSET ((0 .. Len(combos) - 1) \ passes)

\* The sweep: the cycler is on the combo that the loop variable counts, around the
\* end of the list, and on a network that loses nothing no combo before it works.
SweepInv ==
  Active =>
    /\ combos = CombosFor(cfg.lf, cfg.rf, cfg.explicit)
    /\ passes \in SUBSET (0 .. Len(combos) - 1)
    /\ pc = "dial" =>
         cycler = [idx |-> IF i = Len(combos) THEN 0 ELSE i, failures |-> 0]
    /\ pc = "verify" => i < Len(combos) /\ cycler = [idx |-> i, failures |-> 0]
    /\ pc \notin {"dial", "verify"} => cycler = [idx |-> 0, failures |-> 0]
    /\ pc = "fallback" => i = Len(combos)
    /\ held = IF pc = "verify" THEN i ELSE 0
    /\ pc \in Probing /\ ~faults => \A c \in passes : i <= c

TunnelRecord ==
  [combo : Nat, cycler : [idx : Nat, failures : Nat], verified : BOOLEAN,
   lf : Seq(SUBSET Flags), told : Seq(SUBSET Flags)]

\* A tunnel: what its combo says, and, on a network that loses nothing, which one.
Tunnel(t) ==
  /\ t.combo \in 0 .. Len(combos) - 1
  /\ t.verified \in BOOLEAN
  /\ t.cycler = [idx |-> t.combo, failures |-> 0]
  /\ t.lf = parseFlagStr(combos[t.combo + 1][1])
  /\ t.told = parseFlagStr(combos[t.combo + 1][2])
  /\ ~faults =>
       /\ t.verified => t.combo \in passes \cup oneway /\ \A c \in passes : t.combo <= c
       /\ ~t.verified => t.combo = 0 /\ passes = {}

TunnelsInv ==
  /\ items \in Seq(TunnelRecord)
  /\ \A n \in DOMAIN items : Tunnel(items[n])
  /\ pc \in Probing => Len(items) < cfg.conn
  /\ Active => Len(items) <= cfg.conn
  /\ pc = "panicked" => items = <<>>
  /\ open = Len(items) + (IF pc = "verify" THEN 1 ELSE 0)

CountersInv ==
  /\ pc \in BeforeStart \cup Probing \cup {"failed", "serving", "panicked"}
  /\ Len(combos) \in Nat
  /\ i \in 0 .. Len(combos)
  /\ turn \in 0 .. MaxConn - 1
  /\ faults \in BOOLEAN

\* The counters stay in range, and a request is dialled as DialsTarget says, which is
\* inductive with the rest.
IInv ==
  /\ ConfigInv /\ FreshInv /\ NetworkInv /\ SweepInv /\ TunnelsInv /\ CountersInv
  /\ DialsTarget

-------------------------------------------------------------------------------
\* LoadFromFile.

\* What the defaults and detection leave in the fields that Derived uses.
LEMMA DefaultsFilled ==
  ASSUME NEW raw \in RawConfigs, NEW found \in BOOLEAN,
         NEW r, r = SetDefaults(Detect(raw, found))
  PROVE  /\ r.role = raw.role
         /\ r.lf = IF raw.lf = <<>> THEN <<PA>> ELSE raw.lf
         /\ r.rf = IF raw.rf = <<>> THEN <<PA>> ELSE raw.rf
         /\ r.maxFailures = IF raw.maxFailures = 0 THEN 3 ELSE raw.maxFailures
         /\ r.conn = IF raw.conn = 0 THEN 1 ELSE raw.conn
<1> DEFINE d == Detect(raw, found)
<1>1. \E a : d = [raw EXCEPT !.v4 = a] \/ d = raw
  BY DEF Detect
<1> HIDE DEF d
<1>2. /\ d.role = raw.role /\ d.lf = raw.lf /\ d.rf = raw.rf
      /\ d.maxFailures = raw.maxFailures /\ d.conn = raw.conn
      /\ {"role", "lf", "rf", "maxFailures", "conn"} \subseteq DOMAIN d
  BY <1>1 DEF RawConfigs
<1>3. r = SetDefaults(d)
  BY DEF d
<1> QED BY <1>2, <1>3 DEF SetDefaults

\* A list of flags after the defaults, as the sets that Derived makes of it.
LEMMA FlagListFits ==
  ASSUME NEW given \in FlagLists, NEW l, l = IF given = <<>> THEN <<PA>> ELSE given
  PROVE  LET parsed == [n \in DOMAIN l |-> strTCPF(l[n])]
         IN  /\ parsed \in Seq(SUBSET Flags) /\ parsed # <<>>
             /\ given = <<>> => parsed = <<{"P", "A"}>>
<1> DEFINE parsed == [n \in DOMAIN l |-> strTCPF(l[n])]
<1>1. given \in Seq(Seq(STRING))
  BY ConfigAssumption
<1>2. DOMAIN l = 1 .. Len(l) /\ Len(l) \in Nat \ {0}
  <2>1. CASE given = <<>>
    BY <2>1
  <2>2. CASE given # <<>>
    BY <1>1, <2>2
  <2> QED BY <2>1, <2>2
<1>3. parsed # <<>>
  BY <1>2
<1>4. parsed \in Seq(SUBSET Flags)
  <2>1. \A n \in 1 .. Len(l) : strTCPF(l[n]) \in SUBSET Flags
    BY FlagsAreLetters DEF strTCPF
  <2> QED BY <1>2, <2>1
<1>5. ASSUME given = <<>>
      PROVE  parsed = <<{"P", "A"}>>
  <2>1. strTCPF(PA) = {"P", "A"}
    <3>1. Range(PA) = {"P", "A"}
      BY DEF PA, Range
    <3> QED BY <3>1, FlagsAreLetters DEF strTCPF, Flags
  <2>2. l = <<PA>> /\ DOMAIN l = 1 .. 1 /\ l[1] = PA
    BY <1>5
  <2> HIDE DEF PA
  <2>3. parsed = [n \in 1 .. 1 |-> {"P", "A"}]
    BY <2>1, <2>2
  <2> QED BY <2>3
<1> QED BY <1>3, <1>4, <1>5

\* What Derived makes of a valid configuration fits.
LEMMA LoadedFits ==
  ASSUME NEW raw \in RawConfigs, NEW found \in BOOLEAN,
         NEW r, r = SetDefaults(Detect(raw, found)), Valid(r),
         NEW d, d = Derived(r, ExplicitFlags(raw))
  PROVE  /\ Fits(d)
         /\ raw.role # "server" => (d.port # 0 => d.conn = 1)
<1>1. /\ raw.lf \in FlagLists /\ raw.rf \in FlagLists
      /\ raw.maxFailures \in Int /\ raw.conn \in Int
  BY ConfigAssumption DEF RawConfigs
<1>2. /\ d.lf = [n \in DOMAIN r.lf |-> strTCPF(r.lf[n])]
      /\ d.rf = [n \in DOMAIN r.rf |-> strTCPF(r.rf[n])]
      /\ d.explicit = ExplicitFlags(raw) /\ d.maxFailures = r.maxFailures
      /\ d.conn = r.conn /\ d.port = Port(r)
  BY DEF Derived
<1>9. /\ r.lf = IF raw.lf = <<>> THEN <<PA>> ELSE raw.lf
      /\ r.rf = IF raw.rf = <<>> THEN <<PA>> ELSE raw.rf
  BY DefaultsFilled
<1>3. d.maxFailures \in Nat \ {0}
  BY <1>1, <1>2, DefaultsFilled DEF Valid, TCPValid
<1>4. d.conn \in 1 .. MaxConn
  BY <1>2 DEF Valid
<1>5. /\ d.lf \in Seq(SUBSET Flags) /\ d.lf # <<>>
      /\ raw.lf = <<>> => d.lf = <<{"P", "A"}>>
  <2>1. LET parsed == [n \in DOMAIN r.lf |-> strTCPF(r.lf[n])]
        IN  /\ parsed \in Seq(SUBSET Flags) /\ parsed # <<>>
            /\ raw.lf = <<>> => parsed = <<{"P", "A"}>>
    BY <1>1, <1>9, FlagListFits
  <2> QED BY <1>2, <2>1
<1>6. /\ d.rf \in Seq(SUBSET Flags) /\ d.rf # <<>>
      /\ raw.rf = <<>> => d.rf = <<{"P", "A"}>>
  <2>1. LET parsed == [n \in DOMAIN r.rf |-> strTCPF(r.rf[n])]
        IN  /\ parsed \in Seq(SUBSET Flags) /\ parsed # <<>>
            /\ raw.rf = <<>> => parsed = <<{"P", "A"}>>
    BY <1>1, <1>9, FlagListFits
  <2> QED BY <1>2, <2>1
<1>7. d.explicit \in BOOLEAN /\ (~d.explicit => raw.lf = <<>> /\ raw.rf = <<>>)
  BY <1>2 DEF ExplicitFlags
<1>8. raw.role # "server" => (d.port # 0 => d.conn = 1)
  BY <1>2, <1>4, DefaultsFilled DEF Valid, RoleValid
<1> QED BY <1>3, <1>4, <1>5, <1>6, <1>7, <1>8 DEF Fits

\* LoadFromFile keeps the invariant, however it ends.
LEMMA LoadStep == IInv /\ Load => IInv'
<1> SUFFICES ASSUME IInv, Load
             PROVE  IInv'
  OBVIOUS
<1>1. /\ pc = "load" /\ cfg = None /\ items = <<>> /\ combos = <<>>
      /\ UNCHANGED <<combos, cycler, i, held, items, turn, open, req, passes, oneway, faults>>
  BY DEF IInv, ConfigInv, FreshInv, BeforeStart, Load, env
<1>2. \/ pc' \in {"panicked", "rejected"} /\ cfg' = None
      \/ /\ pc' \in {"server", "loaded"} /\ Fits(cfg)'
         /\ pc' = "loaded" => (cfg'.port # 0 => cfg'.conn = 1)
  <2>1. PICK raw \in RawConfigs, found \in BOOLEAN :
          LET r == SetDefaults(Detect(raw, found))
          IN  \/ Panics(r) /\ pc' = "panicked" /\ cfg' = cfg
              \/ ~Panics(r) /\ ~Valid(r) /\ pc' = "rejected" /\ cfg' = cfg
              \/ /\ ~Panics(r) /\ Valid(r)
                 /\ pc' = IF r.role = "server" THEN "server" ELSE "loaded"
                 /\ cfg' = Derived(r, ExplicitFlags(raw))
    BY DEF Load
  <2> DEFINE r == SetDefaults(Detect(raw, found))
  <2>2. r.role = raw.role
    BY DefaultsFilled
  <2> HIDE DEF r
  <2>3. CASE Valid(r) /\ cfg' = Derived(r, ExplicitFlags(raw))
               /\ pc' = IF r.role = "server" THEN "server" ELSE "loaded"
    <3>1. Fits(cfg') /\ (raw.role # "server" => (cfg'.port # 0 => cfg'.conn = 1))
      BY <2>3, LoadedFits DEF r
    <3> QED BY <2>2, <2>3, <3>1 DEF Fits
  <2> QED BY <1>1, <2>1, <2>3 DEF r
<1>3. ~Active'
  BY <1>2 DEF Active, Probing
<1>4. ConfigInv'
  BY <1>2, <1>3 DEF ConfigInv
<1>5. FreshInv'
  BY <1>1 DEF IInv, FreshInv, BeforeStart
<1>6. SweepInv' /\ NetworkInv'
  BY <1>3 DEF SweepInv, NetworkInv
<1>7. TunnelsInv'
  BY <1>1, <1>2, <1>3 DEF IInv, TunnelsInv, Probing
<1>8. CountersInv' /\ DialsTarget'
  BY <1>1, <1>2 DEF IInv, CountersInv, DialsTarget, BeforeStart
<1> QED BY <1>4, <1>5, <1>6, <1>7, <1>8 DEF IInv

-------------------------------------------------------------------------------
\* The probe.

\* The server reads from the TCPF message the flags the client has written.
LEMMA ToldFlags ==
  ASSUME NEW s
  PROVE  /\ parseFlagStr(s) \in Seq(SUBSET Flags)
         /\ Told(parseFlagStr(s)) = parseFlagStr(s)
<1> DEFINE l == parseFlagStr(s)
<1>1. l \in Seq(SUBSET Flags) /\ Len(l) = 1 /\ l # <<>>
  BY FlagsAreLetters DEF parseFlagStr, strTCPF
<1> HIDE DEF l
<1>2. Len(l) < 2^8
  BY <1>1
<1>3. Read(Write([type |-> PTCPF, tcpf |-> l])) = [type |-> PTCPF, tcpf |-> l]
  BY <1>1, <1>2, FlagsMessage
<1>4. Told(l) = l
  BY <1>1, <1>3 DEF Told
<1> QED BY <1>1, <1>4 DEF l

\* The list, once Client.Start has made it.
LEMMA ListOfConfig ==
  ASSUME Fits(cfg), combos = CombosFor(cfg.lf, cfg.rf, cfg.explicit)
  PROVE  LET flags == [n \in DOMAIN combos |->
                         <<parseFlagStr(combos[n][1]), parseFlagStr(combos[n][2])>>]
         IN  /\ Len(combos) \in Nat \ {0} /\ DOMAIN combos = 1 .. Len(combos)
             /\ cfg.explicit => Len(combos) = 1
             /\ flags[1] = << <<cfg.lf[1]>>, <<cfg.rf[1]>> >>
             /\ IsInjective(flags)
<1> DEFINE lf == cfg.lf
           rf == cfg.rf
           explicit == cfg.explicit
<1>1. /\ lf # <<>> /\ lf[1] \in SUBSET Flags
      /\ rf # <<>> /\ rf[1] \in SUBSET Flags
      /\ explicit \in BOOLEAN
      /\ ~explicit => lf = <<{"P", "A"}>> /\ rf = <<{"P", "A"}>>
  BY DEF Fits
<1> HIDE DEF lf, rf, explicit
<1>2. LET c == CombosFor(lf, rf, explicit)
          flags == [n \in DOMAIN c |-> <<parseFlagStr(c[n][1]), parseFlagStr(c[n][2])>>]
      IN  /\ Len(c) \in Nat \ {0} /\ DOMAIN c = 1 .. Len(c)
          /\ explicit => Len(c) = 1
          /\ flags[1] = << <<lf[1]>>, <<rf[1]>> >>
          /\ IsInjective(flags)
  BY <1>1, CyclerList
<1> QED BY <1>2, Zenon DEF lf, rf, explicit

\* The beginning of Client.Start keeps it: nothing has moved yet.
LEMMA BeginStep == IInv /\ Begin => IInv'
<1> SUFFICES ASSUME IInv, Begin
             PROVE  IInv'
  OBVIOUS
<1>1. /\ pc = "loaded" /\ pc' = "dial" /\ items = <<>> /\ req = None
      /\ cycler = [idx |-> 0, failures |-> 0] /\ held = 0 /\ i = 0 /\ turn = 0 /\ open = 0
      /\ combos' = CombosFor(cfg.lf, cfg.rf, cfg.explicit)
      /\ passes' \in SUBSET (0 .. Len(combos') - 1)
      /\ oneway' \in SUBSET ((0 .. Len(combos') - 1) \ passes')
      /\ faults' \in BOOLEAN
      /\ UNCHANGED <<cfg, cycler, i, held, items, turn, open, req>>
  BY DEF IInv, FreshInv, BeforeStart, Begin
<1>2. Fits(cfg) /\ (cfg.port # 0 => cfg.conn = 1)
  BY <1>1 DEF IInv, ConfigInv
<1>3. Len(combos') \in Nat \ {0}
  <2> DEFINE lf == cfg.lf
             rf == cfg.rf
             explicit == cfg.explicit
  <2>1. /\ lf # <<>> /\ lf[1] \in SUBSET Flags
        /\ rf # <<>> /\ rf[1] \in SUBSET Flags
        /\ explicit \in BOOLEAN
        /\ ~explicit => lf = <<{"P", "A"}>> /\ rf = <<{"P", "A"}>>
    BY <1>2 DEF Fits
  <2>2. combos' = CombosFor(lf, rf, explicit)
    BY <1>1
  <2> HIDE DEF lf, rf, explicit
  <2> QED BY <2>1, <2>2, CyclerList
<1>4. ConfigInv' /\ FreshInv'
  BY <1>1, <1>2 DEF ConfigInv, FreshInv, BeforeStart, Fits
<1>5. SweepInv' /\ NetworkInv'
  <2>1. \A c \in passes' : 0 <= c
    BY <1>1, <1>3
  <2> QED BY <1>1, <1>3, <2>1 DEF SweepInv, NetworkInv
<1>6. TunnelsInv'
  <2>1. Len(items) = 0 /\ DOMAIN items = {} /\ items \in Seq(TunnelRecord)
    BY <1>1
  <2>2. 0 < cfg.conn /\ 0 <= cfg.conn
    BY <1>2, MaxConnAssumption DEF Fits
  <2> QED BY <1>1, <2>1, <2>2 DEF TunnelsInv
<1>7. CountersInv'
  BY <1>1, <1>3, MaxConnAssumption DEF CountersInv, Probing
<1>8. DialsTarget'
  BY <1>1 DEF DialsTarget
<1> QED BY <1>4, <1>5, <1>6, <1>7, <1>8 DEF IInv

\* The tunnels there are do not change when the network and the list do not.
LEMMA TunnelsKept ==
  ASSUME UNCHANGED <<combos, passes, oneway, faults>>, NEW t, Tunnel(t)
  PROVE  /\ t.combo \in 0 .. Len(combos') - 1
         /\ t.verified \in BOOLEAN
         /\ t.cycler = [idx |-> t.combo, failures |-> 0]
         /\ t.lf = parseFlagStr(combos'[t.combo + 1][1])
         /\ t.told = parseFlagStr(combos'[t.combo + 1][2])
         /\ ~faults' =>
              /\ t.verified =>
                   t.combo \in passes' \cup oneway' /\ \A c \in passes' : t.combo <= c
              /\ ~t.verified => t.combo = 0 /\ passes' = {}
BY DEF Tunnel

\* A step of the probe that makes no tunnel.
LEMMA ProbeStep ==
  ASSUME IInv, pc \in Probing, pc' \in Probing \cup {"failed"},
         UNCHANGED <<cfg, combos, items, turn, req, passes, oneway, faults>>,
         SweepInv', i' \in 0 .. Len(combos),
         open' = Len(items) + (IF pc' = "verify" THEN 1 ELSE 0)
  PROVE  IInv'
<1>1. ConfigInv'
  BY DEF IInv, ConfigInv, Probing, Active, Fits
<1>2. FreshInv' /\ NetworkInv'
  BY DEF IInv, FreshInv, NetworkInv, BeforeStart, Active, Probing
<1>3. TunnelsInv'
  <2>1. \A n \in DOMAIN items' : Tunnel(items[n])'
    BY TunnelsKept DEF IInv, TunnelsInv, Tunnel
  <2> QED BY <2>1 DEF IInv, TunnelsInv, Probing, Active
<1>4. CountersInv'
  BY DEF IInv, CountersInv
<1>5. DialsTarget'
  BY DEF IInv, DialsTarget
<1> QED BY <1>1, <1>2, <1>3, <1>4, <1>5 DEF IInv

\* The cycler's operators, over this list.
LEMMA CyclerMoves ==
  ASSUME Len(combos) \in Nat \ {0}, NEW n \in 0 .. Len(combos) - 1,
         NEW c, c = [idx |-> n, failures |-> 0]
  PROVE  /\ FC!ForceNext(c) = [idx |-> IF n + 1 = Len(combos) THEN 0 ELSE n + 1, failures |-> 0]
         /\ FC!SetIdx(c, 0) = [idx |-> 0, failures |-> 0]
<1>1. c.idx = n
  OBVIOUS
<1>2. (n + 1) % Len(combos) = IF n + 1 = Len(combos) THEN 0 ELSE n + 1
  OBVIOUS
<1>3. 0 \in 0 .. Len(combos) - 1
  OBVIOUS
<1> QED BY <1>1, <1>2, <1>3 DEF FC!ForceNext, FC!Next_idx, FC!SetIdx, FC!Combos

\* A dial keeps it; one that fails moves cycler and loop variable together.
LEMMA DialStep == IInv /\ Dial => IInv'
<1> SUFFICES ASSUME IInv, Dial
             PROVE  IInv'
  OBVIOUS
<1>1. /\ pc = "dial" /\ i < Len(combos)
      /\ cycler = [idx |-> IF i = Len(combos) THEN 0 ELSE i, failures |-> 0] /\ held = 0
      /\ Fits(cfg) /\ combos = CombosFor(cfg.lf, cfg.rf, cfg.explicit)
      /\ passes \in SUBSET (0 .. Len(combos) - 1)
      /\ ~faults => \A c \in passes : i <= c
      /\ UNCHANGED <<cfg, combos, items, turn, req, passes, oneway, faults>>
      /\ open = Len(items)
  BY DEF IInv, ConfigInv, SweepInv, TunnelsInv, Active, Probing, Dial, env
<1>2. i \in 0 .. Len(combos) - 1 /\ Len(combos) \in Nat \ {0} /\ Len(items) \in Nat
  BY <1>1 DEF IInv, CountersInv, TunnelsInv
<1>3. cycler = [idx |-> i, failures |-> 0]
  BY <1>1, <1>2
<1>4. CASE pc' = "verify" /\ held' = cycler.idx /\ open' = open + 1 /\ UNCHANGED <<cycler, i>>
  <2>1. SweepInv'
    BY <1>1, <1>2, <1>3, <1>4 DEF SweepInv, Probing
  <2> QED BY <1>1, <1>2, <1>4, <2>1, ProbeStep DEF Probing
<1>5. CASE faults /\ cycler' = FC!ForceNext(cycler) /\ i' = i + 1 /\ UNCHANGED <<pc, held, open>>
  <2>1. cycler' = [idx |-> IF i' = Len(combos) THEN 0 ELSE i', failures |-> 0]
    BY <1>2, <1>3, <1>5, CyclerMoves
  <2>2. SweepInv'
    BY <1>1, <1>5, <2>1 DEF SweepInv, Probing
  <2>3. i' \in 0 .. Len(combos)
    BY <1>2, <1>5
  <2> QED BY <1>1, <1>2, <1>5, <2>2, <2>3, ProbeStep DEF Probing
<1> QED BY <1>4, <1>5 DEF Dial

\* A failed check keeps it: without faults the combo is one that does not work.
LEMMA VerifyErrStep == IInv /\ VerifyErr => IInv'
<1> SUFFICES ASSUME IInv, VerifyErr
             PROVE  IInv'
  OBVIOUS
<1>1. /\ pc = "verify" /\ pc' = "dial" /\ i < Len(combos)
      /\ cycler = [idx |-> i, failures |-> 0] /\ held = i
      /\ combos = CombosFor(cfg.lf, cfg.rf, cfg.explicit)
      /\ passes \in SUBSET (0 .. Len(combos) - 1)
      /\ ~faults => \A c \in passes : i <= c
      /\ open = Len(items) + 1
      /\ faults \/ held \notin passes
      /\ held' = 0 /\ open' = open - 1 /\ i' = i + 1 /\ cycler' = FC!ForceNext(cycler)
      /\ UNCHANGED <<cfg, combos, items, turn, req, passes, oneway, faults>>
  BY DEF IInv, SweepInv, TunnelsInv, Active, Probing, VerifyErr, env
<1>2. i \in 0 .. Len(combos) - 1 /\ Len(combos) \in Nat \ {0} /\ Len(items) \in Nat
  BY <1>1 DEF IInv, CountersInv, TunnelsInv
<1>3. cycler' = [idx |-> IF i' = Len(combos) THEN 0 ELSE i', failures |-> 0]
  BY <1>1, <1>2, CyclerMoves
<1>4. ~faults' => \A c \in passes' : i' <= c
  <2>1. ASSUME ~faults, NEW c \in passes
        PROVE  i + 1 <= c
    <3>1. c \in Int /\ i <= c /\ c # i
      BY <1>1, <2>1
    <3> QED BY <1>2, <3>1
  <2> QED BY <1>1, <2>1
<1>5. SweepInv'
  BY <1>1, <1>3, <1>4 DEF SweepInv, Probing
<1>6. i' \in 0 .. Len(combos) /\ open' = Len(items)
  BY <1>1, <1>2
<1> QED BY <1>1, <1>2, <1>5, <1>6, ProbeStep DEF Probing

\* The end of the sweep keeps it: the cycler is back where SetIdx puts it.
LEMMA FallBackStep == IInv /\ FallBack => IInv'
<1> SUFFICES ASSUME IInv, FallBack
             PROVE  IInv'
  OBVIOUS
<1>1. /\ pc = "dial" /\ pc' = "fallback" /\ i = Len(combos)
      /\ cycler = [idx |-> 0, failures |-> 0] /\ held = 0
      /\ Fits(cfg) /\ combos = CombosFor(cfg.lf, cfg.rf, cfg.explicit)
      /\ passes \in SUBSET (0 .. Len(combos) - 1)
      /\ ~faults => \A c \in passes : i <= c
      /\ open = Len(items)
      /\ cycler' = FC!SetIdx(cycler, 0)
      /\ UNCHANGED <<cfg, combos, i, held, items, turn, open, req, passes, oneway, faults>>
  BY DEF IInv, ConfigInv, SweepInv, TunnelsInv, Active, Probing, FallBack, env
<1>2. Len(combos) \in Nat \ {0} /\ Len(items) \in Nat /\ i \in 0 .. Len(combos)
  BY <1>1, ListOfConfig DEF IInv, CountersInv, TunnelsInv
<1>3. cycler' = [idx |-> 0, failures |-> 0]
  BY <1>1, <1>2, CyclerMoves
<1>4. SweepInv'
  BY <1>1, <1>3 DEF SweepInv, Probing
<1> QED BY <1>1, <1>2, <1>4, ProbeStep DEF Probing

\* The hard failure keeps it; nothing is open for the tunnel that is not made.
LEMMA FallbackErrStep == IInv /\ FallbackErr => IInv'
<1> SUFFICES ASSUME IInv, FallbackErr
             PROVE  IInv'
  OBVIOUS
<1>1. /\ pc = "fallback" /\ pc' = "failed" /\ open = Len(items)
      /\ UNCHANGED <<cfg, combos, cycler, i, held, items, turn, open, req, passes, oneway, faults>>
  BY DEF IInv, TunnelsInv, FallbackErr, env
<1>2. SweepInv'
  BY <1>1 DEF IInv, SweepInv, Active, Probing
<1> QED BY <1>1, <1>2, ProbeStep DEF IInv, CountersInv, TunnelsInv, Probing

\* newTimedConn returns a tunnel.
LEMMA ReturnStep ==
  ASSUME IInv, NEW c \in 0 .. Len(combos) - 1, NEW ok \in BOOLEAN,
         NEW cyc, cyc = [idx |-> c, failures |-> 0],
         pc \in {"verify", "fallback"}, Return(c, cyc, ok), open' = Len(items) + 1,
         ~faults => /\ ok => c \in passes \cup oneway /\ \A d \in passes : c <= d
                    /\ ~ok => c = 0 /\ passes = {}
  PROVE  IInv'
<1> DEFINE t == [combo |-> c, cycler |-> cyc, verified |-> ok,
                 lf |-> parseFlagStr(combos[c + 1][1]),
                 told |-> Told(parseFlagStr(combos[c + 1][2]))]
<1>1. /\ items' = Append(items, t)
      /\ cycler' = [idx |-> 0, failures |-> 0] /\ i' = 0 /\ held' = 0
      /\ pc' = IF Len(items) + 1 = cfg.conn THEN "serving" ELSE "dial"
      /\ UNCHANGED <<cfg, combos, turn, req, passes, oneway, faults>>
  BY DEF Return, FC!NewCycler, env
<1>2. /\ Fits(cfg) /\ (cfg.port # 0 => cfg.conn = 1)
      /\ combos = CombosFor(cfg.lf, cfg.rf, cfg.explicit)
      /\ passes \in SUBSET (0 .. Len(combos) - 1)
      /\ items \in Seq(TunnelRecord) /\ Len(items) < cfg.conn
  BY DEF IInv, ConfigInv, SweepInv, TunnelsInv, Active, Probing
<1>3. Len(combos) \in Nat \ {0} /\ cfg.conn \in Nat /\ Len(items) \in Nat
  BY <1>2, ListOfConfig, MaxConnAssumption DEF Fits
<1>4. t \in TunnelRecord /\ Tunnel(t)
  <2>1. c \in Nat
    BY <1>3
  <2> QED BY <2>1, ToldFlags DEF TunnelRecord, Tunnel
<1> HIDE DEF t
<1>5. /\ items' \in Seq(TunnelRecord) /\ Len(items') = Len(items) + 1
      /\ \A n \in DOMAIN items' :
           \/ items'[n] = t
           \/ n \in DOMAIN items /\ items'[n] = items[n]
  BY <1>1, <1>2, <1>4, AppendProperties
<1>6. ConfigInv' /\ FreshInv' /\ NetworkInv'
  BY <1>1, <1>2 DEF IInv, ConfigInv, FreshInv, NetworkInv, Active, BeforeStart, Probing, Fits
<1>7. SweepInv'
  <2>1. \A d \in passes' : 0 <= d
    BY <1>1, <1>2
  <2> QED BY <1>1, <1>2, <1>3, <2>1 DEF SweepInv, Probing
<1>8. TunnelsInv'
  <2>1. \A n \in DOMAIN items' : Tunnel(items'[n])
    BY <1>4, <1>5 DEF IInv, TunnelsInv
  <2>2. \A n \in DOMAIN items' : Tunnel(items[n])'
    BY <1>1, <2>1, TunnelsKept DEF Tunnel
  <2>3. Len(items') <= cfg.conn /\ (pc' = "dial" => Len(items') < cfg.conn)
    BY <1>1, <1>2, <1>3, <1>5
  <2> QED BY <1>1, <1>3, <1>5, <2>2, <2>3 DEF TunnelsInv, Probing
<1>9. CountersInv' /\ DialsTarget'
  BY <1>1, <1>3 DEF IInv, CountersInv, DialsTarget, Probing
<1> QED BY <1>6, <1>7, <1>8, <1>9 DEF IInv

\* A successful check keeps it: no combo before this one works.
LEMMA VerifyOkStep == IInv /\ VerifyOk => IInv'
<1> SUFFICES ASSUME IInv, VerifyOk
             PROVE  IInv'
  OBVIOUS
<1>1. /\ pc = "verify" /\ held \in passes \cup oneway /\ held = i
      /\ cycler = [idx |-> held, failures |-> 0]
      /\ passes \in SUBSET (0 .. Len(combos) - 1)
      /\ oneway \in SUBSET ((0 .. Len(combos) - 1) \ passes)
      /\ ~faults => \A d \in passes : held <= d
      /\ open' = Len(items) + 1 /\ Return(held, cycler, TRUE)
  BY DEF IInv, SweepInv, NetworkInv, TunnelsInv, Active, Probing, VerifyOk
<1> QED BY <1>1, ReturnStep

\* The fallback's dial keeps it: without faults no combo works at all.
LEMMA FallbackOkStep == IInv /\ FallbackOk => IInv'
<1> SUFFICES ASSUME IInv, FallbackOk
             PROVE  IInv'
  OBVIOUS
<1>1. /\ pc = "fallback" /\ i = Len(combos)
      /\ cycler = [idx |-> 0, failures |-> 0]
      /\ Fits(cfg) /\ combos = CombosFor(cfg.lf, cfg.rf, cfg.explicit)
      /\ passes \in SUBSET (0 .. Len(combos) - 1)
      /\ ~faults => \A d \in passes : i <= d
      /\ open = Len(items) /\ open' = open + 1
      /\ Return(cycler.idx, cycler, FALSE)
  <2>1. open = Len(items) + 0 /\ Len(items) \in Nat
    BY DEF IInv, TunnelsInv, FallbackOk
  <2>2. open = Len(items)
    BY <2>1
  <2> QED BY <2>2 DEF IInv, ConfigInv, SweepInv, Active, Probing, FallbackOk
<1>2. Len(combos) \in Nat \ {0} /\ Len(items) \in Nat
  BY <1>1, ListOfConfig DEF IInv, TunnelsInv
<1>3. ~faults => passes = {}
  BY <1>1, <1>2
<1>4. 0 \in 0 .. Len(combos) - 1 /\ cycler.idx = 0 /\ open' = Len(items) + 1
  BY <1>1, <1>2
<1> QED BY <1>1, <1>3, <1>4, ReturnStep

-------------------------------------------------------------------------------
\* Serving.

\* Going on after Start's error keeps it.
LEMMA ProceedStep == IInv /\ Proceed => IInv'
<1> SUFFICES ASSUME IInv, Proceed
             PROVE  IInv'
  OBVIOUS
<1>1. /\ pc = "failed" /\ pc' = "serving"
      /\ UNCHANGED <<cfg, combos, cycler, i, held, items, turn, open, req, passes, oneway, faults>>
  BY DEF Proceed, env
<1>2. ConfigInv' /\ FreshInv' /\ NetworkInv' /\ SweepInv'
  BY <1>1 DEF IInv, ConfigInv, FreshInv, NetworkInv, SweepInv, Active, BeforeStart, Probing, Fits
<1>3. TunnelsInv'
  <2>1. \A n \in DOMAIN items' : Tunnel(items[n])'
    BY <1>1, TunnelsKept DEF IInv, TunnelsInv, Tunnel
  <2> QED BY <1>1, <2>1 DEF IInv, TunnelsInv, Active, Probing
<1>4. CountersInv' /\ DialsTarget'
  BY <1>1 DEF IInv, CountersInv, DialsTarget
<1> QED BY <1>2, <1>3, <1>4 DEF IInv

\* What a request makes the server dial.
LEMMA RequestDials ==
  ASSUME NEW h \in Hosts, NEW p \in Ports,
         NEW w, w = Write([type |-> PTCP, host |-> h, port |-> p]),
         NEW n \in IF faults THEN 0 .. Len(w) ELSE {Len(w)},
         NEW dials, LET m == Read(SubSeq(w, 1, n))
                    IN  dials = IF m = Failed THEN None ELSE <<m.host, m.port>>
  PROVE  /\ dials # None => dials = <<h, p>> \/ p >= 2^16
         /\ ~faults /\ Len(h) <= MaxHost => dials # None
<1> DEFINE m == Read(SubSeq(w, 1, n))
<1>1. h \in Seq(STRING) /\ p \in Nat /\ Len(h) \in Nat
  BY AddressAssumption
<1>2. CASE Len(h) <= MaxHost
  <2>1. Len(w) = 3 + Len(h)
    <3>1. 0 \in 0 .. Len(Write([type |-> PTCP, host |-> h, port |-> p]))
      <4>1. Len(<<>>) = 0
        OBVIOUS
      <4> QED BY <1>1
    <3> QED BY <1>1, <1>2, <3>1, AddressMessage, MaxHostAssumption
  <2>2. n \in 0 .. Len(w) /\ (~faults => n = Len(w))
    BY <1>1, <2>1
  <2>3. m = IF n = Len(w) THEN [type |-> PTCP, port |-> p % 2^16, host |-> h] ELSE Failed
    BY <1>1, <1>2, <2>2, AddressMessage, MaxHostAssumption
  <2> HIDE DEF m
  <2>4. CASE m = [type |-> PTCP, port |-> p % 2^16, host |-> h]
    <3>1. m # Failed /\ m.host = h /\ m.port = p % 2^16
      BY <2>4 DEF Failed, PTCP
    <3>2. dials = <<h, p % 2^16>>
      BY <3>1 DEF m
    <3>3. dials \in Hosts \X Nat
      BY <1>1, <3>2
    <3>4. p < 2^16 => p % 2^16 = p
      BY <1>1
    <3> QED BY <1>1, <3>2, <3>3, <3>4, AddressAssumption
  <2>5. CASE m = Failed /\ faults
    BY <2>5 DEF m
  <2> QED BY <2>2, <2>3, <2>4, <2>5
<1>3. CASE ~(Len(h) <= MaxHost)
  <2>1. w = <<>>
    BY <1>1, <1>3, MaxHostAssumption DEF Write, PPING, PPONG, PTCP, PUDP, PTCPF
  <2>2. n = 0
    BY <2>1
  <2>3. SubSeq(w, 1, 0) = <<>>
    BY SubSeqEmpty
  <2>4. m = Failed
    BY <2>2, <2>3 DEF Read
  <2> QED BY <1>3, <2>4
<1> QED BY <1>2, <1>3

\* A request keeps it, also the one that finds no tunnel.
LEMMA RequestStep == IInv /\ Request => IInv'
<1> SUFFICES ASSUME IInv, Request
             PROVE  IInv'
  OBVIOUS
<1>1. /\ pc = "serving"
      /\ UNCHANGED <<cfg, combos, cycler, i, held, items, open, passes, oneway, faults>>
  BY DEF Request, env
<1>2. /\ Fits(cfg) /\ (cfg.port # 0 => cfg.conn = 1)
      /\ items \in Seq(TunnelRecord) /\ Len(items) <= cfg.conn /\ Len(items) \in Nat
      /\ turn \in 0 .. MaxConn - 1
  BY <1>1 DEF IInv, ConfigInv, TunnelsInv, CountersInv, Active
<1>3. /\ pc' \in {"serving", "panicked"} /\ (pc' = "panicked" => items = <<>>)
      /\ turn' \in 0 .. MaxConn - 1
  <2>1. CASE items # <<>> /\ turn' = (turn + 1) % Len(items) /\ pc' = pc
    <3> DEFINE k == Len(items)
    <3>1. k \in Nat \ {0} /\ k <= MaxConn /\ turn \in Nat
      BY <1>2, <2>1, MaxConnAssumption DEF Fits
    <3>2. turn' = (turn + 1) % k
      BY <2>1
    <3> HIDE DEF k
    <3>3. turn' \in 0 .. k - 1
      BY <3>1, <3>2
    <3> QED BY <1>1, <2>1, <3>1, <3>3, MaxConnAssumption
  <2>2. CASE items = <<>> /\ pc' = "panicked" /\ UNCHANGED <<turn, req>>
    BY <1>2, <2>2
  <2> QED BY <2>1, <2>2 DEF Request
<1>4. ConfigInv' /\ FreshInv' /\ NetworkInv' /\ SweepInv'
  BY <1>1, <1>3 DEF IInv, ConfigInv, FreshInv, NetworkInv, SweepInv, Active, BeforeStart,
                    Probing, Fits
<1>5. TunnelsInv'
  <2>1. \A n \in DOMAIN items' : Tunnel(items[n])'
    BY <1>1, TunnelsKept DEF IInv, TunnelsInv, Tunnel
  <2> QED BY <1>1, <1>3, <2>1 DEF IInv, TunnelsInv, Active, Probing
<1>6. CountersInv'
  BY <1>1, <1>3 DEF IInv, CountersInv
<1>7. DialsTarget'
  <2>1. CASE req' = req
    BY <1>1, <2>1 DEF IInv, DialsTarget
  <2>2. ASSUME NEW h \in Hosts, NEW p \in Ports,
               NEW w, w = Write([type |-> PTCP, host |-> h, port |-> p]),
               NEW n \in IF faults THEN 0 .. Len(w) ELSE {Len(w)},
               LET m == Read(SubSeq(w, 1, n))
               IN  req' = [host |-> h, port |-> p,
                           dials |-> IF m = Failed THEN None ELSE <<m.host, m.port>>]
        PROVE  DialsTarget'
    <3> DEFINE m == Read(SubSeq(w, 1, n))
               dials == IF m = Failed THEN None ELSE <<m.host, m.port>>
    <3>1. /\ dials # None => dials = <<h, p>> \/ p >= 2^16
          /\ ~faults /\ Len(h) <= MaxHost => dials # None
      BY <2>2, RequestDials
    <3>2. req' = [host |-> h, port |-> p, dials |-> dials]
      BY <2>2
    <3> HIDE DEF dials
    <3>3. req'.host = h /\ req'.port = p /\ req'.dials = dials
      BY <3>2
    <3> QED BY <1>1, <3>1, <3>3 DEF DialsTarget
  <2> QED BY <2>1, <2>2 DEF Request
<1> QED BY <1>4, <1>5, <1>6, <1>7 DEF IInv

\* A change of the network keeps it: it takes faults.
LEMMA NetChangeStep == IInv /\ NetChange => IInv'
<1> SUFFICES ASSUME IInv, NetChange
             PROVE  IInv'
  OBVIOUS
<1>1. /\ faults = TRUE /\ passes' \in SUBSET (0 .. Len(combos) - 1)
      /\ oneway' \in SUBSET ((0 .. Len(combos) - 1) \ passes')
      /\ UNCHANGED <<pc, cfg, combos, cycler, i, held, items, turn, open, req, faults>>
  BY DEF IInv, CountersInv, NetChange, FC!Combos
<1>2. ConfigInv' /\ FreshInv' /\ NetworkInv' /\ SweepInv'
  BY <1>1 DEF IInv, ConfigInv, FreshInv, NetworkInv, SweepInv, Active, Fits
<1>3. TunnelsInv'
  BY <1>1 DEF IInv, TunnelsInv, Tunnel, Active
<1>4. CountersInv' /\ DialsTarget'
  BY <1>1 DEF IInv, CountersInv, DialsTarget
<1> QED BY <1>2, <1>3, <1>4 DEF IInv

-------------------------------------------------------------------------------
\* The theorems.

\* Nothing has been loaded yet.
LEMMA InitHolds == Init => IInv
<1> SUFFICES ASSUME Init
             PROVE  IInv
  OBVIOUS
<1>1. /\ pc = "load" /\ cfg = None /\ combos = <<>> /\ items = <<>> /\ req = None
      /\ cycler = [idx |-> 0, failures |-> 0] /\ held = 0 /\ i = 0 /\ turn = 0 /\ open = 0
      /\ faults = FALSE
  BY DEF Init, FC!NewCycler
<1>2. ConfigInv /\ FreshInv /\ NetworkInv /\ SweepInv /\ DialsTarget
  BY <1>1 DEF ConfigInv, FreshInv, NetworkInv, SweepInv, DialsTarget, Active, BeforeStart, Probing
<1>3. TunnelsInv
  <2>1. items \in Seq(TunnelRecord) /\ Len(items) = 0 /\ DOMAIN items = {}
    BY <1>1
  <2> QED BY <1>1, <2>1 DEF TunnelsInv, Active, Probing
<1>4. CountersInv
  <2>1. Len(combos) = 0
    BY <1>1
  <2>2. i \in 0 .. Len(combos) /\ turn \in 0 .. MaxConn - 1
    BY <1>1, <2>1, MaxConnAssumption
  <2> QED BY <1>1, <2>1, <2>2 DEF CountersInv, BeforeStart
<1> QED BY <1>2, <1>3, <1>4 DEF IInv

\* Every step keeps the invariant.
LEMMA NextHolds == IInv /\ [Next]_vars => IInv'
<1> SUFFICES ASSUME IInv, [Next]_vars
             PROVE  IInv'
  OBVIOUS
<1>1. CASE UNCHANGED vars
  <2>1. UNCHANGED <<pc, cfg, combos, cycler, i, held, items, turn, open, req, passes, oneway, faults>>
    BY <1>1 DEF vars, env
  <2>2. ConfigInv' /\ FreshInv' /\ NetworkInv' /\ SweepInv'
    BY <2>1 DEF IInv, ConfigInv, FreshInv, NetworkInv, SweepInv, Active, Fits
  <2>3. TunnelsInv'
    BY <2>1 DEF IInv, TunnelsInv, Tunnel, Active
  <2>4. CountersInv' /\ DialsTarget'
    BY <2>1 DEF IInv, CountersInv, DialsTarget
  <2> QED BY <2>2, <2>3, <2>4 DEF IInv
<1>2. CASE Next
  BY <1>2, LoadStep, BeginStep, DialStep, VerifyOkStep, VerifyErrStep, FallBackStep,
     FallbackOkStep, FallbackErrStep, ProceedStep, RequestStep, NetChangeStep DEF Next
<1> QED BY <1>1, <1>2

\* The start of the program keeps its invariant.
THEOREM Invariance == Spec => []IInv
BY InitHolds, NextHolds, PTL DEF Spec

\* Once Client.Start has begun, the cycler, the combos of the tunnels and the index
\* of the iterator stay inside the lists they point into.
THEOREM TypeCorrect == Spec => []TypeOK
<1>1. IInv => TypeOK
  <2> SUFFICES ASSUME IInv
               PROVE  TypeOK
    OBVIOUS
  <2>1. pc \in BeforeStart \cup Probing \cup {"failed", "serving", "panicked"}
    BY DEF IInv, CountersInv
  <2>2. open \in Nat
    BY DEF IInv, TunnelsInv
  <2>3. ASSUME Started
        PROVE  /\ cycler \in FC!Cycler /\ held \in FC!Combos /\ passes \in SUBSET FC!Combos
               /\ oneway \in SUBSET (FC!Combos \ passes)
               /\ \A n \in DOMAIN items : items[n].combo \in FC!Combos
    <3>1. Active
      BY <2>1, <2>3 DEF Started, Active, BeforeStart
    <3>2. /\ Fits(cfg) /\ combos = CombosFor(cfg.lf, cfg.rf, cfg.explicit)
          /\ passes \in SUBSET (0 .. Len(combos) - 1)
          /\ oneway \in SUBSET ((0 .. Len(combos) - 1) \ passes)
          /\ \A n \in DOMAIN items : items[n].combo \in 0 .. Len(combos) - 1
      BY <3>1 DEF IInv, ConfigInv, NetworkInv, SweepInv, TunnelsInv, Tunnel
    <3>3. Len(combos) \in Nat \ {0} /\ i \in 0 .. Len(combos)
      BY <3>2, ListOfConfig DEF IInv, CountersInv
    <3>4. \E n \in 0 .. Len(combos) - 1 : cycler = [idx |-> n, failures |-> 0]
      BY <3>1, <3>3 DEF IInv, SweepInv
    <3>5. held \in 0 .. Len(combos) - 1
      BY <3>1, <3>3 DEF IInv, SweepInv
    <3>6. cfg.maxFailures \in Nat \ {0}
      BY <3>2 DEF Fits
    <3>7. cycler \in [idx : 0 .. Len(combos) - 1, failures : 0 .. cfg.maxFailures - 1]
      BY <3>4, <3>6
    <3> QED BY <3>2, <3>5, <3>7 DEF FC!Cycler, FC!Combos
  <2> QED BY <2>1, <2>2, <2>3 DEF TypeOK, IInv, CountersInv, BeforeStart, Probing
<1> QED BY <1>1, Invariance, PTL

\* A configuration that was accepted gives a cycler that can fail, at least one
\* tunnel, and, with a fixed source port, no second tunnel beside it.
THEOREM AcceptedConfigFits == Spec => []ConfigFits
<1>1. IInv => ConfigFits
  <2> SUFFICES ASSUME IInv, cfg # None
               PROVE  /\ cfg.maxFailures \in Nat \ {0}
                      /\ cfg.conn \in 1 .. MaxConn
                      /\ pc # "server" /\ cfg.port # 0 => cfg.conn = 1 /\ Len(items) <= 1
    BY DEF ConfigFits
  <2>1. pc \in {"server", "loaded"} \/ Active
    BY DEF IInv, ConfigInv, CountersInv, Active, BeforeStart
  <2>2. cfg.maxFailures \in Nat \ {0} /\ cfg.conn \in 1 .. MaxConn
    BY <2>1 DEF IInv, ConfigInv, Fits
  <2>3. ASSUME pc # "server", cfg.port # 0
        PROVE  cfg.conn = 1 /\ Len(items) <= 1
    <3>1. cfg.conn = 1
      BY <2>1, <2>3 DEF IInv, ConfigInv
    <3>2. CASE Active
      BY <3>1, <3>2 DEF IInv, TunnelsInv
    <3>3. CASE pc = "loaded"
      <4>1. Len(items) = 0
        BY <3>3 DEF IInv, FreshInv, BeforeStart
      <4> QED BY <3>1, <4>1
    <3> QED BY <2>1, <2>3, <3>1, <3>2, <3>3
  <2> QED BY <2>2, <2>3
<1> QED BY <1>1, Invariance, PTL

\* The list of every cycler starts with the user's pair and names no pair of flags
\* twice.
THEOREM SweepTriesEachOnce == Spec => []CombosDistinct
<1>1. IInv => CombosDistinct
  <2> SUFFICES ASSUME IInv, Started
               PROVE  LET flags == [n \in DOMAIN combos |->
                                      <<parseFlagStr(combos[n][1]), parseFlagStr(combos[n][2])>>]
                      IN  /\ flags[1] = << <<cfg.lf[1]>>, <<cfg.rf[1]>> >>
                          /\ IsInjective(flags)
    BY DEF CombosDistinct
  <2>1. Active
    BY DEF IInv, CountersInv, Started, Active, BeforeStart
  <2>2. Fits(cfg) /\ combos = CombosFor(cfg.lf, cfg.rf, cfg.explicit)
    BY <2>1 DEF IInv, ConfigInv, SweepInv
  <2> QED BY <2>2, ListOfConfig
<1> QED BY <1>1, Invariance, PTL

\* A list of one entry that the user has set reaches both sides of every tunnel as
\* it is; of a longer one each side uses some entries and no other flags.
THEOREM SingleFlagsArrive == Spec => []FlagsAsConfigured
<1>1. IInv => FlagsAsConfigured
  <2> SUFFICES ASSUME IInv, NEW n \in DOMAIN items, cfg.explicit
               PROVE  /\ Range(items[n].lf) \subseteq Range(cfg.lf)
                      /\ Range(items[n].told) \subseteq Range(cfg.rf)
                      /\ Len(cfg.lf) = 1 => items[n].lf = cfg.lf
                      /\ Len(cfg.rf) = 1 => items[n].told = cfg.rf
    BY DEF FlagsAsConfigured
  <2>1. Active
    <3>1. items # <<>>
      OBVIOUS
    <3> QED BY <3>1 DEF IInv, FreshInv, TunnelsInv, CountersInv, Active
  <2>2. Fits(cfg) /\ combos = CombosFor(cfg.lf, cfg.rf, cfg.explicit)
    BY <2>1 DEF IInv, ConfigInv, SweepInv
  <2>3. Tunnel(items[n])
    BY DEF IInv, TunnelsInv
  <2>4. /\ Len(combos) = 1 /\ DOMAIN combos = 1 .. 1
        /\ parseFlagStr(combos[1][1]) = <<cfg.lf[1]>>
        /\ parseFlagStr(combos[1][2]) = <<cfg.rf[1]>>
    <3> DEFINE flags == [m \in DOMAIN combos |->
                           <<parseFlagStr(combos[m][1]), parseFlagStr(combos[m][2])>>]
    <3>1. /\ Len(combos) = 1 /\ DOMAIN combos = 1 .. Len(combos)
          /\ flags[1] = << <<cfg.lf[1]>>, <<cfg.rf[1]>> >>
      BY <2>2, ListOfConfig
    <3>2. flags[1] = <<parseFlagStr(combos[1][1]), parseFlagStr(combos[1][2])>>
      BY <3>1
    <3> QED BY <3>1, <3>2
  <2>5. items[n].combo + 1 = 1
    BY <2>3, <2>4 DEF Tunnel
  <2>6. items[n].lf = <<cfg.lf[1]>> /\ items[n].told = <<cfg.rf[1]>>
    BY <2>3, <2>4, <2>5 DEF Tunnel
  <2>7. ASSUME NEW l \in Seq(SUBSET Flags), l # <<>>
        PROVE  /\ Range(<<l[1]>>) \subseteq Range(l)
               /\ Len(l) = 1 => <<l[1]>> = l
    <3>1. 1 \in DOMAIN l
      BY <2>7
    <3>2. Range(<<l[1]>>) = {l[1]}
      BY DEF Range
    <3>3. l[1] \in Range(l)
      BY <3>1 DEF Range
    <3>4. ASSUME Len(l) = 1
          PROVE  <<l[1]>> = l
      BY <2>7, <3>4
    <3> QED BY <3>2, <3>3, <3>4
  <2>8. /\ cfg.lf \in Seq(SUBSET Flags) /\ cfg.lf # <<>>
        /\ cfg.rf \in Seq(SUBSET Flags) /\ cfg.rf # <<>>
    BY <2>2 DEF Fits
  <2> QED BY <2>6, <2>7, <2>8
<1> QED BY <1>1, Invariance, PTL

\* The server dials the address that a request names, or nothing, for every host
\* and every point at which the stream is cut off.
THEOREM ServerDialsTarget == Spec => []DialsTarget
BY Invariance, PTL DEF IInv

\* No connection is lost on any way out of the probe.
THEOREM NoProbeLeak == Spec => []ProbeLeavesNothing
<1>1. IInv => ProbeLeavesNothing
  BY DEF IInv, TunnelsInv, ProbeLeavesNothing
<1> QED BY <1>1, Invariance, PTL

\* A tunnel's cycler starts on the combo the tunnel was dialled with.
THEOREM CyclerOfTunnel == Spec => []TunnelMatchesCycler
<1>1. IInv => TunnelMatchesCycler
  BY DEF IInv, TunnelsInv, Tunnel, TunnelMatchesCycler
<1> QED BY <1>1, Invariance, PTL

\* On a network that loses nothing no tunnel's probe goes past a combo that works, of
\* any number of combos, though it may accept one before it on a stray PONG.
THEOREM ProbeSkipsNoWorking == Spec => []NoWorkingComboSkipped
<1>1. IInv => NoWorkingComboSkipped
  BY DEF IInv, TunnelsInv, Tunnel, NoWorkingComboSkipped
<1> QED BY <1>1, Invariance, PTL
===============================================================================

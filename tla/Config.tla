-------------------------------- MODULE Config --------------------------------
(***************************************************************************)
(* Loading the configuration, internal/conf: detection of the network, the *)
(* defaults, and validation, in that order, with the derived values other  *)
(* modules start from.  The fields that nothing here depends on are one,   *)
(* "rest": whether they pass.  Validation collects its errors and goes on, *)
(* which is why a bad address can end in a nil pointer.                    *)
(***************************************************************************)
EXTENDS TcpFlags

CONSTANTS
  MaxConn   \* the largest transport.conn (256)

ASSUME MaxConnAssumption == MaxConn \in Nat \ {0}

\* An address of the configuration: absent, unusable, or given with a port.
Unset == [st |-> "unset", port |-> 0]
Bad == [st |-> "bad", port |-> 0]
At(port) == [st |-> "ok", port |-> port]

\* autoDetectNetwork, when the system gives an IPv4 address: only an empty field
\* is filled in.
Detect(r, found) ==
  IF found /\ r.v4 = Unset
  THEN [r EXCEPT !.v4 = At(IF r.role = "server" THEN r.listen.port ELSE 0)]
  ELSE r

\* TCP.setDefaults: ExplicitFlags, before the defaults are filled in ...
ExplicitFlags(r) == r.lf # <<>> \/ r.rf # <<>>

\* ... and the defaults, of TCP and Transport.
SetDefaults(r) ==
  [r EXCEPT !.lf = IF @ = <<>> THEN <<PA>> ELSE @,
            !.rf = IF @ = <<>> THEN <<PA>> ELSE @,
            !.maxFailures = IF @ = 0 THEN 3 ELSE @,
            !.conn = IF @ = 0 THEN 1 ELSE @]

\* Network.Port: IPv6's if both are configured.
Port(r) == IF r.v6.st = "ok" THEN r.v6.port ELSE r.v4.port

\* A nil pointer is used: the KCP section is missing when the defaults of protocol
\* kcp are set, two addresses are compared of which one did not parse, or the
\* server's is asked for its family and did not parse.
Panics(r) ==
  \/ r.protocol = "kcp" /\ ~r.kcp
  \/ r.v4.st # "unset" /\ r.v6.st # "unset" /\ "bad" \in {r.v4.st, r.v6.st}
  \/ r.role = "client" /\ r.server = "bad"

NetworkValid(r) ==
  /\ "bad" \notin {r.v4.st, r.v6.st}
  /\ "ok" \in {r.v4.st, r.v6.st}
  /\ r.v4.st = "ok" /\ r.v6.st = "ok" => r.v4.port = r.v6.port

TCPValid(r) ==
  /\ \A s \in Range(r.lf) \cup Range(r.rf) : ValidStr(s)
  /\ r.maxFailures >= 1

\* Mutant: a client's fixed port is looked for in the IPv4 address only.
RoleValidIPv4(r) ==
  IF r.role = "server" THEN r.listen.st = "ok"
  ELSE /\ r.server = "v4" => r.v4.st = "ok"
       /\ r.server = "v6" => r.v6.st = "ok"
       /\ r.conn > 1 => r.v4.port = 0

RoleValid(r) ==
  IF r.role = "server" THEN r.listen.st = "ok"
  ELSE /\ r.server = "v4" => r.v4.st = "ok"
       /\ r.server = "v6" => r.v6.st = "ok"
       /\ r.conn > 1 => Port(r) = 0

\* Conf.validate.
Valid(r) ==
  /\ r.rest /\ NetworkValid(r) /\ TCPValid(r) /\ RoleValid(r)
  /\ r.protocol = "kcp"
  /\ r.conn \in 1 .. MaxConn

\* What LoadFromFile derives from a valid configuration.
Derived(r, explicit) ==
  [lf |-> [n \in DOMAIN r.lf |-> strTCPF(r.lf[n])],
   rf |-> [n \in DOMAIN r.rf |-> strTCPF(r.rf[n])],
   explicit |-> explicit, maxFailures |-> r.maxFailures,
   conn |-> r.conn, port |-> Port(r)]
===============================================================================

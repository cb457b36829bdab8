------------------------------ MODULE FlagCycler ------------------------------
(***************************************************************************)
(* The flag cycler of internal/client/flag_cycler.go: which TCP flag combo *)
(* a timedConn uses, and when it gives one up for the next.  A combo is    *)
(* its position in flagCycler.combos; 0 is the user's.  Every method holds *)
(* fc.mu for its whole body, so each is one step: an operator from the     *)
(* cycler's record to its next value, used by the modules that own one.    *)
(***************************************************************************)
EXTENDS Integers

CONSTANTS
  NCombos,      \* len(combos): 1 with explicit flags, else the fallbacks too
  MaxFailures   \* network.tcp.max_failures

ASSUME NCombosAssumption == NCombos \in Nat \ {0}
ASSUME MaxFailuresAssumption == MaxFailures \in Nat \ {0}

Combos == 0 .. NCombos - 1

Cycler == [idx : Combos, failures : 0 .. MaxFailures - 1]

\* The next position, around the end of the list.
Next_idx(i) == (i + 1) % NCombos

\* A new cycler starts on the user's combo.
NewCycler == [idx |-> 0, failures |-> 0]

\* Mutant: the wrap-around is forgotten.
FailNoWrap(fc) ==
  IF fc.failures + 1 < MaxFailures
  THEN [fc EXCEPT !.failures = @ + 1]
  ELSE [idx |-> fc.idx + 1, failures |-> 0]

\* One connection failure: the MaxFailures-th moves on to the next combo.
Fail(fc) ==
  IF fc.failures + 1 < MaxFailures
  THEN [fc EXCEPT !.failures = @ + 1]
  ELSE [idx |-> Next_idx(fc.idx), failures |-> 0]

\* A successful reconnect forgets the failures and keeps the combo.
Succeed(fc) == [fc EXCEPT !.failures = 0]

\* Mutant: the probe runs off the end of the list.
ForceNextNoWrap(fc) == [idx |-> fc.idx + 1, failures |-> 0]

\* The startup probe moves on without counting a failure.
ForceNext(fc) == [idx |-> Next_idx(fc.idx), failures |-> 0]

\* An index outside the list is ignored.
SetIdx(fc, i) == IF i \in Combos THEN [idx |-> i, failures |-> 0] ELSE fc
===============================================================================

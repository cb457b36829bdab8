------------------------------- MODULE SharedSlot -------------------------------
(***************************************************************************)
(* What newConn promises for tc.conn, and Client.UDP for each key of the   *)
(* pool, as their callers see it: a slot with at most one usable item.  A  *)
(* user is handed the item, or, only if there is none, one made for it     *)
(* alone, in a single step.  How the detailed modules look twice under a   *)
(* lock and make the item in between is not seen here.                     *)
(***************************************************************************)
CONSTANTS
  Users,   \* goroutines that ask for the item
  Items,   \* names of items; a dropped one that nobody holds is used again
  None     \* no item

VARIABLES
  slot,    \* the usable item, or None
  held     \* held[u]: the item u was handed and has not done with

vars == <<slot, held>>

Init ==
  /\ slot \in Items \cup {None}
  /\ held = [u \in Users |-> None]

\* Everybody is handed the same item for as long as it is usable.
Get(u) ==
  /\ held[u] = None
  /\ slot # None
  /\ held' = [held EXCEPT ![u] = slot]
  /\ slot' = slot

\* Nobody else holds the item made; it may have failed before it is installed.
Make(u) ==
  /\ held[u] = None
  /\ slot = None
  /\ \E n \in Items \ {held[v] : v \in Users} :
       /\ held' = [held EXCEPT ![u] = n]
       /\ slot' \in {n, None}

\* The user has done with the item, and drops it if it did not work.
Release(u) ==
  /\ held[u] # None
  /\ held' = [held EXCEPT ![u] = None]
  /\ slot' \in {slot, None}

\* The item fails, or is closed on its user's behalf.
Drop ==
  /\ slot # None
  /\ slot' = None
  /\ held' = held

Next ==
  \/ \E u \in Users : Get(u) \/ Make(u) \/ Release(u)
  \/ Drop

Spec == Init /\ [][Next]_vars
================================================================================

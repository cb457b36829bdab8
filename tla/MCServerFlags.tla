----------------------------- MODULE MCServerFlags -----------------------------
EXTENDS ServerFlags, TLC
CONSTANTS s1, s2, a1, a2
OwnAddr == s1 :> a1 @@ s2 :> a2
SameAddr == s1 :> a1 @@ s2 :> a1
===============================================================================

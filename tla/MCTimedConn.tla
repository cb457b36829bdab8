------------------------------ MODULE MCTimedConn ------------------------------
\* TimedConn for TLC: symmetry for the safety runs, small constants in the cfgs.
EXTENDS TimedConn, TLC

Symm == Permutations(Callers) \cup Permutations(Conns)
===============================================================================

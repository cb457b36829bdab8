------------------------------- MODULE MCUdpPool -------------------------------
\* UdpPool for TLC: symmetry for the safety runs.
EXTENDS UdpPool, TLC

Symm == Permutations(Handlers) \cup Permutations(Streams) \cup Permutations(Keys)
===============================================================================

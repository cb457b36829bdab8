----------------------------- MODULE MCClientStart -----------------------------
EXTENDS ClientStart
MCFlagLists == {<<>>, << <<"A", "P">> >>, << <<"A", "N">>, <<"S">> >>, << <<"X">> >>}
MCFailureCounts == {-1, 0, 2}
MCHosts == {<<>>, <<"a", "b">>, <<"a", "b", "c">>}
===============================================================================

------------------------------ MODULE MCEngine ------------------------------
\* Small instances of Engine for TLC: the functions the runs execute, and the
\* symmetry of queue item ids and of runs, which no definition tells apart.
EXTENDS Engine, TLC

AllKinds  == <<"Sleep", "SendEvent", "WaitForEvent", "Run">>
SleepSend == <<"Sleep", "SendEvent">>
OneWait   == <<"WaitForEvent">>
OneSleep  == <<"Sleep">>
OneRun    == <<"Run">>

ItemSymmetry == Permutations(Items)
Symmetry     == Permutations(Items) \cup Permutations(Runs)
=============================================================================

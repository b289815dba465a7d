------------------------------- MODULE MCCron -------------------------------
EXTENDS Cron

CONSTANTS j1, j2, r1, r2

OneShot == [kind |-> "at", value |-> 2, once |-> TRUE]
Repeated == [kind |-> "every", value |-> 1, once |-> FALSE]
SomeJobs == {OneShot, Repeated}
OnlyRepeated == {Repeated}

Switch(b) == [kind |-> None, value |-> None, enabled |-> b]
Later == [kind |-> None, value |-> 3, enabled |-> None]
MakeOneShot == [kind |-> "at", value |-> None, enabled |-> None]
SomePatches == {Switch(FALSE), Later, MakeOneShot}

OneChain == 1..1
TwoChains == 1..2
ThreeChains == 1..3
=============================================================================

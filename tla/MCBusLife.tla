------------------------------ MODULE MCBusLife ------------------------------
(* Small instances of BusLife.                                             *)
EXTENDS BusLife, TLC

CONSTANTS c1, c2, j1

MCCallers == {c1, c2}
MCUsers == {c1, c2, Itself}
MCThreads == 1..2
OneBlock == {j1}
MCJobs == Threads \cup Blocks \cup {Nop}
=============================================================================

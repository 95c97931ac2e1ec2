--------------------------- MODULE MCPublishQueue ---------------------------
(***************************************************************************)
(* Values for the constants of PublishQueue.                               *)
(***************************************************************************)
EXTENDS PublishQueue, TLC

CONSTANTS p1, p2, t1, t2

MCPublishers == {p1, p2}
MCThreads == {t1, t2}
Symmetry == Permutations(MCPublishers) \cup Permutations(MCThreads)
=============================================================================

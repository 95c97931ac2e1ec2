---------------------------- MODULE MCRedisStore ----------------------------
(***************************************************************************)
(* Values for the constants of RedisStore.                                 *)
(***************************************************************************)
EXTENDS RedisStore, TLC

CONSTANTS c1, c2

MCChannels == {c1, c2}
Symmetry == Permutations(MCChannels)

\* What is claimed of the store is claimed until the first reset.
UntilReset == resets = 0
=============================================================================

-------------------------- MODULE MCRedisSubscriber --------------------------
(***************************************************************************)
(* Values for the constants of RedisSubscriber.                            *)
(***************************************************************************)
EXTENDS RedisSubscriber, TLC

CONSTANTS c1, c2, s1

MCChannels == {c1, c2}
MCSubs == {s1}
Symmetry == Permutations(MCChannels)
=============================================================================

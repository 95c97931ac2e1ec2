--------------------------- MODULE MCBusSubscribe ---------------------------
(***************************************************************************)
(* Values for the constants of BusSubscribe.                               *)
(***************************************************************************)
EXTENDS BusSubscribe, TLC

CONSTANTS k1, k2

MCCallbacks == {k1, k2}
Symmetry == Permutations(MCCallbacks)
=============================================================================

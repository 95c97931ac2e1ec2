----------------------------- MODULE MCLongPoll -----------------------------
(***************************************************************************)
(* Values for the constants of LongPoll.                                   *)
(***************************************************************************)
EXTENDS LongPoll

CONSTANTS i1

One == {i1}
AnyLast == {-2, -1, 0, 2}
FromZero == {0}
=============================================================================

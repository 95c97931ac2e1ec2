---------------------------- MODULE MCPageClient ----------------------------
(* Small instances of PageClient.                                          *)
EXTENDS PageClient, TLC

CONSTANTS a, b, f

Both == {a, b}
OneFunc == {f}
New == {-1, 0}
AnyCall == {"subscribe", "unsubscribe", "stop", "start", "pause", "resume"}
ThreeOrTwo == [jquery |-> 3, bare |-> 2]
=============================================================================

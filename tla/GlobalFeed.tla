----------------------------- MODULE GlobalFeed -----------------------------
(***************************************************************************)
(* What global_subscribe promises, without Redis: messages are numbered    *)
(* from 1, some are forgotten, and every subscriber is given messages in   *)
(* the order of their numbers, each at most once, never passing over one   *)
(* that is still retained.                                                 *)
(***************************************************************************)
EXTENDS Naturals

CONSTANTS Subs, Nil

VARIABLES
  published,       \* the number of the last message
  retained,        \* the numbers of the messages that can still be read
  position         \* the last number each subscriber was given, or started at

vars == <<published, retained, position>>

Init ==
  /\ published = 0
  /\ retained = {}
  /\ position = [s \in Subs |-> Nil]

\* Publishing may trim a backlog, even of the message just published.
Publish ==
  /\ published' = published + 1
  /\ retained' \subseteq retained \cup {published'}
  /\ UNCHANGED position

Forget ==
  /\ retained' \subseteq retained
  /\ UNCHANGED <<published, position>>

\* A subscriber says which message it has last seen.
Join(s) ==
  /\ position[s] = Nil
  /\ \E last \in 0..published : position' = [position EXCEPT ![s] = last]
  /\ UNCHANGED <<published, retained>>

\* The first message of a subscriber that did not say may be any of them.
Deliver(s) ==
  /\ \E n \in 1..published :
       /\ position[s] # Nil =>
            /\ n > position[s]
            /\ \A r \in retained : ~(position[s] < r /\ r < n)
       /\ position' = [position EXCEPT ![s] = n]
  /\ UNCHANGED <<published, retained>>

Next == Publish \/ Forget \/ \E s \in Subs : Join(s) \/ Deliver(s)

Spec == Init /\ [][Next]_vars
=============================================================================

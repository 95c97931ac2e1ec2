----------------------------- MODULE BusSubscribe -----------------------------
(***************************************************************************)
(* MessageBus.subscribe(channel, last_id) and the dispatch of messages to  *)
(* callbacks (src/lib/message_bus.rb): subscribe_impl replays the backlog  *)
(* in the caller's thread, puts a callback in the channel's array, and the *)
(* callback replays once more when the first message reaches it; the       *)
(* subscriber thread walks the array outside @mutex, so callers change it  *)
(* under the walk.                                                         *)
(*                                                                         *)
(* There is one channel; its messages are numbered from 1.  Each callback  *)
(* is subscribed by a thread of its own.  What the subscriber thread gets  *)
(* is what RedisSubscriber shows of global_subscribe: from the moment it   *)
(* is subscribed, every message in order.                                  *)
(***************************************************************************)
EXTENDS Integers, SequencesExt

CONSTANTS
  Callbacks,       \* the blocks passed to subscribe
  Nil,
  MaxMessages,     \* bound: publications
  MaxRaises        \* bound: errors raised by callbacks

ASSUME BusAssumption ==
  /\ Nil \notin Nat /\ Nil \notin Seq(Callbacks)
  /\ MaxMessages \in Nat /\ MaxRaises \in Nat

VARIABLES
  log,             \* the id of the last message published
  first,           \* the oldest id the channel's backlog retains
  thread,          \* the subscriber thread: none, connecting, live
  taken,           \* the last message it was given or came too late for
  walk,            \* its walk of the array of callbacks
  array,           \* @subscriptions[site_id][channel]; Nil: there is none
  pc,              \* where each subscribing thread is
  lastId,          \* the last_id it passed
  currentId,       \* current_id of the callback's closure
  justYield,       \* just_yield of the callback's closure
  given,           \* history: the messages each block was called with
  skipped,         \* history: <<k, n>> where the walk of n passed over k
  raises           \* how much of MaxRaises is used

vars == <<log, first, thread, taken, walk, array, pc, lastId, currentId,
          justYield, given, skipped, raises>>
closures == <<currentId, justYield>>

\* own is the array being walked, if it is no longer the one in the table.
NoWalk == [msg |-> 0, pos |-> 0, own |-> Nil]
Walking == walk.msg > 0

TypeOK ==
  /\ log \in 0..MaxMessages
  /\ first \in 1..(log + 1)
  /\ thread \in {"none", "connecting", "live"}
  /\ taken \in 0..log
  /\ walk \in [msg : 0..log, pos : Nat, own : Seq(Callbacks) \cup {Nil}]
  /\ array \in Seq(Callbacks) \cup {Nil}
  /\ pc \in [Callbacks -> {"idle", "replay", "lookup", "create", "append",
                           "ensure", "on", "off"}]
  /\ lastId \in [Callbacks -> -1..log]
  /\ currentId \in [Callbacks -> 1..log \cup {Nil}]
  /\ justYield \in [Callbacks -> BOOLEAN]
  /\ given \in [Callbacks -> Seq(1..log)]
  /\ skipped \subseteq Callbacks \X (1..log)
  /\ raises \in 0..MaxRaises

Init ==
  /\ log = 0
  /\ first = 1
  /\ thread = "none"
  /\ taken = 0
  /\ walk = NoWalk
  /\ array = Nil
  /\ pc = [k \in Callbacks |-> "idle"]
  /\ lastId = [k \in Callbacks |-> -1]
  /\ currentId = [k \in Callbacks |-> Nil]
  /\ justYield = [k \in Callbacks |-> FALSE]
  /\ given = [k \in Callbacks |-> <<>>]
  /\ skipped = {}
  /\ raises = 0

-----------------------------------------------------------------------------
\* A publication may trim the channel's backlog.
Publish ==
  /\ log < MaxMessages
  /\ log' = log + 1
  /\ first' \in first..(log + 2)
  /\ UNCHANGED <<thread, taken, walk, array, pc, lastId, closures, given,
                 skipped, raises>>

\* backlog(channel, last_id): last_id.to_i makes nil 0.
Backlog(last) ==
  LET after == IF last = Nil THEN 0 ELSE last
      from  == IF after + 1 < first THEN first ELSE after + 1
  IN  SubSeq([n \in 1..log |-> n], from, log)

\* replay_backlog returns the id of the last message yielded, or nil.
Replayed(ids) == IF ids = <<>> THEN Nil ELSE Last(ids)

Give(k, ids) == given' = [given EXCEPT ![k] = @ \o ids]

-----------------------------------------------------------------------------
(* subscribe_impl and unsubscribe_impl.                                    *)

Goto(k, label) == pc' = [pc EXCEPT ![k] = label]

Subscribe(k, last) ==
  /\ pc[k] = "idle"
  /\ lastId' = [lastId EXCEPT ![k] = last]
  /\ Goto(k, IF last >= 0 THEN "replay" ELSE "lookup")
  /\ UNCHANGED <<log, first, thread, taken, walk, array, closures, given,
                 skipped, raises>>

\* The first replay, in the caller's thread.
Replay(k) ==
  LET ids == Backlog(lastId[k])
  IN  /\ pc[k] = "replay"
      /\ Give(k, ids)
      /\ currentId' = [currentId EXCEPT ![k] = Replayed(ids)]
      /\ Goto(k, "lookup")
      /\ UNCHANGED <<log, first, thread, taken, walk, array, lastId, justYield,
                     skipped, raises>>

\* The block raises, and with it subscribe.
ReplayRaises(k) ==
  LET ids == Backlog(lastId[k])
  IN  /\ pc[k] = "replay"
      /\ raises < MaxRaises
      /\ raises' = raises + 1
      /\ \E n \in DOMAIN ids : Give(k, SubSeq(ids, 1, n))
      /\ Goto(k, "off")
      /\ UNCHANGED <<log, first, thread, taken, walk, array, lastId, closures,
                     skipped>>

\* The three ||= look for the array outside @mutex, ...
Lookup(k) ==
  /\ pc[k] = "lookup"
  /\ Goto(k, IF array = Nil THEN "create" ELSE "append")
  /\ UNCHANGED <<log, first, thread, taken, walk, array, lastId, closures,
                 given, skipped, raises>>

\* A walk goes on in the array it began with when the table gets another.
Detach == walk' = IF Walking /\ walk.own = Nil THEN [walk EXCEPT !.own = array]
                                               ELSE walk

\* ... and assign a new one, whatever another caller has assigned since.
Create(k) ==
  /\ pc[k] = "create"
  /\ array' = <<>>
  /\ Detach
  /\ Goto(k, "append")
  /\ UNCHANGED <<log, first, thread, taken, lastId, closures, given, skipped,
                 raises>>

AppendCallback(k) ==
  /\ pc[k] = "append"
  /\ array' = Append(array, k)
  /\ Goto(k, "ensure")
  /\ UNCHANGED <<log, first, thread, taken, walk, lastId, closures, given,
                 skipped, raises>>

\* ensure_subscriber_thread; its wait for the backend gives up after 100 ms.
EnsureThread(k) ==
  /\ pc[k] = "ensure"
  /\ thread' = IF thread = "none" THEN "connecting" ELSE thread
  /\ Goto(k, "on")
  /\ UNCHANGED <<log, first, taken, walk, array, lastId, closures, given,
                 skipped, raises>>

\* Array#delete, under @mutex; the block is in the array once.  A walk that is
\* past the callback goes on at the same index, one callback further.
Unsubscribe(k) ==
  /\ pc[k] = "on"
  /\ \E i \in DOMAIN array :
       /\ array[i] = k
       /\ array' = RemoveAt(array, i)
       /\ skipped' =
            IF /\ Walking /\ walk.own = Nil
               /\ i < walk.pos /\ walk.pos <= Len(array)
            THEN skipped \cup {<<array[walk.pos], walk.msg>>}
            ELSE skipped
  /\ Goto(k, "off")
  /\ UNCHANGED <<log, first, thread, taken, walk, lastId, closures, given,
                 raises>>

\* unsubscribe without a block gives the channel a new array.
UnsubscribeAll ==
  /\ array # Nil
  /\ array' = <<>>
  /\ Detach
  /\ UNCHANGED <<log, first, thread, taken, pc, lastId, closures, given,
                 skipped, raises>>

-----------------------------------------------------------------------------
(* The subscriber thread: global_subscribe_thread.                         *)

\* Mutant: the message that was current is taken to be still to come.
ConnectLate ==
  /\ thread = "connecting"
  /\ thread' = "live"
  /\ taken' = log - 1
  /\ UNCHANGED <<log, first, walk, array, pc, lastId, closures, given, skipped,
                 raises>>

\* global_subscribe without a last id: messages from now on.
Connect ==
  /\ thread = "connecting"
  /\ thread' = "live"
  /\ taken' = log
  /\ UNCHANGED <<log, first, walk, array, pc, lastId, closures, given, skipped,
                 raises>>

\* The next message: the array is fetched under @mutex, and walked outside it.
Take ==
  /\ thread = "live" /\ ~Walking
  /\ taken < log
  /\ taken' = taken + 1
  /\ walk' = [msg |-> taken', pos |-> 1, own |-> Nil]
  /\ UNCHANGED <<log, first, thread, array, pc, lastId, closures, given,
                 skipped, raises>>

Walked == IF walk.own = Nil THEN array ELSE walk.own

\* The next callback of the walk is k; the index moves on after it.
Calling(k) ==
  /\ Walking
  /\ walk.pos <= Len(Walked)
  /\ k = Walked[walk.pos]
  /\ walk' = [walk EXCEPT !.pos = @ + 1]
  /\ UNCHANGED <<log, first, thread, taken, array, pc, lastId, skipped>>

\* The block is called directly: it was passed without a last id, or its
\* replays are over.
Direct(k) == lastId[k] = -1 \/ justYield[k]

CallDirect(k) ==
  /\ Calling(k)
  /\ Direct(k)
  /\ Give(k, <<walk.msg>>)
  /\ UNCHANGED <<closures, raises>>

\* The message that follows what was replayed.
Follows(k) == currentId[k] # Nil /\ currentId[k] = walk.msg - 1

CallNext(k) ==
  /\ Calling(k)
  /\ ~Direct(k) /\ Follows(k)
  /\ Give(k, <<walk.msg>>)
  /\ justYield' = [justYield EXCEPT ![k] = TRUE]
  /\ UNCHANGED <<currentId, raises>>

\* Mutant: the message is taken to follow what was replayed.
CallWithoutReplay(k) ==
  /\ Calling(k)
  /\ ~Direct(k) /\ ~Follows(k)
  /\ Give(k, <<walk.msg>>)
  /\ justYield' = [justYield EXCEPT ![k] = TRUE]
  /\ UNCHANGED <<currentId, raises>>

\* Mutant: the second replay is always the last.
CallReplayOnce(k) ==
  LET ids == Backlog(currentId[k])
  IN  /\ Calling(k)
      /\ ~Direct(k) /\ ~Follows(k)
      /\ Give(k, ids)
      /\ currentId' = [currentId EXCEPT ![k] = Replayed(ids)]
      /\ justYield' = [justYield EXCEPT ![k] = TRUE]
      /\ UNCHANGED raises

\* Any other message: replay again, from the start if nothing was replayed
\* before, and stop replaying if that ends with the message.
CallReplay(k) ==
  LET ids == Backlog(currentId[k])
  IN  /\ Calling(k)
      /\ ~Direct(k) /\ ~Follows(k)
      /\ Give(k, ids)
      /\ currentId' = [currentId EXCEPT ![k] = Replayed(ids)]
      /\ justYield' = [justYield EXCEPT ![k] = Replayed(ids) = walk.msg]
      /\ UNCHANGED raises

\* The block raises: logged and skipped, and the closure stays as it was.
CallRaises(k) ==
  /\ Calling(k)
  /\ raises < MaxRaises
  /\ raises' = raises + 1
  /\ \/ /\ Direct(k) \/ Follows(k)
        /\ Give(k, <<walk.msg>>)
     \/ /\ ~Direct(k) /\ ~Follows(k)
        /\ LET ids == Backlog(currentId[k])
           IN  \E n \in DOMAIN ids : Give(k, SubSeq(ids, 1, n))
  /\ UNCHANGED closures

EndWalk ==
  /\ Walking
  /\ walk.pos > Len(Walked)
  /\ walk' = NoWalk
  /\ UNCHANGED <<log, first, thread, taken, array, pc, lastId, closures, given,
                 skipped, raises>>

-----------------------------------------------------------------------------
Caller(k) ==
  \/ \E last \in -1..log : Subscribe(k, last)
  \/ Replay(k) \/ ReplayRaises(k)
  \/ Lookup(k) \/ Create(k) \/ AppendCallback(k) \/ EnsureThread(k)
  \/ Unsubscribe(k)

Dispatch ==
  \/ Connect \/ Take \/ EndWalk
  \/ \E k \in Callbacks : \/ CallDirect(k) \/ CallNext(k) \/ CallReplay(k)
                          \/ CallRaises(k)

\* Every message is published and given out, and every caller is done.
Finished ==
  /\ log = MaxMessages
  /\ \A k \in Callbacks : pc[k] \in {"on", "off"}
  /\ ~Walking
  /\ thread = "none" \/ (thread = "live" /\ taken = log)
  /\ UNCHANGED vars

Next ==
  \/ Publish \/ UnsubscribeAll \/ Dispatch \/ Finished
  \/ \E k \in Callbacks : Caller(k)

Spec == Init /\ [][Next]_vars

-----------------------------------------------------------------------------
\* The messages the subscriber thread has finished with.
Dispatched == IF Walking THEN taken - 1 ELSE taken

\* Once its replays are over, a callback in the table has been given every
\* message after its last_id that was dispatched and is retained, although it
\* was put there after the backlog was read; only a callback removed from under
\* the walk makes the next one miss the message.
NoneMissed ==
  array # Nil => \A k \in ToSet(array) :
    lastId[k] >= 0 /\ justYield[k] =>
      \A n \in (lastId[k] + 1)..Dispatched :
        n >= first => n \in ToSet(given[k]) \/ <<k, n>> \in skipped

\* Once its replays are over, a block gets one message at a time, each after
\* the one before, however the array changes under the walk.
LiveInOrder ==
  [][\A k \in Callbacks :
       Direct(k) /\ given'[k] # given[k] =>
         /\ Len(given'[k]) = Len(given[k]) + 1
         /\ given[k] # <<>> => Last(given[k]) < Last(given'[k])]_vars

\* "subscribe to channel and receive the backlog starting at message 6", for
\* subscribe "/channel", 5: nothing up to last_id is given.
OnlySince ==
  \A k \in Callbacks : \A n \in ToSet(given[k]) : n > lastId[k]
=============================================================================

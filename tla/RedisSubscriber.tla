--------------------------- MODULE RedisSubscriber ---------------------------
(***************************************************************************)
(* Redis#global_subscribe (src/lib/message_bus/backends/redis.rb): each    *)
(* subscriber thread reads the store with separate commands, so            *)
(* publications, expiries and administrative commands fall between any two *)
(* of them, and reads what Redis pushes on a connection that may break.    *)
(*                                                                         *)
(* pc follows the code: "connect" is the top of the begin block; "check",  *)
(* "list", "fetch" and "emit" are clear_backlog and                        *)
(* process_global_backlog; "subscribe" is the SUBSCRIBE command; "live" is *)
(* on.message; "sleep" is the pause before a reconnection.                 *)
(***************************************************************************)
EXTENDS RedisStore, Functions

CONSTANTS
  Nil,             \* no last_id
  MaxRetries,      \* retries = 4 in the code
  MaxFaults,       \* bound: connections lost
  Stoppable        \* bound: the subscribers whose process destroys its bus

VARIABLES
  pc,
  highest,         \* highest_id, the variable the closures share
  ret,             \* where clear_backlog returns to
  retries,         \* clear_backlog's retries
  cursor,          \* process_global_backlog's own highest_id
  ptrs,            \* pointers global_backlog has listed and not looked up
  items,           \* messages it has looked up, in order
  subscribed,      \* @subscribed, a flag of the backend, one per process
  delivered,       \* history: the messages yielded, in order
  from,            \* history: the global id the subscription starts after
  stopping,        \* history: global_unsubscribe has been called
  faults           \* how much of MaxFaults is used

localVars == <<pc, highest, ret, retries, cursor, ptrs, items, subscribed,
               delivered, from, stopping, faults>>
vars == <<storeVars, localVars>>

ASSUME SubscriberAssumption ==
  /\ Nil \notin Nat
  /\ MaxRetries \in Nat
  /\ MaxFaults \in Nat
  /\ Stoppable \subseteq Subs

PCs == {"idle", "connect", "check", "list", "fetch", "emit", "subscribe",
        "live", "sleep", "done"}

TypeOK ==
  /\ StoreTypeOK
  /\ pc \in [Subs -> PCs]
  /\ highest \in [Subs -> Nat \cup {Nil}]
  /\ ret \in [Subs -> {"subscribe", "live"}]
  /\ retries \in [Subs -> 0..MaxRetries]
  /\ cursor \in [Subs -> Nat]
  /\ ptrs \in [Subs -> SUBSET Messages]
  /\ items \in [Subs -> Seq(Messages)]
  /\ subscribed \in [Subs -> BOOLEAN]
  /\ delivered \in [Subs -> Seq(Messages)]
  /\ from \in [Subs -> Nat \cup {Nil}]
  /\ stopping \in [Subs -> BOOLEAN]
  /\ faults \in Nat

Init ==
  /\ StoreInit
  /\ pc = [s \in Subs |-> "idle"]
  /\ highest = [s \in Subs |-> Nil]
  /\ ret = [s \in Subs |-> "subscribe"]
  /\ retries = [s \in Subs |-> 0]
  /\ cursor = [s \in Subs |-> 0]
  /\ ptrs = [s \in Subs |-> {}]
  /\ items = [s \in Subs |-> <<>>]
  /\ subscribed = [s \in Subs |-> FALSE]
  /\ delivered = [s \in Subs |-> <<>>]
  /\ from = [s \in Subs |-> Nil]
  /\ stopping = [s \in Subs |-> FALSE]
  /\ faults = 0

-----------------------------------------------------------------------------
Goto(s, label) == pc' = [pc EXCEPT ![s] = label]

\* clear_backlog.call: all of its retries are available again.
ClearBacklog(s, then) ==
  /\ Goto(s, "check")
  /\ ret' = [ret EXCEPT ![s] = then]
  /\ retries' = [retries EXCEPT ![s] = MaxRetries]

Yield(s, m) == delivered' = [delivered EXCEPT ![s] = Append(@, m)]

\* global_subscribe(last_id): nil, or an id the caller has seen.
Start(s, last) ==
  /\ pc[s] = "idle"
  /\ last \in 0..globalId \cup {Nil}
  /\ highest' = [highest EXCEPT ![s] = last]
  /\ from' = [from EXCEPT ![s] = last]
  /\ Goto(s, "connect")
  /\ UNCHANGED <<storeVars, ret, retries, cursor, ptrs, items, subscribed,
                 delivered, stopping, faults>>

\* new_redis_connection, then the catch-up that precedes the SUBSCRIBE.
Connect(s) ==
  /\ pc[s] = "connect"
  /\ \/ /\ highest[s] # Nil
        /\ ClearBacklog(s, "subscribe")
     \/ /\ highest[s] = Nil
        /\ Goto(s, "subscribe")
        /\ UNCHANGED <<ret, retries>>
  /\ UNCHANGED <<storeVars, highest, cursor, ptrs, items, subscribed,
                 delivered, from, stopping, faults>>

\* GET of the global id: an id from before a reset counts as 0.
CheckId(s) ==
  /\ pc[s] = "check"
  /\ cursor' = [cursor EXCEPT ![s] = IF highest[s] > globalId THEN 0
                                                              ELSE highest[s]]
  /\ Goto(s, "list")
  /\ UNCHANGED <<storeVars, highest, ret, retries, ptrs, items, subscribed,
                 delivered, from, stopping, faults>>

\* global_backlog: ZRANGEBYSCORE of the pointers after the cursor.
ListPointers(s) ==
  /\ pc[s] = "list"
  /\ ptrs' = [ptrs EXCEPT ![s] = {p \in globalBacklog : p.gid > cursor[s]}]
  /\ items' = [items EXCEPT ![s] = <<>>]
  /\ Goto(s, "fetch")
  /\ UNCHANGED <<storeVars, highest, ret, retries, cursor, subscribed,
                 delivered, from, stopping, faults>>

\* Mutant: the pointers are taken in any order.
FetchAnyMessage(s) ==
  /\ pc[s] = "fetch"
  /\ \E p \in ptrs[s] :
       /\ ptrs' = [ptrs EXCEPT ![s] = @ \ {p}]
       /\ \/ \E m \in GetMessage(p.chan, p.mid) :
               items' = [items EXCEPT ![s] = Append(@, m)]
          \/ /\ GetMessage(p.chan, p.mid) = {}
             /\ UNCHANGED items
  /\ UNCHANGED <<storeVars, pc, highest, ret, retries, cursor, subscribed,
                 delivered, from, stopping, faults>>

\* get_message of the next pointer by score; compact! drops what is not there.
FetchMessage(s) ==
  /\ pc[s] = "fetch"
  /\ \E p \in ptrs[s] :
       /\ \A q \in ptrs[s] : p.gid <= q.gid
       /\ ptrs' = [ptrs EXCEPT ![s] = @ \ {p}]
       /\ \/ \E m \in GetMessage(p.chan, p.mid) :
               items' = [items EXCEPT ![s] = Append(@, m)]
          \/ /\ GetMessage(p.chan, p.mid) = {}
             /\ UNCHANGED items
  /\ UNCHANGED <<storeVars, pc, highest, ret, retries, cursor, subscribed,
                 delivered, from, stopping, faults>>

FetchDone(s) ==
  /\ pc[s] = "fetch"
  /\ ptrs[s] = {}
  /\ Goto(s, "emit")
  /\ UNCHANGED <<storeVars, highest, ret, retries, cursor, ptrs, items,
                 subscribed, delivered, from, stopping, faults>>

\* One turn of process_global_backlog's loop: a message in sequence, or the
\* last attempt and a message ahead of the cursor.
EmitNext(s) ==
  /\ pc[s] = "emit"
  /\ items[s] # <<>>
  /\ LET old == Head(items[s])
     IN  /\ \/ old.gid = cursor[s] + 1
            \/ retries[s] = 0 /\ old.gid > cursor[s]
         /\ Yield(s, old)
         /\ cursor' = [cursor EXCEPT ![s] = old.gid]
  /\ items' = [items EXCEPT ![s] = Tail(@)]
  /\ UNCHANGED <<storeVars, pc, highest, ret, retries, ptrs, subscribed, from,
                 stopping, faults>>

\* The last attempt, and a message the cursor has passed.
EmitSkip(s) ==
  /\ pc[s] = "emit"
  /\ items[s] # <<>>
  /\ retries[s] = 0
  /\ Head(items[s]).gid <= cursor[s]
  /\ items' = [items EXCEPT ![s] = Tail(@)]
  /\ UNCHANGED <<storeVars, pc, highest, ret, retries, cursor, ptrs,
                 subscribed, delivered, from, stopping, faults>>

\* Mutant: every attempt raises (raise_error is always true).
EmitAlwaysRaises(s) ==
  /\ pc[s] = "emit"
  /\ items[s] # <<>>
  /\ Head(items[s]).gid # cursor[s] + 1
  /\ highest' = [highest EXCEPT ![s] = cursor[s]]
  /\ retries' = [retries EXCEPT ![s] = @ - 1]
  /\ items' = [items EXCEPT ![s] = <<>>]
  /\ Goto(s, "check")
  /\ UNCHANGED <<storeVars, ret, cursor, ptrs, subscribed, delivered, from,
                 stopping, faults>>

\* Mutant: the attempts are not counted.
EmitRaisesForever(s) ==
  /\ pc[s] = "emit"
  /\ items[s] # <<>>
  /\ Head(items[s]).gid # cursor[s] + 1
  /\ highest' = [highest EXCEPT ![s] = cursor[s]]
  /\ items' = [items EXCEPT ![s] = <<>>]
  /\ Goto(s, "check")
  /\ UNCHANGED <<storeVars, ret, retries, cursor, ptrs, subscribed, delivered,
                 from, stopping, faults>>

\* BackLogOutOfOrder: keep the progress made, sleep a little, try again.
EmitOutOfOrder(s) ==
  /\ pc[s] = "emit"
  /\ items[s] # <<>>
  /\ retries[s] > 0
  /\ Head(items[s]).gid # cursor[s] + 1
  /\ highest' = [highest EXCEPT ![s] = cursor[s]]
  /\ retries' = [retries EXCEPT ![s] = @ - 1]
  /\ items' = [items EXCEPT ![s] = <<>>]
  /\ Goto(s, "check")
  /\ UNCHANGED <<storeVars, ret, cursor, ptrs, subscribed, delivered, from,
                 stopping, faults>>

\* The loop is over.  A clear_backlog run by on.subscribe sets @subscribed
\* when it returns; one run by on.message finds it set.
EmitDone(s) ==
  /\ pc[s] = "emit"
  /\ items[s] = <<>>
  /\ highest' = [highest EXCEPT ![s] = cursor[s]]
  /\ Goto(s, ret[s])
  /\ subscribed' = [subscribed EXCEPT ![s] = @ \/ ret[s] = "live"]
  /\ UNCHANGED <<storeVars, ret, retries, cursor, ptrs, items, delivered, from,
                 stopping, faults>>

\* Mutant: no second catch-up once Redis has confirmed the subscription.
SubscribeOnly(s) ==
  /\ pc[s] = "subscribe"
  /\ listening' = listening \cup {s}
  /\ Goto(s, "live")
  /\ subscribed' = [subscribed EXCEPT ![s] = TRUE]
  /\ UNCHANGED <<globalId, backlogId, backlog, globalBacklog, ttl, globalTtl,
                 doomed, wire, ticks, resets, purges, highest, ret, retries,
                 cursor, ptrs, items, delivered, from, stopping, faults>>

\* SUBSCRIBE, and the on.subscribe callback up to its first read.
Subscribe(s) ==
  /\ pc[s] = "subscribe"
  /\ listening' = listening \cup {s}
  /\ \/ /\ highest[s] # Nil
        /\ ClearBacklog(s, "live")
        /\ UNCHANGED subscribed
     \/ /\ highest[s] = Nil
        /\ Goto(s, "live")
        /\ subscribed' = [subscribed EXCEPT ![s] = TRUE]
        /\ UNCHANGED <<ret, retries>>
  /\ UNCHANGED <<globalId, backlogId, backlog, globalBacklog, ttl, globalTtl,
                 doomed, wire, ticks, resets, purges, highest, cursor, ptrs,
                 items, delivered, from, stopping, faults>>

\* The connection is disconnected: Redis forgets what it had for it.
Unlisten(s) ==
  /\ listening' = listening \ {s}
  /\ wire' = [wire EXCEPT ![s] = <<>>]
  /\ UNCHANGED <<globalId, backlogId, backlog, globalBacklog, ttl, globalTtl,
                 doomed, ticks, resets, purges>>

Readable(s) == pc[s] = "live" /\ wire[s] # <<>>

\* Mutant: whatever Redis pushes is in order.
InAnyOrder(s) == TRUE

InOrder(s) == highest[s] # Nil => Head(wire[s]).gid = highest[s] + 1

Consume(s) ==
  /\ wire' = [wire EXCEPT ![s] = Tail(@)]
  /\ UNCHANGED <<globalId, backlogId, backlog, globalBacklog, ttl, globalTtl,
                 doomed, listening, ticks, resets, purges>>

\* on.message, the order is right.
ReceiveNext(s) ==
  /\ Readable(s)
  /\ Head(wire[s]) # UnsubMessage
  /\ InOrder(s)
  /\ Consume(s)
  /\ highest' = [highest EXCEPT ![s] = Head(wire[s]).gid]
  /\ from' = [from EXCEPT ![s] = IF @ = Nil THEN Head(wire[s]).gid - 1 ELSE @]
  /\ Yield(s, Head(wire[s]))
  /\ UNCHANGED <<pc, ret, retries, cursor, ptrs, items, subscribed, stopping,
                 faults>>

\* on.message, the order is wrong: the message is dropped and the backlog read.
ReceiveOutOfOrder(s) ==
  /\ Readable(s)
  /\ Head(wire[s]) # UnsubMessage
  /\ ~InOrder(s)
  /\ Consume(s)
  /\ ClearBacklog(s, "live")
  /\ UNCHANGED <<highest, cursor, ptrs, items, subscribed, delivered, from,
                 stopping, faults>>

\* on.message, UNSUB_MESSAGE: unsubscribe and leave global_subscribe.
ReceiveUnsub(s) ==
  /\ Readable(s)
  /\ Head(wire[s]) = UnsubMessage
  /\ Unlisten(s)
  /\ subscribed' = [subscribed EXCEPT ![s] = FALSE]
  /\ Goto(s, "done")
  /\ UNCHANGED <<highest, ret, retries, cursor, ptrs, items, delivered, from,
                 stopping, faults>>

\* Any command to Redis may raise; so may the wait for the next message.  The
\* rescue clause sleeps, disconnects and retries; @subscribed keeps its value.
ConnectionLost(s) ==
  /\ faults < MaxFaults
  /\ pc[s] \in {"connect", "check", "list", "fetch", "subscribe", "live"}
  /\ faults' = faults + 1
  /\ Unlisten(s)
  /\ Goto(s, "sleep")
  /\ ptrs' = [ptrs EXCEPT ![s] = {}]
  /\ items' = [items EXCEPT ![s] = <<>>]
  /\ UNCHANGED <<highest, ret, retries, cursor, subscribed, delivered, from,
                 stopping>>

Reconnect(s) ==
  /\ pc[s] = "sleep"
  /\ Goto(s, "connect")
  /\ UNCHANGED <<storeVars, highest, ret, retries, cursor, ptrs, items,
                 subscribed, delivered, from, stopping, faults>>

\* global_unsubscribe: the message is published, then @subscribed is cleared.
Unsubscribe(s) ==
  /\ s \in Stoppable /\ ~stopping[s]
  /\ GlobalUnsubscribe
  /\ subscribed' = [subscribed EXCEPT ![s] = FALSE]
  /\ stopping' = [stopping EXCEPT ![s] = TRUE]
  /\ UNCHANGED <<pc, highest, ret, retries, cursor, ptrs, items, delivered,
                 from, faults>>

-----------------------------------------------------------------------------
\* What the subscriber's own thread does next.
Step(s) ==
  \/ Connect(s) \/ CheckId(s) \/ ListPointers(s)
  \/ FetchMessage(s) \/ FetchDone(s)
  \/ EmitNext(s) \/ EmitSkip(s) \/ EmitOutOfOrder(s) \/ EmitDone(s)
  \/ Subscribe(s)
  \/ ReceiveNext(s) \/ ReceiveOutOfOrder(s) \/ ReceiveUnsub(s)
  \/ Reconnect(s)

\* What happens to it.
Environment(s) ==
  \/ \E last \in 0..MaxId \cup {Nil} : Start(s, last)
  \/ ConnectionLost(s)
  \/ Unsubscribe(s)

StoreNext == StoreStep /\ UNCHANGED localVars

\* Every subscriber waits for a message, or has left, and the bound on
\* publications is used up.
Waiting(s) == \/ pc[s] = "done"
              \/ pc[s] = "live" /\ wire[s] = <<>>
Quiescent ==
  /\ globalId = MaxId
  /\ \A s \in Subs : Waiting(s)
  /\ UNCHANGED vars

Next == StoreNext \/ (\E s \in Subs : Step(s) \/ Environment(s)) \/ Quiescent

Spec == Init /\ [][Next]_vars

\* A thread that can go on does; nobody has to publish, and no connection has
\* to fail.
FairSpec == Spec /\ \A s \in Subs : WF_vars(Step(s))

-----------------------------------------------------------------------------
Given(s) == Range(delivered[s])

\* What a subscriber was last given, or where it started.
Position(s) ==
  IF delivered[s] = <<>> THEN from[s] ELSE delivered[s][Len(delivered[s])].gid

\* Messages are yielded in publication order and none is yielded twice,
\* whatever was read from the backlog, pushed by Redis or caught up with after
\* a lost connection, as long as the bus is not reset.
Ascending ==
  resets = 0 =>
    \A s \in Subs : \A i, j \in DOMAIN delivered[s] :
      i < j => delivered[s][i].gid < delivered[s][j].gid

\* A subscriber with nothing to read has been given every message after its
\* start that the global backlog still leads to.
CaughtUp ==
  \A s \in Subs :
    pc[s] = "live" /\ wire[s] = <<>> /\ from[s] # Nil =>
      \A m \in Retained : m.gid > from[s] => m \in Given(s)

\* global_subscribe implements the abstract feed.
Feed == INSTANCE GlobalFeed WITH
          published <- globalId,
          retained <- {m.gid : m \in Retained},
          position <- [s \in Subs |-> Position(s)]

FeedImplemented == Feed!Spec

\* A subscriber comes back to waiting for messages with all it was sent read,
\* or leaves: catching up ends after its retries even when ids are missing for
\* good.
ComesBack == \A s \in Subs : (pc[s] # "idle") ~> Waiting(s)
=============================================================================

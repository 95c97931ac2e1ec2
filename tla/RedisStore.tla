----------------------------- MODULE RedisStore -----------------------------
(***************************************************************************)
(* The state message_bus keeps in Redis and the commands of                *)
(* src/lib/message_bus/backends/redis.rb that write it: the Lua            *)
(* publication script (one atomic step), the expiry of keys, and the       *)
(* administrative commands reset! and expire_all_backlogs!, which list     *)
(* their keys once and then delete them one by one.                        *)
(*                                                                         *)
(* A message is its two ids and its channel; its data plays no part in     *)
(* what the store does.  The global backlog holds pointers: the member of  *)
(* the sorted set is "backlog_id|channel" and its score is the global id,  *)
(* so a pointer is a record of the same fields.  The field era is history: *)
(* how many times the bus had been reset when the message was published,   *)
(* which tells it from the one that had its ids before the reset.          *)
(***************************************************************************)
EXTENDS Naturals, Sequences, FiniteSets

CONSTANTS
  Channels,        \* the channels published on
  Subs,            \* the connections that may SUBSCRIBE to the Redis channel
  Sizes,           \* the max_backlog_size a publication may carry
  MaxGlobalBacklogSize,
  ClearEvery,
  Ages,            \* the max_backlog_age a publication may carry, in ticks
  UnsubMessage,    \* what global_unsubscribe publishes
  MaxId,           \* bound: no publication is made once the global id is here
  MaxTicks,        \* bound: ticks of the clock
  MaxResets,       \* bound: calls of reset!
  MaxPurges        \* bound: calls of expire_all_backlogs!

VARIABLES
  globalId,        \* __mb_global_id_n (0: the key does not exist)
  backlogId,       \* __mb_backlog_id_n_<channel> (0: no such key)
  backlog,         \* __mb_backlog_n_<channel>, a sorted set scored by mid
  globalBacklog,   \* __mb_global_backlog_n, a sorted set scored by gid
  ttl,             \* ticks left before a channel's two keys expire
  globalTtl,       \* ticks left before the global backlog expires
  doomed,          \* keys an administrative command has listed, not yet deleted
  listening,       \* the connections SUBSCRIBEd to the Redis channel
  wire,            \* what Redis has pushed to each and it has not read
  ticks, resets, purges   \* how much of the bounds is used

storeVars == <<globalId, backlogId, backlog, globalBacklog, ttl, globalTtl,
               doomed, listening, wire, ticks, resets, purges>>

Messages == [gid : Nat \ {0}, mid : Nat \ {0}, chan : Channels, era : Nat]

ASSUME StoreAssumption ==
  /\ Sizes \subseteq Nat /\ Sizes # {}
  /\ MaxGlobalBacklogSize \in Nat
  /\ ClearEvery \in Nat \ {0}
  /\ Ages \subseteq Nat \ {0}
  /\ MaxId \in Nat /\ MaxTicks \in Nat /\ MaxResets \in Nat /\ MaxPurges \in Nat
  /\ UnsubMessage \notin Messages

\* The keys of a bus: "__mb_*" finds them all.
GlobalKeys  == {<<"global_id">>, <<"global_backlog">>}
ChannelKeys == {"backlog_id", "backlog"} \X Channels
Keys        == GlobalKeys \cup ChannelKeys

Exists(k) ==
  CASE k = <<"global_id">>      -> globalId > 0
    [] k = <<"global_backlog">> -> globalBacklog # {}
    [] k \in ChannelKeys /\ k[1] = "backlog_id" -> backlogId[k[2]] > 0
    [] OTHER                    -> backlog[k[2]] # {}

StoreTypeOK ==
  /\ globalId \in Nat
  /\ backlogId \in [Channels -> Nat]
  /\ backlog \in [Channels -> SUBSET Messages]
  /\ globalBacklog \subseteq Messages
  /\ ttl \in [Channels -> Nat]
  /\ globalTtl \in Nat
  /\ doomed \subseteq Keys
  /\ listening \subseteq Subs
  /\ wire \in [Subs -> Seq(Messages \cup {UnsubMessage})]
  /\ ticks \in Nat
  /\ resets \in Nat
  /\ purges \in Nat

StoreInit ==
  /\ globalId = 0
  /\ backlogId = [c \in Channels |-> 0]
  /\ backlog = [c \in Channels |-> {}]
  /\ globalBacklog = {}
  /\ ttl = [c \in Channels |-> 0]
  /\ globalTtl = 0
  /\ doomed = {}
  /\ listening = {}
  /\ wire = [s \in Subs |-> <<>>]
  /\ ticks = 0
  /\ resets = 0
  /\ purges = 0

-----------------------------------------------------------------------------
\* PUBLISH: Redis pushes to the connections subscribed at that moment.
Pushed(m) == [s \in Subs |-> IF s \in listening THEN Append(wire[s], m)
                                                ELSE wire[s]]

\* Mutant: pointers are only ever added.
PointerKept(m) == globalBacklog \cup {m}

\* ZADD of a pointer: the member is (mid, chan), so one already there only
\* gets a new score.
PointerAdded(m) ==
  {p \in globalBacklog : ~(p.mid = m.mid /\ p.chan = m.chan)} \cup {m}

\* The script's ZREMRANGEBYSCORE key 1 (id - size), run only when id is over
\* the size and a multiple of clear_every.
TrimDue(id, size) == id > size /\ id % ClearEvery = 0

\* Mutant: the trim leaves one message too many.
BacklogTrimmedShort(set, m, size) ==
  IF TrimDue(m.mid, size) THEN {e \in set : e.mid >= m.mid - size} ELSE set

BacklogTrimmed(set, m, size) ==
  IF TrimDue(m.mid, size) THEN {e \in set : e.mid > m.mid - size} ELSE set

\* Mutant: the trim takes one message too many.
GlobalTrimmedLong(set, m) ==
  IF TrimDue(m.gid, MaxGlobalBacklogSize)
  THEN {p \in set : p.gid > m.gid - MaxGlobalBacklogSize + 1}
  ELSE set

GlobalTrimmed(set, m) ==
  IF TrimDue(m.gid, MaxGlobalBacklogSize)
  THEN {p \in set : p.gid > m.gid - MaxGlobalBacklogSize}
  ELSE set

\* LUA_PUBLISH, atomic: both INCRs, the two ZADDs with their EXPIREs, the
\* PUBLISH, and the two trims.
Publish(c, size, age) ==
  LET m == [gid |-> globalId + 1, mid |-> backlogId[c] + 1, chan |-> c,
            era |-> resets]
  IN  /\ globalId < MaxId
      /\ globalId' = m.gid
      /\ backlogId' = [backlogId EXCEPT ![c] = m.mid]
      /\ backlog' = [backlog EXCEPT ![c] = BacklogTrimmed(@ \cup {m}, m, size)]
      /\ globalBacklog' = GlobalTrimmed(PointerAdded(m), m)
      /\ ttl' = [ttl EXCEPT ![c] = age]
      /\ globalTtl' = age
      /\ wire' = Pushed(m)
      /\ UNCHANGED <<doomed, listening, ticks, resets, purges>>

\* Time passes.  A channel's id and backlog are given the same EXPIRE by the
\* same script, so they go together; the global id never expires.
Expiring == {c \in Channels : ttl[c] = 1}

Aged(t) == IF t > 0 THEN t - 1 ELSE 0

\* Mutant: the global id expires with a channel's keys.
TickWithGlobalId ==
  /\ ticks < MaxTicks
  /\ ticks' = ticks + 1
  /\ ttl' = [c \in Channels |-> Aged(ttl[c])]
  /\ globalTtl' = Aged(globalTtl)
  /\ globalId' = IF Expiring # {} THEN 0 ELSE globalId
  /\ backlogId' = [c \in Channels |->
                     IF c \in Expiring THEN 0 ELSE backlogId[c]]
  /\ backlog' = [c \in Channels |-> IF c \in Expiring THEN {} ELSE backlog[c]]
  /\ globalBacklog' = IF globalTtl = 1 THEN {} ELSE globalBacklog
  /\ UNCHANGED <<doomed, listening, wire, resets, purges>>

\* Mutant: only the channel's id is given an EXPIRE.
TickWithoutBacklog ==
  /\ ticks < MaxTicks
  /\ ticks' = ticks + 1
  /\ ttl' = [c \in Channels |-> Aged(ttl[c])]
  /\ globalTtl' = Aged(globalTtl)
  /\ backlogId' = [c \in Channels |->
                     IF c \in Expiring THEN 0 ELSE backlogId[c]]
  /\ UNCHANGED <<globalId, backlog, globalBacklog, doomed, listening, wire,
                 resets, purges>>

Tick ==
  /\ ticks < MaxTicks
  /\ ticks' = ticks + 1
  /\ ttl' = [c \in Channels |-> Aged(ttl[c])]
  /\ globalTtl' = Aged(globalTtl)
  /\ backlogId' = [c \in Channels |->
                     IF c \in Expiring THEN 0 ELSE backlogId[c]]
  /\ backlog' = [c \in Channels |-> IF c \in Expiring THEN {} ELSE backlog[c]]
  /\ globalBacklog' = IF globalTtl = 1 THEN {} ELSE globalBacklog
  /\ UNCHANGED <<globalId, doomed, listening, wire, resets, purges>>

\* KEYS pattern, the first half of an administrative command.
ListKeys(pattern) ==
  /\ doomed = {}
  /\ doomed' = {k \in pattern : Exists(k)}
  /\ UNCHANGED <<globalId, backlogId, backlog, globalBacklog, ttl, globalTtl,
                 listening, wire, ticks>>

\* "__mb_*"
Reset ==
  /\ resets < MaxResets
  /\ ListKeys(Keys)
  /\ resets' = resets + 1
  /\ UNCHANGED purges

\* "__mb_*backlog_n" ends where a channel's backlog key, "__mb_backlog_n_foo",
\* goes on: of the bus's keys it matches the global backlog only.
ExpireAllBacklogs ==
  /\ purges < MaxPurges
  /\ ListKeys({<<"global_backlog">>})
  /\ purges' = purges + 1
  /\ UNCHANGED resets

\* DEL of one listed key, in whatever order KEYS returned them.
DelKey(k) ==
  /\ k \in doomed
  /\ doomed' = doomed \ {k}
  /\ globalId' = IF k = <<"global_id">> THEN 0 ELSE globalId
  /\ globalBacklog' = IF k = <<"global_backlog">> THEN {} ELSE globalBacklog
  /\ backlogId' = [c \in Channels |->
                     IF k = <<"backlog_id", c>> THEN 0 ELSE backlogId[c]]
  /\ backlog' = [c \in Channels |->
                   IF k = <<"backlog", c>> THEN {} ELSE backlog[c]]
  /\ UNCHANGED <<ttl, globalTtl, listening, wire, ticks, resets, purges>>

\* global_unsubscribe, from a connection of its own.
GlobalUnsubscribe ==
  /\ wire' = Pushed(UnsubMessage)
  /\ UNCHANGED <<globalId, backlogId, backlog, globalBacklog, ttl, globalTtl,
                 doomed, listening, ticks, resets, purges>>

\* What the publishers, the clock and the administrator do to the store.
StoreStep ==
  \/ \E c \in Channels, size \in Sizes, age \in Ages : Publish(c, size, age)
  \/ Tick
  \/ Reset
  \/ ExpireAllBacklogs
  \/ \E k \in Keys : DelKey(k)

-----------------------------------------------------------------------------
(* The reads of the store.                                                 *)

\* get_message: the members whose score is the id (at most one, unless a reset
\* let ids restart before the backlog itself was deleted).
GetMessage(c, mid) == {m \in backlog[c] : m.mid = mid}

\* The messages the global backlog still leads to.
Retained == {m \in UNION {backlog[c] : c \in Channels} : m \in globalBacklog}

-----------------------------------------------------------------------------
(* The store by itself, under its publishers, its clock and its            *)
(* administrator.                                                          *)

\* The bounds are used up: nothing is left to happen in the model.
Exhausted ==
  /\ globalId = MaxId
  /\ UNCHANGED storeVars

StoreSpec == StoreInit /\ [][StoreStep \/ Exhausted]_storeVars

\* Per-channel ids never run ahead of the global id: what Redis#subscribe
\* relies on when it falls back on a channel id ("global is always going to
\* be bigger than local, so worst case is a replay of a few messages").  Here
\* and below, as long as the bus is not reset.
LocalNeverAhead == resets = 0 => \A c \in Channels : backlogId[c] <= globalId

\* A pointer of the global backlog leads to the very message it was written
\* for or to none, although its member names only the channel and an id that
\* starts again from 1 when the channel's keys expire.
PointersResolve ==
  resets = 0 =>
    \A p \in globalBacklog : GetMessage(p.chan, p.mid) \subseteq {p}

\* No two messages of a channel's backlog have the same id and no two pointers
\* the same score, so the sorted sets are in publication order.
OneMessagePerId ==
  resets = 0 =>
    /\ \A c \in Channels : \A m, n \in backlog[c] : m.mid = n.mid => m = n
    /\ \A p, q \in globalBacklog : p.gid = q.gid => p = q

\* A backlog holds at least the last messages that every publication's
\* max_backlog_size asked for, and at most clear_every - 1 more than the
\* largest of them.
BacklogWindow ==
  resets = 0 => \A c \in Channels :
    /\ \A i \in 1..backlogId[c] :
         (\A n \in Sizes : i + n > backlogId[c]) => GetMessage(c, i) # {}
    /\ \E n \in Sizes : Cardinality(backlog[c]) < n + ClearEvery

\* What a channel's backlog retains can be reached from the global backlog as
\* long as it is one of the last max_global_backlog_size messages, if nobody
\* deletes keys and every publication carries the same max_backlog_age: with
\* two ages, the EXPIRE of the global backlog (which the comment on the script
\* says is not made) takes away the pointers to messages with the longer one.
RetainedReachable ==
  resets = 0 /\ purges = 0 =>
    \A c \in Channels : \A m \in backlog[c] :
      m.gid + MaxGlobalBacklogSize > globalId => m \in globalBacklog
=============================================================================

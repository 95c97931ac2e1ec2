--------------------------- MODULE RedisStoreProofs ---------------------------
(***************************************************************************)
(* Proofs about RedisStore: the ids, the pointers and the order of the     *)
(* sorted sets, for any channels, sizes and ages, as long as the bus has   *)
(* not been reset.                                                         *)
(***************************************************************************)
EXTENDS RedisStore, FiniteSetTheorems, SequenceTheorems, TLAPS

\* Every message in a backlog is of its channel and was numbered by the
\* counters as they stand, and every pointer by the global id.
Numbered ==
  /\ \A c \in Channels : \A m \in backlog[c] :
       m.chan = c /\ m.mid <= backlogId[c] /\ m.gid <= globalId
  /\ \A p \in globalBacklog : p.gid <= globalId

\* Without reset!, an administrative command deletes the global backlog only.
CountersKept == resets = 0 /\ doomed \subseteq {<<"global_backlog">>}

Consistent ==
  /\ StoreTypeOK
  /\ CountersKept
  /\ LocalNeverAhead
  /\ Numbered
  /\ OneMessagePerId
  /\ PointersResolve

-----------------------------------------------------------------------------
\* An empty Redis is well typed.
LEMMA StoreInitType == StoreInit => StoreTypeOK
BY DEF StoreInit, StoreTypeOK

\* PUBLISH appends a message to the connections that listen.
LEMMA PushedType ==
  ASSUME StoreTypeOK, NEW m \in Messages \cup {UnsubMessage}
  PROVE  Pushed(m) \in [Subs -> Seq(Messages \cup {UnsubMessage})]
<1>1. \A s \in Subs : wire[s] \in Seq(Messages \cup {UnsubMessage})
  BY DEF StoreTypeOK
<1>2. \A s \in Subs : Append(wire[s], m) \in Seq(Messages \cup {UnsubMessage})
  BY <1>1, AppendProperties
<1>. QED BY <1>1, <1>2 DEF Pushed

\* The publication script keeps the types (redis.rb:92-127).
LEMMA PublishType ==
  ASSUME StoreTypeOK, NEW c \in Channels, NEW size \in Sizes, NEW age \in Ages,
         Publish(c, size, age)
  PROVE  StoreTypeOK'
<1> DEFINE m == [gid |-> globalId + 1, mid |-> backlogId[c] + 1, chan |-> c,
                 era |-> resets]
<1>1. m \in Messages
  BY DEF StoreTypeOK, Messages
<1>2. wire' \in [Subs -> Seq(Messages \cup {UnsubMessage})]
  BY <1>1, PushedType DEF Publish
<1>3. globalBacklog' \subseteq Messages
  <2>1. PointerAdded(m) \subseteq Messages
    BY <1>1 DEF PointerAdded, StoreTypeOK
  <2>2. GlobalTrimmed(PointerAdded(m), m) \subseteq PointerAdded(m)
    BY DEF GlobalTrimmed
  <2>. QED BY <2>1, <2>2 DEF Publish
<1>4. backlog' \in [Channels -> SUBSET Messages]
  <2>1. backlog[c] \cup {m} \subseteq Messages
    BY <1>1 DEF StoreTypeOK
  <2>2. BacklogTrimmed(backlog[c] \cup {m}, m, size) \subseteq Messages
    BY <2>1 DEF BacklogTrimmed
  <2>3. backlog' = [backlog EXCEPT ![c] =
                      BacklogTrimmed(backlog[c] \cup {m}, m, size)]
    BY DEF Publish
  <2>. QED BY <2>2, <2>3 DEF StoreTypeOK
<1>5. /\ globalId' \in Nat
      /\ backlogId' \in [Channels -> Nat]
      /\ ttl' \in [Channels -> Nat]
      /\ globalTtl' \in Nat
  BY StoreAssumption DEF Publish, StoreTypeOK
<1>6. UNCHANGED <<doomed, listening, ticks, resets, purges>>
  BY DEF Publish
<1>. QED BY <1>2, <1>3, <1>4, <1>5, <1>6 DEF StoreTypeOK

\* Expiry keeps the types.
LEMMA TickType == ASSUME StoreTypeOK, Tick PROVE StoreTypeOK'
<1>1. \A n \in Nat : Aged(n) \in Nat
  BY DEF Aged
<1>2. ttl' \in [Channels -> Nat] /\ globalTtl' \in Nat /\ ticks' \in Nat
  BY <1>1 DEF Tick, StoreTypeOK
<1>3. /\ backlogId' \in [Channels -> Nat]
      /\ backlog' \in [Channels -> SUBSET Messages]
      /\ globalBacklog' \subseteq Messages
  BY DEF Tick, StoreTypeOK
<1>. QED BY <1>2, <1>3 DEF Tick, StoreTypeOK

\* reset!, expire_all_backlogs! and global_unsubscribe keep the types.
LEMMA AdminType ==
  ASSUME StoreTypeOK, Reset \/ ExpireAllBacklogs \/ \E k \in Keys : DelKey(k)
  PROVE  StoreTypeOK'
<1>1. CASE Reset
  BY <1>1 DEF Reset, ListKeys, StoreTypeOK
<1>2. CASE ExpireAllBacklogs
  BY <1>2 DEF ExpireAllBacklogs, ListKeys, StoreTypeOK, Keys, GlobalKeys
<1>3. ASSUME NEW k \in Keys, DelKey(k) PROVE StoreTypeOK'
  BY <1>3 DEF DelKey, StoreTypeOK
<1>. QED BY <1>1, <1>2, <1>3

\* Every step of the store keeps the types.
LEMMA StoreStepType == StoreTypeOK /\ StoreStep => StoreTypeOK'
BY PublishType, TickType, AdminType DEF StoreStep

\* Every variable of the store keeps its type, resets included.
THEOREM StoreTypeCorrect == StoreSpec => []StoreTypeOK
<1>1. StoreTypeOK /\ [StoreStep \/ Exhausted]_storeVars => StoreTypeOK'
  <2>1. StoreTypeOK /\ UNCHANGED storeVars => StoreTypeOK'
    BY DEF storeVars, StoreTypeOK
  <2>. QED BY <2>1, StoreStepType DEF Exhausted
<1>. QED BY <1>1, StoreInitType, PTL DEF StoreSpec

-----------------------------------------------------------------------------
(* Ids and pointers, when the bus is not reset.                            *)

\* No ids, no pointers: consistent.
LEMMA ConsistentInit == StoreInit => Consistent
BY StoreInitType
DEF StoreInit, Consistent, CountersKept, LocalNeverAhead, Numbered,
    OneMessagePerId, PointersResolve

\* The script takes ids larger than any in use, adds the message and its pointer
\* together, and trims.
LEMMA ConsistentPublish ==
  ASSUME Consistent, NEW c \in Channels, NEW size \in Sizes, NEW age \in Ages,
         Publish(c, size, age)
  PROVE  Consistent'
<1> DEFINE m == [gid |-> globalId + 1, mid |-> backlogId[c] + 1, chan |-> c,
                 era |-> resets]
<1>1. StoreTypeOK' /\ StoreTypeOK
  BY PublishType DEF Consistent
<1>2. /\ globalId' = globalId + 1 /\ globalId \in Nat
      /\ \A d \in Channels : backlogId[d] \in Nat
      /\ \A d \in Channels :
           backlogId'[d] = IF d = c THEN backlogId[c] + 1 ELSE backlogId[d]
      /\ resets' = resets /\ doomed' = doomed
  BY DEF Publish, Consistent, StoreTypeOK
<1>3. /\ m.gid = globalId + 1 /\ m.mid = backlogId[c] + 1 /\ m.chan = c
      /\ m \in Messages
  BY <1>2 DEF Messages, Consistent, StoreTypeOK
<1>4. /\ \A e \in Messages : e.gid \in Nat /\ e.mid \in Nat
      /\ globalBacklog \subseteq Messages
      /\ \A d \in Channels : backlog[d] \subseteq Messages
  BY DEF Messages, Consistent, StoreTypeOK
<1>5. \A d \in Channels :
        backlog'[d] \subseteq IF d = c THEN backlog[c] \cup {m} ELSE backlog[d]
  <2>1. backlog' = [backlog EXCEPT ![c] =
                      BacklogTrimmed(backlog[c] \cup {m}, m, size)]
    BY DEF Publish
  <2>2. BacklogTrimmed(backlog[c] \cup {m}, m, size)
          \subseteq backlog[c] \cup {m}
    BY DEF BacklogTrimmed
  <2>3. backlog \in [Channels -> SUBSET Messages]
    BY <1>1 DEF StoreTypeOK
  <2> HIDE DEF m
  <2>. QED BY <2>1, <2>2, <2>3
<1>6. /\ globalBacklog' \subseteq globalBacklog \cup {m}
      /\ \A p \in globalBacklog' : p # m => ~(p.mid = m.mid /\ p.chan = m.chan)
  BY DEF Publish, GlobalTrimmed, PointerAdded
<1> HIDE DEF m
<1>7. LocalNeverAhead' /\ CountersKept'
  BY <1>2 DEF Consistent, LocalNeverAhead, CountersKept
<1>8. Numbered'
  <2>1. ASSUME NEW d \in Channels, NEW e \in backlog'[d]
        PROVE  e.chan = d /\ e.mid <= backlogId'[d] /\ e.gid <= globalId'
    <3>1. CASE e \in backlog[d]
      <4>1. e.chan = d /\ e.mid <= backlogId[d] /\ e.gid <= globalId
        BY <3>1 DEF Consistent, Numbered
      <4>. QED BY <1>2, <1>4, <3>1, <4>1
    <3>2. CASE e \notin backlog[d]
      BY <1>2, <1>3, <1>5, <2>1, <3>2
    <3>. QED BY <3>1, <3>2
  <2>2. ASSUME NEW p \in globalBacklog' PROVE p.gid <= globalId'
    <3>1. CASE p \in globalBacklog
      <4>1. p.gid <= globalId
        BY <3>1 DEF Consistent, Numbered
      <4>. QED BY <1>2, <1>4, <3>1, <4>1
    <3>2. CASE p \notin globalBacklog
      BY <1>2, <1>3, <1>6, <2>2, <3>2
    <3>. QED BY <3>1, <3>2
  <2>. QED BY <2>1, <2>2 DEF Numbered
<1>9. \A e \in backlog[c] : e.mid < m.mid
  BY <1>2, <1>3, <1>4 DEF Consistent, Numbered
<1>10. \A p \in globalBacklog : p.gid < m.gid
  BY <1>2, <1>3, <1>4 DEF Consistent, Numbered
<1>11. OneMessagePerId'
  <2>1. ASSUME NEW d \in Channels, NEW e \in backlog'[d], NEW f \in backlog'[d],
               e.mid = f.mid
        PROVE  e = f
    <3>1. CASE e \in backlog[d] /\ f \in backlog[d]
      BY <2>1, <3>1 DEF Consistent, CountersKept, OneMessagePerId
    <3>2. CASE ~(e \in backlog[d] /\ f \in backlog[d])
      BY <1>3, <1>4, <1>5, <1>9, <2>1, <3>2
    <3>. QED BY <3>1, <3>2
  <2>2. ASSUME NEW p \in globalBacklog', NEW q \in globalBacklog', p.gid = q.gid
        PROVE  p = q
    <3>1. CASE p \in globalBacklog /\ q \in globalBacklog
      BY <2>2, <3>1 DEF Consistent, CountersKept, OneMessagePerId
    <3>2. CASE ~(p \in globalBacklog /\ q \in globalBacklog)
      BY <1>3, <1>4, <1>6, <1>10, <2>2, <3>2
    <3>. QED BY <3>1, <3>2
  <2>. QED BY <2>1, <2>2 DEF OneMessagePerId
<1>12. PointersResolve'
  <2> SUFFICES ASSUME NEW p \in globalBacklog', p.chan \in Channels,
                      NEW e \in backlog'[p.chan], e.mid = p.mid
               PROVE  e = p
    <3>1. \A p \in globalBacklog' : p.chan \in Channels
      BY <1>1 DEF StoreTypeOK, Messages
    <3>. QED BY <3>1 DEF PointersResolve, GetMessage
  <2>1. CASE p = m
    <3>1. e \in backlog[c] \cup {m}
      BY <1>3, <1>5, <2>1
    <3>. QED BY <1>3, <1>4, <1>9, <2>1, <3>1
  <2>2. CASE p # m
    <3>1. p \in globalBacklog /\ ~(p.mid = m.mid /\ p.chan = m.chan)
      BY <1>6, <2>2
    <3>2. e \in backlog[p.chan]
      BY <1>3, <1>5, <3>1
    <3>. QED
      BY <3>1, <3>2 DEF Consistent, CountersKept, PointersResolve, GetMessage
  <2>. QED BY <2>1, <2>2
<1>. QED BY <1>1, <1>7, <1>8, <1>11, <1>12 DEF Consistent

\* Steps that only take messages, pointers and channel ids away.
LEMMA ConsistentShrunk ==
  ASSUME Consistent, StoreTypeOK', CountersKept',
         globalId' = globalId, globalBacklog' \subseteq globalBacklog,
         \A c \in Channels :
           \/ backlogId'[c] = backlogId[c] /\ backlog'[c] = backlog[c]
           \/ backlogId'[c] = 0 /\ backlog'[c] = {}
  PROVE  Consistent'
<1>1. globalId \in Nat
  BY DEF Consistent, StoreTypeOK
<1>2. LocalNeverAhead'
  BY <1>1 DEF Consistent, CountersKept, LocalNeverAhead
<1>3. Numbered'
  BY DEF Consistent, Numbered
<1>4. OneMessagePerId'
  BY DEF Consistent, CountersKept, OneMessagePerId
<1>5. PointersResolve'
  <2>1. \A p \in globalBacklog : p.chan \in Channels
    BY DEF Consistent, StoreTypeOK, Messages
  <2>. QED BY <2>1 DEF Consistent, CountersKept, PointersResolve, GetMessage
<1>. QED BY <1>2, <1>3, <1>4, <1>5 DEF Consistent

\* Every step but a reset keeps ids and pointers consistent.
LEMMA ConsistentStep ==
  ASSUME Consistent, resets' = 0, StoreStep
  PROVE  Consistent'
<1>1. StoreTypeOK /\ StoreTypeOK'
  BY StoreStepType DEF Consistent
<1>2. ASSUME NEW c \in Channels, NEW size \in Sizes, NEW age \in Ages,
             Publish(c, size, age)
      PROVE  Consistent'
  BY <1>2, ConsistentPublish
<1>3. CASE Tick
  <2>1. CountersKept'
    BY <1>3 DEF Tick, Consistent, CountersKept
  <2>. QED BY <1>1, <1>3, <2>1, ConsistentShrunk DEF Tick
<1>4. CASE Reset
  BY <1>4 DEF Reset, Consistent, CountersKept
<1>5. CASE ExpireAllBacklogs
  <2>1. CountersKept'
    BY <1>5 DEF ExpireAllBacklogs, ListKeys, Consistent, CountersKept
  <2>. QED BY <1>1, <1>5, <2>1, ConsistentShrunk DEF ExpireAllBacklogs, ListKeys
<1>6. ASSUME NEW k \in Keys, DelKey(k) PROVE Consistent'
  <2>1. k = <<"global_backlog">> /\ CountersKept'
    BY <1>6 DEF DelKey, Consistent, CountersKept
  <2>2. k # <<"global_id">>
    BY <2>1
  <2>3. \A c \in Channels : k # <<"backlog_id", c>> /\ k # <<"backlog", c>>
    BY <2>1
  <2>4. /\ globalId' = globalId /\ globalBacklog' \subseteq globalBacklog
        /\ \A c \in Channels :
             backlogId'[c] = backlogId[c] /\ backlog'[c] = backlog[c]
    BY <1>6, <2>2, <2>3 DEF DelKey
  <2>. QED BY <1>1, <2>1, <2>4, ConsistentShrunk
<1>. QED BY <1>2, <1>3, <1>4, <1>5, <1>6 DEF StoreStep

\* A reset is not undone.
LEMMA NeverUnreset ==
  ASSUME StoreTypeOK, StoreStep, resets' = 0
  PROVE  resets = 0
<1>1. resets \in Nat
  BY DEF StoreTypeOK
<1>2. resets' = resets \/ resets' = resets + 1
  BY DEF StoreStep, Publish, Tick, Reset, ExpireAllBacklogs, DelKey
<1>. QED
  BY <1>1, <1>2

\* What holds with resets too, and what holds until the first.
Inv == StoreTypeOK /\ (resets = 0 => Consistent)

\* Ids and pointers are consistent in every state before the first reset.
THEOREM ConsistentAlways == StoreSpec => []Inv
<1>1. StoreInit => Inv
  BY StoreInitType, ConsistentInit DEF Inv
<1>2. Inv /\ [StoreStep \/ Exhausted]_storeVars => Inv'
  <2>1. Inv /\ UNCHANGED storeVars => Inv'
    BY DEF storeVars, Inv, Consistent, StoreTypeOK, CountersKept,
           LocalNeverAhead, Numbered, OneMessagePerId, PointersResolve,
           GetMessage
  <2>2. ASSUME Inv, StoreStep PROVE Inv'
    <3>1. StoreTypeOK'
      BY <2>2, StoreStepType DEF Inv
    <3>2. ASSUME resets' = 0 PROVE resets = 0
      BY <2>2, <3>2, NeverUnreset DEF Inv
    <3>. QED BY <2>2, <3>1, <3>2, ConsistentStep DEF Inv
  <2>. QED BY <2>1, <2>2 DEF Exhausted
<1>. QED BY <1>1, <1>2, PTL DEF StoreSpec

\* Redis#subscribe may take a channel id for a global id: it is never ahead.
THEOREM LocalNeverAheadAlways == StoreSpec => []LocalNeverAhead
<1>1. Inv => LocalNeverAhead
  BY DEF Inv, Consistent, LocalNeverAhead
<1>. QED BY <1>1, ConsistentAlways, PTL

\* However a channel's ids start again when its keys expire, a pointer leads to
\* its own message or to none.
THEOREM PointersResolveAlways == StoreSpec => []PointersResolve
<1>1. Inv => PointersResolve
  BY DEF Inv, Consistent, PointersResolve
<1>. QED BY <1>1, ConsistentAlways, PTL

\* Ids are unique within a backlog, and scores within the global backlog.
THEOREM OneMessagePerIdAlways == StoreSpec => []OneMessagePerId
<1>1. Inv => OneMessagePerId
  BY DEF Inv, Consistent, OneMessagePerId
<1>. QED BY <1>1, ConsistentAlways, PTL
-----------------------------------------------------------------------------
(* What a backlog holds: no less than the publications asked for, and not  *)
(* much more.                                                              *)

\* The messages every publication's max_backlog_size asked for are there.
Window ==
  \A c \in Channels : \A i \in 1..backlogId[c] :
    (\A n \in Sizes : i + n > backlogId[c]) => \E e \in backlog[c] : e.mid = i

\* Since id k, when a trim to n messages was due or nothing was published yet,
\* no trim has been due.
SinceTrim ==
  \A c \in Channels : \E n \in Sizes, k \in 0..backlogId[c] :
    /\ \A j \in k+1..backlogId[c] : j % ClearEvery # 0
    /\ \A e \in backlog[c] : e.mid + n > k

\* The ids and the sets after LUA_PUBLISH of m.
LEMMA Published ==
  ASSUME StoreTypeOK, NEW c \in Channels, NEW size \in Sizes, NEW age \in Ages,
         Publish(c, size, age)
  PROVE  \E m \in Messages :
           /\ m.gid = globalId + 1 /\ m.mid = backlogId[c] + 1 /\ m.chan = c
           /\ globalId' = m.gid /\ backlogId'[c] = m.mid
           /\ backlog'[c] = BacklogTrimmed(backlog[c] \cup {m}, m, size)
           /\ globalBacklog' = GlobalTrimmed(PointerAdded(m), m)
           /\ \A d \in Channels \ {c} :
                backlogId'[d] = backlogId[d] /\ backlog'[d] = backlog[d]
<1>. DEFINE m == [gid |-> globalId + 1, mid |-> backlogId[c] + 1, chan |-> c,
                  era |-> resets]
<1>1. m \in Messages
  BY DEF StoreTypeOK, Messages
<1>2. m.gid = globalId + 1 /\ m.mid = backlogId[c] + 1 /\ m.chan = c
  OBVIOUS
<1>3. /\ globalId' = m.gid
      /\ backlogId' = [backlogId EXCEPT ![c] = m.mid]
      /\ backlog' = [backlog EXCEPT ![c] =
                       BacklogTrimmed(backlog[c] \cup {m}, m, size)]
      /\ globalBacklog' = GlobalTrimmed(PointerAdded(m), m)
  BY DEF Publish
<1>4. /\ backlogId \in [Channels -> Nat]
      /\ backlog \in [Channels -> SUBSET Messages]
  BY DEF StoreTypeOK
<1>. HIDE DEF m
<1>. QED
  BY <1>1, <1>2, <1>3, <1>4

LEMMA WindowPublish ==
  ASSUME StoreTypeOK, Window, NEW c \in Channels, NEW size \in Sizes,
         NEW age \in Ages, Publish(c, size, age)
  PROVE  Window'
<1>1. PICK m \in Messages :
        /\ m.mid = backlogId[c] + 1 /\ backlogId'[c] = m.mid
        /\ backlog'[c] = BacklogTrimmed(backlog[c] \cup {m}, m, size)
        /\ \A d \in Channels \ {c} :
             backlogId'[d] = backlogId[d] /\ backlog'[d] = backlog[d]
  BY Published
<1>2. backlogId[c] \in Nat /\ Sizes \subseteq Nat
  BY StoreAssumption DEF StoreTypeOK
<1>3. ASSUME NEW i \in 1..m.mid, \A n \in Sizes : i + n > m.mid
      PROVE  \E e \in backlog'[c] : e.mid = i
  <2>1. PICK e \in backlog[c] \cup {m} : e.mid = i
    <3>1. CASE i = m.mid
      BY <3>1
    <3>2. CASE i # m.mid
      <4>1. i \in 1..backlogId[c] /\ \A n \in Sizes : i + n > backlogId[c]
        BY <1>1, <1>2, <1>3, <3>2
      <4>. QED
        BY <4>1 DEF Window
    <3>. QED
      BY <3>1, <3>2
  <2>2. TrimDue(m.mid, size) => e.mid > m.mid - size
    BY <1>1, <1>2, <1>3, <2>1
  <2>3. e \in backlog'[c]
    BY <1>1, <2>1, <2>2 DEF BacklogTrimmed
  <2>. QED
    BY <2>1, <2>3
<1>4. ASSUME NEW d \in Channels \ {c}, NEW i \in 1..backlogId'[d],
             \A n \in Sizes : i + n > backlogId'[d]
      PROVE  \E e \in backlog'[d] : e.mid = i
  BY <1>1, <1>4 DEF Window
<1>5. ASSUME NEW d \in Channels, NEW i \in 1..backlogId'[d],
             \A n \in Sizes : i + n > backlogId'[d]
      PROVE  \E e \in backlog'[d] : e.mid = i
  BY <1>1, <1>3, <1>4, <1>5
<1>. QED
  BY <1>5 DEF Window

LEMMA SinceTrimPublish ==
  ASSUME StoreTypeOK, SinceTrim, NEW c \in Channels, NEW size \in Sizes,
         NEW age \in Ages, Publish(c, size, age)
  PROVE  SinceTrim'
<1>1. PICK m \in Messages :
        /\ m.mid = backlogId[c] + 1 /\ backlogId'[c] = m.mid
        /\ backlog'[c] = BacklogTrimmed(backlog[c] \cup {m}, m, size)
        /\ \A d \in Channels \ {c} :
             backlogId'[d] = backlogId[d] /\ backlog'[d] = backlog[d]
  BY Published
<1>2. /\ backlogId[c] \in Nat /\ Sizes \subseteq Nat
      /\ \A e \in backlog[c] \cup {m} : e.mid \in Nat /\ e.mid > 0
  BY StoreAssumption DEF StoreTypeOK, Messages
<1>3. backlog'[c] \subseteq backlog[c] \cup {m}
  BY <1>1 DEF BacklogTrimmed
<1>4. \E n \in Sizes, k \in 0..m.mid :
        /\ \A j \in k+1..m.mid : j % ClearEvery # 0
        /\ \A e \in backlog'[c] : e.mid + n > k
  <2>1. CASE m.mid % ClearEvery # 0
    <3>1. PICK n \in Sizes, k \in 0..backlogId[c] :
            /\ \A j \in k+1..backlogId[c] : j % ClearEvery # 0
            /\ \A e \in backlog[c] : e.mid + n > k
      BY DEF SinceTrim
    <3>2. k \in 0..m.mid /\ m.mid + n > k
      BY <1>1, <1>2, <3>1
    <3>3. \A j \in k+1..m.mid : j \in k+1..backlogId[c] \/ j = m.mid
      BY <1>1, <1>2, <3>1
    <3>4. \A j \in k+1..m.mid : j % ClearEvery # 0
      BY <2>1, <3>1, <3>3
    <3>5. \A e \in backlog'[c] : e.mid + n > k
      BY <1>3, <3>1, <3>2
    <3>. QED
      BY <3>1, <3>2, <3>4, <3>5
  <2>2. CASE m.mid % ClearEvery = 0
    <3>1. m.mid \in 0..m.mid /\ \A j \in m.mid+1..m.mid : FALSE
      BY <1>1, <1>2
    <3>2. ASSUME NEW e \in backlog'[c] PROVE e.mid + size > m.mid
      <4>. e.mid \in Nat /\ e.mid > 0 /\ m.mid \in Nat /\ size \in Nat
        BY <1>1, <1>2, <1>3
      <4>1. CASE m.mid > size
        <5>1. e.mid > m.mid - size
          BY <1>1, <2>2, <4>1 DEF BacklogTrimmed, TrimDue
        <5>. QED
          BY <5>1
      <4>2. CASE ~(m.mid > size)
        BY <4>2
      <4>. QED
        BY <4>1, <4>2
    <3>3. \A j \in m.mid+1..m.mid : j % ClearEvery # 0
      BY <3>1
    <3>. QED
      BY <3>1, <3>2, <3>3
  <2>. QED
    BY <2>1, <2>2
<1>5. ASSUME NEW d \in Channels \ {c}
      PROVE  \E n \in Sizes, k \in 0..backlogId'[d] :
               /\ \A j \in k+1..backlogId'[d] : j % ClearEvery # 0
               /\ \A e \in backlog'[d] : e.mid + n > k
  BY <1>1 DEF SinceTrim
<1>. QED
  BY <1>1, <1>4, <1>5 DEF SinceTrim

\* A channel's keys expire together, and its ids start again.
LEMMA WindowExpired ==
  ASSUME Window, SinceTrim,
         \A c \in Channels :
           \/ backlogId'[c] = backlogId[c] /\ backlog'[c] = backlog[c]
           \/ backlogId'[c] = 0 /\ backlog'[c] = {}
  PROVE  Window' /\ SinceTrim'
<1>1. Window'
  BY DEF Window
<1>2. ASSUME NEW c \in Channels, backlogId'[c] = 0, backlog'[c] = {}
      PROVE  \E n \in Sizes, k \in 0..backlogId'[c] :
               /\ \A j \in k+1..backlogId'[c] : j % ClearEvery # 0
               /\ \A e \in backlog'[c] : e.mid + n > k
  <2>1. 0 \in 0..backlogId'[c] /\ \A j \in 0+1..backlogId'[c] : FALSE
    BY <1>2
  <2>2. \E n : n \in Sizes
    BY StoreAssumption
  <2>. QED
    BY <1>2, <2>1, <2>2
<1>3. SinceTrim'
  BY <1>2 DEF SinceTrim
<1>. QED
  BY <1>1, <1>3

LEMMA WindowStep ==
  ASSUME StoreTypeOK, CountersKept, Window, SinceTrim, resets' = 0, StoreStep
  PROVE  Window' /\ SinceTrim'
<1>1. ASSUME NEW c \in Channels, NEW size \in Sizes, NEW age \in Ages,
             Publish(c, size, age)
      PROVE  Window' /\ SinceTrim'
  BY <1>1, WindowPublish, SinceTrimPublish
<1>2. CASE Tick
  BY <1>2, WindowExpired DEF Tick
<1>3. CASE Reset
  BY <1>3 DEF Reset, CountersKept
<1>4. CASE ExpireAllBacklogs
  BY <1>4, WindowExpired DEF ExpireAllBacklogs, ListKeys
<1>5. ASSUME NEW k \in Keys, DelKey(k) PROVE Window' /\ SinceTrim'
  <2>1. k = <<"global_backlog">>
    BY <1>5 DEF DelKey, CountersKept
  <2>2. \A c \in Channels : k # <<"backlog_id", c>> /\ k # <<"backlog", c>>
    BY <2>1
  <2>. QED
    BY <1>5, <2>2, WindowExpired DEF DelKey
<1>. QED
  BY <1>1, <1>2, <1>3, <1>4, <1>5 DEF StoreStep

LEMMA NextMultiple ==
  ASSUME NEW k \in Nat, NEW n \in Nat \ {0}
  PROVE  (k + n - (k % n)) % n = 0
OBVIOUS

\* Of ClearEvery ids in a row one makes a trim due.
LEMMA TrimComes ==
  ASSUME NEW k \in Nat, NEW id \in Nat,
         \A j \in k+1..id : j % ClearEvery # 0
  PROVE  id < k + ClearEvery
<1>. DEFINE j == k + ClearEvery - (k % ClearEvery)
<1>1. ClearEvery \in Nat \ {0}
  BY StoreAssumption
<1>2. k % ClearEvery \in 0..ClearEvery-1
  BY <1>1
<1>3. j % ClearEvery = 0
  BY <1>1, NextMultiple
<1>4. j \in k+1..k+ClearEvery
  BY <1>1, <1>2
<1>. HIDE DEF j
<1>5. ~(j <= id)
  BY <1>3, <1>4
<1>. QED
  BY <1>1, <1>4, <1>5

\* Messages whose ids differ are no more than the ids there can be.
LEMMA WithinIds ==
  ASSUME NEW S, NEW lo \in Nat, NEW hi \in Nat,
         \A e \in S : e.mid \in lo..hi,
         \A e, f \in S : e.mid = f.mid => e = f
  PROVE  /\ Cardinality(S) \in Nat
         /\ Cardinality(S) <= IF lo > hi THEN 0 ELSE hi - lo + 1
<1>. DEFINE f == [e \in S |-> e.mid]
<1>1. lo \in Int
  OBVIOUS
<1>2. hi \in Int
  OBVIOUS
<1>3. /\ IsFiniteSet(lo..hi)
      /\ Cardinality(lo..hi) = IF lo > hi THEN 0 ELSE hi - lo + 1
  BY <1>1, <1>2, FS_Interval
<1>4. f \in Injection(S, lo..hi)
  BY DEF Injection, IsInjective
<1>. HIDE DEF f
<1>5. IsFiniteSet(S) /\ Cardinality(S) <= Cardinality(lo..hi)
  BY <1>3, <1>4, FS_Injection
<1>6. Cardinality(S) \in Nat
  BY <1>5, FS_CardinalityType
<1>. QED
  BY <1>3, <1>5, <1>6

LEMMA WindowBounded ==
  ASSUME Consistent, SinceTrim, NEW c \in Channels
  PROVE  \E n \in Sizes : Cardinality(backlog[c]) < n + ClearEvery
<1>. DEFINE id == backlogId[c]
<1>1. PICK n \in Sizes, k \in 0..id :
        /\ \A j \in k+1..id : j % ClearEvery # 0
        /\ \A e \in backlog[c] : e.mid + n > k
  BY DEF SinceTrim
<1>2. /\ n \in Nat /\ id \in Nat /\ k \in Nat /\ k <= id
      /\ ClearEvery \in Nat /\ ClearEvery > 0
  BY <1>1, StoreAssumption DEF Consistent, StoreTypeOK
<1>3. id < k + ClearEvery
  BY <1>1, <1>2, TrimComes
<1>4. \A e \in backlog[c] : e.mid \in Nat /\ e.mid > 0 /\ e.mid <= id
  BY DEF Consistent, StoreTypeOK, Numbered, Messages
<1>5. \A e, f \in backlog[c] : e.mid = f.mid => e = f
  BY DEF Consistent, CountersKept, OneMessagePerId
<1>. DEFINE lo == IF k > n THEN k - n + 1 ELSE 1
            size == Cardinality(backlog[c])
<1>. HIDE DEF id
<1>6. lo \in Nat
  BY <1>2
<1>7. \A e \in backlog[c] : e.mid \in lo..id
  BY <1>1, <1>2, <1>4
<1>. HIDE DEF lo
<1>8. size \in Nat /\ size <= IF lo > id THEN 0 ELSE id - lo + 1
  BY <1>2, <1>5, <1>6, <1>7, WithinIds
<1>. HIDE DEF size
<1>9. size < n + ClearEvery
  BY <1>2, <1>3, <1>8 DEF lo
<1>. QED
  BY <1>1, <1>9 DEF size

\* The backlog of a channel holds at least the messages every publication's
\* max_backlog_size asked for, and less than clear_every more than the largest
\* of them: LUA_PUBLISH trims neither too much nor too seldom.
THEOREM BacklogWindowAlways == StoreSpec => []BacklogWindow
<1>. DEFINE W == resets = 0 => Window /\ SinceTrim
<1>1. StoreInit => W
  <2>. SUFFICES ASSUME StoreInit PROVE Window /\ SinceTrim
    OBVIOUS
  <2>1. \A c \in Channels : backlogId[c] = 0 /\ backlog[c] = {}
    BY DEF StoreInit
  <2>2. Window
    BY <2>1 DEF Window
  <2>3. \A j \in 0+1..0 : FALSE
    OBVIOUS
  <2>4. 0 \in 0..0 /\ \E n : n \in Sizes
    BY StoreAssumption
  <2>5. SinceTrim
    BY <2>1, <2>3, <2>4 DEF SinceTrim
  <2>. QED
    BY <2>2, <2>5
<1>2. Inv /\ W /\ [StoreStep \/ Exhausted]_storeVars => W'
  <2>1. W /\ UNCHANGED storeVars => W'
    BY DEF storeVars, Window, SinceTrim
  <2>2. ASSUME Inv, W, StoreStep PROVE W'
    <3>. SUFFICES ASSUME resets' = 0 PROVE Window' /\ SinceTrim'
      OBVIOUS
    <3>1. StoreTypeOK /\ resets = 0
      BY <2>2, NeverUnreset DEF Inv
    <3>. QED
      BY <2>2, <3>1, WindowStep DEF Inv, Consistent
  <2>. QED
    BY <2>1, <2>2 DEF Exhausted
<1>3. Inv /\ W => BacklogWindow
  <2>. SUFFICES ASSUME Inv, W, resets = 0, NEW c \in Channels
                PROVE  /\ \A i \in 1..backlogId[c] :
                            (\A n \in Sizes : i + n > backlogId[c]) =>
                              GetMessage(c, i) # {}
                       /\ \E n \in Sizes :
                            Cardinality(backlog[c]) < n + ClearEvery
    BY DEF BacklogWindow
  <2>1. \A i \in 1..backlogId[c] :
          (\A n \in Sizes : i + n > backlogId[c]) => GetMessage(c, i) # {}
    BY DEF Window, GetMessage
  <2>. QED
    BY <2>1, WindowBounded DEF Inv
<1>. QED
  BY <1>1, <1>2, <1>3, ConsistentAlways, PTL DEF StoreSpec

-----------------------------------------------------------------------------
(* What a backlog retains can be reached from the global backlog.          *)

\* Every publication carries the same max_backlog_age.
OneAge == \A a, b \in Ages : a = b

\* The global backlog outlives every channel's.
OutlivesBacklogs ==
  /\ \A c \in Channels : \A a \in Ages : ttl[c] <= a
  /\ \A c \in Channels :
       backlog[c] # {} => 0 < ttl[c] /\ ttl[c] <= globalTtl

Pointed ==
  \A c \in Channels : \A e \in backlog[c] :
    e.gid + MaxGlobalBacklogSize > globalId => e \in globalBacklog

Reachable == doomed = {} /\ OutlivesBacklogs /\ Pointed

LEMMA ReachablePublish ==
  ASSUME OneAge, Consistent, Reachable, NEW c \in Channels, NEW size \in Sizes,
         NEW age \in Ages, Publish(c, size, age)
  PROVE  Reachable'
<1>. USE DEF Consistent
<1>1. PICK m \in Messages :
        /\ m.gid = globalId + 1 /\ m.mid = backlogId[c] + 1 /\ m.chan = c
        /\ globalId' = m.gid /\ backlogId'[c] = m.mid
        /\ backlog'[c] = BacklogTrimmed(backlog[c] \cup {m}, m, size)
        /\ globalBacklog' = GlobalTrimmed(PointerAdded(m), m)
        /\ \A d \in Channels \ {c} :
             backlogId'[d] = backlogId[d] /\ backlog'[d] = backlog[d]
  BY Published
<1>2. /\ globalId \in Nat /\ backlogId[c] \in Nat
      /\ MaxGlobalBacklogSize \in Nat /\ age \in Nat /\ age > 0
  BY StoreAssumption DEF StoreTypeOK
<1>3. \A d \in Channels : \A e \in backlog'[d] :
        \/ e = m /\ d = c
        \/ e \in backlog[d] /\ (d = c => e.mid # m.mid)
  <2>1. \A e \in backlog[c] : e.mid # m.mid
    BY <1>1, <1>2 DEF Numbered, StoreTypeOK, Messages
  <2>2. backlog'[c] \subseteq backlog[c] \cup {m}
    BY <1>1 DEF BacklogTrimmed
  <2>. QED
    BY <1>1, <2>1, <2>2
<1>4. OutlivesBacklogs'
  <2>1. /\ ttl' = [ttl EXCEPT ![c] = age] /\ globalTtl' = age
        /\ ttl \in [Channels -> Nat]
    BY DEF Publish, StoreTypeOK
  <2>2. \A a \in Ages : a = age
    BY DEF OneAge
  <2>3. \A d \in Channels : ttl'[d] <= age
    BY <1>2, <2>1 DEF Reachable, OutlivesBacklogs
  <2>4. ASSUME NEW d \in Channels, backlog'[d] # {} PROVE 0 < ttl'[d]
    <3>1. CASE d = c
      BY <3>1, <1>2, <2>1
    <3>2. CASE d # c
      BY <3>2, <1>1, <2>1, <2>4 DEF Reachable, OutlivesBacklogs
    <3>. QED
      BY <3>1, <3>2
  <2>. QED
    BY <2>1, <2>2, <2>3, <2>4 DEF OutlivesBacklogs
<1>5. ASSUME NEW d \in Channels, NEW e \in backlog'[d],
             e.gid + MaxGlobalBacklogSize > m.gid
      PROVE  e \in globalBacklog'
  <2>1. e \in PointerAdded(m)
    <3>1. CASE e = m
      BY <3>1 DEF PointerAdded
    <3>2. CASE e # m
      <4>1. e \in backlog[d] /\ e.chan = d /\ ~(e.mid = m.mid /\ d = c)
        BY <1>3, <3>2 DEF Numbered
      <4>2. e.gid \in Nat
        BY <4>1 DEF StoreTypeOK, Messages
      <4>3. e \in globalBacklog
        BY <1>1, <1>2, <1>5, <4>1, <4>2 DEF Reachable, Pointed
      <4>. QED
        BY <1>1, <4>1, <4>3 DEF PointerAdded
    <3>. QED
      BY <3>1, <3>2
  <2>2. TrimDue(m.gid, MaxGlobalBacklogSize) =>
          e.gid > m.gid - MaxGlobalBacklogSize
    <3>1. e.gid \in Nat
      BY <1>3 DEF StoreTypeOK, Messages
    <3>. QED
      BY <1>1, <1>2, <1>5, <3>1
  <2>. QED
    BY <1>1, <2>1, <2>2 DEF GlobalTrimmed
<1>6. Pointed'
  BY <1>1, <1>5 DEF Pointed
<1>. QED
  BY <1>4, <1>6 DEF Reachable, Publish

LEMMA ReachableTick ==
  ASSUME StoreTypeOK, Reachable, Tick
  PROVE  Reachable'
<1>1. /\ ttl' = [c \in Channels |-> Aged(ttl[c])]
      /\ globalTtl' = Aged(globalTtl)
      /\ backlog' = [c \in Channels |->
                       IF c \in Expiring THEN {} ELSE backlog[c]]
      /\ globalBacklog' = IF globalTtl = 1 THEN {} ELSE globalBacklog
      /\ globalId' = globalId /\ doomed' = doomed
  BY DEF Tick
<1>2. globalTtl \in Nat /\ \A c \in Channels : ttl[c] \in Nat
  BY DEF StoreTypeOK
<1>3. ASSUME NEW c \in Channels, backlog'[c] # {}
      PROVE  /\ backlog'[c] = backlog[c] /\ globalBacklog' = globalBacklog
             /\ 0 < ttl'[c] /\ ttl'[c] <= globalTtl'
  <2>1. backlog'[c] = backlog[c] /\ ttl[c] # 1
    BY <1>1, <1>3 DEF Expiring
  <2>2. 0 < ttl[c] /\ ttl[c] <= globalTtl
    BY <1>3, <2>1 DEF Reachable, OutlivesBacklogs
  <2>3. globalTtl > 1
    BY <1>2, <2>1, <2>2
  <2>. QED
    BY <1>1, <1>2, <2>1, <2>2, <2>3 DEF Aged
<1>4. ASSUME NEW c \in Channels, NEW a \in Ages PROVE ttl'[c] <= a
  <2>1. ttl[c] <= a /\ a \in Nat
    BY StoreAssumption DEF Reachable, OutlivesBacklogs
  <2>. QED
    BY <1>1, <1>2, <2>1 DEF Aged
<1>5. OutlivesBacklogs' /\ Pointed'
  BY <1>1, <1>3, <1>4 DEF Reachable, OutlivesBacklogs, Pointed
<1>. QED
  BY <1>1, <1>5 DEF Reachable

\* What a channel's backlog retains of the last max_global_backlog_size messages
\* can be reached from the global backlog, if nobody deletes keys and every
\* publication carries the same max_backlog_age.
THEOREM RetainedReachableAlways ==
  ASSUME OneAge PROVE StoreSpec => []RetainedReachable
<1>. DEFINE R == resets = 0 /\ purges = 0 => Reachable
<1>1. StoreInit => R
  <2>. SUFFICES ASSUME StoreInit PROVE Reachable
    OBVIOUS
  <2>1. \A a \in Ages : a \in Nat
    BY StoreAssumption
  <2>. QED
    BY <2>1 DEF StoreInit, Reachable, OutlivesBacklogs, Pointed
<1>2. Inv /\ R /\ [StoreStep \/ Exhausted]_storeVars => R'
  <2>1. R /\ UNCHANGED storeVars => R'
    BY DEF storeVars, Reachable, OutlivesBacklogs, Pointed
  <2>2. ASSUME Inv, R, StoreStep, resets' = 0, purges' = 0 PROVE Reachable'
    <3>1. StoreTypeOK /\ resets = 0 /\ purges \in Nat
      BY <2>2, NeverUnreset DEF Inv, StoreTypeOK
    <3>2. ASSUME NEW c \in Channels, NEW size \in Sizes, NEW age \in Ages,
                 Publish(c, size, age)
          PROVE  Reachable'
      BY <2>2, <3>1, <3>2, ReachablePublish DEF Publish, Inv
    <3>3. CASE Tick
      BY <2>2, <3>1, <3>3, ReachableTick DEF Tick
    <3>4. CASE Reset \/ ExpireAllBacklogs
      BY <2>2, <3>1, <3>4 DEF Reset, ExpireAllBacklogs
    <3>5. CASE \E k \in Keys : DelKey(k)
      BY <2>2, <3>1, <3>5 DEF DelKey, Reachable
    <3>. QED
      BY <2>2, <3>2, <3>3, <3>4, <3>5 DEF StoreStep
  <2>. QED
    BY <2>1, <2>2 DEF Exhausted
<1>3. R => RetainedReachable
  BY DEF Reachable, Pointed, RetainedReachable
<1>. QED
  BY <1>1, <1>2, <1>3, ConsistentAlways, PTL DEF StoreSpec
=============================================================================

------------------------ MODULE RedisSubscriberProofs ------------------------
(***************************************************************************)
(* Proofs about RedisSubscriber, for any channels, subscribers, sizes and  *)
(* numbers of retries, faults and purges: types in every behaviour, the    *)
(* order of what is delivered until the first reset, and, as long as no    *)
(* key expires either, that subscribers miss nothing and that              *)
(* global_subscribe implements the abstract feed.                          *)
(***************************************************************************)
EXTENDS RedisSubscriber, RedisStoreProofs

\* The bus has not been reset, and no key has aged.
Quiet == ticks = 0 /\ resets = 0

CatchUp == {"check", "list", "fetch", "emit"}
Working == {"list", "fetch", "emit"}

\* What the subscriber has read from the backlog and not yet yielded.
Pending(s) == ptrs[s] \cup Range(items[s])

\* The backlog is read from an id, never from nil.
ReadsFromId == \A s \in Subs : pc[s] \in CatchUp => highest[s] # Nil

-----------------------------------------------------------------------------
(* Until the first reset.                                                  *)

Sorted(seq) ==
  \A i, j \in DOMAIN seq : i < j => seq[i].gid < seq[j].gid

\* highest_id, or the loop's own copy of it, is the last id yielded.
Placed(s) ==
  /\ pc[s] = "idle" => highest[s] = Nil
  /\ pc[s] \in Working => Position(s) = cursor[s]
  /\ pc[s] # "emit" => Position(s) = highest[s]
  /\ from[s] = Nil <=> Position(s) = Nil

\* Nothing is ahead of the global id.
Numbers(s) ==
  /\ Position(s) # Nil => Position(s) <= globalId
  /\ \A m \in Pending(s) : m.gid <= globalId
  /\ \A m \in Range(wire[s]) : m # UnsubMessage => m.gid <= globalId

Ordered(s) == Placed(s) /\ Numbers(s) /\ Sorted(delivered[s])

-----------------------------------------------------------------------------
(* Until a key expires or the bus is reset.                                *)

\* A pointer's channel id has been taken, and leads to its own message only.
Resolves(p) ==
  /\ p.mid <= backlogId[p.chan]
  /\ GetMessage(p.chan, p.mid) \subseteq {p}

\* The messages looked up and the pointers still to look up are in order.
Lined(s) ==
  /\ \A p \in ptrs[s] : Resolves(p)
  /\ pc[s] = "emit" => ptrs[s] = {}
  /\ \A p, q \in ptrs[s] : p.gid = q.gid => p = q
  /\ Sorted(items[s])
  /\ \A m \in Range(items[s]), p \in ptrs[s] : m.gid < p.gid

\* Redis pushes to the subscriber from SUBSCRIBE to the end of the connection.
Linked(s) ==
  /\ s \in listening <=>
       pc[s] = "live" \/ (pc[s] \in CatchUp /\ ret[s] = "live")
  /\ s \notin listening => wire[s] = <<>>
  /\ \A e \in Range(wire[s]) : e # UnsubMessage =>
       \A m \in Retained : m.gid = e.gid => m = e

\* A retained message after the subscriber's position is among what it has
\* read, or after all of it and pushed to it.
OnItsWay(s, m) ==
  /\ pc[s] \in {"fetch", "emit"} =>
       \/ m \in Pending(s)
       \/ /\ \A q \in Pending(s) : q.gid < m.gid
          /\ ret[s] = "live" => m \in Range(wire[s])
  /\ pc[s] = "live" => m \in Range(wire[s])

Covered(s) ==
  \A m \in Retained :
    /\ Position(s) # Nil /\ m.gid > Position(s) => OnItsWay(s, m)
    /\ /\ Position(s) = Nil /\ pc[s] = "live"
       /\ wire[s] # <<>> /\ Head(wire[s]) # UnsubMessage
       /\ m.gid > Head(wire[s]).gid
       => m \in Range(wire[s])
    /\ from[s] # Nil /\ from[s] < m.gid /\ m.gid <= Position(s) =>
         m \in Given(s)

Complete(s) == Lined(s) /\ Linked(s) /\ Covered(s)

-----------------------------------------------------------------------------
(* Sequences.                                                              *)

\* Its last element joins the others, which keep their places.
LEMMA Appended ==
  ASSUME NEW S, NEW seq \in Seq(S), NEW e \in S
  PROVE  /\ Append(seq, e) \in Seq(S)
         /\ Append(seq, e) # <<>>
         /\ Range(Append(seq, e)) = Range(seq) \cup {e}
         /\ Append(seq, e)[Len(Append(seq, e))] = e
<1>1. Append(seq, e) = seq \o <<e>>
  BY AppendIsConcat
<1>2. Range(Append(seq, e)) = Range(seq) \cup Range(<<e>>)
  <2>1. <<e>> \in Seq(S)
    OBVIOUS
  <2>. QED BY <1>1, <2>1, RangeConcatenation
<1>3. Range(<<e>>) = {e}
  BY DEF Range
<1>. QED BY <1>2, <1>3, AppendProperties

\* Reading the first element leaves the others.
LEMMA HeadRead ==
  ASSUME NEW S, NEW seq \in Seq(S), seq # <<>>
  PROVE  /\ Head(seq) \in S
         /\ Tail(seq) \in Seq(S)
         /\ Range(seq) = Range(Tail(seq)) \cup {Head(seq)}
<1>1. /\ Head(seq) \in S /\ Tail(seq) \in Seq(S)
      /\ Len(Tail(seq)) = Len(seq) - 1
      /\ \A i \in 1..Len(Tail(seq)) : Tail(seq)[i] = seq[i + 1]
  BY HeadTailProperties
<1>2. Len(seq) \in Nat \ {0} /\ Head(seq) = seq[1]
  BY EmptySeq
<1>3. Range(seq) = {seq[i] : i \in 1..Len(seq)}
  BY RangeEquality
<1>4. Range(Tail(seq)) = {Tail(seq)[i] : i \in 1..Len(Tail(seq))}
  BY <1>1, RangeEquality
<1>5. ASSUME NEW x \in Range(seq) PROVE x = Head(seq) \/ x \in Range(Tail(seq))
  <2>1. PICK i \in 1..Len(seq) : x = seq[i]
    BY <1>3, <1>5
  <2>2. CASE i = 1
    BY <1>2, <2>1, <2>2
  <2>3. CASE i # 1
    <3>1. i - 1 \in 1..Len(Tail(seq)) /\ (i - 1) + 1 = i
      BY <1>1, <1>2, <2>3
    <3>. QED BY <1>1, <1>4, <2>1, <3>1
  <2>. QED BY <2>2, <2>3
<1>6. Head(seq) \in Range(seq)
  BY <1>2, <1>3
<1>7. ASSUME NEW x \in Range(Tail(seq)) PROVE x \in Range(seq)
  <2>1. PICK i \in 1..Len(Tail(seq)) : x = seq[i + 1]
    BY <1>1, <1>4, <1>7
  <2>2. i + 1 \in 1..Len(seq)
    BY <1>1, <1>2
  <2>. QED BY <1>3, <2>1, <2>2
<1>. QED BY <1>1, <1>5, <1>6, <1>7

\* A message after all the others keeps them in order.
LEMMA SortedAppended ==
  ASSUME NEW seq \in Seq(Messages), NEW e \in Messages, Sorted(seq),
         \A m \in Range(seq) : m.gid < e.gid
  PROVE  Sorted(Append(seq, e))
<1>1. /\ Append(seq, e) \in Seq(Messages)
      /\ Len(Append(seq, e)) = Len(seq) + 1
      /\ \A i \in 1..Len(seq) : Append(seq, e)[i] = seq[i]
      /\ Append(seq, e)[Len(seq) + 1] = e
  BY AppendProperties
<1>2. /\ DOMAIN seq = 1..Len(seq) /\ Len(seq) \in Nat
      /\ DOMAIN Append(seq, e) = 1..(Len(seq) + 1)
  BY <1>1, LenProperties
<1>3. \A i \in 1..Len(seq) : seq[i].gid < e.gid
  BY <1>2 DEF Range
<1>4. ASSUME NEW i \in DOMAIN Append(seq, e), NEW j \in DOMAIN Append(seq, e),
             i < j
      PROVE  Append(seq, e)[i].gid < Append(seq, e)[j].gid
  <2>1. i \in 1..Len(seq)
    BY <1>2, <1>4
  <2>2. CASE j \in 1..Len(seq)
    BY <1>1, <1>2, <1>4, <2>1, <2>2 DEF Sorted
  <2>3. CASE j \notin 1..Len(seq)
    <3>1. j = Len(seq) + 1
      BY <1>2, <2>3
    <3>. QED BY <1>1, <1>3, <2>1, <3>1
  <2>. QED BY <2>2, <2>3
<1>. QED BY <1>4 DEF Sorted

\* The first of a list in order is before the rest, which is in order.
LEMMA SortedRead ==
  ASSUME NEW seq \in Seq(Messages), seq # <<>>, Sorted(seq)
  PROVE  /\ Sorted(Tail(seq))
         /\ \A m \in Range(Tail(seq)) : Head(seq).gid < m.gid
<1>1. /\ Tail(seq) \in Seq(Messages) /\ Len(Tail(seq)) = Len(seq) - 1
      /\ \A i \in 1..Len(Tail(seq)) : Tail(seq)[i] = seq[i + 1]
  BY HeadTailProperties
<1>2. /\ Len(seq) \in Nat \ {0} /\ Head(seq) = seq[1]
      /\ DOMAIN seq = 1..Len(seq)
      /\ DOMAIN Tail(seq) = 1..Len(Tail(seq))
  BY <1>1, EmptySeq, LenProperties
<1>3. \A i \in DOMAIN Tail(seq) :
        i + 1 \in DOMAIN seq /\ 1 < i + 1 /\ Tail(seq)[i] = seq[i + 1]
  BY <1>1, <1>2
<1>4. 1 \in DOMAIN seq
  BY <1>2
<1>5. \A i \in DOMAIN Tail(seq) : Head(seq).gid < Tail(seq)[i].gid
  BY <1>2, <1>3, <1>4 DEF Sorted
<1>6. \A i, j \in DOMAIN Tail(seq) : i < j => i + 1 < j + 1
  BY <1>1, <1>2
<1>7. Sorted(Tail(seq))
  BY <1>3, <1>6 DEF Sorted
<1>. QED BY <1>5, <1>7 DEF Range

-----------------------------------------------------------------------------
(* Types.                                                                  *)

\* Nobody has subscribed.
LEMMA InitType == Init => TypeOK /\ ReadsFromId
<1>1. <<>> \in Seq(Messages)
  OBVIOUS
<1>. QED BY <1>1, StoreInitType, SubscriberAssumption 
   DEF Init, TypeOK, PCs, ReadsFromId, CatchUp

\* Reading what Redis pushed, losing it with the connection, and being pushed
\* the message that ends a subscription.
LEMMA WireType ==
  ASSUME StoreTypeOK, NEW s \in Subs
  PROVE  /\ Consume(s) /\ wire[s] # <<>> => StoreTypeOK'
         /\ Unlisten(s) => StoreTypeOK'
         /\ GlobalUnsubscribe => StoreTypeOK'
<1>1. ASSUME Consume(s), wire[s] # <<>> PROVE StoreTypeOK'
  <2>1. Tail(wire[s]) \in Seq(Messages \cup {UnsubMessage})
    BY <1>1, HeadRead DEF StoreTypeOK
  <2>. QED BY <1>1, <2>1 DEF Consume, StoreTypeOK
<1>2. ASSUME Unlisten(s) PROVE StoreTypeOK'
  BY <1>2 DEF Unlisten, StoreTypeOK
<1>3. ASSUME GlobalUnsubscribe PROVE StoreTypeOK'
  <2>1. wire' \in [Subs -> Seq(Messages \cup {UnsubMessage})]
    BY <1>3, PushedType DEF GlobalUnsubscribe
  <2>. QED BY <1>3, <2>1 DEF GlobalUnsubscribe, StoreTypeOK
<1>. QED BY <1>1, <1>2, <1>3

\* What a pointer leads to is a message.
LEMMA FoundType ==
  ASSUME TypeOK, NEW s \in Subs, NEW p \in ptrs[s]
  PROVE  /\ p \in Messages /\ p.chan \in Channels
         /\ GetMessage(p.chan, p.mid) \subseteq Messages
BY DEF TypeOK, StoreTypeOK, Messages, GetMessage

\* Reading the backlog keeps the types.
LEMMA BacklogStepType ==
  ASSUME TypeOK, ReadsFromId, NEW s \in Subs,
         \/ CheckId(s) \/ ListPointers(s) \/ FetchMessage(s) \/ FetchDone(s)
         \/ EmitNext(s) \/ EmitSkip(s) \/ EmitOutOfOrder(s) \/ EmitDone(s)
  PROVE  TypeOK'
<1>1. ASSUME UNCHANGED storeVars PROVE StoreTypeOK'
  BY <1>1 DEF TypeOK, StoreTypeOK, storeVars
<1>2. <<>> \in Seq(Messages)
  OBVIOUS
<1>3. CASE CheckId(s)
  <2>1. cursor' \in [Subs -> Nat]
    <3>1. highest[s] \in Nat /\ globalId \in Nat
      BY <1>3 DEF CheckId, TypeOK, StoreTypeOK, ReadsFromId, CatchUp
    <3>. QED BY <1>3, <3>1 DEF CheckId, TypeOK
  <2>. QED BY <1>1, <1>3, <2>1 DEF CheckId, TypeOK, Goto, PCs
<1>4. CASE ListPointers(s)
  BY <1>1, <1>2, <1>4 DEF ListPointers, TypeOK, StoreTypeOK, Goto, PCs
<1>5. CASE FetchMessage(s)
  <2>1. PICK p \in ptrs[s] :
          /\ ptrs' = [ptrs EXCEPT ![s] = @ \ {p}]
          /\ \/ \E m \in GetMessage(p.chan, p.mid) :
                  items' = [items EXCEPT ![s] = Append(@, m)]
             \/ UNCHANGED items
    BY <1>5 DEF FetchMessage
  <2>2. ptrs' \in [Subs -> SUBSET Messages]
    BY <2>1 DEF TypeOK
  <2>3. items' \in [Subs -> Seq(Messages)]
    <3>1. \A m \in GetMessage(p.chan, p.mid) :
            Append(items[s], m) \in Seq(Messages)
      BY FoundType, AppendProperties DEF TypeOK
    <3>. QED BY <2>1, <3>1 DEF TypeOK
  <2>. QED BY <1>1, <1>5, <2>2, <2>3 DEF FetchMessage, TypeOK
<1>6. CASE FetchDone(s)
  BY <1>1, <1>6 DEF FetchDone, TypeOK, Goto, PCs
<1>7. ASSUME items[s] # <<>>
      PROVE  /\ Head(items[s]) \in Messages
             /\ Tail(items[s]) \in Seq(Messages)
             /\ Head(items[s]).gid \in Nat
  <2>1. items[s] \in Seq(Messages)
    BY DEF TypeOK
  <2>2. Head(items[s]) \in Messages /\ Tail(items[s]) \in Seq(Messages)
    BY <1>7, <2>1, HeadRead
  <2>. QED BY <2>2 DEF Messages
<1>8. CASE EmitNext(s)
  <2>1. delivered' \in [Subs -> Seq(Messages)]
    <3>1. Append(delivered[s], Head(items[s])) \in Seq(Messages)
      BY <1>7, <1>8, AppendProperties DEF TypeOK, EmitNext
    <3>. QED BY <1>8, <3>1 DEF EmitNext, Yield, TypeOK
  <2>2. cursor' \in [Subs -> Nat] /\ items' \in [Subs -> Seq(Messages)]
    BY <1>7, <1>8 DEF EmitNext, TypeOK
  <2>. QED BY <1>1, <1>8, <2>1, <2>2 DEF EmitNext, TypeOK
<1>9. CASE EmitSkip(s)
  BY <1>1, <1>7, <1>9 DEF EmitSkip, TypeOK
<1>10. CASE EmitOutOfOrder(s)
  <2>1. retries' \in [Subs -> 0..MaxRetries]
    <3>1. retries[s] - 1 \in 0..MaxRetries
      BY <1>10, SubscriberAssumption DEF EmitOutOfOrder, TypeOK
    <3>. QED BY <1>10, <3>1 DEF EmitOutOfOrder, TypeOK
  <2>2. highest' \in [Subs -> Nat \cup {Nil}]
    BY <1>10 DEF EmitOutOfOrder, TypeOK
  <2>. QED
    BY <1>1, <1>2, <1>10, <2>1, <2>2 DEF EmitOutOfOrder, TypeOK, Goto, PCs
<1>11. CASE EmitDone(s)
  <2>1. /\ highest' \in [Subs -> Nat \cup {Nil}]
        /\ subscribed' \in [Subs -> BOOLEAN]
    BY <1>11 DEF EmitDone, TypeOK
  <2>2. pc' \in [Subs -> PCs]
    BY <1>11 DEF EmitDone, TypeOK, Goto, PCs
  <2>. QED BY <1>1, <1>11, <2>1, <2>2 DEF EmitDone, TypeOK
<1>. QED BY <1>3, <1>4, <1>5, <1>6, <1>8, <1>9, <1>10, <1>11

\* Subscribing, receiving, losing the connection and leaving keep the types.
LEMMA ConnectionStepType ==
  ASSUME TypeOK, ReadsFromId, NEW s \in Subs,
         \/ \E last \in 0..MaxId \cup {Nil} : Start(s, last)
         \/ Connect(s) \/ Subscribe(s)
         \/ ReceiveNext(s) \/ ReceiveOutOfOrder(s) \/ ReceiveUnsub(s)
         \/ ConnectionLost(s) \/ Reconnect(s) \/ Unsubscribe(s)
  PROVE  TypeOK'
<1>1. ASSUME UNCHANGED storeVars PROVE StoreTypeOK'
  BY <1>1 DEF TypeOK, StoreTypeOK, storeVars
<1>2. ASSUME NEW label, ClearBacklog(s, label), label \in {"subscribe", "live"}
      PROVE  /\ pc' \in [Subs -> PCs]
             /\ ret' \in [Subs -> {"subscribe", "live"}]
             /\ retries' \in [Subs -> 0..MaxRetries]
  BY <1>2, SubscriberAssumption DEF ClearBacklog, TypeOK, Goto, PCs
<1>3. ASSUME NEW last \in 0..MaxId \cup {Nil}, Start(s, last) PROVE TypeOK'
  <2>1. last \in Nat \cup {Nil}
    BY StoreAssumption
  <2>. QED BY <1>1, <1>3, <2>1 DEF Start, TypeOK, Goto, PCs
<1>4. CASE Connect(s)
  BY <1>1, <1>2, <1>4 DEF Connect, TypeOK, Goto, PCs
<1>5. CASE Subscribe(s)
  <2>1. StoreTypeOK'
    BY <1>5 DEF Subscribe, TypeOK, StoreTypeOK
  <2>. QED BY <1>2, <1>5, <2>1 DEF Subscribe, TypeOK, Goto, PCs
<1>6. ASSUME Readable(s), Consume(s) PROVE StoreTypeOK'
  BY <1>6, WireType DEF Readable, TypeOK
<1>7. CASE ReceiveNext(s)
  <2>1. Head(wire[s]) \in Messages
    BY <1>7, HeadRead DEF ReceiveNext, Readable, TypeOK, StoreTypeOK
  <2>2. Head(wire[s]).gid \in Nat /\ Head(wire[s]).gid - 1 \in Nat
    BY <2>1 DEF Messages
  <2>3. delivered' \in [Subs -> Seq(Messages)]
    <3>1. Append(delivered[s], Head(wire[s])) \in Seq(Messages)
      BY <2>1, AppendProperties DEF TypeOK
    <3>. QED BY <1>7, <3>1 DEF ReceiveNext, Yield, TypeOK
  <2>4. /\ highest' \in [Subs -> Nat \cup {Nil}]
        /\ from' \in [Subs -> Nat \cup {Nil}]
    BY <1>7, <2>2 DEF ReceiveNext, TypeOK
  <2>. QED BY <1>6, <1>7, <2>3, <2>4 DEF ReceiveNext, TypeOK
<1>8. CASE ReceiveOutOfOrder(s)
  BY <1>2, <1>6, <1>8 DEF ReceiveOutOfOrder, TypeOK
<1>9. CASE ReceiveUnsub(s)
  <2>1. StoreTypeOK'
    BY <1>9, WireType DEF ReceiveUnsub, TypeOK
  <2>. QED BY <1>9, <2>1 DEF ReceiveUnsub, TypeOK, Goto, PCs
<1>10. CASE ConnectionLost(s)
  <2>1. StoreTypeOK'
    BY <1>10, WireType DEF ConnectionLost, TypeOK
  <2>2. <<>> \in Seq(Messages)
    OBVIOUS
  <2>. QED BY <1>10, <2>1, <2>2 DEF ConnectionLost, TypeOK, Goto, PCs
<1>11. CASE Reconnect(s)
  BY <1>1, <1>11 DEF Reconnect, TypeOK, Goto, PCs
<1>12. CASE Unsubscribe(s)
  <2>1. StoreTypeOK'
    BY <1>12, WireType DEF Unsubscribe, TypeOK
  <2>. QED BY <1>12, <2>1 DEF Unsubscribe, TypeOK
<1>. QED BY <1>3, <1>4, <1>5, <1>7, <1>8, <1>9, <1>10, <1>11, <1>12

\* Every step keeps the types, and a catch-up starts from an id.
LEMMA NextType ==
  TypeOK /\ ReadsFromId /\ [Next]_vars => TypeOK' /\ ReadsFromId'
<1> SUFFICES ASSUME TypeOK, ReadsFromId, [Next]_vars
             PROVE  TypeOK' /\ ReadsFromId'
  OBVIOUS
<1>1. CASE StoreNext
  <2>1. StoreTypeOK'
    BY <1>1, StoreStepType DEF StoreNext, TypeOK
  <2>. QED BY <1>1, <2>1 DEF StoreNext, TypeOK, localVars, ReadsFromId
<1>2. ASSUME NEW s \in Subs, Step(s) \/ Environment(s)
      PROVE  TypeOK' /\ ReadsFromId'
  <2>1. TypeOK'
    BY <1>2, BacklogStepType, ConnectionStepType DEF Step, Environment
  <2>2. /\ pc \in [Subs -> PCs] /\ highest \in [Subs -> Nat \cup {Nil}]
        /\ ret[s] \in {"subscribe", "live"} /\ cursor[s] # Nil
    BY SubscriberAssumption DEF TypeOK
  <2>3. pc'[s] \in CatchUp => highest'[s] # Nil
    <3>1. CASE Step(s)
      BY <2>2, <3>1 DEF Step, Connect, CheckId, ListPointers, FetchMessage,
         FetchDone, EmitNext, EmitSkip, EmitOutOfOrder, EmitDone, Subscribe,
         ReceiveNext, ReceiveOutOfOrder, ReceiveUnsub, Reconnect, InOrder,
         ClearBacklog, Goto, CatchUp, Readable, ReadsFromId
    <3>2. CASE Environment(s)
      BY <2>2, <3>2 DEF Environment, Start, ConnectionLost, Unsubscribe, Goto,
         CatchUp, ReadsFromId
    <3>. QED BY <1>2, <3>1, <3>2
  <2>4. \A t \in Subs \ {s} : pc'[t] = pc[t] /\ highest'[t] = highest[t]
    <3>1. CASE Step(s)
      BY <2>2, <3>1 DEF Step, Connect, CheckId, ListPointers, FetchMessage,
         FetchDone, EmitNext, EmitSkip, EmitOutOfOrder, EmitDone, Subscribe,
         ReceiveNext, ReceiveOutOfOrder, ReceiveUnsub, Reconnect,
         ClearBacklog, Goto
    <3>2. CASE Environment(s)
      BY <2>2, <3>2 DEF Environment, Start, ConnectionLost, Unsubscribe, Goto
    <3>. QED BY <1>2, <3>1, <3>2
  <2>. QED BY <2>1, <2>3, <2>4 DEF ReadsFromId
<1>3. CASE UNCHANGED vars
  BY <1>3 DEF vars, storeVars, localVars, TypeOK, StoreTypeOK, ReadsFromId
<1>. QED BY <1>1, <1>2, <1>3 DEF Next, Quiescent

\* Every variable of the subscribers keeps its type, resets and lost
\* connections included: a catch-up never starts from nil, and its retries do
\* not run out below zero (redis.rb:270-333).
THEOREM TypeCorrect == Spec => []TypeOK
BY InitType, NextType, PTL DEF Spec

-----------------------------------------------------------------------------
(* The steps of the store, as subscribers see them.                        *)

\* The publication script's effects but for what it trims.
Grown(m) ==
  /\ m \in Messages
  /\ m.gid = globalId + 1 /\ globalId' = m.gid
  /\ m.mid = backlogId[m.chan] + 1
  /\ backlogId' = [backlogId EXCEPT ![m.chan] = m.mid]
  /\ \A c \in Channels :
       backlog'[c] \subseteq IF c = m.chan THEN backlog[c] \cup {m}
                                           ELSE backlog[c]
  /\ globalBacklog' \subseteq globalBacklog \cup {m}
  /\ wire' = Pushed(m)

\* Messages and pointers are only taken away.
Shrunk ==
  /\ globalId' = globalId /\ wire' = wire
  /\ \A c \in Channels : backlog'[c] \subseteq backlog[c]
  /\ globalBacklog' \subseteq globalBacklog
  /\ ticks' = 0 => backlogId' = backlogId

\* Until the first reset, a step of the store adds a message or takes some away.
LEMMA StoreSteps ==
  ASSUME Consistent, resets' = 0, StoreStep
  PROVE  /\ (\E m \in Messages : Grown(m)) \/ Shrunk
         /\ listening' = listening
         /\ ticks' = 0 => ticks = 0
<1>1. StoreTypeOK /\ CountersKept
  BY DEF Consistent
<1>2. ASSUME NEW c \in Channels, NEW size \in Sizes, NEW age \in Ages,
             Publish(c, size, age)
      PROVE  /\ \E m \in Messages : Grown(m)
             /\ listening' = listening /\ ticks' = ticks
  <2> DEFINE m == [gid |-> globalId + 1, mid |-> backlogId[c] + 1, chan |-> c,
                   era |-> resets]
  <2>1. m \in Messages /\ m.gid = globalId + 1 /\ m.mid = backlogId[c] + 1
        /\ m.chan = c
    BY <1>1 DEF Messages, StoreTypeOK
  <2>2. /\ globalId' = m.gid /\ wire' = Pushed(m)
        /\ backlogId' = [backlogId EXCEPT ![c] = m.mid]
        /\ backlog' = [backlog EXCEPT ![c] =
                         BacklogTrimmed(backlog[c] \cup {m}, m, size)]
        /\ globalBacklog' = GlobalTrimmed(PointerAdded(m), m)
        /\ listening' = listening /\ ticks' = ticks
    BY <1>2 DEF Publish
  <2> HIDE DEF m
  <2>3. BacklogTrimmed(backlog[c] \cup {m}, m, size)
          \subseteq backlog[c] \cup {m}
    BY DEF BacklogTrimmed
  <2>4. backlog \in [Channels -> SUBSET Messages]
    BY <1>1 DEF StoreTypeOK
  <2>5. \A d \in Channels :
          backlog'[d] \subseteq IF d = c THEN backlog[d] \cup {m}
                                         ELSE backlog[d]
    BY <2>2, <2>3, <2>4
  <2>6. globalBacklog' \subseteq globalBacklog \cup {m}
    BY <2>2 DEF GlobalTrimmed, PointerAdded
  <2>. QED BY <2>1, <2>2, <2>5, <2>6 DEF Grown
<1>3. CASE Tick
  <2>1. ticks' # 0
    BY <1>1, <1>3 DEF Tick, StoreTypeOK
  <2>2. /\ \A c \in Channels : backlog'[c] \subseteq backlog[c]
        /\ globalBacklog' \subseteq globalBacklog
    BY <1>3 DEF Tick
  <2>. QED BY <1>3, <2>1, <2>2 DEF Tick, Shrunk
<1>4. CASE Reset
  BY <1>1, <1>4 DEF Reset, CountersKept
<1>5. CASE ExpireAllBacklogs
  BY <1>5 DEF ExpireAllBacklogs, ListKeys, Shrunk
<1>6. ASSUME NEW k \in Keys, DelKey(k)
      PROVE  Shrunk /\ listening' = listening /\ ticks' = ticks
  <2>1. k = <<"global_backlog">>
    BY <1>1, <1>6 DEF DelKey, CountersKept
  <2>2. k # <<"global_id">>
    BY <2>1
  <2>3. \A c \in Channels : k # <<"backlog_id", c>> /\ k # <<"backlog", c>>
    BY <2>1
  <2>4. /\ backlogId \in [Channels -> Nat]
        /\ backlog \in [Channels -> SUBSET Messages]
    BY <1>1 DEF StoreTypeOK
  <2>. QED BY <1>6, <2>2, <2>3, <2>4 DEF DelKey, Shrunk
<1>. QED BY <1>2, <1>3, <1>4, <1>5, <1>6 DEF StoreStep

\* Only a call of reset! counts one.
LEMMA ResetsKept ==
  ASSUME TypeOK, [Next]_vars, resets' = 0
  PROVE  resets = 0
<1>1. resets \in Nat
  BY DEF TypeOK, StoreTypeOK
<1>2. CASE StoreStep
  <2>1. ASSUME NEW c \in Channels, NEW size \in Sizes, NEW age \in Ages,
               Publish(c, size, age)
        PROVE  resets' = resets
    BY <2>1 DEF Publish
  <2>2. CASE Reset
    BY <1>1, <2>2 DEF Reset
  <2>3. CASE Tick \/ ExpireAllBacklogs \/ \E k \in Keys : DelKey(k)
    BY <2>3 DEF Tick, ExpireAllBacklogs, DelKey
  <2>. QED BY <1>2, <2>1, <2>2, <2>3 DEF StoreStep
<1>3. CASE UNCHANGED vars
  BY <1>3 DEF vars, storeVars
<1>4. ASSUME NEW s \in Subs, Step(s) \/ Environment(s) PROVE resets' = resets
  BY <1>4 DEF Step, Environment, Start, Connect, CheckId, ListPointers,
     FetchMessage, FetchDone, EmitNext, EmitSkip, EmitOutOfOrder, EmitDone,
     Subscribe, ReceiveNext, ReceiveOutOfOrder, ReceiveUnsub, ConnectionLost,
     Reconnect, Unsubscribe, Unlisten, Consume, GlobalUnsubscribe, storeVars
<1>. QED BY <1>2, <1>3, <1>4 DEF Next, StoreNext, Quiescent

\* Subscribers only write where they listen and what is pushed to them.
LEMMA SubscriberSteps ==
  ASSUME NEW s \in Subs, Step(s) \/ Environment(s)
  PROVE  UNCHANGED <<globalId, backlogId, backlog, globalBacklog, doomed, ticks,
                     resets>>
BY DEF Step, Environment, Start, Connect, CheckId, ListPointers,
   FetchMessage, FetchDone, EmitNext, EmitSkip, EmitOutOfOrder, EmitDone,
   Subscribe, ReceiveNext, ReceiveOutOfOrder, ReceiveUnsub, ConnectionLost,
   Reconnect, Unsubscribe, Unlisten, Consume, GlobalUnsubscribe, storeVars

\* So the ids and pointers stay consistent.
LEMMA ConsistentNext ==
  ASSUME TypeOK, TypeOK', Consistent, [Next]_vars, resets' = 0
  PROVE  Consistent'
<1>1. CASE StoreStep
  BY <1>1, ConsistentStep
<1>2. ASSUME UNCHANGED <<globalId, backlogId, backlog, globalBacklog, doomed,
                         resets>>
      PROVE  Consistent'
  <2>1. CountersKept'
    BY <1>2 DEF Consistent, CountersKept
  <2>. QED BY <1>2, <2>1, ConsistentShrunk DEF TypeOK
<1>3. CASE UNCHANGED vars
  BY <1>2, <1>3 DEF vars, storeVars
<1>4. ASSUME NEW s \in Subs, Step(s) \/ Environment(s) PROVE Consistent'
  BY <1>2, <1>4, SubscriberSteps
<1>. QED BY <1>1, <1>3, <1>4 DEF Next, StoreNext, Quiescent

\* A step of a subscriber leaves the others where they are; calling
\* global_unsubscribe alone reaches them, through what Redis pushes.
LEMMA OthersKept ==
  ASSUME TypeOK, NEW s \in Subs, Step(s) \/ Environment(s),
         NEW t \in Subs, t # s
  PROVE  /\ pc'[t] = pc[t] /\ highest'[t] = highest[t] /\ ret'[t] = ret[t]
         /\ cursor'[t] = cursor[t] /\ ptrs'[t] = ptrs[t] /\ items'[t] = items[t]
         /\ delivered'[t] = delivered[t] /\ from'[t] = from[t]
         /\ t \in listening' <=> t \in listening
         /\ wire'[t] \in {wire[t], Pushed(UnsubMessage)[t]}
<1>1. /\ pc \in [Subs -> PCs] /\ highest \in [Subs -> Nat \cup {Nil}]
      /\ ret \in [Subs -> {"subscribe", "live"}] /\ cursor \in [Subs -> Nat]
      /\ ptrs \in [Subs -> SUBSET Messages] /\ items \in [Subs -> Seq(Messages)]
      /\ delivered \in [Subs -> Seq(Messages)]
      /\ from \in [Subs -> Nat \cup {Nil}]
      /\ wire \in [Subs -> Seq(Messages \cup {UnsubMessage})]
  BY DEF TypeOK, StoreTypeOK
<1>2. CASE Step(s)
  <2>1. CASE \/ Connect(s) \/ CheckId(s) \/ ListPointers(s) \/ FetchMessage(s)
             \/ FetchDone(s) \/ Subscribe(s) \/ Reconnect(s)
    BY <1>1, <2>1 DEF Connect, CheckId, ListPointers, FetchMessage, FetchDone,
       Subscribe, Reconnect, ClearBacklog, Goto, storeVars
  <2>2. CASE EmitNext(s) \/ EmitSkip(s) \/ EmitOutOfOrder(s) \/ EmitDone(s)
    BY <1>1, <2>2 DEF EmitNext, EmitSkip, EmitOutOfOrder, EmitDone, Yield, Goto,
       storeVars
  <2>3. CASE ReceiveNext(s) \/ ReceiveOutOfOrder(s) \/ ReceiveUnsub(s)
    BY <1>1, <2>3 DEF ReceiveNext, ReceiveOutOfOrder, ReceiveUnsub, Yield, Goto,
       ClearBacklog, Consume, Unlisten
  <2>. QED BY <1>2, <2>1, <2>2, <2>3 DEF Step
<1>3. CASE Environment(s)
  BY <1>1, <1>3 DEF Environment, Start, ConnectionLost, Unsubscribe,
     GlobalUnsubscribe, Unlisten, Goto, storeVars
<1>. QED BY <1>2, <1>3

-----------------------------------------------------------------------------
(* Publication order, until the first reset.                               *)

\* The last of a list in order is the furthest.
LEMMA SortedLast ==
  ASSUME NEW seq \in Seq(Messages), seq # <<>>, Sorted(seq),
         NEW m \in Range(seq)
  PROVE  m.gid <= seq[Len(seq)].gid
<1>1. PICK i \in DOMAIN seq : m = seq[i]
  BY DEF Range
<1>2. /\ DOMAIN seq = 1..Len(seq) /\ Len(seq) \in Nat \ {0}
      /\ seq[Len(seq)] \in Messages /\ m \in Messages
  BY <1>1, EmptySeq, LenProperties, ElementOfSeq
<1>3. CASE i = Len(seq)
  BY <1>1, <1>2, <1>3 DEF Messages
<1>4. CASE i # Len(seq)
  <2>1. i < Len(seq) /\ Len(seq) \in DOMAIN seq
    BY <1>2, <1>4
  <2>2. m.gid < seq[Len(seq)].gid
    BY <1>1, <2>1 DEF Sorted
  <2>. QED BY <1>2, <2>2 DEF Messages
<1>. QED BY <1>3, <1>4

\* A position is a message's id or the id the subscription starts after.
LEMMA PositionType ==
  ASSUME TypeOK, NEW s \in Subs
  PROVE  /\ Position(s) \in Nat \cup {Nil}
         /\ delivered[s] # <<>> => Position(s) \in Nat
<1>1. CASE delivered[s] = <<>>
  BY <1>1 DEF Position, TypeOK
<1>2. CASE delivered[s] # <<>>
  <2>1. delivered[s] \in Seq(Messages)
    BY DEF TypeOK
  <2>2. Len(delivered[s]) \in 1..Len(delivered[s])
    BY <1>2, <2>1, EmptySeq
  <2>3. delivered[s][Len(delivered[s])] \in Messages
    BY <2>1, <2>2, ElementOfSeq
  <2>. QED BY <1>2, <2>3 DEF Position, Messages
<1>. QED BY <1>1, <1>2

\* Yielding a message after the position moves it there, and keeps the order.
LEMMA Yielded ==
  ASSUME TypeOK, NEW s \in Subs, NEW m \in Messages, Yield(s, m),
         Sorted(delivered[s]), Position(s) # Nil => m.gid > Position(s)
  PROVE  /\ Sorted(delivered'[s])
         /\ Position(s)' = m.gid
         /\ Given(s)' = Given(s) \cup {m}
<1>1. delivered[s] \in Seq(Messages)
  BY DEF TypeOK
<1>2. delivered'[s] = Append(delivered[s], m)
  BY DEF Yield, TypeOK
<1>3. ASSUME NEW d \in Range(delivered[s]) PROVE d.gid < m.gid
  <2>1. delivered[s] # <<>>
    BY <1>3 DEF Range
  <2>2. d.gid <= Position(s) /\ Position(s) \in Nat
    BY <1>1, <2>1, SortedLast, PositionType DEF Position
  <2>3. Position(s) # Nil /\ d \in Messages
    BY <1>1, <2>2, SubscriberAssumption, RangeOfSeq
  <2>. QED BY <2>2, <2>3 DEF Messages
<1>4. Sorted(delivered'[s])
  BY <1>1, <1>2, <1>3, SortedAppended
<1>5. Position(s)' = m.gid /\ Given(s)' = Given(s) \cup {m}
  BY <1>1, <1>2, Appended DEF Position, Given
<1>. QED BY <1>4, <1>5

\* A step that writes neither the position nor what was delivered.
LEMMA PositionKept ==
  ASSUME NEW s \in Subs, delivered'[s] = delivered[s], from'[s] = from[s]
  PROVE  Position(s)' = Position(s) /\ Given(s)' = Given(s)
BY DEF Position, Given

\* What is pushed to a connection, if it is.
LEMMA PushedRange ==
  ASSUME StoreTypeOK, NEW m \in Messages \cup {UnsubMessage}, NEW s \in Subs
  PROVE  /\ Range(Pushed(m)[s]) \subseteq Range(wire[s]) \cup {m}
         /\ Range(wire[s]) \subseteq Range(Pushed(m)[s])
         /\ s \in listening => m \in Range(Pushed(m)[s])
         /\ s \notin listening => Pushed(m)[s] = wire[s]
<1>1. wire[s] \in Seq(Messages \cup {UnsubMessage})
  BY DEF StoreTypeOK
<1>2. Range(Append(wire[s], m)) = Range(wire[s]) \cup {m}
  BY <1>1, Appended
<1>. QED BY <1>2 DEF Pushed

\* A step of the store keeps a subscriber in order.
LEMMA OrderedStore ==
  ASSUME TypeOK, Consistent, resets' = 0, StoreNext, NEW s \in Subs, Ordered(s)
  PROVE  Ordered(s)'
<1>1. UNCHANGED localVars /\ StoreTypeOK
  BY DEF StoreNext, TypeOK
<1>2. /\ Position(s)' = Position(s) /\ Pending(s)' = Pending(s)
      /\ Position(s) \in Nat \cup {Nil}
  BY <1>1, PositionType DEF localVars, Position, Pending
<1>3. Placed(s)' /\ Sorted(delivered[s])'
  BY <1>1, <1>2 DEF Ordered, Placed, localVars, Sorted
<1>4. /\ \A m \in Pending(s) : m.gid \in Nat
      /\ \A m \in Range(wire[s]) : m # UnsubMessage => m.gid \in Nat
  <2>1. ptrs[s] \subseteq Messages /\ Range(items[s]) \subseteq Messages
    BY RangeOfSeq DEF TypeOK
  <2>2. Range(wire[s]) \subseteq Messages \cup {UnsubMessage}
    BY RangeOfSeq DEF TypeOK, StoreTypeOK
  <2>. QED BY <2>1, <2>2 DEF Pending, Messages
<1>5. globalId \in Nat
  BY <1>1 DEF StoreTypeOK
<1>6. Numbers(s)'
  <2>1. CASE Shrunk
    BY <1>2, <2>1 DEF Ordered, Numbers, Shrunk
  <2>2. ASSUME NEW m \in Messages, Grown(m) PROVE Numbers(s)'
    <3>1. globalId' = globalId + 1 /\ m.gid = globalId' /\ wire' = Pushed(m)
      BY <2>2 DEF Grown
    <3>2. Range(wire[s])' \subseteq Range(wire[s]) \cup {m}
      BY <1>1, <3>1, PushedRange
    <3>3. Position(s) # Nil => Position(s) <= globalId'
      BY <1>2, <1>5, <3>1 DEF Ordered, Numbers
    <3>4. \A e \in Pending(s) : e.gid <= globalId'
      BY <1>4, <1>5, <3>1 DEF Ordered, Numbers
    <3>5. \A e \in Range(wire[s])' : e # UnsubMessage => e.gid <= globalId'
      BY <1>4, <1>5, <3>1, <3>2 DEF Ordered, Numbers
    <3>. QED BY <1>2, <3>3, <3>4, <3>5 DEF Numbers
  <2>. QED BY <2>1, <2>2, StoreSteps DEF StoreNext
<1>. QED BY <1>3, <1>6 DEF Ordered

\* Reading the backlog: the loop's copy of highest_id follows what is yielded.
LEMMA OrderedBacklog ==
  ASSUME TypeOK, TypeOK', ReadsFromId, Consistent, NEW s \in Subs, Ordered(s),
         \/ CheckId(s) \/ ListPointers(s) \/ FetchMessage(s) \/ FetchDone(s)
         \/ EmitNext(s) \/ EmitSkip(s) \/ EmitOutOfOrder(s) \/ EmitDone(s)
  PROVE  Ordered(s)'
<1>1. /\ pc \in [Subs -> PCs] /\ highest \in [Subs -> Nat \cup {Nil}]
      /\ ret \in [Subs -> {"subscribe", "live"}] /\ cursor \in [Subs -> Nat]
      /\ ptrs \in [Subs -> SUBSET Messages] /\ items \in [Subs -> Seq(Messages)]
      /\ globalBacklog \subseteq Messages /\ globalId \in Nat /\ Nil \notin Nat
      /\ ret[s] \in {"subscribe", "live"} /\ cursor[s] \in Nat
  BY SubscriberAssumption DEF TypeOK, StoreTypeOK
<1>2. wire' = wire /\ globalId' = globalId /\ from' = from
  BY DEF CheckId, ListPointers, FetchMessage, FetchDone, EmitNext, EmitSkip,
     EmitOutOfOrder, EmitDone, storeVars
<1>3. Position(s) \in Nat \cup {Nil}
  BY PositionType
<1>4. Range(<<>>) = {}
  BY DEF Range
<1>5. ASSUME delivered' = delivered
      PROVE  Position(s)' = Position(s) /\ Sorted(delivered[s])'
  BY <1>2, <1>5 DEF Position, Ordered, Sorted
<1>6. ASSUME delivered' = delivered, Pending(s)' \subseteq Pending(s),
             pc[s] # "idle", pc'[s] # "idle",
             pc'[s] \in Working => Position(s) = cursor'[s],
             pc'[s] # "emit" => Position(s) = highest'[s]
      PROVE  Ordered(s)'
  BY <1>2, <1>5, <1>6 DEF Ordered, Placed, Numbers
<1>7. CASE CheckId(s)
  <2>1. highest[s] # Nil /\ Position(s) = highest[s] /\ pc[s] = "check"
    BY <1>7 DEF CheckId, Ordered, Placed, Working, ReadsFromId, CatchUp
  <2>2. highest[s] \in Nat /\ ~(highest[s] > globalId)
    BY <1>1, <2>1 DEF Ordered, Numbers
  <2>3. cursor'[s] = highest[s] /\ pc'[s] = "list"
    BY <1>1, <1>7, <2>2 DEF CheckId, Goto
  <2>. QED BY <1>6, <1>7, <2>1, <2>3 DEF CheckId, Working, Pending
<1>8. CASE ListPointers(s)
  <2>1. /\ ptrs'[s] \subseteq globalBacklog /\ items'[s] = <<>>
        /\ pc[s] = "list" /\ pc'[s] = "fetch" /\ cursor' = cursor
        /\ delivered' = delivered /\ highest' = highest
    BY <1>1, <1>8 DEF ListPointers, Goto
  <2>2. \A m \in Pending(s)' : m.gid <= globalId'
    BY <1>2, <1>4, <2>1 DEF Pending, Consistent, Numbered
  <2>. QED BY <1>2, <1>5, <2>1, <2>2 DEF Ordered, Placed, Numbers, Working
<1>9. CASE FetchMessage(s)
  <2>1. PICK p \in ptrs[s] :
          /\ ptrs' = [ptrs EXCEPT ![s] = @ \ {p}]
          /\ \/ \E m \in GetMessage(p.chan, p.mid) :
                  items' = [items EXCEPT ![s] = Append(@, m)]
             \/ UNCHANGED items
    BY <1>9 DEF FetchMessage
  <2>2. pc[s] = "fetch" /\ UNCHANGED <<pc, cursor, highest, delivered>>
    BY <1>9 DEF FetchMessage
  <2>3. p.chan \in Channels /\ GetMessage(p.chan, p.mid) \subseteq Messages
    BY FoundType
  <2>4. \A m \in GetMessage(p.chan, p.mid) : m.gid <= globalId
    BY <2>3 DEF GetMessage, Consistent, Numbered
  <2>5. \A m \in Pending(s)' : m.gid <= globalId
    <3>1. ASSUME NEW m \in GetMessage(p.chan, p.mid),
                 items' = [items EXCEPT ![s] = Append(@, m)]
          PROVE  Range(items'[s]) = Range(items[s]) \cup {m}
      BY <1>1, <2>3, <3>1, Appended
    <3>2. ptrs'[s] \subseteq ptrs[s]
      BY <1>1, <2>1
    <3>3. \A m \in Range(items'[s]) :
            m \in Range(items[s]) \/ m \in GetMessage(p.chan, p.mid)
      BY <2>1, <3>1
    <3>. QED BY <2>4, <3>2, <3>3 DEF Pending, Ordered, Numbers
  <2>. QED BY <1>2, <1>5, <2>2, <2>5 DEF Ordered, Placed, Numbers
<1>10. CASE FetchDone(s)
  BY <1>1, <1>6, <1>10 DEF FetchDone, Goto, Pending, Ordered, Placed, Working
<1>11. ASSUME items[s] # <<>>
       PROVE  /\ Head(items[s]) \in Messages /\ Head(items[s]).gid \in Nat
              /\ Range(items[s]) = Range(Tail(items[s])) \cup {Head(items[s])}
  <2>1. items[s] \in Seq(Messages)
    BY <1>1
  <2>2. /\ Head(items[s]) \in Messages
        /\ Range(items[s]) = Range(Tail(items[s])) \cup {Head(items[s])}
    BY <1>11, <2>1, HeadRead
  <2>. QED BY <2>2 DEF Messages
<1>12. pc[s] = "emit" => cursor[s] = Position(s)
  BY DEF Ordered, Placed, Working
<1>13. CASE EmitNext(s)
  <2> DEFINE old == Head(items[s])
  <2>1. /\ pc[s] = "emit" /\ items[s] # <<>> /\ pc' = pc /\ ptrs' = ptrs
        /\ old.gid = cursor[s] + 1 \/ old.gid > cursor[s]
        /\ Yield(s, old) /\ cursor'[s] = old.gid /\ items'[s] = Tail(items[s])
    BY <1>1, <1>13 DEF EmitNext
  <2>2. old \in Messages /\ old.gid \in Nat /\ old.gid > Position(s)
    BY <1>1, <1>11, <1>12, <2>1
  <2>3. Sorted(delivered'[s]) /\ Position(s)' = old.gid
    BY <2>1, <2>2, Yielded DEF Ordered
  <2>4. Pending(s)' \subseteq Pending(s) /\ old.gid <= globalId
    BY <1>11, <2>1 DEF Pending, Ordered, Numbers
  <2>5. from[s] # Nil
    BY <1>1, <1>12, <2>1 DEF Ordered, Placed
  <2>. QED BY <1>1, <1>2, <2>1, <2>2, <2>3, <2>4, <2>5
           DEF Ordered, Placed, Numbers, Working
<1>14. CASE EmitSkip(s)
  BY <1>1, <1>6, <1>11, <1>14 DEF EmitSkip, Pending, Ordered, Placed, Working
<1>15. CASE EmitOutOfOrder(s)
  <2>1. /\ pc'[s] = "check" /\ items'[s] = <<>> /\ ptrs' = ptrs
        /\ highest'[s] = cursor[s] /\ pc[s] = "emit" /\ delivered' = delivered
    BY <1>1, <1>15 DEF EmitOutOfOrder, Goto
  <2>2. Pending(s)' \subseteq Pending(s)
    BY <1>4, <2>1 DEF Pending
  <2>. QED BY <1>6, <1>12, <2>1, <2>2 DEF Working
<1>16. CASE EmitDone(s)
  <2>1. /\ pc'[s] = ret[s] /\ items' = items /\ ptrs' = ptrs
        /\ highest'[s] = cursor[s] /\ pc[s] = "emit" /\ delivered' = delivered
    BY <1>1, <1>16 DEF EmitDone, Goto
  <2>. QED BY <1>1, <1>6, <1>12, <2>1 DEF Working, Pending
<1>. QED BY <1>7, <1>8, <1>9, <1>10, <1>13, <1>14, <1>15, <1>16

\* What is read from the connection comes after the position; losing the
\* connection keeps it.
LEMMA OrderedConnection ==
  ASSUME TypeOK, TypeOK', ReadsFromId, Consistent, NEW s \in Subs, Ordered(s),
         \/ \E last \in 0..MaxId \cup {Nil} : Start(s, last)
         \/ Connect(s) \/ Subscribe(s)
         \/ ReceiveNext(s) \/ ReceiveOutOfOrder(s) \/ ReceiveUnsub(s)
         \/ ConnectionLost(s) \/ Reconnect(s) \/ Unsubscribe(s)
  PROVE  Ordered(s)'
<1>1. /\ pc \in [Subs -> PCs] /\ highest \in [Subs -> Nat \cup {Nil}]
      /\ ret \in [Subs -> {"subscribe", "live"}] /\ cursor \in [Subs -> Nat]
      /\ ptrs \in [Subs -> SUBSET Messages] /\ items \in [Subs -> Seq(Messages)]
      /\ wire \in [Subs -> Seq(Messages \cup {UnsubMessage})]
      /\ from \in [Subs -> Nat \cup {Nil}]
      /\ globalId \in Nat /\ Nil \notin Nat /\ StoreTypeOK
  BY SubscriberAssumption DEF TypeOK, StoreTypeOK
<1>2. globalId' = globalId
  BY SubscriberSteps DEF Step, Environment
<1>3. Position(s) \in Nat \cup {Nil}
  BY PositionType
<1>4. Range(<<>>) = {}
  BY DEF Range
<1>5. ASSUME delivered' = delivered, from' = from
      PROVE  Position(s)' = Position(s) /\ Sorted(delivered[s])'
  BY <1>5 DEF Position, Ordered, Sorted
<1>6. ASSUME delivered' = delivered, from' = from,
             Pending(s)' \subseteq Pending(s),
             Range(wire[s])' \subseteq Range(wire[s]) \cup {UnsubMessage},
             highest' = highest, cursor' = cursor,
             pc'[s] = "idle" => pc[s] = "idle",
             pc[s] = "emit" => pc'[s] = "emit",
             pc'[s] \in Working => pc[s] = pc'[s]
      PROVE  Ordered(s)'
  BY <1>2, <1>5, <1>6 DEF Ordered, Placed, Numbers
<1>7. ASSUME NEW last \in 0..MaxId \cup {Nil}, Start(s, last) PROVE Ordered(s)'
  <2>1. /\ pc[s] = "idle" /\ pc'[s] = "connect"
        /\ last \in 0..globalId \cup {Nil}
        /\ highest'[s] = last /\ from'[s] = last
        /\ delivered' = delivered /\ items' = items /\ ptrs' = ptrs
        /\ wire' = wire
    BY <1>1, <1>7 DEF Start, Goto, storeVars
  <2>2. Position(s) = Nil
    BY <2>1 DEF Ordered, Placed, Working
  <2>3. delivered[s] = <<>>
    BY <1>1, <2>2, PositionType
  <2>4. Position(s)' = last
    BY <2>1, <2>3 DEF Position
  <2>5. last # Nil => last <= globalId'
    BY <1>2, <2>1
  <2>. QED BY <1>2, <2>1, <2>4, <2>5
           DEF Ordered, Placed, Numbers, Working, Pending, Sorted
<1>8. CASE Connect(s)
  BY <1>1, <1>6, <1>8
     DEF Connect, ClearBacklog, Goto, storeVars, Pending, Working
<1>9. CASE Subscribe(s)
  BY <1>1, <1>6, <1>9 DEF Subscribe, ClearBacklog, Goto, Pending, Working
<1>10. ASSUME Readable(s), Consume(s)
       PROVE  /\ pc[s] = "live"
              /\ Head(wire[s]) \in Range(wire[s])
              /\ Head(wire[s]) \in Messages \cup {UnsubMessage}
              /\ Range(wire[s])' \subseteq Range(wire[s])
  <2>1. wire[s] \in Seq(Messages \cup {UnsubMessage}) /\ wire[s] # <<>>
    BY <1>1, <1>10 DEF Readable
  <2>2. /\ Head(wire[s]) \in Messages \cup {UnsubMessage}
        /\ Range(wire[s]) = Range(Tail(wire[s])) \cup {Head(wire[s])}
    BY <2>1, HeadRead
  <2>. QED BY <1>1, <1>10, <2>2 DEF Readable, Consume
<1>11. CASE ReceiveNext(s)
  <2> DEFINE m == Head(wire[s])
  <2>1. /\ Readable(s) /\ Consume(s) /\ InOrder(s) /\ m # UnsubMessage
        /\ Yield(s, m) /\ highest'[s] = m.gid
        /\ from'[s] = IF from[s] = Nil THEN m.gid - 1 ELSE from[s]
        /\ UNCHANGED <<pc, ptrs, items>>
    BY <1>1, <1>11 DEF ReceiveNext
  <2>2. m \in Messages /\ pc[s] = "live" /\ m.gid <= globalId
    BY <1>10, <2>1 DEF Ordered, Numbers
  <2>3. Position(s) = highest[s]
    BY <2>2 DEF Ordered, Placed, Working
  <2>4. Position(s) # Nil => m.gid > Position(s)
    BY <1>3, <2>1, <2>3 DEF InOrder
  <2>5. Sorted(delivered'[s]) /\ Position(s)' = m.gid
    BY <2>1, <2>2, <2>4, Yielded DEF Ordered
  <2>6. m.gid \in Nat /\ m.gid - 1 \in Nat
    BY <2>2 DEF Messages
  <2> HIDE DEF m
  <2>7. Placed(s)'
    BY <1>1, <2>1, <2>2, <2>5, <2>6 DEF Placed, Working
  <2>8. Numbers(s)'
    BY <1>2, <1>10, <2>1, <2>2, <2>5 DEF Ordered, Numbers, Pending
  <2>. QED BY <2>5, <2>7, <2>8 DEF Ordered
<1>12. CASE ReceiveOutOfOrder(s)
  BY <1>1, <1>6, <1>10, <1>12
     DEF ReceiveOutOfOrder, ClearBacklog, Goto, Pending, Working
<1>13. CASE ReceiveUnsub(s)
  BY <1>1, <1>4, <1>6, <1>13
     DEF ReceiveUnsub, Readable, Unlisten, Goto, Pending, Working
<1>14. CASE ConnectionLost(s)
  <2>1. /\ pc'[s] = "sleep" /\ wire'[s] = <<>> /\ ptrs'[s] = {}
        /\ items'[s] = <<>> /\ highest' = highest /\ cursor' = cursor
        /\ delivered' = delivered /\ from' = from /\ pc[s] # "emit"
    BY <1>1, <1>14 DEF ConnectionLost, Unlisten, Goto
  <2>. QED BY <1>4, <1>6, <2>1 DEF Pending, Working
<1>15. CASE Reconnect(s)
  BY <1>1, <1>6, <1>15 DEF Reconnect, Goto, storeVars, Pending, Working
<1>16. CASE Unsubscribe(s)
  <2>1. Range(wire[s])' \subseteq Range(wire[s]) \cup {UnsubMessage}
    BY <1>1, <1>16, PushedRange DEF Unsubscribe, GlobalUnsubscribe
  <2>. QED BY <1>6, <1>16, <2>1 DEF Unsubscribe, Pending
<1>. QED BY <1>7, <1>8, <1>9, <1>11, <1>12, <1>13, <1>14, <1>15, <1>16

\* Another subscriber's step does not touch it.
LEMMA OrderedOther ==
  ASSUME TypeOK, NEW s \in Subs, Step(s) \/ Environment(s),
         NEW t \in Subs, t # s, Ordered(t)
  PROVE  Ordered(t)'
<1>1. /\ pc'[t] = pc[t] /\ highest'[t] = highest[t] /\ cursor'[t] = cursor[t]
      /\ ptrs'[t] = ptrs[t] /\ items'[t] = items[t]
      /\ delivered'[t] = delivered[t] /\ from'[t] = from[t]
      /\ wire'[t] \in {wire[t], Pushed(UnsubMessage)[t]}
  BY OthersKept
<1>2. Range(wire[t])' \subseteq Range(wire[t]) \cup {UnsubMessage}
  BY <1>1, PushedRange DEF TypeOK
<1>3. globalId' = globalId /\ Position(t)' = Position(t)
  BY <1>1, SubscriberSteps, PositionKept
<1>. QED BY <1>1, <1>2, <1>3 DEF Ordered, Placed, Numbers, Sorted, Pending

\* What holds in every behaviour until the first reset.
OrderInv ==
  /\ TypeOK /\ ReadsFromId
  /\ resets = 0 => Consistent /\ \A s \in Subs : Ordered(s)

\* Nobody has subscribed, nothing is published.
LEMMA OrderInit == Init => OrderInv
<1> SUFFICES ASSUME Init PROVE OrderInv
  OBVIOUS
<1>1. TypeOK /\ ReadsFromId /\ Consistent
  BY InitType, ConsistentInit DEF Init
<1>2. ASSUME NEW s \in Subs PROVE Ordered(s)
  <2>1. /\ pc[s] = "idle" /\ highest[s] = Nil /\ from[s] = Nil
        /\ delivered[s] = <<>> /\ items[s] = <<>> /\ ptrs[s] = {}
        /\ wire[s] = <<>>
    BY DEF Init, StoreInit
  <2>2. Range(<<>>) = {} /\ Position(s) = Nil
    BY <2>1 DEF Range, Position
  <2>. QED BY <2>1, <2>2 DEF Ordered, Placed, Numbers, Sorted, Pending, Working
<1>. QED BY <1>1, <1>2 DEF OrderInv

\* Every step keeps it.
LEMMA OrderNext == OrderInv /\ [Next]_vars => OrderInv'
<1> SUFFICES ASSUME OrderInv, [Next]_vars PROVE OrderInv'
  OBVIOUS
<1>1. TypeOK' /\ ReadsFromId' /\ TypeOK /\ ReadsFromId
  BY NextType DEF OrderInv
<1>2. ASSUME resets' = 0 PROVE Consistent' /\ \A s \in Subs : Ordered(s)'
  <2>1. resets = 0 /\ Consistent
    BY <1>1, <1>2, ResetsKept DEF OrderInv
  <2>2. Consistent'
    BY <1>1, <1>2, <2>1, ConsistentNext
  <2>3. ASSUME NEW s \in Subs PROVE Ordered(s)'
    <3>1. Ordered(s)
      BY <2>1 DEF OrderInv
    <3>2. CASE StoreNext
      BY <1>1, <1>2, <2>1, <3>1, <3>2, OrderedStore
    <3>3. CASE Step(s) \/ Environment(s)
      BY <1>1, <2>1, <3>1, <3>3, OrderedBacklog, OrderedConnection
         DEF Step, Environment
    <3>4. ASSUME NEW u \in Subs, u # s, Step(u) \/ Environment(u)
          PROVE  Ordered(s)'
      BY <1>1, <3>1, <3>4, OrderedOther
    <3>5. CASE UNCHANGED vars
      BY <3>1, <3>5 DEF vars, storeVars, localVars, Ordered, Placed, Numbers,
         Sorted, Pending, Position
    <3>. QED BY <3>2, <3>3, <3>4, <3>5 DEF Next, Quiescent
  <2>. QED BY <2>2, <2>3
<1>. QED BY <1>1, <1>2 DEF OrderInv

\* Until the first reset, positions, ids and what was delivered agree.
THEOREM OrderAlways == Spec => []OrderInv
BY OrderInit, OrderNext, PTL DEF Spec

\* Messages are yielded in publication order and none twice, whatever keys
\* expire or are purged while the backlog is read, and however often the
\* connection is lost and the backlog read again (redis.rb:270-383).
THEOREM AscendingAlways == Spec => []Ascending
<1>1. OrderInv => Ascending
  BY DEF OrderInv, Ascending, Ordered, Sorted
<1>. QED BY <1>1, OrderAlways, PTL

-----------------------------------------------------------------------------
(* Nothing is missed, until a key expires or the bus is reset.             *)

\* A retained message is in its channel's backlog, numbered by the counters,
\* and its own pointer.
LEMMA RetainedFacts ==
  ASSUME Consistent, NEW m \in Retained
  PROVE  /\ m \in Messages /\ m.chan \in Channels /\ m \in backlog[m.chan]
         /\ m \in globalBacklog
         /\ m.gid \in Nat /\ m.gid <= globalId /\ m.mid <= backlogId[m.chan]
<1>1. PICK c \in Channels : m \in backlog[c]
  BY DEF Retained
<1>2. m.chan = c /\ m.gid <= globalId /\ m.mid <= backlogId[c]
  BY <1>1 DEF Consistent, Numbered
<1>3. m \in Messages
  BY <1>1 DEF Consistent, StoreTypeOK
<1>. QED BY <1>1, <1>2, <1>3 DEF Retained, Messages

\* A publication retains at most one message more.
LEMMA RetainedGrown ==
  ASSUME Consistent, NEW m, Grown(m)
  PROVE  Retained' \subseteq Retained \cup {m}
<1>1. ASSUME NEW e \in Retained', e # m PROVE e \in Retained
  <2>1. PICK c \in Channels : e \in backlog'[c]
    BY <1>1 DEF Retained
  <2>2. e \in backlog[c] /\ e \in globalBacklog
    BY <1>1, <2>1 DEF Grown, Retained
  <2>. QED BY <2>2 DEF Retained
<1>. QED BY <1>1

\* Taking messages away retains none anew.
LEMMA RetainedShrunk ==
  ASSUME Shrunk
  PROVE  Retained' \subseteq Retained
BY DEF Shrunk, Retained

\* While channel ids are not taken anew, a pointer goes on leading to its own
\* message only, and a new one does.
LEMMA ResolvesKept ==
  ASSUME Consistent, StoreStep, ticks' = 0, resets' = 0
  PROVE  /\ \A p \in Messages : Resolves(p) => Resolves(p)'
         /\ (\A p \in globalBacklog : Resolves(p)) =>
              \A p \in globalBacklog' : Resolves(p)'
<1>1. /\ backlogId \in [Channels -> Nat] /\ globalBacklog \subseteq Messages
      /\ backlog \in [Channels -> SUBSET Messages]
      /\ \A p \in Messages : p.chan \in Channels /\ p.mid \in Nat
  BY DEF Consistent, StoreTypeOK, Messages
<1>2. CASE Shrunk
  BY <1>1, <1>2 DEF Shrunk, Resolves, GetMessage
<1>3. ASSUME NEW m \in Messages, Grown(m)
      PROVE  /\ \A p \in Messages : Resolves(p) => Resolves(p)'
             /\ Resolves(m)'
  <2>1. /\ m.mid = backlogId[m.chan] + 1 /\ m.mid \in Nat /\ m.chan \in Channels
        /\ backlogId' = [backlogId EXCEPT ![m.chan] = m.mid]
        /\ \A c \in Channels : backlog'[c] \subseteq
             IF c = m.chan THEN backlog[c] \cup {m} ELSE backlog[c]
    BY <1>1, <1>3 DEF Grown
  <2>2. ASSUME NEW p \in Messages, Resolves(p) PROVE Resolves(p)'
    <3>1. p.mid <= backlogId'[p.chan]
      BY <1>1, <2>1, <2>2 DEF Resolves
    <3>2. ASSUME NEW e \in backlog'[p.chan], e.mid = p.mid PROVE e = p
      <4>1. CASE e \in backlog[p.chan]
        BY <2>2, <3>2, <4>1 DEF Resolves, GetMessage
      <4>2. CASE e \notin backlog[p.chan]
        <5>1. e = m /\ p.chan = m.chan
          BY <1>1, <2>1, <3>2, <4>2
        <5>2. p.mid <= backlogId[p.chan] /\ backlogId[p.chan] \in Nat
          BY <1>1, <2>2 DEF Resolves
        <5>. QED BY <1>1, <2>1, <3>2, <5>1, <5>2
      <4>. QED BY <4>1, <4>2
    <3>. QED BY <3>1, <3>2 DEF Resolves, GetMessage
  <2>3. Resolves(m)'
    <3>1. m.mid <= backlogId'[m.chan]
      BY <1>1, <2>1
    <3>2. ASSUME NEW e \in backlog'[m.chan], e.mid = m.mid PROVE e = m
      <4>1. ASSUME e \in backlog[m.chan] PROVE FALSE
        <5>1. e.mid <= backlogId[m.chan] /\ backlogId[m.chan] \in Nat
          BY <1>1, <2>1, <4>1 DEF Consistent, Numbered
        <5>. QED BY <2>1, <3>2, <5>1
      <4>. QED BY <2>1, <3>2, <4>1
    <3>. QED BY <3>1, <3>2 DEF Resolves, GetMessage
  <2>. QED BY <2>2, <2>3
<1>4. ASSUME NEW m \in Messages, Grown(m), \A p \in globalBacklog : Resolves(p)
      PROVE  \A p \in globalBacklog' : Resolves(p)'
  <2>1. globalBacklog' \subseteq globalBacklog \cup {m}
    BY <1>4 DEF Grown
  <2>. QED BY <1>1, <1>3, <1>4, <2>1
<1>. QED BY <1>2, <1>3, <1>4, StoreSteps

\* What is pushed comes behind what was.
LEMMA PushedHead ==
  ASSUME StoreTypeOK, NEW m \in Messages \cup {UnsubMessage}, NEW s \in Subs
  PROVE  /\ wire[s] # <<>> =>
              Pushed(m)[s] # <<>> /\ Head(Pushed(m)[s]) = Head(wire[s])
         /\ wire[s] = <<>> /\ Pushed(m)[s] # <<>> =>
              Head(Pushed(m)[s]) = m
<1>1. wire[s] \in Seq(Messages \cup {UnsubMessage})
  BY DEF StoreTypeOK
<1>2. /\ Append(wire[s], m) # <<>>
      /\ Head(Append(wire[s], m)) = IF wire[s] = <<>> THEN m ELSE Head(wire[s])
  <2>1. Append(wire[s], m) # <<>>
    BY <1>1, AppendProperties
  <2>2. Head(Append(wire[s], m)) = IF wire[s] = <<>> THEN m ELSE Head(wire[s])
    <3> DEFINE seq == wire[s]
    <3>1. seq \in Seq(Messages \cup {UnsubMessage})
      BY <1>1
    <3> HIDE DEF seq
    <3>2. Head(Append(seq, m)) = IF seq = <<>> THEN m ELSE Head(seq)
      BY <3>1, HeadTailAppend
    <3>. QED BY <3>2 DEF seq
  <2>. QED BY <2>1, <2>2
<1>. QED BY <1>2 DEF Pushed

\* A step of the store, before any key expires: a message published joins what
\* is on its way, and the others stay where they are.
LEMMA CompleteStore ==
  ASSUME TypeOK, Consistent, Consistent', ticks' = 0, resets' = 0, StoreNext,
         NEW s \in Subs, Ordered(s), Complete(s)
  PROVE  Complete(s)'
<1>1. UNCHANGED localVars /\ StoreTypeOK /\ StoreStep
  BY DEF StoreNext, TypeOK
<1>2. /\ Position(s)' = Position(s) /\ Pending(s)' = Pending(s)
      /\ Given(s)' = Given(s) /\ Position(s) \in Nat \cup {Nil}
      /\ pc' = pc /\ ret' = ret /\ from' = from
      /\ ptrs' = ptrs /\ items' = items
      /\ listening' = listening
  BY <1>1, StoreSteps, PositionType DEF localVars, Position, Pending, Given
<1>3. globalId \in Nat /\ Nil \notin Nat /\ ptrs[s] \subseteq Messages
  BY SubscriberAssumption DEF TypeOK, StoreTypeOK
<1>4. Lined(s)'
  <2>1. \A p \in ptrs[s] : Resolves(p)'
    BY <1>1, <1>3, ResolvesKept DEF Complete, Lined
  <2>. QED BY <1>2, <2>1 DEF Complete, Lined, Sorted
<1>5. CASE Shrunk
  <2>1. Retained' \subseteq Retained /\ wire' = wire
    BY <1>5, RetainedShrunk DEF Shrunk
  <2>2. Linked(s)'
    BY <1>2, <2>1 DEF Complete, Linked
  <2>3. Covered(s)'
    <3>1. \A m \in Retained : OnItsWay(s, m) => OnItsWay(s, m)'
      BY <1>2, <2>1 DEF OnItsWay
    <3>. QED BY <1>2, <2>1, <3>1 DEF Complete, Covered
  <2>. QED BY <1>4, <2>2, <2>3 DEF Complete
<1>6. ASSUME NEW m \in Messages, Grown(m) PROVE Complete(s)'
  <2>1. m.gid = globalId + 1 /\ wire' = Pushed(m) /\ m # UnsubMessage
    BY <1>6, StoreAssumption DEF Grown
  <2>2. Retained' \subseteq Retained \cup {m}
    BY <1>6, RetainedGrown
  <2>3. /\ Range(wire'[s]) \subseteq Range(wire[s]) \cup {m}
        /\ Range(wire[s]) \subseteq Range(wire'[s])
        /\ s \in listening => m \in Range(wire'[s])
        /\ s \notin listening => wire'[s] = wire[s]
    BY <1>1, <2>1, PushedRange
  <2>4. \A e \in Retained : e.gid \in Nat /\ e.gid < m.gid
    BY <1>3, <2>1, RetainedFacts
  <2>5. \A e \in Range(wire[s]) : e # UnsubMessage => e.gid < m.gid
    <3>1. Range(wire[s]) \subseteq Messages \cup {UnsubMessage}
      BY <1>1, RangeOfSeq DEF StoreTypeOK
    <3>. QED BY <1>3, <2>1, <3>1 DEF Ordered, Numbers, Messages
  <2>6. \A q \in Pending(s) : q.gid < m.gid
    <3>1. Pending(s) \subseteq Messages
      BY RangeOfSeq DEF TypeOK, Pending
    <3>. QED BY <1>3, <2>1, <3>1 DEF Ordered, Numbers, Messages
  <2>7. Position(s) # Nil => Position(s) < m.gid
    BY <1>2, <1>3, <2>1 DEF Ordered, Numbers
  <2>8. /\ m.gid \in Nat
        /\ \A e \in Range(wire[s]) : e # UnsubMessage => e.gid \in Nat
    <3>1. Range(wire[s]) \subseteq Messages \cup {UnsubMessage}
      BY <1>1, RangeOfSeq DEF StoreTypeOK
    <3>. QED BY <3>1 DEF Messages
  <2>9. Linked(s)'
    <3>1. ASSUME NEW e \in Range(wire'[s]), e # UnsubMessage,
                 NEW r \in Retained', r.gid = e.gid
          PROVE  r = e
      <4>1. CASE e \in Range(wire[s]) /\ r \in Retained
        BY <3>1, <4>1 DEF Complete, Linked
      <4>2. CASE ~(e \in Range(wire[s]) /\ r \in Retained)
        BY <2>2, <2>3, <2>4, <2>5, <2>8, <3>1, <4>2
      <4>. QED BY <4>1, <4>2
    <3>. QED BY <1>2, <2>3, <3>1 DEF Complete, Linked
  <2>10. Covered(s)'
    <3>1. ASSUME NEW e \in Retained, OnItsWay(s, e) PROVE OnItsWay(s, e)'
      BY <1>2, <2>3, <3>1 DEF OnItsWay
    <3>2. OnItsWay(s, m)'
      <4>1. pc[s] = "live" \/ (pc[s] \in {"fetch", "emit"} /\ ret[s] = "live")
              => s \in listening
        BY DEF Complete, Linked, CatchUp
      <4>. QED BY <1>2, <2>3, <2>6, <4>1 DEF OnItsWay
    <3>3. ASSUME Position(s) = Nil, pc[s] = "live",
                 wire'[s] # <<>>, Head(wire'[s]) # UnsubMessage,
                 NEW e \in Retained', e.gid > Head(wire'[s]).gid
          PROVE  e \in Range(wire'[s])
      <4>1. s \in listening
        BY <3>3 DEF Complete, Linked
      <4>2. CASE e = m
        BY <2>3, <4>1, <4>2
      <4>3. CASE e # m /\ wire[s] # <<>>
        <5>1. Head(wire'[s]) = Head(wire[s])
          BY <1>1, <2>1, <4>3, PushedHead
        <5>2. e \in Retained
          BY <2>2, <3>3, <4>3
        <5>. QED BY <2>3, <3>3, <4>3, <5>1, <5>2 DEF Complete, Covered
      <4>4. CASE e # m /\ wire[s] = <<>>
        <5>1. Head(wire'[s]) = m /\ e \in Retained
          BY <1>1, <2>1, <2>2, <3>3, <4>4, PushedHead
        <5>. QED BY <2>4, <2>8, <3>3, <5>1
      <4>. QED BY <4>2, <4>3, <4>4
    <3>4. ASSUME NEW e \in Retained', from[s] # Nil, from[s] < e.gid,
                 e.gid <= Position(s)
          PROVE  e \in Given(s)
      <4>1. Position(s) \in Nat /\ Position(s) # Nil
        BY <1>2, <1>3, <3>4 DEF Ordered, Placed
      <4>2. e # m
        BY <2>7, <2>8, <3>4, <4>1
      <4>. QED BY <2>2, <3>4, <4>2 DEF Complete, Covered
    <3>5. ASSUME NEW e \in Retained', Position(s) # Nil, e.gid > Position(s)
          PROVE  OnItsWay(s, e)'
      BY <2>2, <3>1, <3>2, <3>5 DEF Complete, Covered
    <3>. QED BY <1>2, <3>3, <3>4, <3>5 DEF Covered
  <2>. QED BY <1>4, <2>9, <2>10 DEF Complete
<1>. QED BY <1>1, <1>5, <1>6, StoreSteps

\* A subscriber's step retains and resolves what it did.
LEMMA StoreKept ==
  ASSUME NEW s \in Subs, Step(s) \/ Environment(s)
  PROVE  /\ Retained' = Retained
         /\ \A p : Resolves(p)' <=> Resolves(p)
BY SubscriberSteps DEF Retained, Resolves, GetMessage

\* UNSUB_MESSAGE pushed to a subscriber is all that happens to it.
LEMMA CompleteUnpushed ==
  ASSUME TypeOK, NEW s \in Subs, Complete(s),
         Retained' = Retained, \A p : Resolves(p)' <=> Resolves(p),
         pc'[s] = pc[s], ret'[s] = ret[s], ptrs'[s] = ptrs[s],
         items'[s] = items[s], delivered'[s] = delivered[s], from'[s] = from[s],
         s \in listening' <=> s \in listening,
         wire'[s] \in {wire[s], Pushed(UnsubMessage)[s]}
  PROVE  Complete(s)'
<1>1. /\ Position(s)' = Position(s) /\ Pending(s)' = Pending(s)
      /\ Given(s)' = Given(s)
  BY PositionKept DEF Pending
<1>2. /\ Range(wire'[s]) \subseteq Range(wire[s]) \cup {UnsubMessage}
      /\ Range(wire[s]) \subseteq Range(wire'[s])
      /\ s \notin listening => wire'[s] = wire[s]
      /\ wire[s] # <<>> => Head(wire'[s]) = Head(wire[s])
      /\ wire[s] = <<>> /\ wire'[s] # <<>> => Head(wire'[s]) = UnsubMessage
  <2>1. StoreTypeOK /\ UnsubMessage \in Messages \cup {UnsubMessage}
    BY DEF TypeOK
  <2>2. CASE wire'[s] = wire[s]
    BY <2>2
  <2>3. CASE wire'[s] = Pushed(UnsubMessage)[s]
    <3>1. /\ Range(wire'[s]) \subseteq Range(wire[s]) \cup {UnsubMessage}
          /\ Range(wire[s]) \subseteq Range(wire'[s])
          /\ s \notin listening => wire'[s] = wire[s]
      BY <2>1, <2>3, PushedRange
    <3>2. /\ wire[s] # <<>> => Head(wire'[s]) = Head(wire[s])
          /\ wire[s] = <<>> /\ wire'[s] # <<>> => Head(wire'[s]) = UnsubMessage
      BY <2>1, <2>3, PushedHead
    <3>. QED BY <3>1, <3>2
  <2>. QED BY <2>2, <2>3
<1>3. Lined(s)' /\ Linked(s)'
  BY <1>1, <1>2 DEF Complete, Lined, Linked, Sorted
<1>4. \A m : OnItsWay(s, m) => OnItsWay(s, m)'
  BY <1>1, <1>2 DEF OnItsWay
<1>5. Covered(s)'
  BY <1>1, <1>2, <1>4 DEF Complete, Covered
<1>. QED BY <1>3, <1>5 DEF Complete

\* Messages put off the wire by somebody else's step.
LEMMA CompleteOther ==
  ASSUME TypeOK, NEW s \in Subs, Step(s) \/ Environment(s),
         NEW t \in Subs, t # s, Complete(t)
  PROVE  Complete(t)'
BY OthersKept, StoreKept, CompleteUnpushed

\* Reading the backlog: every retained message after the position is listed,
\* looked up and yielded, or is published later than the list was read.
LEMMA CompleteBacklog ==
  ASSUME TypeOK, Consistent, NEW s \in Subs, Ordered(s), Complete(s),
         \A p \in globalBacklog : Resolves(p),
         \/ CheckId(s) \/ ListPointers(s) \/ FetchMessage(s) \/ FetchDone(s)
         \/ EmitNext(s) \/ EmitSkip(s) \/ EmitOutOfOrder(s) \/ EmitDone(s)
  PROVE  Complete(s)'
<1>1. /\ pc \in [Subs -> PCs] /\ highest \in [Subs -> Nat \cup {Nil}]
      /\ ret \in [Subs -> {"subscribe", "live"}] /\ cursor \in [Subs -> Nat]
      /\ ptrs \in [Subs -> SUBSET Messages] /\ items \in [Subs -> Seq(Messages)]
      /\ globalBacklog \subseteq Messages /\ Nil \notin Nat
      /\ ret[s] \in {"subscribe", "live"} /\ cursor[s] \in Nat
      /\ ptrs[s] \subseteq Messages /\ items[s] \in Seq(Messages)
  BY SubscriberAssumption DEF TypeOK, StoreTypeOK
<1>2. /\ wire' = wire /\ from' = from /\ listening' = listening
      /\ Retained' = Retained /\ \A p : Resolves(p)' <=> Resolves(p)
  <2>1. wire' = wire /\ from' = from /\ listening' = listening
    BY DEF CheckId, ListPointers, FetchMessage, FetchDone, EmitNext, EmitSkip,
       EmitOutOfOrder, EmitDone, storeVars
  <2>. QED BY <2>1, StoreKept DEF Step
<1>3. Range(<<>>) = {} /\ Sorted(<<>>)
  BY DEF Range, Sorted
<1>4. /\ Position(s) \in Nat \cup {Nil}
      /\ pc[s] \in Working => Position(s) = cursor[s]
  BY PositionType DEF Ordered, Placed
<1>5. \A m \in Messages : m.gid \in Nat /\ m \in Messages
  BY DEF Messages
<1>6. \A m \in Retained : m \in Messages /\ m \in globalBacklog
  BY RetainedFacts
<1>7. ASSUME delivered' = delivered
      PROVE  Position(s)' = Position(s) /\ Given(s)' = Given(s)
  BY <1>2, <1>7, PositionKept
<1>8. ASSUME pc[s] \in CatchUp, pc'[s] \in CatchUp, ret'[s] = ret[s]
      PROVE  Linked(s)'
  BY <1>2, <1>8 DEF Complete, Linked, CatchUp
<1>9. ASSUME delivered' = delivered, pc'[s] # "live",
             \A m \in Retained :
               m.gid > Position(s) /\ Position(s) # Nil => OnItsWay(s, m)'
      PROVE  Covered(s)'
  BY <1>2, <1>7, <1>9 DEF Complete, Covered
<1>10. CASE CheckId(s)
  <2>1. /\ pc[s] = "check" /\ pc'[s] = "list" /\ ret' = ret
        /\ ptrs' = ptrs /\ items' = items /\ delivered' = delivered
    BY <1>1, <1>10 DEF CheckId, Goto
  <2>2. Covered(s)'
    BY <1>9, <2>1 DEF OnItsWay
  <2>. QED BY <1>2, <1>8, <2>1, <2>2 DEF Complete, Lined, CatchUp, Sorted
<1>11. CASE ListPointers(s)
  <2>1. /\ pc[s] = "list" /\ pc'[s] = "fetch" /\ ret' = ret
        /\ ptrs'[s] = {p \in globalBacklog : p.gid > cursor[s]}
        /\ items'[s] = <<>> /\ delivered' = delivered
    BY <1>1, <1>11 DEF ListPointers, Goto
  <2>2. Lined(s)'
    <3>1. \A p, q \in ptrs'[s] : p.gid = q.gid => p = q
      BY <2>1 DEF Consistent, CountersKept, OneMessagePerId
    <3>. QED BY <1>2, <1>3, <2>1, <3>1 DEF Lined
  <2>3. Covered(s)'
    <3>1. Position(s) = cursor[s]
      BY <1>4, <2>1 DEF Working
    <3>2. \A m \in Retained : m.gid > Position(s) => m \in Pending(s)'
      BY <1>6, <2>1, <3>1 DEF Pending
    <3>. QED BY <1>9, <2>1, <3>2 DEF OnItsWay
  <2>. QED BY <1>8, <2>1, <2>2, <2>3 DEF Complete, CatchUp
<1>12. CASE FetchMessage(s)
  <2>1. PICK p \in ptrs[s] :
          /\ \A q \in ptrs[s] : p.gid <= q.gid
          /\ ptrs' = [ptrs EXCEPT ![s] = @ \ {p}]
          /\ \/ \E m \in GetMessage(p.chan, p.mid) :
                  items' = [items EXCEPT ![s] = Append(@, m)]
             \/ /\ GetMessage(p.chan, p.mid) = {}
                /\ UNCHANGED items
    BY <1>12 DEF FetchMessage
  <2>2. pc[s] = "fetch" /\ UNCHANGED <<pc, ret, cursor, highest, delivered>>
    BY <1>12 DEF FetchMessage
  <2>3. /\ p \in Messages /\ Resolves(p) /\ ptrs'[s] = ptrs[s] \ {p}
        /\ \A q \in ptrs'[s] : p.gid < q.gid
    <3>1. \A q \in ptrs[s] : p.gid = q.gid => p = q
      BY DEF Complete, Lined
    <3>. QED BY <1>1, <1>5, <2>1, <3>1 DEF Complete, Lined
  <2>4. CASE items'[s] = Append(items[s], p)
    <3>1. Range(items'[s]) = Range(items[s]) \cup {p} /\ Sorted(items'[s])
      <4>1. \A m \in Range(items[s]) : m.gid < p.gid
        BY DEF Complete, Lined
      <4>. QED BY <1>1, <2>3, <2>4, <4>1, Appended, SortedAppended
               DEF Complete, Lined
    <3>2. Lined(s)'
      BY <1>2, <2>2, <2>3, <3>1 DEF Complete, Lined
    <3>3. Pending(s)' = Pending(s)
      BY <2>3, <3>1 DEF Pending
    <3>4. Covered(s)'
      BY <1>2, <1>9, <2>2, <3>3 DEF Complete, Covered, OnItsWay
    <3>. QED BY <1>8, <2>2, <3>2, <3>4 DEF Complete, CatchUp
  <2>5. CASE GetMessage(p.chan, p.mid) = {} /\ items' = items
    <3>1. Lined(s)'
      BY <1>2, <2>2, <2>3, <2>5 DEF Complete, Lined, Sorted
    <3>2. /\ Pending(s)' \subseteq Pending(s)
          /\ Pending(s) \subseteq Pending(s)' \cup {p}
      BY <2>3, <2>5 DEF Pending
    <3>3. p \notin Retained
      BY <2>5, RetainedFacts DEF GetMessage
    <3>4. Covered(s)'
      BY <1>2, <1>9, <2>2, <3>2, <3>3 DEF Complete, Covered, OnItsWay
    <3>. QED BY <1>8, <2>2, <3>1, <3>4 DEF Complete, CatchUp
  <2>6. items'[s] = Append(items[s], p)
          \/ (GetMessage(p.chan, p.mid) = {} /\ items' = items)
    BY <1>1, <2>1, <2>3 DEF Resolves
  <2>. QED BY <2>4, <2>5, <2>6
<1>13. CASE FetchDone(s)
  <2>1. /\ pc[s] = "fetch" /\ pc'[s] = "emit" /\ ret' = ret /\ ptrs[s] = {}
        /\ ptrs' = ptrs /\ items' = items /\ delivered' = delivered
    BY <1>1, <1>13 DEF FetchDone, Goto
  <2>2. Covered(s)'
    BY <1>2, <1>9, <2>1 DEF Complete, Covered, OnItsWay, Pending
  <2>. QED BY <1>2, <1>8, <2>1, <2>2 DEF Complete, Lined, CatchUp, Sorted
<1>14. ASSUME items[s] # <<>>, pc[s] = "emit"
       PROVE  /\ Head(items[s]) \in Messages
              /\ Range(items[s]) = Range(Tail(items[s])) \cup {Head(items[s])}
              /\ Sorted(Tail(items[s]))
              /\ \A m \in Range(Tail(items[s])) : Head(items[s]).gid < m.gid
              /\ Pending(s) = Range(items[s]) /\ ptrs[s] = {}
              /\ \A m \in Range(items[s]) : m \in Messages /\ m.gid \in Nat
  <2>1. /\ Head(items[s]) \in Messages
        /\ Range(items[s]) = Range(Tail(items[s])) \cup {Head(items[s])}
    BY <1>1, <1>14, HeadRead
  <2>2. /\ Sorted(Tail(items[s]))
        /\ \A m \in Range(Tail(items[s])) : Head(items[s]).gid < m.gid
    BY <1>1, <1>14, SortedRead DEF Complete, Lined
  <2>3. ptrs[s] = {}
    BY <1>14 DEF Complete, Lined
  <2>4. Range(items[s]) \subseteq Messages
    BY <1>1, RangeOfSeq
  <2>. QED BY <1>5, <2>1, <2>2, <2>3, <2>4 DEF Pending
<1>15. CASE EmitNext(s)
  <2> DEFINE old == Head(items[s])
  <2>1. /\ pc[s] = "emit" /\ items[s] # <<>> /\ pc' = pc /\ ptrs' = ptrs
        /\ ret' = ret
        /\ old.gid = cursor[s] + 1 \/ old.gid > cursor[s]
        /\ Yield(s, old) /\ items'[s] = Tail(items[s])
    BY <1>1, <1>15 DEF EmitNext
  <2>2. old \in Messages /\ old.gid \in Nat /\ old.gid > Position(s)
        /\ Position(s) = cursor[s]
    BY <1>1, <1>4, <1>5, <1>14, <2>1 DEF Working
  <2>3. Position(s)' = old.gid /\ Given(s)' = Given(s) \cup {old}
    BY <2>1, <2>2, Yielded DEF Ordered
  <2>4. Lined(s)'
    BY <1>2, <1>14, <2>1 DEF Complete, Lined
  <2>5. Pending(s)' = Range(Tail(items[s]))
    BY <1>14, <2>1 DEF Pending
  <2> HIDE DEF old
  <2>6. ASSUME NEW m \in Retained, m.gid > cursor[s]
        PROVE  \/ m = old
               \/ m.gid > old.gid /\ OnItsWay(s, m)'
    <3>1. OnItsWay(s, m) /\ m.gid \in Nat
      BY <1>1, <1>5, <1>6, <2>2, <2>6 DEF Complete, Covered
    <3>2. CASE m \in Pending(s)
      <4>1. m = old \/ m \in Range(Tail(items[s]))
        BY <1>14, <2>1, <3>2 DEF old
      <4>2. m \in Range(Tail(items[s])) => m.gid > old.gid
        BY <1>14, <2>1, <2>2, <3>1 DEF old
      <4>. QED BY <2>1, <2>5, <4>1, <4>2 DEF OnItsWay
    <3>3. CASE m \notin Pending(s)
      <4>1. /\ \A q \in Pending(s) : q.gid < m.gid
            /\ ret[s] = "live" => m \in Range(wire[s])
        BY <2>1, <3>1, <3>3 DEF OnItsWay
      <4>2. old \in Pending(s) /\ Pending(s)' \subseteq Pending(s)
        BY <1>14, <2>1, <2>5 DEF old
      <4>3. old.gid < m.gid
        BY <4>1, <4>2
      <4>. QED BY <1>2, <2>1, <2>2, <3>1, <4>1, <4>2, <4>3 DEF OnItsWay
    <3>. QED BY <3>2, <3>3
  <2>7. ASSUME NEW m \in Retained, m.gid > old.gid PROVE OnItsWay(s, m)'
    <3>1. m.gid > cursor[s] /\ m # old
      BY <1>1, <1>5, <1>6, <2>2, <2>7
    <3>. QED BY <2>6, <3>1
  <2>8. ASSUME NEW m \in Retained, from[s] # Nil, from[s] < m.gid,
               m.gid <= old.gid
        PROVE  m \in Given(s)'
    <3>1. m.gid \in Nat
      BY <1>5, <1>6
    <3>2. CASE m.gid <= Position(s)
      BY <2>3, <2>8, <3>2 DEF Complete, Covered
    <3>3. CASE ~(m.gid <= Position(s))
      <4>1. m.gid > cursor[s] /\ ~(m.gid > old.gid)
        BY <1>1, <2>2, <2>8, <3>1, <3>3
      <4>. QED BY <2>3, <2>6, <4>1
    <3>. QED BY <3>2, <3>3
  <2>9. Covered(s)'
    BY <1>1, <1>2, <2>1, <2>2, <2>3, <2>7, <2>8 DEF Covered
  <2>. QED BY <1>8, <2>1, <2>4, <2>9 DEF Complete, CatchUp
<1>16. CASE EmitSkip(s)
  <2>1. /\ pc[s] = "emit" /\ items[s] # <<>> /\ pc' = pc /\ ptrs' = ptrs
        /\ ret' = ret /\ Head(items[s]).gid <= cursor[s]
        /\ delivered' = delivered /\ items'[s] = Tail(items[s])
    BY <1>1, <1>16 DEF EmitSkip
  <2>2. Position(s) = cursor[s]
    BY <1>4, <2>1 DEF Working
  <2>3. Lined(s)'
    BY <1>2, <1>14, <2>1 DEF Complete, Lined
  <2>4. /\ Pending(s)' \subseteq Pending(s)
        /\ Pending(s) \subseteq Pending(s)' \cup {Head(items[s])}
    BY <1>14, <2>1 DEF Pending
  <2>5. ASSUME NEW m \in Retained, m.gid > Position(s)
        PROVE  OnItsWay(s, m)'
    <3>1. OnItsWay(s, m)
      BY <1>1, <2>2, <2>5 DEF Complete, Covered
    <3>2. m # Head(items[s])
      BY <1>1, <1>5, <1>6, <2>1, <2>2, <2>5
    <3>. QED BY <1>2, <2>1, <2>4, <3>1, <3>2 DEF OnItsWay
  <2>6. Covered(s)'
    BY <1>9, <2>1, <2>5
  <2>. QED BY <1>8, <2>1, <2>3, <2>6 DEF Complete, CatchUp
<1>17. CASE EmitOutOfOrder(s)
  <2>1. /\ pc[s] = "emit" /\ pc'[s] = "check" /\ ret' = ret /\ ptrs' = ptrs
        /\ items'[s] = <<>> /\ delivered' = delivered
    BY <1>1, <1>17 DEF EmitOutOfOrder, Goto
  <2>2. Covered(s)'
    BY <1>9, <2>1 DEF OnItsWay
  <2>. QED BY <1>2, <1>3, <1>8, <2>1, <2>2 DEF Complete, Lined, CatchUp
<1>18. CASE EmitDone(s)
  <2>1. /\ pc[s] = "emit" /\ pc'[s] = ret[s] /\ ret' = ret /\ ptrs' = ptrs
        /\ items' = items /\ items[s] = <<>> /\ delivered' = delivered
    BY <1>1, <1>18 DEF EmitDone, Goto
  <2>2. Lined(s)'
    BY <1>1, <1>2, <2>1 DEF Complete, Lined, Sorted
  <2>3. Linked(s)'
    BY <1>1, <1>2, <2>1 DEF Complete, Linked, CatchUp
  <2>4. Pending(s) = {}
    BY <1>3, <2>1 DEF Complete, Lined, Pending
  <2>5. \A m \in Retained : OnItsWay(s, m) => OnItsWay(s, m)'
    BY <1>1, <1>2, <2>1, <2>4 DEF OnItsWay
  <2>6. Position(s) # Nil
    BY <1>1, <1>4, <2>1 DEF Working
  <2>7. Covered(s)'
    BY <1>2, <1>7, <2>1, <2>5, <2>6 DEF Complete, Covered
  <2>. QED BY <2>2, <2>3, <2>7 DEF Complete
<1>. QED BY <1>10, <1>11, <1>12, <1>13, <1>15, <1>16, <1>17, <1>18

\* On the connection: what is pushed from SUBSCRIBE on is read once the second
\* catch-up is over, and read from the backlog again after a connection is lost.
LEMMA CompleteConnection ==
  ASSUME TypeOK, Consistent, NEW s \in Subs, Ordered(s), Complete(s),
         \/ \E last \in 0..MaxId \cup {Nil} : Start(s, last)
         \/ Connect(s) \/ Subscribe(s)
         \/ ReceiveNext(s) \/ ReceiveOutOfOrder(s) \/ ReceiveUnsub(s)
         \/ ConnectionLost(s) \/ Reconnect(s) \/ Unsubscribe(s)
  PROVE  Complete(s)'
<1>1. /\ pc \in [Subs -> PCs] /\ highest \in [Subs -> Nat \cup {Nil}]
      /\ ret \in [Subs -> {"subscribe", "live"}]
      /\ ptrs \in [Subs -> SUBSET Messages] /\ items \in [Subs -> Seq(Messages)]
      /\ wire \in [Subs -> Seq(Messages \cup {UnsubMessage})]
      /\ from \in [Subs -> Nat \cup {Nil}]
      /\ Nil \notin Nat /\ StoreTypeOK
  BY SubscriberAssumption DEF TypeOK, StoreTypeOK
<1>2. Retained' = Retained /\ \A p : Resolves(p)' <=> Resolves(p)
  BY StoreKept DEF Step, Environment
<1>3. Range(<<>>) = {} /\ Sorted(<<>>)
  BY DEF Range, Sorted
<1>4. /\ Position(s) \in Nat \cup {Nil}
      /\ pc[s] # "emit" => Position(s) = highest[s]
  BY PositionType DEF Ordered, Placed
<1>5. \A m \in Retained : m \in Messages /\ m.gid \in Nat
  BY RetainedFacts
<1>6. ASSUME delivered' = delivered, from' = from
      PROVE  Position(s)' = Position(s) /\ Given(s)' = Given(s)
  BY <1>6, PositionKept
<1>7. ASSUME ptrs'[s] = ptrs[s] /\ items'[s] = items[s], pc'[s] # "emit"
      PROVE  Lined(s)'
  BY <1>2, <1>7 DEF Complete, Lined, Sorted
<1>8. ASSUME s \notin listening', wire'[s] = <<>>, pc'[s] # "live",
             ~(pc'[s] \in CatchUp /\ ret'[s] = "live")
      PROVE  Linked(s)'
  BY <1>3, <1>8 DEF Linked
<1>9. ASSUME delivered' = delivered, from' = from,
             pc'[s] \notin {"live", "fetch", "emit"}
      PROVE  Covered(s)'
  BY <1>2, <1>6, <1>9 DEF Complete, Covered, OnItsWay
<1>10. ASSUME NEW last \in 0..MaxId \cup {Nil}, Start(s, last)
       PROVE  Complete(s)'
  <2>1. /\ pc[s] = "idle" /\ pc'[s] = "connect" /\ from'[s] = last
        /\ ptrs' = ptrs /\ items' = items /\ delivered' = delivered
        /\ listening' = listening /\ wire' = wire /\ last \in Nat \cup {Nil}
    BY <1>1, <1>10, StoreAssumption DEF Start, Goto, storeVars
  <2>2. delivered[s] = <<>>
    <3>1. Position(s) = Nil
      BY <1>4, <2>1 DEF Ordered, Placed
    <3>. QED BY <1>1, <3>1, PositionType
  <2>3. Position(s)' = last
    BY <2>1, <2>2 DEF Position
  <2>4. Covered(s)'
    BY <1>1, <1>2, <1>5, <2>1, <2>3 DEF Covered, OnItsWay
  <2>5. s \notin listening /\ wire[s] = <<>>
    BY <2>1 DEF Complete, Linked, CatchUp
  <2>. QED BY <1>7, <1>8, <2>1, <2>4, <2>5 DEF Complete, CatchUp
<1>11. CASE Connect(s)
  <2>1. /\ pc[s] = "connect" /\ ptrs' = ptrs /\ items' = items
        /\ delivered' = delivered /\ from' = from
        /\ listening' = listening /\ wire' = wire
        /\ pc'[s] = "subscribe" \/ (pc'[s] = "check" /\ ret'[s] = "subscribe")
    BY <1>1, <1>11 DEF Connect, ClearBacklog, Goto, storeVars
  <2>2. s \notin listening /\ wire[s] = <<>>
    BY <2>1 DEF Complete, Linked, CatchUp
  <2>. QED BY <1>7, <1>8, <1>9, <2>1, <2>2 DEF Complete, CatchUp
<1>12. CASE Subscribe(s)
  <2>1. /\ pc[s] = "subscribe" /\ ptrs' = ptrs /\ items' = items
        /\ delivered' = delivered /\ from' = from
        /\ listening' = listening \cup {s} /\ wire' = wire
        /\ \/ pc'[s] = "check" /\ ret'[s] = "live"
           \/ pc'[s] = "live" /\ highest[s] = Nil
    BY <1>1, <1>12 DEF Subscribe, ClearBacklog, Goto
  <2>2. wire[s] = <<>>
    BY <2>1 DEF Complete, Linked, CatchUp
  <2>3. Linked(s)'
    BY <1>3, <2>1, <2>2 DEF Linked, CatchUp
  <2>4. Covered(s)'
    <3>1. CASE pc'[s] = "check"
      BY <1>9, <2>1, <3>1
    <3>2. CASE pc'[s] # "check"
      <4>1. Position(s) = Nil
        BY <1>4, <2>1, <3>2
      <4>. QED BY <1>2, <1>6, <2>1, <2>2, <4>1 DEF Complete, Covered
    <3>. QED BY <3>1, <3>2
  <2>5. pc'[s] # "emit"
    BY <2>1
  <2>. QED BY <1>7, <2>1, <2>3, <2>4, <2>5 DEF Complete
<1>13. ASSUME Readable(s), Consume(s)
       PROVE  /\ pc[s] = "live" /\ wire[s] # <<>> /\ wire'[s] = Tail(wire[s])
              /\ Range(wire[s]) = Range(wire'[s]) \cup {Head(wire[s])}
              /\ Head(wire[s]) \in Messages \cup {UnsubMessage}
              /\ listening' = listening /\ s \in listening
  <2>1. wire[s] \in Seq(Messages \cup {UnsubMessage}) /\ wire[s] # <<>>
    BY <1>1, <1>13 DEF Readable
  <2>2. /\ Head(wire[s]) \in Messages \cup {UnsubMessage}
        /\ Range(wire[s]) = Range(Tail(wire[s])) \cup {Head(wire[s])}
    BY <2>1, HeadRead
  <2>3. pc[s] = "live" /\ s \in listening
    BY <1>13 DEF Readable, Complete, Linked
  <2>. QED BY <1>1, <1>13, <2>1, <2>2, <2>3 DEF Consume
<1>14. CASE ReceiveNext(s)
  <2> DEFINE m == Head(wire[s])
  <2>1. /\ Readable(s) /\ Consume(s) /\ InOrder(s) /\ m # UnsubMessage
        /\ Yield(s, m)
        /\ from'[s] = IF from[s] = Nil THEN m.gid - 1 ELSE from[s]
        /\ UNCHANGED <<pc, ptrs, items, ret>>
    BY <1>1, <1>14 DEF ReceiveNext
  <2>2. m \in Messages /\ m.gid \in Nat /\ m.gid - 1 \in Nat
    <3>1. m \in Messages
      BY <1>13, <2>1
    <3>. QED BY <3>1 DEF Messages
  <2>3. Position(s) # Nil => m.gid = Position(s) + 1
    BY <1>4, <1>13, <2>1 DEF InOrder
  <2>4. Position(s)' = m.gid /\ Given(s)' = Given(s) \cup {m}
    <3>1. Position(s) # Nil => m.gid > Position(s)
      BY <1>4, <2>3
    <3>. QED BY <2>1, <2>2, <3>1, Yielded DEF Ordered
  <2>5. m \in Range(wire[s]) /\ \A r \in Retained : r.gid = m.gid => r = m
    BY <1>13, <2>1 DEF Complete, Linked
  <2>6. \A r \in Range(wire[s]) : r # m => r \in Range(wire'[s])
    BY <1>13, <2>1
  <2>7. Lined(s)'
    BY <1>7, <1>13, <2>1
  <2>8. Linked(s)'
    BY <1>2, <1>13, <2>1 DEF Complete, Linked
  <2>9. Head(wire[s]) = m
    OBVIOUS
  <2> HIDE DEF m
  <2>10. ASSUME NEW r \in Retained, r.gid > m.gid PROVE OnItsWay(s, r)'
    <3>1. r \in Range(wire[s])
      <4>1. CASE Position(s) = Nil
        BY <1>13, <2>1, <2>9, <2>10, <4>1 DEF Complete, Covered
      <4>2. CASE Position(s) # Nil
        <5>1. r.gid > Position(s)
          BY <1>4, <1>5, <2>3, <2>10, <4>2
        <5>. QED BY <1>13, <2>1, <4>2, <5>1 DEF Complete, Covered, OnItsWay
      <4>. QED BY <4>1, <4>2
    <3>2. r # m
      BY <1>5, <2>2, <2>10
    <3>. QED BY <1>13, <2>1, <2>6, <3>1, <3>2 DEF OnItsWay
  <2>11. ASSUME NEW r \in Retained, from'[s] < r.gid, r.gid <= m.gid
         PROVE  r \in Given(s)'
    <3>1. CASE from[s] = Nil
      <4>1. r.gid = m.gid
        BY <1>5, <2>1, <2>2, <2>11, <3>1
      <4>. QED BY <2>4, <2>5, <4>1
    <3>2. CASE from[s] # Nil
      <4>1. Position(s) # Nil
        BY <3>2 DEF Ordered, Placed
      <4>2. r.gid <= Position(s) \/ r.gid = m.gid
        BY <1>4, <1>5, <2>2, <2>3, <2>11, <4>1
      <4>3. from[s] < r.gid
        BY <2>1, <2>11, <3>2
      <4>. QED BY <2>4, <2>5, <3>2, <4>2, <4>3 DEF Complete, Covered
    <3>. QED BY <3>1, <3>2
  <2>12. Covered(s)'
    BY <1>1, <1>2, <2>2, <2>4, <2>10, <2>11 DEF Covered
  <2>. QED BY <2>7, <2>8, <2>12 DEF Complete
<1>15. CASE ReceiveOutOfOrder(s)
  <2>1. /\ Readable(s) /\ Consume(s)
        /\ UNCHANGED <<ptrs, items, delivered, from>>
        /\ pc'[s] = "check" /\ ret'[s] = "live"
    BY <1>1, <1>15 DEF ReceiveOutOfOrder, ClearBacklog, Goto
  <2>2. Linked(s)'
    BY <1>2, <1>13, <2>1 DEF Complete, Linked, CatchUp
  <2>. QED BY <1>7, <1>9, <2>1, <2>2 DEF Complete
<1>16. CASE ReceiveUnsub(s)
  <2>1. /\ UNCHANGED <<ptrs, items, delivered, from>> /\ pc'[s] = "done"
        /\ s \notin listening' /\ wire'[s] = <<>>
    BY <1>1, <1>16 DEF ReceiveUnsub, Unlisten, Goto
  <2>. QED BY <1>7, <1>8, <1>9, <2>1 DEF Complete, CatchUp
<1>17. CASE ConnectionLost(s)
  <2>1. /\ UNCHANGED <<delivered, from>> /\ pc'[s] = "sleep"
        /\ s \notin listening' /\ wire'[s] = <<>>
        /\ ptrs'[s] = {} /\ items'[s] = <<>>
    BY <1>1, <1>17 DEF ConnectionLost, Unlisten, Goto
  <2>2. Lined(s)'
    BY <1>3, <2>1 DEF Lined
  <2>. QED BY <1>8, <1>9, <2>1, <2>2 DEF Complete, CatchUp
<1>18. CASE Reconnect(s)
  <2>1. /\ UNCHANGED <<ptrs, items, delivered, from, listening, wire>>
        /\ pc[s] = "sleep" /\ pc'[s] = "connect"
    BY <1>1, <1>18 DEF Reconnect, Goto, storeVars
  <2>2. s \notin listening /\ wire[s] = <<>>
    BY <2>1 DEF Complete, Linked, CatchUp
  <2>. QED BY <1>7, <1>8, <1>9, <2>1, <2>2 DEF Complete, CatchUp
<1>19. CASE Unsubscribe(s)
  <2>1. /\ UNCHANGED <<pc, ret, ptrs, items, delivered, from, listening>>
        /\ wire' = Pushed(UnsubMessage)
    BY <1>19 DEF Unsubscribe, GlobalUnsubscribe
  <2>. QED BY <1>2, <2>1, CompleteUnpushed
<1>. QED BY <1>10, <1>11, <1>12, <1>14, <1>15, <1>16, <1>17, <1>18, <1>19

\* What holds until a key expires or the bus is reset.
FeedInv ==
  /\ OrderInv
  /\ Quiet => /\ \A p \in globalBacklog : Resolves(p)
              /\ \A s \in Subs : Complete(s)

\* Nothing is published and nobody listens.
LEMMA FeedInit == Init => FeedInv
<1> SUFFICES ASSUME Init PROVE FeedInv
  OBVIOUS
<1>1. globalBacklog = {}
  BY DEF Init, StoreInit
<1>2. Retained = {}
  BY <1>1 DEF Retained
<1>3. ASSUME NEW s \in Subs PROVE Complete(s)
  <2>1. /\ pc[s] = "idle" /\ items[s] = <<>> /\ ptrs[s] = {} /\ wire[s] = <<>>
        /\ listening = {} /\ Range(<<>>) = {}
    BY DEF Init, StoreInit, Range
  <2>. QED BY <1>2, <2>1 DEF Complete, Lined, Linked, Covered, Sorted, CatchUp
<1>. QED BY <1>1, <1>3, OrderInit DEF FeedInv

\* Time does not go back.
LEMMA TicksKept ==
  ASSUME TypeOK, OrderInv, [Next]_vars, Quiet'
  PROVE  Quiet
<1>1. resets = 0
  BY ResetsKept DEF Quiet
<1>2. CASE StoreNext
  BY <1>1, <1>2, StoreSteps DEF OrderInv, StoreNext, Quiet
<1>3. ASSUME NEW s \in Subs, Step(s) \/ Environment(s) PROVE ticks' = ticks
  BY <1>3, SubscriberSteps
<1>4. CASE UNCHANGED vars
  BY <1>4 DEF vars, storeVars, Quiet
<1>. QED BY <1>1, <1>2, <1>3, <1>4 DEF Next, Quiescent, Quiet

\* Every step keeps it.
LEMMA FeedNext == FeedInv /\ [Next]_vars => FeedInv'
<1> SUFFICES ASSUME FeedInv, [Next]_vars PROVE FeedInv'
  OBVIOUS
<1>1. OrderInv /\ OrderInv' /\ TypeOK /\ TypeOK'
  BY OrderNext DEF FeedInv, OrderInv
<1>2. ASSUME Quiet'
      PROVE  /\ \A p \in globalBacklog' : Resolves(p)'
             /\ \A s \in Subs : Complete(s)'
  <2>1. /\ Quiet /\ Consistent /\ Consistent' /\ ticks' = 0 /\ resets' = 0
        /\ \A p \in globalBacklog : Resolves(p)
        /\ \A s \in Subs : Ordered(s) /\ Complete(s)
    BY <1>1, <1>2, TicksKept DEF Quiet, OrderInv, FeedInv
  <2>2. CASE StoreNext
    BY <1>1, <2>1, <2>2, ResolvesKept, CompleteStore DEF StoreNext
  <2>3. ASSUME NEW s \in Subs, Step(s) \/ Environment(s)
        PROVE  /\ \A p \in globalBacklog' : Resolves(p)'
               /\ \A t \in Subs : Complete(t)'
    <3>1. Complete(s)'
      BY <1>1, <2>1, <2>3, CompleteBacklog, CompleteConnection
         DEF Step, Environment
    <3>2. \A t \in Subs : t # s => Complete(t)'
      BY <1>1, <2>1, <2>3, CompleteOther
    <3>. QED BY <2>1, <2>3, <3>1, <3>2, StoreKept, SubscriberSteps
  <2>4. CASE UNCHANGED vars
    <3>1. /\ UNCHANGED <<globalId, backlogId, backlog, globalBacklog, listening,
                         wire>>
          /\ UNCHANGED localVars
      BY <2>4 DEF vars, storeVars
    <3>2. Retained' = Retained /\ \A p : Resolves(p)' <=> Resolves(p)
      BY <3>1 DEF Retained, Resolves, GetMessage
    <3>. QED BY <1>1, <2>1, <3>1, <3>2, CompleteUnpushed DEF localVars
  <2>. QED BY <2>2, <2>3, <2>4 DEF Next, Quiescent
<1>. QED BY <1>1, <1>2 DEF FeedInv

\* Until a key expires or the bus is reset, what is retained has been given to
\* each subscriber or is on its way.
THEOREM FeedAlways == Spec => []FeedInv
BY FeedInit, FeedNext, PTL DEF Spec

\* A subscriber with nothing to read has been given every retained message
\* after its start, however publications, trims and purges fall between the
\* reads of its catch-ups and its SUBSCRIBE, and however often the connection
\* is lost (redis.rb:270-383).
THEOREM CaughtUpWhileQuiet == Spec => [](Quiet => CaughtUp)
<1>1. FeedInv => (Quiet => CaughtUp)
  <2> SUFFICES ASSUME FeedInv, Quiet, NEW s \in Subs, pc[s] = "live",
                      wire[s] = <<>>, from[s] # Nil,
                      NEW m \in Retained, m.gid > from[s]
               PROVE  m \in Given(s)
    BY DEF CaughtUp
  <2>1. TypeOK /\ Consistent /\ Ordered(s) /\ Complete(s)
    BY DEF FeedInv, OrderInv, Quiet
  <2>2. Position(s) \in Nat /\ from[s] \in Nat /\ m.gid \in Nat
    BY <2>1, PositionType, RetainedFacts DEF Ordered, Placed, TypeOK
  <2>3. CASE m.gid <= Position(s)
    BY <2>1, <2>2, <2>3 DEF Complete, Covered
  <2>4. CASE ~(m.gid <= Position(s))
    <3>1. Position(s) # Nil /\ m.gid > Position(s)
      BY <2>1, <2>2, <2>4 DEF Ordered, Placed
    <3>2. m \in Range(wire[s])
      BY <2>1, <3>1 DEF Complete, Covered, OnItsWay
    <3>. QED BY <3>2 DEF Range
  <2>. QED BY <2>3, <2>4
<1>. QED BY <1>1, FeedAlways, PTL

-----------------------------------------------------------------------------
(* The abstract feed.                                                      *)

\* The feed's variables, as the store and the subscribers hold them.
positions == [s \in Subs |-> Position(s)]
retainedIds == {m.gid : m \in Retained}

\* One subscriber's position moves.
LEMMA PositionMoved ==
  ASSUME TypeOK, NEW s \in Subs, Step(s) \/ Environment(s), NEW n,
         Position(s)' = n
  PROVE  /\ positions' = [positions EXCEPT ![s] = n]
         /\ retainedIds' = retainedIds /\ globalId' = globalId
<1>1. \A t \in Subs : t # s => Position(t)' = Position(t)
  BY OthersKept, PositionKept
<1>2. positions' = [positions EXCEPT ![s] = n]
  BY <1>1 DEF positions
<1>. QED BY <1>2, StoreKept, SubscriberSteps DEF retainedIds

\* What the loop yields is the first retained message after the position.
LEMMA EmitDelivers ==
  ASSUME TypeOK, Consistent, NEW s \in Subs, Ordered(s), Complete(s),
         EmitNext(s)
  PROVE  \E n \in 1..globalId :
           /\ Position(s)' = n
           /\ Position(s) # Nil => n > Position(s)
           /\ \A m \in Retained : ~(Position(s) < m.gid /\ m.gid < n)
<1> DEFINE old == Head(items[s])
<1>1. /\ pc[s] = "emit" /\ items[s] # <<>>
      /\ old.gid = cursor[s] + 1 \/ old.gid > cursor[s]
      /\ Yield(s, old)
  BY DEF EmitNext
<1>2. /\ items[s] \in Seq(Messages) /\ cursor[s] \in Nat /\ Nil \notin Nat
      /\ globalId \in Nat
  BY SubscriberAssumption DEF TypeOK, StoreTypeOK
<1>3. /\ old \in Messages
      /\ Range(items[s]) = Range(Tail(items[s])) \cup {old}
  BY <1>1, <1>2, HeadRead
<1>4. \A m \in Range(Tail(items[s])) : old.gid < m.gid
  BY <1>1, <1>2, SortedRead DEF Complete, Lined
<1>5. Pending(s) = Range(items[s])
  BY <1>1 DEF Complete, Lined, Pending
<1>6. Position(s) = cursor[s] /\ old.gid \in Nat \ {0} /\ old.gid > cursor[s]
  BY <1>1, <1>2, <1>3 DEF Ordered, Placed, Working, Messages
<1>7. Position(s)' = old.gid
  BY <1>1, <1>2, <1>3, <1>6, Yielded DEF Ordered
<1>8. old.gid <= globalId
  BY <1>3, <1>5 DEF Ordered, Numbers
<1> HIDE DEF old
<1>9. ASSUME NEW m \in Retained, Position(s) < m.gid, m.gid < old.gid
      PROVE  FALSE
  <2>1. m.gid \in Nat /\ OnItsWay(s, m)
    <3>1. m.gid \in Nat
      BY RetainedFacts
    <3>. QED BY <1>2, <1>6, <1>9, <3>1 DEF Complete, Covered
  <2>2. m \in Range(items[s])
    <3>1. old \in Pending(s)
      BY <1>3, <1>5
    <3>. QED BY <1>1, <1>5, <1>6, <1>9, <2>1, <3>1 DEF OnItsWay
  <2>. QED BY <1>3, <1>4, <1>6, <1>9, <2>1, <2>2
<1>10. old.gid \in 1..globalId
  BY <1>2, <1>6, <1>8
<1>. QED BY <1>6, <1>7, <1>9, <1>10

\* What is read in order from the connection is the next message, or the first.
LEMMA ReceiveDelivers ==
  ASSUME TypeOK, Consistent, NEW s \in Subs, Ordered(s), ReceiveNext(s)
  PROVE  \E n \in 1..globalId :
           /\ Position(s)' = n
           /\ Position(s) # Nil =>
                n > Position(s)
                  /\ \A m \in Retained : ~(Position(s) < m.gid /\ m.gid < n)
<1> DEFINE m == Head(wire[s])
<1>1. /\ pc[s] = "live" /\ wire[s] # <<>> /\ m # UnsubMessage /\ InOrder(s)
      /\ Yield(s, m)
  BY DEF ReceiveNext, Readable
<1>2. /\ wire[s] \in Seq(Messages \cup {UnsubMessage}) /\ Nil \notin Nat
      /\ globalId \in Nat
  BY SubscriberAssumption DEF TypeOK, StoreTypeOK
<1>3. /\ m \in Messages
      /\ Range(wire[s]) = Range(Tail(wire[s])) \cup {m}
  BY <1>1, <1>2, HeadRead
<1>4. /\ Position(s) = highest[s] /\ Position(s) \in Nat \cup {Nil}
      /\ m.gid \in Nat \ {0}
  BY <1>1, <1>3, PositionType DEF Ordered, Placed, Messages
<1>5. Position(s) # Nil => m.gid = Position(s) + 1
  BY <1>1, <1>4 DEF InOrder
<1>6. Position(s) # Nil => m.gid > Position(s)
  BY <1>4, <1>5
<1>7. Position(s)' = m.gid
  BY <1>1, <1>3, <1>6, Yielded DEF Ordered
<1>8. m.gid \in 1..globalId
  BY <1>1, <1>2, <1>3, <1>4 DEF Ordered, Numbers
<1> HIDE DEF m
<1>9. Position(s) # Nil =>
        \A r \in Retained : ~(Position(s) < r.gid /\ r.gid < m.gid)
  <2>1. \A r \in Retained : r.gid \in Nat
    BY RetainedFacts
  <2>. QED BY <1>4, <1>5, <2>1
<1>. QED BY <1>6, <1>7, <1>8, <1>9

\* The subscriber's other steps leave its position where it is.
LEMMA PositionStays ==
  ASSUME TypeOK, NEW s \in Subs, Step(s) \/ Environment(s),
         ~EmitNext(s), ~ReceiveNext(s),
         \A last \in 0..MaxId \cup {Nil} : ~Start(s, last)
  PROVE  Position(s)' = Position(s)
<1>1. delivered' = delivered /\ from' = from
  BY DEF Step, Environment, Connect, CheckId, ListPointers, FetchMessage,
     FetchDone, EmitSkip, EmitOutOfOrder, EmitDone, Subscribe,
     ReceiveOutOfOrder, ReceiveUnsub, ConnectionLost, Reconnect, Unsubscribe
<1>. QED BY <1>1, PositionKept

\* Every step is a step of the feed, or none.
LEMMA FeedStep ==
  ASSUME FeedInv, Quiet, Quiet', [Next]_vars
  PROVE  [Feed!Next]_(Feed!vars)
<1>1. /\ TypeOK /\ Consistent /\ resets' = 0
      /\ \A s \in Subs : Ordered(s) /\ Complete(s)
  BY DEF FeedInv, OrderInv, Quiet
<1>2. globalId \in Nat /\ \A s \in Subs : positions[s] = Position(s)
  BY <1>1 DEF TypeOK, StoreTypeOK, positions
<1>3. ASSUME UNCHANGED <<globalId, retainedIds, positions>>
      PROVE  UNCHANGED Feed!vars
  BY <1>3 DEF Feed!vars, retainedIds, positions
<1>4. CASE StoreNext
  <2>1. positions' = positions
    BY <1>4 DEF StoreNext, localVars, positions, Position
  <2>2. CASE Shrunk
    <3>1. globalId' = globalId /\ retainedIds' \subseteq retainedIds
      BY <2>2, RetainedShrunk DEF Shrunk, retainedIds
    <3>2. Feed!Forget
      BY <2>1, <3>1 DEF Feed!Forget, retainedIds, positions
    <3>. QED BY <3>2 DEF Feed!Next
  <2>3. ASSUME NEW m \in Messages, Grown(m) PROVE Feed!Publish
    <3>1. /\ globalId' = globalId + 1
          /\ retainedIds' \subseteq retainedIds \cup {globalId'}
      BY <1>1, <2>3, RetainedGrown DEF Grown, retainedIds
    <3>. QED BY <2>1, <3>1 DEF Feed!Publish, retainedIds, positions
  <2>4. (\E m \in Messages : Grown(m)) \/ Shrunk
    BY <1>1, <1>4, StoreSteps DEF StoreNext
  <2>. QED BY <2>2, <2>3, <2>4 DEF Feed!Next
<1>5. ASSUME NEW s \in Subs, Step(s) \/ Environment(s)
      PROVE  [Feed!Next]_(Feed!vars)
  <2>1. ASSUME NEW n \in 1..globalId, Position(s)' = n,
               Position(s) # Nil =>
                 n > Position(s)
                   /\ \A m \in Retained : ~(Position(s) < m.gid /\ m.gid < n)
        PROVE  Feed!Deliver(s)
    <3>1. /\ positions' = [positions EXCEPT ![s] = n]
          /\ retainedIds' = retainedIds /\ globalId' = globalId
      BY <1>1, <1>5, <2>1, PositionMoved
    <3>2. positions[s] # Nil =>
            /\ n > positions[s]
            /\ \A r \in retainedIds : ~(positions[s] < r /\ r < n)
      BY <1>2, <2>1 DEF retainedIds
    <3>. QED BY <3>1, <3>2 DEF Feed!Deliver, retainedIds, positions
  <2>2. CASE EmitNext(s)
    BY <1>1, <2>1, <2>2, EmitDelivers DEF Feed!Next
  <2>3. CASE ReceiveNext(s)
    BY <1>1, <2>1, <2>3, ReceiveDelivers DEF Feed!Next
  <2>4. ASSUME NEW last \in 0..MaxId \cup {Nil}, Start(s, last)
        PROVE  [Feed!Next]_(Feed!vars)
    <3>1. /\ pc[s] = "idle" /\ last \in 0..globalId \cup {Nil}
          /\ from' = [from EXCEPT ![s] = last] /\ delivered' = delivered
      BY <2>4 DEF Start
    <3>2. Position(s) = Nil
      BY <1>1, <3>1 DEF Ordered, Placed
    <3>3. delivered[s] = <<>>
      BY <1>1, <3>2, PositionType, SubscriberAssumption
    <3>4. Position(s)' = last
      BY <1>1, <3>1, <3>3 DEF Position, TypeOK
    <3>5. /\ positions' = [positions EXCEPT ![s] = last]
          /\ retainedIds' = retainedIds /\ globalId' = globalId
      BY <1>1, <1>5, <3>4, PositionMoved
    <3>6. CASE last = Nil
      <4>1. positions' = positions
        BY <1>2, <3>2, <3>5, <3>6 DEF positions
      <4>. QED BY <1>3, <3>5, <4>1
    <3>7. CASE last # Nil
      <4>1. last \in 0..globalId /\ positions[s] = Nil
        BY <1>2, <3>1, <3>2, <3>7
      <4>2. Feed!Join(s)
        BY <3>5, <4>1 DEF Feed!Join, retainedIds, positions
      <4>. QED BY <4>2 DEF Feed!Next
    <3>. QED BY <3>6, <3>7
  <2>5. CASE /\ ~EmitNext(s) /\ ~ReceiveNext(s)
             /\ \A last \in 0..MaxId \cup {Nil} : ~Start(s, last)
    <3>1. Position(s)' = Position(s)
      BY <1>1, <1>5, <2>5, PositionStays
    <3>2. /\ positions' = [positions EXCEPT ![s] = Position(s)]
          /\ retainedIds' = retainedIds /\ globalId' = globalId
      BY <1>1, <1>5, <3>1, PositionMoved
    <3>3. positions' = positions
      BY <1>2, <3>2 DEF positions
    <3>. QED BY <1>3, <3>2, <3>3
  <2>. QED BY <2>2, <2>3, <2>4, <2>5
<1>6. CASE UNCHANGED vars
  BY <1>3, <1>6 DEF vars, storeVars, localVars, retainedIds, Retained,
     positions, Position
<1>. QED BY <1>4, <1>5, <1>6 DEF Next, Quiescent

\* Until a key expires or the bus is reset, global_subscribe is the abstract
\* feed: messages in order, each at most once, and none that is still retained
\* passed over (redis.rb:270-383).
THEOREM FeedImplementedWhileQuiet == Spec /\ []Quiet => FeedImplemented
<1>1. Init => Feed!Init
  <2> SUFFICES ASSUME Init PROVE Feed!Init
    OBVIOUS
  <2>1. globalId = 0 /\ Retained = {}
    BY DEF Init, StoreInit, Retained
  <2>2. \A s \in Subs : Position(s) = Nil
    BY DEF Init, Position
  <2>. QED BY <2>1, <2>2 DEF Feed!Init
<1>2. FeedInv /\ Quiet /\ Quiet' /\ [Next]_vars => [Feed!Next]_(Feed!vars)
  BY FeedStep
<1>. QED BY <1>1, <1>2, FeedAlways, PTL DEF Spec, FeedImplemented, Feed!Spec
=============================================================================

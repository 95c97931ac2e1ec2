-------------------------- MODULE PublishQueueProofs --------------------------
(***************************************************************************)
(* Proofs about PublishQueue, for any number of publishers, threads and    *)
(* messages and any bound of the queue.                                    *)
(***************************************************************************)
EXTENDS PublishQueue, SequenceTheorems, TLAPS

-----------------------------------------------------------------------------
(* Typing, and the two facts about locking and threads that it rests on.   *)

\* The thread that publishes holds the mutex, so the queue it looked at is not
\* empty, and a thread that is running is the one @flush_backlog_thread names.
LockHeld ==
  /\ \A t \in Threads : flushPc[t] = "publish" <=> lock = t
  /\ lock # Nobody => queue # <<>>

ThreadNamed == \A t \in Threads : flushPc[t] # "off" => flushThread = t

Safe == TypeOK /\ LockHeld /\ ThreadNamed

\* The initial state is safe.
LEMMA SafeInit == Init => Safe
<1> SUFFICES ASSUME Init PROVE Safe
  OBVIOUS
<1> USE QueueAssumption DEF Init
<1>1. TypeOK
  BY DEF TypeOK
<1>2. LockHeld
  BY DEF LockHeld
<1>3. ThreadNamed
  BY DEF ThreadNamed
<1>. QED BY <1>1, <1>2, <1>3 DEF Safe

\* Every step of a publisher or of a flush thread keeps it.
LEMMA SafeStep == Safe /\ [Next]_vars => Safe'
<1> SUFFICES ASSUME Safe, [Next]_vars PROVE Safe'
  OBVIOUS
<1> USE QueueAssumption DEF Safe
<1>1. CASE Failover
  BY <1>1 DEF Failover, TypeOK, LockHeld, ThreadNamed
<1>2. ASSUME NEW p \in Publishers, Call(p) PROVE Safe'
  BY <1>2 DEF Call, PubGoto, redis, TypeOK, LockHeld, ThreadNamed
<1>3. ASSUME NEW p \in Publishers, Eval(p) PROVE Safe'
  <2>1. msg[p] \in Nat /\ Append(stream, msg[p]) \in Seq(Nat)
    BY AppendProperties DEF TypeOK
  <2>2. TypeOK'
    BY <1>3, <2>1 DEF Eval, PubGoto, redis, TypeOK
  <2>. QED BY <1>3, <2>2 DEF Eval, redis, TypeOK, LockHeld, ThreadNamed
<1>4. ASSUME NEW p \in Publishers, Enqueue(p) PROVE Safe'
  <2> DEFINE longer == Append(queue, msg[p])
  <2>1. /\ msg[p] \in Nat /\ queue \in Seq(Nat) /\ accepted \in Seq(Nat)
        /\ Len(queue) <= MaxQueue /\ dropped \subseteq Nat /\ MaxQueue \in Nat
    BY DEF TypeOK
  <2>2. /\ longer \in Seq(Nat) /\ longer # <<>>
        /\ Len(longer) = Len(queue) + 1 /\ Len(queue) \in Nat
    BY <2>1, AppendProperties, LenProperties
  <2>3. /\ Tail(longer) \in Seq(Nat) /\ Head(longer) \in Nat
        /\ Len(Tail(longer)) = Len(queue)
    <3> HIDE DEF longer
    <3>. QED BY <2>2, HeadTailProperties
  <2>4. /\ queue' = IF Len(longer) > MaxQueue THEN Tail(longer) ELSE longer
        /\ dropped' = IF Len(longer) > MaxQueue THEN dropped \cup {Head(longer)}
                                                ELSE dropped
    BY <1>4 DEF Enqueue
  <2>5. queue' \in Seq(Nat) /\ Len(queue') <= MaxQueue /\ dropped' \subseteq Nat
    <3> HIDE DEF longer
    <3>1. CASE Len(longer) > MaxQueue
      BY <2>1, <2>2, <2>3, <2>4, <3>1
    <3>2. CASE ~(Len(longer) > MaxQueue)
      BY <2>1, <2>2, <2>3, <2>4, <3>2
    <3>. QED BY <3>1, <3>2
  <2>6. accepted' \in Seq(Nat)
    BY <1>4, <2>1, AppendProperties DEF Enqueue
  <2>7. TypeOK'
    BY <1>4, <2>5, <2>6 DEF Enqueue, PubGoto, redis, TypeOK
  <2>. QED BY <1>4, <2>7 DEF Enqueue, redis, LockHeld, ThreadNamed
<1>5. ASSUME NEW p \in Publishers, CheckThread(p) PROVE Safe'
  BY <1>5 DEF CheckThread, PubGoto, redis, TypeOK, LockHeld, ThreadNamed
<1>6. ASSUME NEW p \in Publishers, SpawnThread(p) PROVE Safe'
  <2>1. TypeOK'
    BY <1>6 DEF SpawnThread, PubGoto, redis, TypeOK
  <2>2. LockHeld'
    BY <1>6 DEF SpawnThread, redis, TypeOK, LockHeld
  <2>3. ThreadNamed'
    BY <1>6 DEF SpawnThread, redis, TypeOK, ThreadNamed
  <2>. QED BY <2>1, <2>2, <2>3
<1>7. ASSUME NEW p \in Publishers, EvalFails(p) PROVE Safe'
  <2>1. msg[p] \in Nat /\ Append(stream, msg[p]) \in Seq(Nat)
    BY AppendProperties DEF TypeOK
  <2>2. stream' = stream \/ stream' = Append(stream, msg[p])
    BY <1>7 DEF EvalFails
  <2>3. stream' \in Seq(Nat)
    BY <2>1, <2>2 DEF TypeOK
  <2>4. TypeOK'
    BY <1>7, <2>3 DEF EvalFails, PubGoto, redis, TypeOK
  <2>. QED BY <1>7, <2>4 DEF EvalFails, redis, TypeOK, LockHeld, ThreadNamed
<1>8. ASSUME NEW t \in Threads, Probe(t) PROVE Safe'
  BY <1>8 DEF Probe, FlushGoto, redis, TypeOK, LockHeld, ThreadNamed
<1>9. ASSUME NEW t \in Threads, ProbeFails(t) PROVE Safe'
  BY <1>9 DEF ProbeFails, FlushGoto, redis, TypeOK, LockHeld, ThreadNamed
<1>10. ASSUME NEW t \in Threads, TakeLock(t) PROVE Safe'
  <2>1. TypeOK'
    BY <1>10 DEF TakeLock, FlushGoto, redis, TypeOK
  <2>2. LockHeld'
    BY <1>10 DEF TakeLock, FlushGoto, redis, TypeOK, LockHeld
  <2>3. ThreadNamed'
    BY <1>10 DEF TakeLock, FlushGoto, TypeOK, ThreadNamed
  <2>. QED BY <2>1, <2>2, <2>3
<1>11. ASSUME NEW t \in Threads, FlushOne(t) PROVE Safe'
  <2>1. lock = t /\ queue # <<>>
    BY <1>11 DEF FlushOne, LockHeld
  <2>2. queue \in Seq(Nat) /\ stream \in Seq(Nat) /\ Len(queue) <= MaxQueue
    BY DEF TypeOK
  <2>3. /\ Tail(queue) \in Seq(Nat) /\ Head(queue) \in Nat
        /\ Len(Tail(queue)) = Len(queue) - 1 /\ Len(queue) \in Nat
    BY <2>1, <2>2, HeadTailProperties, LenProperties
  <2>4. Append(stream, Head(queue)) \in Seq(Nat)
    BY <2>2, <2>3, AppendProperties
  <2>5. \/ stream' = Append(stream, Head(queue)) /\ queue' = Tail(queue)
        \/ stream' = stream /\ queue' = queue
    BY <1>11 DEF FlushOne
  <2>6. Len(Tail(queue)) <= MaxQueue
    BY <2>2, <2>3
  <2>7. queue' \in Seq(Nat) /\ Len(queue') <= MaxQueue /\ stream' \in Seq(Nat)
    BY <2>2, <2>3, <2>4, <2>5, <2>6
  <2>8. TypeOK'
    BY <1>11, <2>3, <2>7 DEF FlushOne, FlushGoto, redis, TypeOK
  <2>9. LockHeld'
    BY <1>11, <2>1 DEF FlushOne, FlushGoto, TypeOK, LockHeld
  <2>10. ThreadNamed'
    BY <1>11 DEF FlushOne, FlushGoto, TypeOK, ThreadNamed
  <2>. QED BY <2>8, <2>9, <2>10
<1>12. ASSUME NEW t \in Threads, FlushFails(t) PROVE Safe'
  <2>1. lock = t /\ queue # <<>>
    BY <1>12 DEF FlushFails, LockHeld
  <2>2. queue \in Seq(Nat) /\ stream \in Seq(Nat) /\ Len(queue) <= MaxQueue
    BY DEF TypeOK
  <2>3. /\ Tail(queue) \in Seq(Nat) /\ Head(queue) \in Nat
        /\ Len(Tail(queue)) = Len(queue) - 1 /\ Len(queue) \in Nat
    BY <2>1, <2>2, HeadTailProperties, LenProperties
  <2>4. Append(stream, Head(queue)) \in Seq(Nat)
    BY <2>2, <2>3, AppendProperties
  <2>5. /\ stream' = stream \/ stream' = Append(stream, Head(queue))
        /\ queue' = Tail(queue)
    BY <1>12 DEF FlushFails
  <2>6. Len(Tail(queue)) <= MaxQueue
    BY <2>2, <2>3
  <2>7. queue' \in Seq(Nat) /\ Len(queue') <= MaxQueue /\ stream' \in Seq(Nat)
    BY <2>2, <2>3, <2>4, <2>5, <2>6
  <2>8. dropped' \subseteq Nat
    BY <1>12, <2>3 DEF FlushFails, TypeOK
  <2>9. lock' = Nobody /\ flushPc' = [flushPc EXCEPT ![t] = "probe"]
         /\ faults' = faults + 1 /\ accepted' = accepted /\ pubPc' = pubPc
         /\ msg' = msg /\ called' = called /\ flushThread' = flushThread
         /\ readonly' = readonly /\ flips' = flips
    BY <1>12 DEF FlushFails, FlushGoto, redis
  <2>10. TypeOK'
    BY <2>7, <2>8, <2>9 DEF TypeOK
  <2>11. LockHeld'
    BY <1>12, <2>1 DEF FlushFails, FlushGoto, TypeOK, LockHeld
  <2>12. ThreadNamed'
    BY <1>12 DEF FlushFails, FlushGoto, TypeOK, ThreadNamed
  <2>. QED BY <2>10, <2>11, <2>12
<1>13. ASSUME NEW t \in Threads, Leave(t) PROVE Safe'
  <2>1. TypeOK' /\ LockHeld'
    BY <1>13 DEF Leave, FlushGoto, redis, TypeOK, LockHeld
  <2>2. ThreadNamed'
    BY <1>13 DEF Leave, FlushGoto, TypeOK, ThreadNamed
  <2>. QED BY <2>1, <2>2
<1>14. CASE UNCHANGED vars
  BY <1>14 DEF vars, TypeOK, LockHeld, ThreadNamed
<1>. QED
  BY <1>1, <1>2, <1>3, <1>4, <1>5, <1>6, <1>7, <1>8, <1>9, <1>10, <1>11, <1>12,
     <1>13, <1>14
  DEF Next, Publish, Flush, Finished

\* Types, the mutex and the thread the publishers see, in every state (redis.rb:
\* 166-189, 385-424).
THEOREM SafeAlways == Spec => []Safe
<1>. QED BY SafeInit, SafeStep, PTL DEF Spec

\* The queue never holds more than max_in_memory_publish_backlog messages, and
\* every variable keeps its type.
THEOREM TypeCorrect == Spec => []TypeOK
<1>1. Safe => TypeOK
  BY DEF Safe
<1>. QED BY <1>1, SafeAlways, PTL

\* However many publishers find no flush thread at once, one is started.
THEOREM OneFlusherAlways == Spec => []OneFlusher
<1>1. Safe => OneFlusher
  BY DEF Safe, ThreadNamed, OneFlusher
<1>. QED BY <1>1, SafeAlways, PTL

-----------------------------------------------------------------------------
(* What happens to a message.                                              *)

Injective(s) == \A i, j \in DOMAIN s : s[i] = s[j] => i = j

\* Queuing a message adds it to the elements of the queue.
LEMMA ElementsAppend ==
  ASSUME NEW s \in Seq(Nat), NEW e \in Nat
  PROVE  Elements(Append(s, e)) = Elements(s) \cup {e}
<1> DEFINE t == Append(s, e)
<1>1. /\ Len(s) \in Nat /\ Len(t) = Len(s) + 1
      /\ DOMAIN s = 1..Len(s) /\ DOMAIN t = 1..Len(t)
      /\ \A i \in 1..Len(s) : t[i] = s[i]
      /\ t[Len(s) + 1] = e
  BY AppendProperties, LenProperties
<1> HIDE DEF t
<1>2. ASSUME NEW i \in DOMAIN t PROVE t[i] \in Elements(s) \cup {e}
  BY <1>1 DEF Elements
<1>3. ASSUME NEW i \in DOMAIN s PROVE s[i] \in Elements(t)
  BY <1>1 DEF Elements
<1>4. e \in Elements(t)
  BY <1>1 DEF Elements
<1>5. Elements(t) = Elements(s) \cup {e}
  BY <1>2, <1>3, <1>4 DEF Elements
<1>. QED BY <1>5 DEF t

\* Queuing a new message repeats none.
LEMMA InjectiveAppend ==
  ASSUME NEW s \in Seq(Nat), NEW e \in Nat, Injective(s), e \notin Elements(s)
  PROVE  Injective(Append(s, e))
<1> DEFINE t == Append(s, e)
<1>1. /\ Len(s) \in Nat /\ Len(t) = Len(s) + 1
      /\ DOMAIN s = 1..Len(s) /\ DOMAIN t = 1..Len(t)
      /\ \A i \in 1..Len(s) : t[i] = s[i]
      /\ t[Len(s) + 1] = e
  BY AppendProperties, LenProperties
<1> HIDE DEF t
<1>2. \A i \in 1..Len(s) : s[i] # e
  BY <1>1 DEF Elements
<1>3. Injective(t)
  BY <1>1, <1>2 DEF Injective
<1>. QED BY <1>3 DEF t

\* Dropping the oldest message removes it and repeats none.
LEMMA ElementsTail ==
  ASSUME NEW s \in Seq(Nat), s # <<>>, Injective(s)
  PROVE  /\ Elements(Tail(s)) = Elements(s) \ {Head(s)}
         /\ Head(s) \in Elements(s)
         /\ Injective(Tail(s))
<1> DEFINE t == Tail(s)
           h == Head(s)
<1>1. /\ Len(s) \in Nat \ {0} /\ Len(t) = Len(s) - 1
      /\ DOMAIN s = 1..Len(s) /\ DOMAIN t = 1..Len(t)
      /\ \A i \in 1..Len(t) : t[i] = s[i + 1]
      /\ h = s[1]
  BY HeadTailProperties, LenProperties, EmptySeq
<1> HIDE DEF t, h
<1>2. ASSUME NEW i \in DOMAIN t PROVE t[i] \in Elements(s) \ {h}
  <2>1. i \in 1..Len(t) /\ i + 1 \in 1..Len(s) /\ 1 \in 1..Len(s) /\ i + 1 # 1
    BY <1>1
  <2>2. t[i] = s[i + 1] /\ i + 1 \in DOMAIN s /\ 1 \in DOMAIN s
    BY <1>1, <2>1
  <2>3. s[i + 1] # s[1]
    BY <2>1, <2>2 DEF Injective
  <2>. QED BY <1>1, <2>2, <2>3 DEF Elements
<1>3. ASSUME NEW i \in DOMAIN s, s[i] # h PROVE s[i] \in Elements(t)
  <2>1. i # 1 /\ i \in 1..Len(s)
    BY <1>1, <1>3
  <2>2. i - 1 \in DOMAIN t /\ t[i - 1] = s[i]
    BY <1>1, <2>1
  <2>. QED BY <2>2 DEF Elements
<1>4. Elements(t) = Elements(s) \ {h}
  BY <1>2, <1>3 DEF Elements
<1>5. h \in Elements(s)
  <2>1. 1 \in DOMAIN s
    BY <1>1
  <2>. QED BY <1>1, <2>1 DEF Elements
<1>6. Injective(t)
  <2> SUFFICES ASSUME NEW i \in DOMAIN t, NEW j \in DOMAIN t, t[i] = t[j]
               PROVE  i = j
    BY DEF Injective
  <2>1. i \in Int /\ j \in Int /\ i + 1 \in DOMAIN s /\ j + 1 \in DOMAIN s
    BY <1>1
  <2>2. s[i + 1] = s[j + 1]
    BY <1>1
  <2>3. i + 1 = j + 1
    BY <2>1, <2>2 DEF Injective
  <2>. QED BY <2>1, <2>3
<1>. QED BY <1>4, <1>5, <1>6 DEF t, h

\* Publishers that have a message and have not been told what became of it.
Holding(p) == pubPc[p] \in {"eval", "append"}

Published == Elements(stream)
Queued == Elements(queue)

\* A message is in one place: with its publisher, in the queue once, or
\* published once or given up.
OnePlace ==
  /\ Injective(stream)
  /\ Injective(queue)
  /\ Queued \cap (Published \cup dropped) = {}
  /\ \A n \in Published \cup Queued \cup dropped : n <= called
  /\ \A p \in Publishers : Holding(p) =>
       msg[p] <= called /\ msg[p] \notin Published \cup Queued \cup dropped
  /\ \A p, q \in Publishers : Holding(p) /\ Holding(q) /\ msg[p] = msg[q] => p = q
  /\ Elements(accepted) \subseteq Published \cup Queued \cup dropped

Traced == Safe /\ OnePlace

\* A queue of messages holds messages.
LEMMA ElementsType == ASSUME NEW s \in Seq(Nat) PROVE Elements(s) \subseteq Nat
  BY LenProperties DEF Elements

\* At first no message is anywhere.
LEMMA TracedInit == Init => Traced
<1> SUFFICES ASSUME Init PROVE Traced
  OBVIOUS
<1>1. Elements(<<>>) = {} /\ Injective(<<>>)
  BY DEF Elements, Injective
<1>2. OnePlace
  BY <1>1 DEF Init, OnePlace, Holding, Published, Queued
<1>. QED BY <1>2, SafeInit DEF Traced

\* Steps that move no message between the places.
LEMMA OnePlaceKept ==
  ASSUME Traced, called' = called, msg' = msg, stream' = stream, queue' = queue,
         dropped' = dropped, accepted' = accepted,
         \A p \in Publishers : Holding(p)' => Holding(p)
  PROVE  OnePlace'
BY DEF Traced, OnePlace, Published, Queued

\* Every step moves a message from one place to one other, or moves none.
LEMMA TracedStep == Traced /\ [Next]_vars => Traced'
<1> SUFFICES ASSUME Traced, [Next]_vars PROVE OnePlace'
  BY SafeStep DEF Traced
<1> USE DEF Traced
<1>1. /\ TypeOK /\ queue \in Seq(Nat) /\ stream \in Seq(Nat)
      /\ accepted \in Seq(Nat) /\ dropped \subseteq Nat /\ called \in Nat
      /\ msg \in [Publishers -> Nat]
      /\ Published \subseteq Nat /\ Queued \subseteq Nat
  BY ElementsType DEF Safe, TypeOK, Published, Queued
<1>2. CASE Failover
  BY <1>2, OnePlaceKept DEF Failover, Holding
<1>3. ASSUME NEW p \in Publishers, Call(p) PROVE OnePlace'
  <2>1. /\ called' = called + 1 /\ msg' = [msg EXCEPT ![p] = called + 1]
        /\ pubPc' = [pubPc EXCEPT ![p] = "eval"]
        /\ UNCHANGED <<stream, queue, accepted, dropped>>
    BY <1>3 DEF Call, PubGoto
  <2>2. /\ Published' = Published /\ Queued' = Queued
        /\ Elements(accepted)' = Elements(accepted)
    BY <2>1 DEF Published, Queued
  <2>3. called + 1 \notin Published \cup Queued \cup dropped
        /\ msg'[p] = called + 1 /\ called <= called + 1
    BY <1>1, <2>1 DEF OnePlace
  <2>4. ASSUME NEW q \in Publishers, q # p, Holding(q)'
        PROVE  Holding(q) /\ msg'[q] = msg[q] /\ msg[q] # called + 1
    BY <1>1, <2>1, <2>4 DEF OnePlace, Holding, Safe, TypeOK
  <2>5. \A n \in Published \cup Queued \cup dropped : n <= called + 1
    BY <1>1 DEF OnePlace
  <2>6. ASSUME NEW q \in Publishers, Holding(q)'
        PROVE  /\ msg'[q] <= called + 1
               /\ msg'[q] \notin Published \cup Queued \cup dropped
    <3>1. CASE q = p
      BY <1>1, <2>3, <3>1
    <3>2. CASE q # p
      <4>1. Holding(q) /\ msg'[q] = msg[q] /\ msg[q] \in Nat
        BY <1>1, <2>4, <2>6, <3>2
      <4>2. /\ msg[q] <= called
            /\ msg[q] \notin Published \cup Queued \cup dropped
        BY <4>1 DEF OnePlace
      <4>. QED BY <1>1, <4>1, <4>2
    <3>. QED BY <3>1, <3>2
  <2>7. ASSUME NEW q \in Publishers, NEW r \in Publishers,
               Holding(q)', Holding(r)', msg'[q] = msg'[r]
        PROVE  q = r
    BY <2>3, <2>4, <2>7 DEF OnePlace
  <2>. QED BY <2>1, <2>2, <2>5, <2>6, <2>7 DEF OnePlace
<1>4. ASSUME NEW p \in Publishers, Eval(p) \/ EvalFails(p) PROVE OnePlace'
  <2>1. /\ stream' = stream \/ stream' = Append(stream, msg[p])
        /\ pubPc[p] = "eval"
        /\ \/ pubPc' = [pubPc EXCEPT ![p] = "ready"]
           \/ pubPc' = [pubPc EXCEPT ![p] = "append"] /\ stream' = stream
        /\ UNCHANGED <<queue, msg, accepted, dropped, called>>
    <3>1. CASE Eval(p)
      BY <3>1 DEF Eval, PubGoto
    <3>2. CASE EvalFails(p)
      BY <3>2 DEF EvalFails, PubGoto
    <3>. QED BY <1>4, <3>1, <3>2
  <2>2. \A q \in Publishers : Holding(q)' => Holding(q)
    BY <2>1 DEF Holding, Safe, TypeOK
  <2>3. CASE stream' = stream
    BY <2>1, <2>2, <2>3, OnePlaceKept
  <2>4. CASE stream' # stream
    <3>1. stream' = Append(stream, msg[p]) /\ Holding(p)
      BY <2>1, <2>4 DEF Holding
    <3>2. \A q \in Publishers : Holding(q)' => q # p
      BY <2>1, <2>4 DEF Holding, Safe, TypeOK
    <3>3. /\ msg[p] \in Nat /\ msg[p] \notin Published /\ msg[p] \notin Queued
          /\ msg[p] <= called
      BY <1>1, <3>1 DEF OnePlace
    <3>4. Published' = Published \cup {msg[p]} /\ Injective(stream')
      BY <1>1, <3>1, <3>3, ElementsAppend, InjectiveAppend DEF OnePlace, Published
    <3>5. Queued' = Queued
      BY <2>1 DEF Queued
    <3>. QED BY <2>1, <2>2, <3>1, <3>2, <3>3, <3>4, <3>5 DEF OnePlace
  <2>. QED BY <2>3, <2>4
<1>5. ASSUME NEW p \in Publishers, Enqueue(p) PROVE OnePlace'
  <2> DEFINE longer == Append(queue, msg[p])
  <2>1. /\ pubPc[p] = "append"
        /\ pubPc' = [pubPc EXCEPT ![p] = "check"]
        /\ accepted' = Append(accepted, msg[p])
        /\ \/ queue' = longer /\ dropped' = dropped
           \/ queue' = Tail(longer) /\ dropped' = dropped \cup {Head(longer)}
        /\ UNCHANGED <<stream, msg, called>>
    BY <1>5 DEF Enqueue, PubGoto
  <2>2. /\ msg[p] \in Nat /\ msg[p] \notin Published /\ msg[p] \notin Queued
        /\ msg[p] \notin dropped /\ msg[p] <= called
    BY <1>1, <2>1 DEF OnePlace, Holding
  <2>3. \A q \in Publishers : Holding(q)' => Holding(q) /\ q # p
    BY <2>1 DEF Holding, Safe, TypeOK
  <2>4. Elements(longer) = Queued \cup {msg[p]} /\ Injective(longer)
    BY <1>1, <2>2, ElementsAppend, InjectiveAppend DEF OnePlace, Queued
  <2>5. longer \in Seq(Nat) /\ longer # <<>>
    <3>1. queue \in Seq(Nat) /\ msg[p] \in Nat
      BY <1>1, <2>2
    <3>. QED BY <3>1, AppendProperties
  <2>6. /\ Elements(Tail(longer)) = Elements(longer) \ {Head(longer)}
        /\ Head(longer) \in Elements(longer) /\ Injective(Tail(longer))
    <3> HIDE DEF longer
    <3>. QED BY <2>4, <2>5, ElementsTail
  <2>7. Elements(accepted') = Elements(accepted) \cup {msg[p]}
    BY <1>1, <2>1, <2>2, ElementsAppend
  <2> HIDE DEF longer
  <2>8. /\ Injective(queue')
        /\ \/ Queued' = Queued \cup {msg[p]} /\ dropped' = dropped
           \/ /\ Head(longer) \in Queued \cup {msg[p]}
              /\ Queued' = (Queued \cup {msg[p]}) \ {Head(longer)}
              /\ dropped' = dropped \cup {Head(longer)}
    BY <2>1, <2>4, <2>6 DEF Queued
  <2>9. Published' = Published /\ Injective(stream') /\ called' = called
        /\ msg' = msg /\ Elements(accepted)' = Elements(accepted) \cup {msg[p]}
    BY <2>1, <2>7 DEF OnePlace, Published
  <2>10. Holding(p)
    BY <2>1 DEF Holding
  <2>11. /\ Queued' \cap (Published' \cup dropped') = {}
         /\ Published' \cup Queued' \cup dropped'
              = Published \cup Queued \cup dropped \cup {msg[p]}
    BY <2>2, <2>8, <2>9 DEF OnePlace
  <2>. QED BY <2>2, <2>3, <2>8, <2>9, <2>10, <2>11 DEF OnePlace
<1>6. ASSUME NEW p \in Publishers, CheckThread(p) PROVE OnePlace'
  <2>1. \A q \in Publishers : Holding(q)' => Holding(q)
    BY <1>6 DEF CheckThread, PubGoto, Holding, Safe, TypeOK
  <2>. QED BY <1>6, <2>1, OnePlaceKept DEF CheckThread
<1>7. ASSUME NEW p \in Publishers, SpawnThread(p) PROVE OnePlace'
  <2>1. \A q \in Publishers : Holding(q)' => Holding(q)
    BY <1>7 DEF SpawnThread, PubGoto, Holding, Safe, TypeOK
  <2>. QED BY <1>7, <2>1, OnePlaceKept DEF SpawnThread
<1>8. ASSUME NEW t \in Threads,
             Probe(t) \/ ProbeFails(t) \/ TakeLock(t) \/ Leave(t)
      PROVE  OnePlace'
  BY <1>8, OnePlaceKept DEF Probe, ProbeFails, TakeLock, Leave, Holding
<1>9. ASSUME NEW t \in Threads, FlushOne(t) \/ FlushFails(t) PROVE OnePlace'
  <2>1. /\ UNCHANGED <<pubPc, msg, accepted, called>>
        /\ \/ UNCHANGED <<stream, queue, dropped>>
           \/ /\ queue' = Tail(queue)
              /\ \/ stream' = Append(stream, Head(queue)) /\ dropped' = dropped
                 \/ /\ stream' = stream \/ stream' = Append(stream, Head(queue))
                    /\ dropped' = dropped \cup {Head(queue)}
    BY <1>9 DEF FlushOne, FlushFails
  <2>2. \A q \in Publishers : Holding(q)' <=> Holding(q)
    BY <2>1 DEF Holding
  <2>3. CASE UNCHANGED <<stream, queue, dropped>>
    BY <2>1, <2>2, <2>3, OnePlaceKept
  <2>4. CASE ~UNCHANGED <<stream, queue, dropped>>
    <3>1. flushPc[t] = "publish"
      BY <1>9 DEF FlushOne, FlushFails
    <3>2. queue # <<>>
      BY <3>1, QueueAssumption DEF Safe, LockHeld
    <3>3. /\ Elements(Tail(queue)) = Queued \ {Head(queue)}
          /\ Head(queue) \in Queued /\ Injective(Tail(queue))
      BY <1>1, <3>2, ElementsTail DEF OnePlace, Queued
    <3>4. Queued' = Queued \ {Head(queue)} /\ Injective(queue')
      BY <2>1, <2>4, <3>3 DEF Queued
    <3>5. Head(queue) \in Nat /\ Head(queue) \notin Published
      BY <1>1, <3>3 DEF OnePlace
    <3>6. /\ Elements(Append(stream, Head(queue))) = Published \cup {Head(queue)}
          /\ Injective(Append(stream, Head(queue)))
      BY <1>1, <3>5, ElementsAppend, InjectiveAppend DEF OnePlace, Published
    <3>7. /\ Injective(stream')
          /\ \/ Published' = Published \cup {Head(queue)} /\ dropped' = dropped
             \/ /\ Published' = Published \/ Published' = Published \cup {Head(queue)}
                /\ dropped' = dropped \cup {Head(queue)}
      BY <2>1, <2>4, <3>6 DEF OnePlace, Published
    <3>8. /\ Queued' \cap (Published' \cup dropped') = {}
          /\ Published' \cup Queued' \cup dropped'
               = Published \cup Queued \cup dropped
      BY <3>3, <3>4, <3>5, <3>7 DEF OnePlace
    <3>. QED BY <2>1, <2>2, <3>4, <3>7, <3>8 DEF OnePlace
  <2>. QED BY <2>3, <2>4
<1>10. CASE UNCHANGED vars
  BY <1>10, OnePlaceKept DEF vars, Holding
<1>. QED
  BY <1>2, <1>3, <1>4, <1>5, <1>6, <1>7, <1>8, <1>9, <1>10
  DEF Next, Publish, Flush, Finished

\* A message is in one place at a time: with its publisher, in the queue, given
\* up or published.
THEOREM TracedAlways == Spec => []Traced
<1>. QED BY TracedInit, TracedStep, PTL DEF Spec

\* The script is run at most once for a message, whatever fails and however
\* often the queue is tried again.
THEOREM AtMostOnceAlways == Spec => []AtMostOnce
<1>1. Traced => AtMostOnce
  BY DEF Traced, OnePlace, Injective, AtMostOnce
<1>. QED BY <1>1, TracedAlways, PTL

\* No queued message is lost sight of.
THEOREM AccountedAlways == Spec => []Accounted
<1>1. Traced => Accounted
  BY DEF Traced, OnePlace, Published, Queued, Accounted
<1>. QED BY <1>1, TracedAlways, PTL

-----------------------------------------------------------------------------
(* The order of what is flushed, and what is given up.                     *)

\* q is the end of a.
EndOf(q, a) ==
  /\ Len(q) <= Len(a)
  /\ \A k \in 1..Len(q) : q[k] = a[Len(a) - Len(q) + k]

\* What is queued stays the end of what was ever queued when both grow.
LEMMA EndOfAppend ==
  ASSUME NEW q \in Seq(Nat), NEW a \in Seq(Nat), NEW e \in Nat, EndOf(q, a)
  PROVE  EndOf(Append(q, e), Append(a, e))
<1> DEFINE r == Append(q, e)
           b == Append(a, e)
<1>1. /\ Len(q) \in Nat /\ Len(r) = Len(q) + 1
      /\ \A i \in 1..Len(q) : r[i] = q[i]
      /\ r[Len(q) + 1] = e
  BY AppendProperties, LenProperties
<1>2. /\ Len(a) \in Nat /\ Len(b) = Len(a) + 1
      /\ \A i \in 1..Len(a) : b[i] = a[i]
      /\ b[Len(a) + 1] = e
  BY AppendProperties, LenProperties
<1> HIDE DEF r, b
<1>3. ASSUME NEW k \in 1..Len(r) PROVE r[k] = b[Len(b) - Len(r) + k]
  <2>1. CASE k = Len(q) + 1
    BY <1>1, <1>2, <2>1
  <2>2. CASE k # Len(q) + 1
    <3>1. k \in 1..Len(q) /\ Len(a) - Len(q) + k \in 1..Len(a)
      BY <1>1, <1>2, <1>3, <2>2 DEF EndOf
    <3>2. r[k] = a[Len(a) - Len(q) + k]
      BY <1>1, <3>1 DEF EndOf
    <3>3. Len(b) - Len(r) + k = Len(a) - Len(q) + k
      BY <1>1, <1>2, <3>1
    <3>4. b[Len(a) - Len(q) + k] = a[Len(a) - Len(q) + k]
      BY <1>2, <3>1
    <3>. QED BY <3>2, <3>3, <3>4
  <2>. QED BY <2>1, <2>2
<1>4. Len(r) <= Len(b)
  BY <1>1, <1>2 DEF EndOf
<1>5. EndOf(r, b)
  BY <1>3, <1>4 DEF EndOf
<1>. QED BY <1>5 DEF r, b

\* It does so without its oldest message, which is where the end began.
LEMMA EndOfTail ==
  ASSUME NEW q \in Seq(Nat), NEW a \in Seq(Nat), q # <<>>, EndOf(q, a)
  PROVE  /\ EndOf(Tail(q), a)
         /\ Len(a) - Len(q) + 1 \in DOMAIN a
         /\ Head(q) = a[Len(a) - Len(q) + 1]
<1> DEFINE t == Tail(q)
           h == Head(q)
<1>1. /\ Len(q) \in Nat \ {0} /\ Len(t) = Len(q) - 1
      /\ \A i \in 1..Len(t) : t[i] = q[i + 1]
      /\ h = q[1] /\ Len(a) \in Nat /\ DOMAIN a = 1..Len(a)
  BY HeadTailProperties, LenProperties, EmptySeq
<1> HIDE DEF t, h
<1>2. ASSUME NEW k \in 1..Len(t) PROVE t[k] = a[Len(a) - Len(t) + k]
  <2>1. k + 1 \in 1..Len(q) /\ t[k] = q[k + 1]
    BY <1>1
  <2>2. q[k + 1] = a[Len(a) - Len(q) + (k + 1)]
    BY <2>1 DEF EndOf
  <2>3. Len(a) - Len(q) + (k + 1) = Len(a) - Len(t) + k
    BY <1>1
  <2>. QED BY <2>1, <2>2, <2>3
<1>3. Len(t) <= Len(a)
  BY <1>1 DEF EndOf
<1>4. EndOf(t, a)
  BY <1>2, <1>3 DEF EndOf
<1>5. 1 \in 1..Len(q) /\ Len(a) - Len(q) + 1 \in 1..Len(a)
  BY <1>1 DEF EndOf
<1>6. h = a[Len(a) - Len(q) + 1]
  BY <1>1, <1>5 DEF EndOf
<1>. QED BY <1>1, <1>4, <1>5, <1>6 DEF t, h

\* The queue is the end of all that was ever queued.
Ordered ==
  /\ Traced
  /\ Injective(accepted) /\ EndOf(queue, accepted)
  /\ FlushedInOrder /\ GivenUpWhenFull

LEMMA OrderedInit == Init => Ordered
<1> SUFFICES ASSUME Init PROVE Ordered
  OBVIOUS
<1>1. EndOf(<<>>, <<>>) /\ Injective(<<>>)
  BY DEF EndOf, Injective
<1>2. FlushedInOrder /\ GivenUpWhenFull
  BY DEF Init, FlushedInOrder, GivenUpWhenFull
<1>. QED BY <1>1, <1>2, TracedInit DEF Init, Ordered

\* Steps that touch neither the queue nor what is published.
LEMMA OrderedKept ==
  ASSUME Ordered, stream' = stream, queue' = queue, dropped' = dropped,
         accepted' = accepted, faults' = faults \/ faults' = faults + 1
  PROVE  /\ Injective(accepted)' /\ EndOf(queue, accepted)'
         /\ FlushedInOrder' /\ GivenUpWhenFull'
<1>1. faults \in Nat
  BY QueueAssumption DEF Ordered, Traced, Safe, TypeOK
<1>2. faults' = 0 => faults = 0
  BY <1>1
<1>. QED
  BY <1>2 DEF Ordered, FlushedInOrder, GivenUpWhenFull

\* A message that was never queued is published out of turn and changes nothing
\* for those that were.
LEMMA PublishedDirectly ==
  ASSUME FlushedInOrder, accepted \in Seq(Nat), stream \in Seq(Nat),
         NEW m \in Nat, m \notin Elements(accepted),
         accepted' = accepted, stream' = Append(stream, m)
  PROVE  FlushedInOrder'
<1> DEFINE s == Append(stream, m)
<1>1. /\ Len(stream) \in Nat /\ DOMAIN stream = 1..Len(stream)
      /\ DOMAIN s = 1..Len(stream) + 1
      /\ \A i \in 1..Len(stream) : s[i] = stream[i]
      /\ s[Len(stream) + 1] = m
  BY AppendProperties, LenProperties
<1> HIDE DEF s
<1>2. \A i \in DOMAIN accepted : accepted[i] # m
  BY DEF Elements
<1>3. \A i \in DOMAIN accepted, k \in DOMAIN s :
        accepted[i] = s[k] => k \in DOMAIN stream /\ accepted[i] = stream[k]
  BY <1>1, <1>2
<1>. QED BY <1>3 DEF FlushedInOrder, s

\* The oldest queued message is published after all that were queued before it.
LEMMA PublishedInTurn ==
  ASSUME FlushedInOrder, accepted \in Seq(Nat), stream \in Seq(Nat),
         Injective(accepted), NEW i0 \in DOMAIN accepted,
         \A j \in DOMAIN accepted : j >= i0 => accepted[j] \notin Elements(stream),
         accepted' = accepted, stream' = Append(stream, accepted[i0])
  PROVE  FlushedInOrder'
<1> DEFINE s == Append(stream, accepted[i0])
<1>1. accepted[i0] \in Nat /\ DOMAIN accepted = 1..Len(accepted)
      /\ Len(accepted) \in Nat
  BY LenProperties
<1>2. /\ Len(stream) \in Nat /\ DOMAIN stream = 1..Len(stream)
      /\ DOMAIN s = 1..Len(stream) + 1
      /\ \A i \in 1..Len(stream) : s[i] = stream[i]
      /\ s[Len(stream) + 1] = accepted[i0]
  BY <1>1, AppendProperties, LenProperties
<1> HIDE DEF s
<1>3. SUFFICES ASSUME NEW i \in DOMAIN accepted, NEW j \in DOMAIN accepted,
                      NEW k \in DOMAIN s, NEW l \in DOMAIN s,
                      accepted[i] = s[k], accepted[j] = s[l], i < j
               PROVE  k < l
  BY DEF FlushedInOrder, s
<1>4. CASE k = Len(stream) + 1
  <2>1. i = i0
    BY <1>2, <1>3, <1>4 DEF Injective
  <2>2. j >= i0 /\ j # i0
    BY <1>1, <1>3, <2>1
  <2>3. l \notin 1..Len(stream)
    BY <1>2, <1>3, <2>2 DEF Elements
  <2>4. l = Len(stream) + 1
    BY <1>2, <1>3, <2>3
  <2>5. j = i0
    BY <1>2, <1>3, <2>4 DEF Injective
  <2>. QED BY <2>2, <2>5
<1>5. CASE k # Len(stream) + 1 /\ l = Len(stream) + 1
  BY <1>2, <1>5
<1>6. CASE k # Len(stream) + 1 /\ l # Len(stream) + 1
  <2>1. k \in DOMAIN stream /\ l \in DOMAIN stream
    BY <1>2, <1>6
  <2>. QED BY <1>2, <1>3, <2>1 DEF FlushedInOrder
<1>. QED BY <1>4, <1>5, <1>6

\* What is queued from a place of the end on is in the queue.
LEMMA StillQueued ==
  ASSUME Ordered, NEW j \in DOMAIN accepted,
         j >= Len(accepted) - Len(queue) + 1
  PROVE  accepted[j] \in Queued
<1>1. /\ queue \in Seq(Nat) /\ accepted \in Seq(Nat)
  BY DEF Ordered, Traced, Safe, TypeOK
<1>2. /\ Len(queue) \in Nat /\ Len(accepted) \in Nat
      /\ DOMAIN queue = 1..Len(queue) /\ j \in 1..Len(accepted)
  BY <1>1, LenProperties
<1> DEFINE k == j - (Len(accepted) - Len(queue))
<1>3. k \in 1..Len(queue) /\ Len(accepted) - Len(queue) + k = j
  BY <1>2
<1>4. queue[k] = accepted[j]
  BY <1>3 DEF Ordered, EndOf
<1>. QED BY <1>2, <1>3, <1>4 DEF Queued, Elements

LEMMA EnqueueOrdered ==
  ASSUME Ordered, NEW p \in Publishers, Enqueue(p)
  PROVE  /\ Injective(accepted)' /\ EndOf(queue, accepted)'
         /\ FlushedInOrder' /\ GivenUpWhenFull'
<1> USE DEF Ordered, Traced
<1> DEFINE longer == Append(queue, msg[p])
           ever   == Append(accepted, msg[p])
<1>1. /\ queue \in Seq(Nat) /\ accepted \in Seq(Nat) /\ stream \in Seq(Nat)
      /\ msg[p] \in Nat /\ MaxQueue \in Nat /\ Len(queue) <= MaxQueue
      /\ faults \in Nat
  BY QueueAssumption DEF Safe, TypeOK
<1>2. /\ accepted' = ever /\ stream' = stream /\ faults' = faults
      /\ \/ /\ ~(Len(longer) > MaxQueue)
            /\ queue' = longer /\ dropped' = dropped
         \/ /\ Len(longer) > MaxQueue
            /\ queue' = Tail(longer)
            /\ dropped' = dropped \cup {Head(longer)}
  BY DEF Enqueue
<1>3. msg[p] \notin Elements(accepted) /\ msg[p] \notin Published
      /\ msg[p] \notin dropped
  BY DEF Enqueue, OnePlace, Holding
<1>4. /\ longer \in Seq(Nat) /\ longer # <<>>
      /\ Len(longer) = Len(queue) + 1 /\ Len(queue) \in Nat
  <2>1. queue \in Seq(Nat) /\ msg[p] \in Nat
    BY <1>1
  <2>. QED BY <2>1, AppendProperties, LenProperties
<1>5. EndOf(longer, ever) /\ Injective(ever)
  BY <1>1, <1>3, EndOfAppend, InjectiveAppend
<1>6. /\ ever \in Seq(Nat)
      /\ Len(accepted) \in Nat /\ Len(ever) = Len(accepted) + 1
      /\ DOMAIN accepted = 1..Len(accepted) /\ DOMAIN ever = 1..Len(ever)
      /\ \A i \in 1..Len(accepted) : ever[i] = accepted[i]
      /\ ever[Len(accepted) + 1] = msg[p]
  BY <1>1, AppendProperties, LenProperties
<1> HIDE DEF longer, ever
<1>7. /\ EndOf(Tail(longer), ever)
      /\ Len(ever) - Len(longer) + 1 \in DOMAIN ever
      /\ Head(longer) = ever[Len(ever) - Len(longer) + 1]
  BY <1>4, <1>5, <1>6, EndOfTail
<1>8. FlushedInOrder'
  <2>1. \A i \in DOMAIN ever, k \in DOMAIN stream :
          ever[i] = stream[k] => i \in DOMAIN accepted /\ accepted[i] = stream[k]
    BY <1>3, <1>6 DEF Published, Elements
  <2>. QED BY <1>2, <2>1 DEF FlushedInOrder
<1>9. GivenUpWhenFull'
  <2>1. SUFFICES ASSUME faults = 0, NEW i \in DOMAIN ever, ever[i] \in dropped'
                 PROVE  i + MaxQueue <= Len(ever)
    BY <1>2 DEF GivenUpWhenFull
  <2>2. CASE ever[i] \in dropped
    <3>1. i \in DOMAIN accepted /\ accepted[i] \in dropped
      BY <1>3, <1>6, <2>2
    <3>2. i + MaxQueue <= Len(accepted)
      BY <2>1, <3>1 DEF GivenUpWhenFull
    <3>. QED BY <1>1, <1>6, <3>1, <3>2
  <2>3. CASE ever[i] \notin dropped
    <3>1. ever[i] = Head(longer) /\ Len(longer) > MaxQueue
      BY <1>2, <2>1, <2>3
    <3>2. i = Len(ever) - Len(longer) + 1
      BY <1>5, <1>7, <3>1 DEF Injective
    <3>3. Len(longer) = MaxQueue + 1
      BY <1>1, <1>4, <3>1
    <3>. QED BY <1>1, <1>6, <3>2, <3>3
  <2>. QED BY <2>2, <2>3
<1>. QED BY <1>2, <1>5, <1>7, <1>8, <1>9

LEMMA FlushOrdered ==
  ASSUME Ordered, NEW t \in Threads, FlushOne(t) \/ FlushFails(t)
  PROVE  /\ Injective(accepted)' /\ EndOf(queue, accepted)'
         /\ FlushedInOrder' /\ GivenUpWhenFull'
<1> USE DEF Ordered, Traced
<1>1. CASE FlushOne(t) /\ readonly
  BY <1>1, OrderedKept DEF FlushOne
<1>2. CASE ~(FlushOne(t) /\ readonly)
  <2>1. /\ queue \in Seq(Nat) /\ accepted \in Seq(Nat) /\ stream \in Seq(Nat)
        /\ faults \in Nat
    BY QueueAssumption DEF Safe, TypeOK
  <2>2. queue # <<>>
    <3>1. flushPc[t] = "publish"
      BY DEF FlushOne, FlushFails
    <3>. QED BY <3>1, QueueAssumption DEF Safe, LockHeld
  <2>3. /\ queue' = Tail(queue) /\ accepted' = accepted
        /\ stream' = stream \/ stream' = Append(stream, Head(queue))
        /\ \/ dropped' = dropped /\ faults' = faults
           \/ faults' = faults + 1
    BY <1>2 DEF FlushOne, FlushFails
  <2> DEFINE i0 == Len(accepted) - Len(queue) + 1
  <2>4. EndOf(Tail(queue), accepted) /\ i0 \in DOMAIN accepted
        /\ Head(queue) = accepted[i0]
    BY <2>1, <2>2, EndOfTail
  <2>5. \A j \in DOMAIN accepted : j >= i0 => accepted[j] \notin Elements(stream)
    BY StillQueued DEF OnePlace, Published
  <2>6. FlushedInOrder'
    <3>1. CASE stream' = stream
      BY <2>3, <3>1 DEF FlushedInOrder
    <3>2. CASE stream' = Append(stream, Head(queue))
      <4> HIDE DEF i0
      <4>. QED BY <2>1, <2>3, <2>4, <2>5, <3>2, PublishedInTurn
    <3>. QED BY <2>3, <3>1, <3>2
  <2>7. GivenUpWhenFull'
    <3>1. faults' = 0 => faults = 0 /\ dropped' = dropped
      BY <2>1, <2>3
    <3>. QED BY <2>3, <3>1 DEF GivenUpWhenFull
  <2>. QED BY <2>3, <2>4, <2>6, <2>7
<1>. QED BY <1>1, <1>2

LEMMA OrderedStep == Ordered /\ [Next]_vars => Ordered'
<1> SUFFICES ASSUME Ordered, [Next]_vars
             PROVE  /\ Injective(accepted)' /\ EndOf(queue, accepted)'
                    /\ FlushedInOrder' /\ GivenUpWhenFull'
  BY TracedStep DEF Ordered
<1>1. CASE Failover
  BY <1>1, OrderedKept DEF Failover
<1>2. ASSUME NEW p \in Publishers, Call(p) \/ CheckThread(p) \/ SpawnThread(p)
      PROVE  /\ Injective(accepted)' /\ EndOf(queue, accepted)'
             /\ FlushedInOrder' /\ GivenUpWhenFull'
  BY <1>2, OrderedKept DEF Call, CheckThread, SpawnThread
<1>3. ASSUME NEW p \in Publishers, Eval(p) \/ EvalFails(p)
      PROVE  /\ Injective(accepted)' /\ EndOf(queue, accepted)'
             /\ FlushedInOrder' /\ GivenUpWhenFull'
  <2>1. /\ stream' = stream \/ stream' = Append(stream, msg[p])
        /\ queue' = queue /\ dropped' = dropped /\ accepted' = accepted
        /\ faults' = faults \/ faults' = faults + 1
        /\ pubPc[p] = "eval"
    BY <1>3 DEF Eval, EvalFails
  <2>2. CASE stream' = stream
    BY <2>1, <2>2, OrderedKept
  <2>3. CASE stream' = Append(stream, msg[p])
    <3>1. msg[p] \in Nat /\ accepted \in Seq(Nat) /\ stream \in Seq(Nat)
          /\ faults \in Nat
      BY QueueAssumption DEF Ordered, Traced, Safe, TypeOK
    <3>2. msg[p] \notin Elements(accepted)
      BY <2>1 DEF Ordered, Traced, OnePlace, Holding
    <3>3. FlushedInOrder'
      BY <2>1, <2>3, <3>1, <3>2, PublishedDirectly DEF Ordered
    <3>4. GivenUpWhenFull'
      BY <2>1, <3>1 DEF Ordered, GivenUpWhenFull
    <3>. QED BY <2>1, <3>3, <3>4 DEF Ordered
  <2>. QED BY <2>1, <2>2, <2>3
<1>4. ASSUME NEW p \in Publishers, Enqueue(p)
      PROVE  /\ Injective(accepted)' /\ EndOf(queue, accepted)'
             /\ FlushedInOrder' /\ GivenUpWhenFull'
  BY <1>4, EnqueueOrdered
<1>5. ASSUME NEW t \in Threads,
             Probe(t) \/ ProbeFails(t) \/ TakeLock(t) \/ Leave(t)
      PROVE  /\ Injective(accepted)' /\ EndOf(queue, accepted)'
             /\ FlushedInOrder' /\ GivenUpWhenFull'
  BY <1>5, OrderedKept DEF Probe, ProbeFails, TakeLock, Leave
<1>6. ASSUME NEW t \in Threads, FlushOne(t) \/ FlushFails(t)
      PROVE  /\ Injective(accepted)' /\ EndOf(queue, accepted)'
             /\ FlushedInOrder' /\ GivenUpWhenFull'
  BY <1>6, FlushOrdered
<1>7. CASE UNCHANGED vars
  BY <1>7, OrderedKept DEF vars
<1>. QED
  BY <1>1, <1>2, <1>3, <1>4, <1>5, <1>6, <1>7 DEF Next, Publish, Flush, Finished

THEOREM OrderedAlways == Spec => []Ordered
<1>. QED BY OrderedInit, OrderedStep, PTL DEF Spec

\* ensure_backlog_flushed publishes what was queued in the order it was queued,
\* whatever is refused, fails or is dropped in between.
THEOREM FlushedInOrderAlways == Spec => []FlushedInOrder
<1>1. Ordered => FlushedInOrder
  BY DEF Ordered
<1>. QED BY <1>1, OrderedAlways, PTL

\* Until an error, a queue of max_in_memory_publish_backlog messages drops the
\* oldest one only when so many later ones have come.
THEOREM GivenUpWhenFullAlways == Spec => []GivenUpWhenFull
<1>1. Ordered => GivenUpWhenFull
  BY DEF Ordered
<1>. QED BY <1>1, OrderedAlways, PTL
=============================================================================

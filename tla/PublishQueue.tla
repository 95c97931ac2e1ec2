---------------------------- MODULE PublishQueue ----------------------------
(***************************************************************************)
(* Redis#publish while Redis is read-only, and ensure_backlog_flushed      *)
(* (src/lib/message_bus/backends/redis.rb): publishers of one process that *)
(* are refused by a read-only replica leave their message in a bounded     *)
(* in-memory queue under a mutex and see to it that a thread is there to   *)
(* publish it later.                                                       *)
(*                                                                         *)
(* Messages are numbered in the order publish is called.  A critical       *)
(* section that makes no call to Redis is one step, taken when the mutex   *)
(* is free; the flush thread keeps the mutex across its call to Redis.     *)
(***************************************************************************)
EXTENDS Naturals, Sequences

CONSTANTS
  Publishers,      \* threads that call publish
  Threads,         \* threads that Thread.new may return
  Nobody,          \* nil, and the owner of a free mutex
  MaxQueue,        \* max_in_memory_publish_backlog (1000 in the code)
  MaxMessages,     \* bound: calls of publish
  MaxFlips,        \* bound: changes of Redis between primary and replica
  MaxFaults        \* bound: errors other than READONLY

ASSUME QueueAssumption ==
  /\ Nobody \notin Threads
  /\ MaxQueue \in Nat /\ MaxMessages \in Nat
  /\ MaxFlips \in Nat /\ MaxFaults \in Nat

VARIABLES
  readonly,        \* Redis refuses writes
  stream,          \* the messages the publication script was run for
  queue,           \* @in_memory_backlog
  lock,            \* the flush thread that holds @lock
  flushThread,     \* @flush_backlog_thread
  pubPc, msg,      \* where each publisher is, and with which message
  flushPc,         \* where each thread running ensure_backlog_flushed is
  accepted,        \* history: the messages queued, in order
  dropped,         \* history: the messages given up
  called, flips, faults   \* how much of the bounds is used

redis == <<readonly, flips>>
vars == <<readonly, stream, queue, lock, flushThread, pubPc, msg, flushPc,
          accepted, dropped, called, flips, faults>>

TypeOK ==
  /\ readonly \in BOOLEAN
  /\ stream \in Seq(Nat)
  /\ queue \in Seq(Nat) /\ Len(queue) <= MaxQueue
  /\ lock \in Threads \cup {Nobody}
  /\ flushThread \in Threads \cup {Nobody}
  /\ pubPc \in [Publishers -> {"ready", "eval", "append", "check", "spawn"}]
  /\ msg \in [Publishers -> Nat]
  /\ flushPc \in [Threads -> {"off", "probe", "lock", "publish", "ensure"}]
  /\ accepted \in Seq(Nat)
  /\ dropped \subseteq Nat
  /\ called \in Nat
  /\ flips \in Nat
  /\ faults \in Nat

Init ==
  /\ readonly \in BOOLEAN
  /\ stream = <<>>
  /\ queue = <<>>
  /\ lock = Nobody
  /\ flushThread = Nobody
  /\ pubPc = [p \in Publishers |-> "ready"]
  /\ msg = [p \in Publishers |-> 0]
  /\ flushPc = [t \in Threads |-> "off"]
  /\ accepted = <<>>
  /\ dropped = {}
  /\ called = 0
  /\ flips = 0
  /\ faults = 0

-----------------------------------------------------------------------------
\* A failover makes the server we reach read-only, or writable again.
Failover ==
  /\ flips < MaxFlips
  /\ readonly' = ~readonly
  /\ flips' = flips + 1
  /\ UNCHANGED <<stream, queue, lock, flushThread, pubPc, msg, flushPc,
                 accepted, dropped, called, faults>>

PubGoto(p, label) == pubPc' = [pubPc EXCEPT ![p] = label]

Call(p) ==
  /\ pubPc[p] = "ready"
  /\ called < MaxMessages
  /\ called' = called + 1
  /\ msg' = [msg EXCEPT ![p] = called']
  /\ PubGoto(p, "eval")
  /\ UNCHANGED <<redis, stream, queue, lock, flushThread, flushPc, accepted,
                 dropped, faults>>

\* cached_eval: the script runs, or a replica raises READONLY.
Eval(p) ==
  /\ pubPc[p] = "eval"
  /\ \/ /\ ~readonly
        /\ stream' = Append(stream, msg[p])
        /\ PubGoto(p, "ready")
     \/ /\ readonly
        /\ PubGoto(p, "append")
        /\ UNCHANGED stream
  /\ UNCHANGED <<redis, queue, lock, flushThread, msg, flushPc, accepted,
                 dropped, called, faults>>

\* Any other error goes to the caller; the script may have run or not.
EvalFails(p) ==
  /\ pubPc[p] = "eval"
  /\ faults < MaxFaults
  /\ faults' = faults + 1
  /\ stream' \in {stream, Append(stream, msg[p])}
  /\ PubGoto(p, "ready")
  /\ UNCHANGED <<redis, queue, lock, flushThread, msg, flushPc, accepted,
                 dropped, called>>

\* Mutant: the bound is checked before the message is added.
EnqueueOneMore(p) ==
  /\ pubPc[p] = "append"
  /\ lock = Nobody
  /\ LET full == Len(queue) > MaxQueue
     IN  /\ queue' = Append(IF full THEN Tail(queue) ELSE queue, msg[p])
         /\ dropped' = IF full THEN dropped \cup {Head(queue)} ELSE dropped
  /\ accepted' = Append(accepted, msg[p])
  /\ PubGoto(p, "check")
  /\ UNCHANGED <<redis, stream, lock, flushThread, msg, flushPc, called,
                 faults>>

\* Mutant: a full queue gives up the new message, not the oldest.
EnqueueUnlessFull(p) ==
  /\ pubPc[p] = "append"
  /\ lock = Nobody
  /\ LET full == Len(queue) = MaxQueue
     IN  /\ queue' = IF full THEN queue ELSE Append(queue, msg[p])
         /\ dropped' = IF full THEN dropped \cup {msg[p]} ELSE dropped
  /\ accepted' = Append(accepted, msg[p])
  /\ PubGoto(p, "check")
  /\ UNCHANGED <<redis, stream, lock, flushThread, msg, flushPc, called,
                 faults>>

\* The first critical section: queue the message, drop the oldest when full.
Enqueue(p) ==
  /\ pubPc[p] = "append"
  /\ lock = Nobody
  /\ LET longer == Append(queue, msg[p])
         full   == Len(longer) > MaxQueue
     IN  /\ queue' = IF full THEN Tail(longer) ELSE longer
         /\ dropped' = IF full THEN dropped \cup {Head(longer)} ELSE dropped
  /\ accepted' = Append(accepted, msg[p])
  /\ PubGoto(p, "check")
  /\ UNCHANGED <<redis, stream, lock, flushThread, msg, flushPc, called,
                 faults>>

\* if @flush_backlog_thread == nil, read without the mutex.
CheckThread(p) ==
  /\ pubPc[p] = "check"
  /\ PubGoto(p, IF flushThread = Nobody THEN "spawn" ELSE "ready")
  /\ UNCHANGED <<redis, stream, queue, lock, flushThread, msg, flushPc,
                 accepted, dropped, called, faults>>

\* Mutant: the second critical section does not ask again.
SpawnAnyway(p) ==
  /\ pubPc[p] = "spawn"
  /\ lock = Nobody
  /\ \E t \in Threads : /\ flushPc[t] = "off"
                        /\ flushThread' = t
                        /\ flushPc' = [flushPc EXCEPT ![t] = "probe"]
  /\ PubGoto(p, "ready")
  /\ UNCHANGED <<redis, stream, queue, lock, msg, accepted, dropped, called,
                 faults>>

\* The second critical section asks again before it starts the thread.
SpawnThread(p) ==
  /\ pubPc[p] = "spawn"
  /\ lock = Nobody
  /\ \/ /\ flushThread = Nobody
        /\ \E t \in Threads : /\ flushPc[t] = "off"
                              /\ flushThread' = t
                              /\ flushPc' = [flushPc EXCEPT ![t] = "probe"]
     \/ /\ flushThread # Nobody
        /\ UNCHANGED <<flushThread, flushPc>>
  /\ PubGoto(p, "ready")
  /\ UNCHANGED <<redis, stream, queue, lock, msg, accepted, dropped, called,
                 faults>>

-----------------------------------------------------------------------------
FlushGoto(t, label) == flushPc' = [flushPc EXCEPT ![t] = label]

\* is_readonly? writes a key; while it is refused the thread sleeps and asks
\* again, which changes nothing here.
Probe(t) ==
  /\ flushPc[t] = "probe"
  /\ ~readonly
  /\ FlushGoto(t, "lock")
  /\ UNCHANGED <<redis, stream, queue, lock, flushThread, pubPc, msg, accepted,
                 dropped, called, faults>>

\* is_readonly? rescues command errors only: a connection error ends the thread.
ProbeFails(t) ==
  /\ flushPc[t] = "probe"
  /\ faults < MaxFaults
  /\ faults' = faults + 1
  /\ FlushGoto(t, "ensure")
  /\ UNCHANGED <<redis, stream, queue, lock, flushThread, pubPc, msg, accepted,
                 dropped, called>>

\* Mutant: an empty queue does not end the loop.
TakeLockForever(t) ==
  /\ flushPc[t] = "lock"
  /\ lock = Nobody
  /\ \/ /\ queue = <<>>
        /\ FlushGoto(t, "probe")
        /\ UNCHANGED lock
     \/ /\ queue # <<>>
        /\ FlushGoto(t, "publish")
        /\ lock' = t
  /\ UNCHANGED <<redis, stream, queue, flushThread, pubPc, msg, accepted,
                 dropped, called, faults>>

\* @lock.synchronize; an empty queue breaks out of it, the work is done.
TakeLock(t) ==
  /\ flushPc[t] = "lock"
  /\ lock = Nobody
  /\ \/ /\ queue = <<>>
        /\ FlushGoto(t, "ensure")
        /\ UNCHANGED lock
     \/ /\ queue # <<>>
        /\ FlushGoto(t, "publish")
        /\ lock' = t
  /\ UNCHANGED <<redis, stream, queue, flushThread, pubPc, msg, accepted,
                 dropped, called, faults>>

\* Mutant: the message is removed although a replica refused it.
FlushOneAway(t) ==
  /\ flushPc[t] = "publish"
  /\ stream' = IF readonly THEN stream ELSE Append(stream, Head(queue))
  /\ queue' = Tail(queue)
  /\ lock' = Nobody
  /\ FlushGoto(t, "probe")
  /\ UNCHANGED <<redis, flushThread, pubPc, msg, accepted, dropped, called,
                 faults>>

\* Mutant: a refused message goes to the end of the queue.
FlushOneLater(t) ==
  /\ flushPc[t] = "publish"
  /\ stream' = IF readonly THEN stream ELSE Append(stream, Head(queue))
  /\ queue' = IF readonly THEN Append(Tail(queue), Head(queue)) ELSE Tail(queue)
  /\ lock' = Nobody
  /\ FlushGoto(t, "probe")
  /\ UNCHANGED <<redis, flushThread, pubPc, msg, accepted, dropped, called,
                 faults>>

\* publish(queue_in_memory: false) of the first message: published and
\* removed, or refused by a replica and kept (try_again).
FlushOne(t) ==
  /\ flushPc[t] = "publish"
  /\ \/ /\ ~readonly
        /\ stream' = Append(stream, Head(queue))
        /\ queue' = Tail(queue)
     \/ /\ readonly
        /\ UNCHANGED <<stream, queue>>
  /\ lock' = Nobody
  /\ FlushGoto(t, "probe")
  /\ UNCHANGED <<redis, flushThread, pubPc, msg, accepted, dropped, called,
                 faults>>

\* Mutant: any other error is retried too.
FlushRetries(t) ==
  /\ flushPc[t] = "publish"
  /\ faults < MaxFaults
  /\ faults' = faults + 1
  /\ stream' \in {stream, Append(stream, Head(queue))}
  /\ lock' = Nobody
  /\ FlushGoto(t, "probe")
  /\ UNCHANGED <<redis, queue, flushThread, pubPc, msg, accepted, dropped,
                 called>>

\* Any other error: "Dropping undeliverable message", though the script may
\* have run before the error.
FlushFails(t) ==
  /\ flushPc[t] = "publish"
  /\ faults < MaxFaults
  /\ faults' = faults + 1
  /\ stream' \in {stream, Append(stream, Head(queue))}
  /\ queue' = Tail(queue)
  /\ dropped' = dropped \cup {Head(queue)}
  /\ lock' = Nobody
  /\ FlushGoto(t, "probe")
  /\ UNCHANGED <<redis, flushThread, pubPc, msg, accepted, called>>

\* The ensure clause, in a critical section of its own.
Leave(t) ==
  /\ flushPc[t] = "ensure"
  /\ lock = Nobody
  /\ flushThread' = Nobody
  /\ FlushGoto(t, "off")
  /\ UNCHANGED <<redis, stream, queue, lock, pubPc, msg, accepted, dropped,
                 called, faults>>

-----------------------------------------------------------------------------
Publish(p) == Eval(p) \/ Enqueue(p) \/ CheckThread(p) \/ SpawnThread(p)
Flush(t) == Probe(t) \/ TakeLock(t) \/ FlushOne(t) \/ Leave(t)

\* All calls have been made and have returned, and no thread can go on.
Finished ==
  /\ called = MaxMessages
  /\ \A p \in Publishers : pubPc[p] = "ready"
  /\ \A t \in Threads : \/ flushPc[t] = "off"
                        \/ flushPc[t] = "probe" /\ readonly
  /\ UNCHANGED vars

Next ==
  \/ Failover
  \/ \E p \in Publishers : Call(p) \/ Publish(p) \/ EvalFails(p)
  \/ \E t \in Threads : Flush(t) \/ ProbeFails(t) \/ FlushFails(t)
  \/ Finished

Spec == Init /\ [][Next]_vars

\* A call that was made goes on, and so does the flush thread; errors and
\* failovers need not happen.
FairSpec ==
  /\ Spec
  /\ \A p \in Publishers : WF_vars(Publish(p))
  /\ \A t \in Threads : WF_vars(Flush(t))

-----------------------------------------------------------------------------
Elements(seq) == {seq[i] : i \in DOMAIN seq}

\* At most one thread is flushing the queue: publishers that see no thread at
\* the same time must not start one each.
OneFlusher ==
  \A t, u \in Threads : flushPc[t] # "off" /\ flushPc[u] # "off" => t = u

\* The script runs at most once for a message: what may already have been
\* published is given up, never tried again.
AtMostOnce ==
  \A i, j \in DOMAIN stream : stream[i] = stream[j] => i = j

\* A queued message is still queued, or published, or given up, and a message
\* waiting to be published has not been published.
Accounted ==
  /\ Elements(accepted)
       \subseteq Elements(queue) \cup Elements(stream) \cup dropped
  /\ Elements(queue) \cap (Elements(stream) \cup dropped) = {}

\* Messages that went through the queue are published in the order they were
\* queued, whatever failed in between.
FlushedInOrder ==
  \A i, j \in DOMAIN accepted : \A k, l \in DOMAIN stream :
    accepted[i] = stream[k] /\ accepted[j] = stream[l] /\ i < j => k < l

\* Short of errors, a message is given up only when as many later ones as
\* max_in_memory_publish_backlog have been queued.
GivenUpWhenFull ==
  faults = 0 => \A i \in DOMAIN accepted :
    accepted[i] \in dropped => i + MaxQueue <= Len(accepted)

\* A flush thread ends, or waits for Redis to be writable again: the thread
\* that holds the mutex never waits for it, and it runs out of messages.
FlushEnds ==
  \A t \in Threads :
    (flushPc[t] # "off")
      ~> \/ flushPc[t] = "off"
         \/ flushPc[t] = "probe" /\ readonly

\* A queued message is "to be re-tried later": as long as one is queued there
\* is a thread to publish it, or a publisher that has yet to look for one.
NothingStranded ==
  queue # <<>> => \/ \E t \in Threads : flushPc[t] # "off"
                 \/ \E p \in Publishers : pubPc[p] \in {"check", "spawn"}
=============================================================================

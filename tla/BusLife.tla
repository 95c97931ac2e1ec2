------------------------------- MODULE BusLife -------------------------------
(***************************************************************************)
(* The life cycle of a bus (src/lib/message_bus.rb): the subscriber thread *)
(* and its keepalive jobs, destroy, and after_fork, over the timer thread. *)
(* The threads of a program call subscribe, destroy and timer.queue, or    *)
(* fork; after a fork the run follows the child.                           *)
(*                                                                         *)
(* Of the backend there is the subscription itself: UNSUB reaches a        *)
(* thread that is SUBSCRIBEd when it is published, and no other.           *)
(***************************************************************************)
EXTENDS TimerThread

CONSTANTS
  Callers,         \* the program's threads
  Threads,         \* subscriber threads, numbered in the order they start:
                   \* bound: how many there are
  Blocks,          \* the jobs the program queues
  Nop,             \* the one after_fork queues
  Delays,          \* and their delays
  KeepaliveInterval,
  MaxTroubles      \* bound: forks, subscriptions lost, threads ended by an
                   \* error, and keepalives that cannot be published

ASSUME BusAssumption ==
  /\ Users = Callers \cup {Itself} /\ Itself \notin Callers
  /\ Threads \subseteq Nat
  /\ Jobs = Blocks \cup Threads \cup {Nop} /\ Blocks \cap Threads = {}
  /\ Nop \notin Threads /\ None \notin Entry
  /\ KeepaliveInterval \in 1..MaxDelay /\ Delays \subseteq 0..MaxDelay
  /\ MaxTroubles \in Nat

VARIABLES
  destroyed,       \* @destroyed
  current,         \* @subscriber_thread
  mutex,           \* who holds @mutex across a call of the timer
  at,              \* where each caller is
  afterFork,       \* whether its ensure_subscriber_thread is after_fork's
  spawned,         \* the thread new_subscriber_thread has started
  thread,          \* the state of each subscriber thread
  unsub,           \* the threads UNSUB has reached and that have not read it
  asked,           \* the blocks queued so far
  lostUnsub,       \* history: UNSUB missed a live thread, or its connection
                   \* was lost before it was read
  unpublished,     \* history: the threads a keepalive of which failed
  troubles         \* how much of the bound is used

busVars == <<destroyed, current, mutex, at, afterFork, spawned, thread, unsub,
             asked, lostUnsub, unpublished, troubles>>
vars == <<timerVars, busVars>>

BusTypeOK ==
  /\ destroyed \in BOOLEAN
  /\ current \in Threads \cup {None}
  /\ mutex \in Callers \cup {None}
  /\ at \in [Callers -> {"free", "ensure", "spawning", "ensured", "unsub",
                         "mark", "join", "destroyed", "gone"}]
  /\ afterFork \in [Callers -> BOOLEAN]
  /\ spawned \in [Callers -> Threads \cup {None}]
  /\ thread \in [Threads -> {"unborn", "new", "starting", "listening", "dead"}]
  /\ unsub \subseteq Threads
  /\ asked \subseteq Blocks
  /\ lostUnsub \in BOOLEAN
  /\ unpublished \subseteq Threads
  /\ troubles \in 0..MaxTroubles

TypeOK == TimerTypeOK /\ BusTypeOK

Init ==
  /\ TimerInit
  /\ destroyed = FALSE
  /\ current = None
  /\ mutex = None
  /\ at = [c \in Callers |-> "free"]
  /\ afterFork = [c \in Callers |-> FALSE]
  /\ spawned = [c \in Callers |-> None]
  /\ thread = [t \in Threads |-> "unborn"]
  /\ unsub = {}
  /\ asked = {}
  /\ lostUnsub = FALSE
  /\ unpublished = {}
  /\ troubles = 0

Alive(t) == thread[t] \in {"new", "starting", "listening"}

\* In global_subscribe, where it looks at @destroyed for a message only.
Subscribing(t) == thread[t] \in {"starting", "listening"}

\* One thread more can be started within the bound.
Spare == \E t \in Threads : thread[t] = "unborn"

Trouble == troubles < MaxTroubles /\ troubles' = troubles + 1

GoTo(c, label) == at' = [at EXCEPT ![c] = label]

-----------------------------------------------------------------------------
(* The program's threads.                                                  *)

Free(c) == at[c] = "free" /\ Returned(c)

\* timer.queue with a block.
CallerQueues(c) ==
  /\ Free(c)
  /\ \E j \in Blocks \ asked, d \in Delays :
       /\ clock + d <= MaxTime
       /\ Queue(c, j, d)
       /\ asked' = asked \cup {j}
  /\ UNCHANGED <<destroyed, current, mutex, at, afterFork, spawned, thread,
                 unsub, lostUnsub, unpublished, troubles>>

\* subscribe_impl: BusDestroyed is raised for a destroyed bus.
SubscribeBegins(c) ==
  /\ Free(c) /\ ~destroyed
  /\ GoTo(c, "ensure")
  /\ UNCHANGED <<timerVars, destroyed, current, mutex, afterFork, spawned,
                 thread, unsub, asked, lostUnsub, unpublished, troubles>>

Serves == current # None /\ Alive(current)

\* subscribe returns, or raises; after_fork goes on.
Ensured(c) == GoTo(c, IF afterFork[c] THEN "ensured" ELSE "free")

\* new_subscriber_thread starts a thread and queues its keepalive.
Starts(c) ==
  /\ \E t \in Threads :
       /\ {u \in Threads : thread[u] = "unborn" /\ u <= t} = {t}
       /\ thread' = [thread EXCEPT ![t] = "new"]
       /\ spawned' = [spawned EXCEPT ![c] = t]
       /\ Queue(c, t, KeepaliveInterval)
  /\ GoTo(c, "spawning")

\* Mutant: the thread is looked at, and replaced, without the mutex.
EnsureUnlocked(c) ==
  /\ at[c] = "ensure"
  /\ \/ /\ destroyed \/ Serves
        /\ Ensured(c)
        /\ UNCHANGED <<timerVars, spawned, thread>>
     \/ ~destroyed /\ ~Serves /\ Starts(c)
  /\ UNCHANGED <<destroyed, current, mutex, afterFork, unsub, asked, lostUnsub,
                 unpublished, troubles>>

\* ensure_subscriber_thread enters its critical section.  Waiting for the
\* backend to be subscribed, for 0.1 s at most, changes nothing.
Ensure(c) ==
  /\ at[c] = "ensure" /\ mutex = None
  /\ \/ /\ destroyed \/ Serves
        /\ Ensured(c)
        /\ UNCHANGED <<timerVars, mutex, spawned, thread>>
     \/ ~destroyed /\ ~Serves /\ Starts(c) /\ mutex' = c
  /\ UNCHANGED <<destroyed, current, afterFork, unsub, asked, lostUnsub,
                 unpublished, troubles>>

\* @subscriber_thread is assigned and @mutex released.
Spawned(c) ==
  /\ at[c] = "spawning" /\ Returned(c)
  /\ current' = spawned[c]
  /\ spawned' = [spawned EXCEPT ![c] = None]
  /\ mutex' = None
  /\ Ensured(c)
  /\ UNCHANGED <<timerVars, destroyed, afterFork, thread, unsub, asked,
                 lostUnsub, unpublished, troubles>>

\* after_fork: timer.queue {}
QueueNop(c) ==
  /\ at[c] = "ensured"
  /\ Queue(c, Nop, 0)
  /\ GoTo(c, "free")
  /\ afterFork' = [afterFork EXCEPT ![c] = FALSE]
  /\ UNCHANGED <<destroyed, current, mutex, spawned, thread, unsub, asked,
                 lostUnsub, unpublished, troubles>>

\* fork, then after_fork in the child.  Threads die, and with them the mutexes
\* they hold are given up.
Fork(c) ==
  /\ Trouble /\ Spare
  /\ Free(c)
  /\ TimerForked(c)
  /\ mutex' = None
  /\ at' = [d \in Callers |-> IF d = c THEN "ensure" ELSE "gone"]
  /\ afterFork' = [afterFork EXCEPT ![c] = TRUE]
  /\ thread' = [t \in Threads |-> IF thread[t] = "unborn" THEN "unborn"
                                                          ELSE "dead"]
  /\ spawned' = [d \in Callers |-> None]
  /\ unsub' = {}
  /\ UNCHANGED <<destroyed, current, asked, lostUnsub, unpublished>>

-----------------------------------------------------------------------------
(* destroy.                                                                *)

DestroyBegins(c) ==
  /\ Free(c) /\ ~destroyed
  /\ GoTo(c, "unsub")
  /\ UNCHANGED <<timerVars, destroyed, current, mutex, afterFork, spawned,
                 thread, unsub, asked, lostUnsub, unpublished, troubles>>

\* global_unsubscribe: whoever listens is sent UNSUB.
PublishUnsub(c) ==
  /\ at[c] = "unsub"
  /\ unsub' = unsub \cup {t \in Threads : thread[t] = "listening"}
  /\ GoTo(c, "mark")
  /\ UNCHANGED <<timerVars, destroyed, current, mutex, afterFork, spawned,
                 thread, asked, lostUnsub, unpublished, troubles>>

\* Mutant: @destroyed is set without the mutex.
MarkUnlocked(c) ==
  /\ at[c] = "mark"
  /\ destroyed' = TRUE
  /\ GoTo(c, IF destroyed THEN "free" ELSE "join")
  /\ lostUnsub' = (lostUnsub \/ \E t \in Threads \ unsub : Subscribing(t))
  /\ UNCHANGED <<timerVars, current, mutex, afterFork, spawned, thread, unsub,
                 asked, unpublished, troubles>>

\* Of several that destroy the bus one goes on.  History: a thread that
\* subscribes has no UNSUB to read.
Mark(c) ==
  /\ at[c] = "mark" /\ mutex = None
  /\ destroyed' = TRUE
  /\ GoTo(c, IF destroyed THEN "free" ELSE "join")
  /\ lostUnsub' = (lostUnsub \/ \E t \in Threads \ unsub : Subscribing(t))
  /\ UNCHANGED <<timerVars, current, mutex, afterFork, spawned, thread, unsub,
                 asked, unpublished, troubles>>

\* The subscriber thread is joined; the timer is stopped.
Join(c) ==
  /\ at[c] = "join" /\ ~Serves
  /\ Stop(c)
  /\ GoTo(c, "destroyed")
  /\ UNCHANGED <<destroyed, current, mutex, afterFork, spawned, thread, unsub,
                 asked, lostUnsub, unpublished, troubles>>

-----------------------------------------------------------------------------
(* The subscriber threads.                                                 *)

Becomes(t, state) ==
  /\ thread' = [thread EXCEPT ![t] = state]
  /\ UNCHANGED <<timerVars, destroyed, current, mutex, at, afterFork, spawned,
                 asked, unpublished>>

\* global_subscribe_thread unless @destroyed
Begin(t) ==
  /\ thread[t] = "new"
  /\ Becomes(t, IF destroyed THEN "dead" ELSE "starting")
  /\ UNCHANGED <<unsub, lostUnsub, troubles>>

Listen(t) ==
  /\ thread[t] = "starting"
  /\ Becomes(t, "listening")
  /\ UNCHANGED <<unsub, lostUnsub, troubles>>

\* Mutant: the thread subscribes again.
ReadUnsubRetries(t) ==
  /\ thread[t] = "listening" /\ t \in unsub
  /\ Becomes(t, "starting")
  /\ unsub' = unsub \ {t}
  /\ UNCHANGED <<lostUnsub, troubles>>

ReadUnsub(t) ==
  /\ thread[t] = "listening" /\ t \in unsub
  /\ Becomes(t, "dead")
  /\ unsub' = unsub \ {t}
  /\ UNCHANGED <<lostUnsub, troubles>>

\* A message: the block returns from the thread if the bus is destroyed.
ReadMessage(t) ==
  /\ thread[t] = "listening" /\ mutex = None /\ destroyed
  /\ Becomes(t, "dead")
  /\ unsub' = unsub \ {t}
  /\ UNCHANGED <<lostUnsub, troubles>>

\* The connection is lost, and with it what was pushed on it; global_subscribe
\* connects again.  Or it raises, which ends the thread.
Breaks(t) ==
  /\ Subscribing(t)
  /\ Trouble
  /\ \/ Becomes(t, "starting")
     \/ Spare /\ Becomes(t, "dead")
  /\ unsub' = unsub \ {t}
  /\ lostUnsub' = (lostUnsub \/ destroyed)

-----------------------------------------------------------------------------
(* The jobs the timer's thread runs.                                       *)

Job == worker.entry.job

RunBlock ==
  /\ worker.pc = "job"
  /\ worker.entry # None => Job \notin Threads
  /\ JobDone
  /\ UNCHANGED busVars

\* Mutant: the keepalive is not queued again.
KeepaliveOnce ==
  /\ worker.pc = "job" /\ worker.entry # None /\ Job \in Threads
  /\ JobDone
  /\ UNCHANGED busVars

\* The keepalive of a thread: if that lives it is published and queued again.
Keepalive ==
  /\ worker.pc = "job" /\ worker.entry # None /\ Job \in Threads
  /\ IF ~destroyed /\ Alive(Job)
     THEN /\ Goto("requeue")
          /\ call' = [call EXCEPT ![Itself] =
                        [pc |-> "insert", job |-> Job,
                         at |-> clock + KeepaliveInterval]]
          /\ UNCHANGED <<clock, jobs, next, stopped, stale, unheard>>
     ELSE JobDone
  /\ UNCHANGED busVars

\* publish raises: the error is logged and the job is over.
KeepaliveRaises ==
  /\ worker.pc = "job" /\ worker.entry # None /\ Job \in Threads
  /\ ~destroyed /\ Alive(Job)
  /\ Trouble
  /\ unpublished' = unpublished \cup {Job}
  /\ JobDone
  /\ UNCHANGED <<destroyed, current, mutex, at, afterFork, spawned, thread,
                 unsub, asked, lostUnsub>>

Requeued ==
  /\ worker.pc = "requeue" /\ Returned(Itself)
  /\ JobDone
  /\ UNCHANGED busVars

-----------------------------------------------------------------------------
Timer == (DoWork /\ UNCHANGED busVars) \/ RunBlock \/ Keepalive \/ Requeued

InTimer(u) == UserStep(u) /\ UNCHANGED busVars

\* What a thread of the program does once it has called something.
GoesOn(c) ==
  \/ Ensure(c) \/ Spawned(c) \/ QueueNop(c)
  \/ PublishUnsub(c) \/ Mark(c) \/ Join(c)

Calls(c) == CallerQueues(c) \/ SubscribeBegins(c) \/ DestroyBegins(c) \/ Fork(c)

Subscriber(t) == Begin(t) \/ Listen(t) \/ ReadUnsub(t)

Ticks == Tick /\ UNCHANGED busVars

\* The bus is destroyed and its timer gone, or a caller needs one thread more
\* than the bound: the behaviour may end.
Over ==
  /\ \/ worker.pc = "dead" /\ destroyed
     \/ ~Spare /\ \E c \in Callers : at[c] = "ensure"
  /\ UNCHANGED vars

Next ==
  \/ \E c \in Callers : Calls(c) \/ GoesOn(c)
  \/ \E u \in Users : InTimer(u)
  \/ \E t \in Threads : Subscriber(t) \/ ReadMessage(t) \/ Breaks(t)
  \/ Timer \/ KeepaliveRaises \/ Ticks \/ Over

Spec == Init /\ [][Next]_vars

\* Threads go on with what they have begun, and time passes; nobody has to call
\* anything, and no message has to come.
FairSpec ==
  /\ Spec /\ WF_vars(Timer) /\ WF_vars(Ticks)
  /\ \A c \in Callers : WF_vars(GoesOn(c))
  /\ \A u \in Users : WF_vars(InTimer(u))
  /\ \A t \in Threads : WF_vars(Subscriber(t))

-----------------------------------------------------------------------------
\* However many threads subscribe at once, one thread at most listens for the
\* bus: two would run every callback twice.
OneSubscriber == Cardinality({t \in Threads : Alive(t)}) <= 1

\* The keepalive jobs of thread t that are queued or about to be.
Keepalives(t) ==
  Cardinality({k \in DOMAIN jobs : jobs[k].job = t})
  + Cardinality({u \in Users : call[u].pc = "insert" /\ call[u].job = t})
  + (IF worker.pc \in {"job", "shift"} /\ worker.entry # None
        /\ worker.entry.job = t THEN 1 ELSE 0)

\* The bus's thread has exactly one keepalive job for as long as it lives, as
\* long as every keepalive can be published: replacing the thread, a fork and
\* the jobs inherited from before it neither end the chain nor double it.
OneKeepalive ==
  ~destroyed /\ Serves /\ current \notin unpublished => Keepalives(current) = 1

DestroyReturned(c) == at[c] = "destroyed" /\ Returned(c)

\* "Stops listening for publications and stops executing scheduled tasks": when
\* destroy has returned no thread listens and none runs a job.
QuietAfterDestroy ==
  (\E c \in Callers : DestroyReturned(c)) =>
    (\A t \in Threads : ~Alive(t)) /\ worker.pc \in {"dead", "top"}

\* Every queued job leaves the queue, if the bus is not destroyed.
JobsRun == \A j \in Blocks : Queued(j) ~> (~Queued(j) \/ destroyed)

\* destroy returns, unless its UNSUB missed the subscriber thread: no other wait
\* in it depends on a call or a message that may not come.
DestroyEnds ==
  \A c \in Callers :
    (at[c] = "unsub") ~>
      (DestroyReturned(c) \/ at[c] \in {"free", "gone"} \/ lostUnsub)
=============================================================================

---------------------------- MODULE BusLifeProofs ----------------------------
(***************************************************************************)
(* For any number of threads that subscribe, queue jobs, fork and destroy  *)
(* the bus: one subscriber thread at most, silence after destroy, and what *)
(* TimerThreadProofs shows of the timer.                                   *)
(***************************************************************************)
EXTENDS BusLife, TimerThreadProofs

\* A caller that spawns a thread holds the mutex, and no other thread serves.
Locked ==
  \A c \in Callers : at[c] = "spawning" =>
    /\ mutex = c /\ ~destroyed /\ ~Serves
    /\ spawned[c] \in Threads /\ thread[spawned[c]] # "unborn"

\* A thread that lives is the bus's or about to be.
Known ==
  \A t \in Threads : Alive(t) =>
    current = t \/ \E c \in Callers : at[c] = "spawning" /\ spawned[c] = t

Born == current # None => thread[current] # "unborn"

Marked ==
  \A c \in Callers : at[c] \in {"join", "destroyed"} => destroyed

\* destroy stops the timer after the thread is gone, and returns when it is.
Ended(c) ==
  /\ ~Serves /\ stopped
  /\ \/ call[c].pc = "stopping"
     \/ Returned(c) /\ worker.pc \in {"dead", "top"}

Silenced == \A c \in Callers : at[c] = "destroyed" => Ended(c)

BusSafe ==
  /\ BusTypeOK /\ TimerSafe
  /\ Locked /\ Known /\ Born /\ Marked /\ Silenced

LEMMA Constants ==
  /\ Callers \subseteq Users /\ Itself \in Users
  /\ \A c \in Callers : c # None /\ c # Itself
  /\ \A t \in Threads : t # None /\ t \in Jobs
  /\ Blocks \subseteq Jobs /\ Nop \in Jobs
  /\ KeepaliveInterval \in 0..MaxDelay /\ Delays \subseteq 0..MaxDelay
BY TimerAssumption, BusAssumption

-----------------------------------------------------------------------------
(* What the properties need of the invariant.                              *)

LEMMA OneAlive == BusSafe => OneSubscriber
<1>. SUFFICES ASSUME BusSafe PROVE OneSubscriber
  OBVIOUS
<1>. DEFINE alive == {t \in Threads : Alive(t)}
<1>1. \A t, u \in alive : t = u
  BY Constants DEF BusSafe, Known, Locked, Serves
<1>2. alive = {} \/ \E t : alive = {t}
  BY <1>1
<1>. HIDE DEF alive
<1>3. Cardinality(alive) = 0 \/ Cardinality(alive) = 1
  <2>1. CASE alive = {}
    BY <2>1, FS_EmptySet
  <2>2. ASSUME NEW t, alive = {t} PROVE Cardinality(alive) = 1
    BY <2>2, FS_Singleton
  <2>. QED
    BY <1>2, <2>1, <2>2
<1>. QED
  BY <1>3 DEF OneSubscriber, alive

LEMMA QuietWhenEnded == BusSafe => QuietAfterDestroy
<1>. SUFFICES ASSUME BusSafe, NEW c \in Callers, DestroyReturned(c)
              PROVE  /\ \A t \in Threads : ~Alive(t)
                     /\ worker.pc \in {"dead", "top"}
  BY DEF QuietAfterDestroy
<1>1. destroyed /\ ~Serves /\ worker.pc \in {"dead", "top"}
  BY DEF BusSafe, Marked, Silenced, Ended, DestroyReturned, Returned
<1>. QED
  BY <1>1, Constants DEF BusSafe, Known, Locked, Serves

LEMMA BusSafeInit == Init => BusSafe
<1>. SUFFICES ASSUME Init PROVE BusSafe
  OBVIOUS
<1>1. TimerSafe
  BY TimerSafeInit DEF Init
<1>. USE DEF Init
<1>2. BusTypeOK
  <2>1. at \in [Callers -> {"free"}] /\ afterFork \in [Callers -> {FALSE}]
    OBVIOUS
  <2>2. spawned \in [Callers -> {None}] /\ thread \in [Threads -> {"unborn"}]
    OBVIOUS
  <2>3. troubles \in 0..MaxTroubles
    BY BusAssumption
  <2>. QED
    BY <2>1, <2>2, <2>3 DEF BusTypeOK
<1>3. Locked /\ Known /\ Born /\ Marked /\ Silenced
  BY DEF Init, Locked, Known, Alive, Born, Marked, Silenced
<1>. QED
  BY <1>1, <1>2, <1>3 DEF BusSafe

-----------------------------------------------------------------------------
(* The timer's own steps: of the bus's invariant they touch Silenced only. *)

\* A step that changes no variable of the bus.
LEMMA BusAsItWas ==
  ASSUME BusSafe, TimerSafe', UNCHANGED busVars,
         \A c \in Callers : at[c] = "destroyed" => Ended(c)'
  PROVE  BusSafe'
<1>. USE DEF BusSafe, busVars
<1>1. BusTypeOK' /\ Locked' /\ Known' /\ Born' /\ Marked'
  BY DEF BusTypeOK, Locked, Known, Born, Marked, Serves, Alive
<1>. QED
  BY <1>1 DEF Silenced

\* A stopped timer that is dead or about to be stays so.
LEMMA DoWorkEnds ==
  ASSUME BusSafe, DoWork, UNCHANGED busVars, NEW c \in Callers,
         at[c] = "destroyed"
  PROVE  Ended(c)'
<1>1. Ended(c)
  BY DEF BusSafe, Silenced
<1>2. Serves' = Serves /\ stopped' = stopped /\ call' = call
  BY DEF Serves, Alive, busVars, DoWork, Top, Shift, Renext, Measure,
         FallAsleep, Awake
<1>3. stopped /\ worker.pc \in {"dead", "top"} => worker'.pc = "dead"
  BY DEF BusSafe, TimerSafe, TimerTypeOK, DoWork, Top, Shift, Renext, Measure,
         FallAsleep, Awake
<1>. QED
  BY <1>1, <1>2, <1>3 DEF Ended, Returned

LEMMA UserStepEnds ==
  ASSUME BusSafe, NEW u \in Users, UserStep(u), UNCHANGED busVars,
         NEW c \in Callers, at[c] = "destroyed"
  PROVE  Ended(c)'
<1>1. Ended(c)
  BY DEF BusSafe, Silenced
<1>. USE DEF BusSafe, TimerSafe, TimerTypeOK
<1>2. Serves' = Serves /\ stopped' = stopped
  BY DEF Serves, Alive, busVars, UserStep, Insert, Respawn, Wake, StopWakes,
         StopEnds
<1>3. c \in Users
  BY Constants
<1>4. worker.pc \in {"dead", "top"} => worker'.pc \in {"dead", "top"}
  BY DEF UserStep, Insert, Respawn, Wake, StopWakes, StopEnds
<1>5. \/ call'[c] = call[c]
      \/ call'[c].pc = "none" /\ worker'.pc = "dead"
  <2>1. CASE u = c
    <3>1. call[c].pc \in {"stopping", "none"}
      BY <1>1 DEF Ended, Returned
    <3>2. StopWakes(u) \/ StopEnds(u)
      BY <2>1, <3>1 DEF UserStep, Insert, Respawn, Wake
    <3>3. CASE StopWakes(u)
      BY <3>3 DEF StopWakes
    <3>4. CASE StopEnds(u)
      <4>1. call'[c] = NoCall /\ worker'.pc = "dead"
        BY <2>1, <3>4, <1>3 DEF StopEnds
      <4>. QED
        BY <4>1 DEF NoCall
    <3>. QED
      BY <3>2, <3>3, <3>4
  <2>2. CASE u # c
    <3>1. \E x : call' = [call EXCEPT ![u] = x] \/ call' = call
      BY DEF UserStep, Insert, Respawn, Wake, StopWakes, StopEnds
    <3>. QED
      BY <1>3, <2>2, <3>1
  <2>. QED
    BY <2>1, <2>2
<1>. QED
  BY <1>1, <1>2, <1>4, <1>5 DEF Ended, Returned

\* When destroy has returned no job runs.
LEMMA NoJobWhenEnded ==
  ASSUME BusSafe, Running, NEW c \in Callers, at[c] = "destroyed"
  PROVE  stopped /\ ~Serves /\ call[c].pc = "stopping"
BY DEF BusSafe, Silenced, Ended, Running

LEMMA JobDoneEnds ==
  ASSUME BusSafe, Running, JobDone, UNCHANGED busVars
  PROVE  BusSafe'
<1>1. TimerSafe'
  BY JobDoneSafe DEF BusSafe
<1>2. ASSUME NEW c \in Callers, at[c] = "destroyed"
      PROVE  Ended(c)'
  BY <1>2, NoJobWhenEnded DEF Ended, JobDone, Serves, Alive, busVars
<1>. QED
  BY <1>1, <1>2, BusAsItWas

\* The keepalive of a thread that lives goes on to queue itself.
LEMMA RequeueSafe ==
  ASSUME TimerSafe, worker.pc = "job", NEW t \in Threads, Goto("requeue"),
         call' = [call EXCEPT ![Itself] = [pc |-> "insert", job |-> t,
                                           at |-> clock + KeepaliveInterval]],
         UNCHANGED <<clock, jobs, next, stopped, stale, unheard>>
  PROVE  TimerSafe'
<1>. USE DEF TimerSafe, Goto
<1>1. clock + KeepaliveInterval \in Time
  BY Constants, TimerAssumption DEF TimerTypeOK, Time
<1>2. TimerTypeOK'
  BY <1>1, Constants DEF TimerTypeOK
<1>3. Asked'
  BY Constants DEF Asked, TimerTypeOK
<1>4. worker'.pc = "requeue"
  BY DEF TimerTypeOK
<1>5. Sorted' /\ Leads' /\ Fresh' /\ Ripe' /\ NeverEarly' /\ Heard'
  BY <1>4 DEF Sorted, Leads, Fresh, Running, Ripe, NeverEarly, Heard
<1>. QED
  BY <1>2, <1>3, <1>5

LEMMA KeepaliveEnds == BusSafe /\ Keepalive => BusSafe'
<1>. SUFFICES ASSUME BusSafe, Keepalive PROVE BusSafe'
  OBVIOUS
<1>. USE DEF Keepalive
<1>1. CASE ~destroyed /\ Alive(Job)
  <2>1. TimerSafe'
    BY <1>1, RequeueSafe DEF BusSafe
  <2>2. ~destroyed => \A c \in Callers : at[c] # "destroyed"
    BY DEF BusSafe, Marked
  <2>. QED
    BY <1>1, <2>1, <2>2, BusAsItWas
<1>2. CASE ~(~destroyed /\ Alive(Job))
  BY <1>2, JobDoneEnds DEF Running
<1>. QED
  BY <1>1, <1>2

LEMMA TimerEnds == BusSafe /\ Timer => BusSafe'
<1>. SUFFICES ASSUME BusSafe, Timer PROVE BusSafe'
  OBVIOUS
<1>1. CASE DoWork /\ UNCHANGED busVars
  BY <1>1, DoWorkSafe, DoWorkEnds, BusAsItWas DEF BusSafe
<1>2. CASE RunBlock
  BY <1>2, JobDoneEnds DEF RunBlock, Running
<1>3. CASE Keepalive
  BY <1>3, KeepaliveEnds
<1>4. CASE Requeued
  BY <1>4, JobDoneEnds DEF Requeued, Running
<1>. QED
  BY <1>1, <1>2, <1>3, <1>4 DEF Timer

LEMMA TicksEnd == BusSafe /\ Ticks => BusSafe'
<1>. SUFFICES ASSUME BusSafe, Ticks PROVE BusSafe'
  OBVIOUS
<1>1. TimerSafe'
  BY TickSafe DEF BusSafe, Ticks
<1>2. ASSUME NEW c \in Callers, at[c] = "destroyed"
      PROVE  Ended(c)'
  BY <1>2 DEF BusSafe, Silenced, Ended, Returned, Serves, Alive, Ticks, Tick,
              busVars
<1>. QED
  BY <1>1, <1>2, BusAsItWas DEF Ticks

LEMMA InTimerEnds ==
  ASSUME BusSafe, NEW u \in Users, InTimer(u)
  PROVE  BusSafe'
BY UserStepSafe, UserStepEnds, BusAsItWas DEF InTimer, BusSafe

LEMMA KeepaliveRaisesEnds == BusSafe /\ KeepaliveRaises => BusSafe'
<1>. SUFFICES ASSUME BusSafe, KeepaliveRaises PROVE BusSafe'
  OBVIOUS
<1>. USE DEF KeepaliveRaises
<1>1. TimerSafe'
  BY JobDoneSafe DEF BusSafe, Running
<1>2. troubles' \in 0..MaxTroubles
  BY BusAssumption DEF Trouble, BusSafe, BusTypeOK
<1>3. BusTypeOK'
  BY <1>2 DEF BusSafe, BusTypeOK
<1>4. Locked' /\ Known' /\ Born' /\ Marked'
  BY DEF BusSafe, Locked, Known, Born, Marked, Serves, Alive
<1>5. Silenced'
  BY DEF BusSafe, Silenced, Marked
<1>. QED
  BY <1>1, <1>3, <1>4, <1>5 DEF BusSafe

-----------------------------------------------------------------------------
(* The steps of the program's threads.                                     *)

\* A caller that does not return from destroy, and leaves the timer's thread
\* and the callers that have destroyed the bus alone.
LEMMA OthersEnded ==
  ASSUME BusSafe, NEW c \in Callers, UNCHANGED <<worker, stopped>>,
         Serves' => Serves, at[c] # "destroyed", at'[c] # "destroyed",
         \A d \in Callers \ {c} : call'[d] = call[d] /\ at'[d] = at[d]
  PROVE  Silenced'
<1>. SUFFICES ASSUME NEW d \in Callers, at'[d] = "destroyed" PROVE Ended(d)'
  BY DEF Silenced
<1>1. d # c /\ at[d] = "destroyed" /\ call'[d] = call[d]
  OBVIOUS
<1>. QED
  BY <1>1 DEF BusSafe, Silenced, Ended, Returned

LEMMA CallerQueuesSafe ==
  ASSUME BusSafe, NEW c \in Callers, CallerQueues(c)
  PROVE  BusSafe'
<1>. USE DEF CallerQueues
<1>1. PICK j \in Blocks, d \in Delays :
        Queue(c, j, d) /\ asked' = asked \cup {j}
  OBVIOUS
<1>2. TimerSafe'
  BY <1>1, Constants, QueueSafe DEF BusSafe
<1>3. BusTypeOK' /\ Locked' /\ Known' /\ Born' /\ Marked'
  BY <1>1 DEF BusSafe, BusTypeOK, Locked, Known, Born, Marked, Serves, Alive
<1>4. at[c] # "destroyed" /\ Serves' = Serves
  BY DEF Free, Serves, Alive
<1>5. \A e \in Callers \ {c} : call'[e] = call[e]
  BY <1>1, Constants DEF Queue, BusSafe, TimerSafe, TimerTypeOK
<1>6. Silenced'
  BY <1>1, <1>4, <1>5, OthersEnded DEF Queue
<1>. QED
  BY <1>2, <1>3, <1>6 DEF BusSafe

\* The steps that only move a caller on.
LEMMA GoToSafe ==
  ASSUME BusSafe, NEW c \in Callers, UNCHANGED timerVars,
         NEW l \in {"ensure", "free", "ensured", "unsub", "mark"},
         at[c] # "spawning", at[c] # "destroyed", GoTo(c, l),
         UNCHANGED <<destroyed, current, mutex, afterFork, spawned, thread,
                     asked, lostUnsub, unpublished, troubles>>,
         unsub' \subseteq Threads
  PROVE  BusSafe'
<1>. USE DEF GoTo
<1>1. TimerSafe'
  BY TimerStutter DEF BusSafe
<1>2. BusTypeOK'
  BY DEF BusSafe, BusTypeOK
<1>3. Serves' = Serves
  BY DEF Serves, Alive
<1>4. Locked' /\ Known' /\ Born' /\ Marked'
  BY <1>3 DEF BusSafe, BusTypeOK, Locked, Known, Born, Marked, Alive
<1>5. /\ at'[c] # "destroyed"
      /\ \A d \in Callers \ {c} : call'[d] = call[d] /\ at'[d] = at[d]
  BY DEF BusSafe, BusTypeOK, timerVars
<1>6. Silenced'
  BY <1>3, <1>5, OthersEnded DEF timerVars
<1>. QED
  BY <1>1, <1>2, <1>4, <1>6 DEF BusSafe

LEMMA SubscribeBeginsSafe ==
  ASSUME BusSafe, NEW c \in Callers, SubscribeBegins(c)
  PROVE  BusSafe'
BY GoToSafe DEF SubscribeBegins, Free, BusSafe, BusTypeOK

LEMMA DestroyBeginsSafe ==
  ASSUME BusSafe, NEW c \in Callers, DestroyBegins(c)
  PROVE  BusSafe'
BY GoToSafe DEF DestroyBegins, Free, BusSafe, BusTypeOK

LEMMA PublishUnsubSafe ==
  ASSUME BusSafe, NEW c \in Callers, PublishUnsub(c)
  PROVE  BusSafe'
BY GoToSafe DEF PublishUnsub, BusSafe, BusTypeOK

\* A caller starts a thread only if it serves no bus that is destroyed and no
\* thread serves it; the new one is nobody's yet.
LEMMA EnsureSafe ==
  ASSUME BusSafe, NEW c \in Callers, Ensure(c)
  PROVE  BusSafe'
<1>. USE DEF Ensure
<1>1. CASE /\ destroyed \/ Serves
           /\ Ensured(c)
           /\ UNCHANGED <<timerVars, mutex, spawned, thread>>
  BY <1>1, GoToSafe DEF Ensured, BusSafe, BusTypeOK
<1>2. CASE ~destroyed /\ ~Serves /\ Starts(c) /\ mutex' = c
  <2>1. PICK t \in Threads :
          /\ thread[t] = "unborn"
          /\ thread' = [thread EXCEPT ![t] = "new"]
          /\ spawned' = [spawned EXCEPT ![c] = t]
          /\ Queue(c, t, KeepaliveInterval)
          /\ GoTo(c, "spawning")
    <3>1. PICK t \in Threads :
            /\ {u \in Threads : thread[u] = "unborn" /\ u <= t} = {t}
            /\ thread' = [thread EXCEPT ![t] = "new"]
            /\ spawned' = [spawned EXCEPT ![c] = t]
            /\ Queue(c, t, KeepaliveInterval)
      BY <1>2 DEF Starts
    <3>2. thread[t] = "unborn"
      BY <3>1
    <3>. QED
      BY <1>2, <3>1, <3>2 DEF Starts
  <2>. USE <1>2, <2>1
  <2>2. TimerSafe'
    BY Constants, QueueSafe DEF BusSafe
  <2>3. BusTypeOK'
    BY DEF BusSafe, BusTypeOK, GoTo
  <2>4. ~Serves' /\ \A u \in Threads : Alive(u)' => Alive(u) \/ u = t
    BY DEF BusSafe, BusTypeOK, Born, Serves, Alive
  <2>5. \A u \in Threads : ~Alive(u)
    BY Constants DEF BusSafe, Known, Locked, Serves
  <2>6. \A d \in Callers : at'[d] = "spawning" <=> d = c
    BY Constants DEF BusSafe, BusTypeOK, Locked, GoTo
  <2>7. spawned'[c] = t /\ thread'[t] = "new"
    BY DEF BusSafe, BusTypeOK
  <2>8. Locked'
    BY <2>4, <2>6, <2>7 DEF Locked
  <2>9. Known'
    BY <2>4, <2>5, <2>6, <2>7 DEF Known
  <2>10. Born'
    BY DEF BusSafe, BusTypeOK, Born
  <2>11. \A d \in Callers : at'[d] \notin {"join", "destroyed"}
    BY DEF BusSafe, BusTypeOK, Marked, GoTo
  <2>12. Marked' /\ Silenced'
    BY <2>11 DEF Marked, Silenced
  <2>. QED
    BY <2>2, <2>3, <2>8, <2>9, <2>10, <2>12 DEF BusSafe
<1>. QED
  BY <1>1, <1>2

LEMMA SpawnedSafe ==
  ASSUME BusSafe, NEW c \in Callers, Spawned(c)
  PROVE  BusSafe'
<1>. USE DEF Spawned, Ensured, GoTo
<1>1. TimerSafe'
  BY TimerStutter DEF BusSafe
<1>2. /\ mutex = c /\ ~destroyed /\ ~Serves
      /\ spawned[c] \in Threads /\ thread[spawned[c]] # "unborn"
  BY DEF BusSafe, Locked
<1>3. BusTypeOK'
  BY <1>2 DEF BusSafe, BusTypeOK
<1>4. \A d \in Callers : at'[d] # "spawning" /\ (at[d] = "spawning" => d = c)
  BY <1>2 DEF BusSafe, BusTypeOK, Locked
<1>5. Locked'
  BY <1>4 DEF Locked
<1>6. Known'
  BY <1>2, <1>4, Constants DEF BusSafe, Known, Serves, Alive
<1>7. Born'
  BY <1>2 DEF Born
<1>8. \A d \in Callers : at'[d] \notin {"join", "destroyed"}
  BY <1>2 DEF BusSafe, BusTypeOK, Marked
<1>9. Marked' /\ Silenced'
  BY <1>8 DEF Marked, Silenced
<1>. QED
  BY <1>1, <1>3, <1>5, <1>6, <1>7, <1>9 DEF BusSafe

LEMMA QueueNopSafe ==
  ASSUME BusSafe, NEW c \in Callers, QueueNop(c)
  PROVE  BusSafe'
<1>. USE DEF QueueNop
<1>1. TimerSafe'
  <2>1. 0 \in 0..MaxDelay
    BY TimerAssumption
  <2>. QED
    BY <2>1, Constants, QueueSafe DEF BusSafe
<1>2. BusTypeOK'
  BY DEF BusSafe, BusTypeOK, GoTo
<1>3. Serves' = Serves
  BY DEF Serves, Alive
<1>4. Locked' /\ Known' /\ Born' /\ Marked'
  BY <1>3 DEF BusSafe, BusTypeOK, Locked, Known, Born, Marked, Alive, GoTo
<1>5. /\ at'[c] # "destroyed"
      /\ \A d \in Callers \ {c} : call'[d] = call[d] /\ at'[d] = at[d]
  BY Constants DEF BusSafe, BusTypeOK, GoTo, Queue, TimerSafe, TimerTypeOK
<1>6. Silenced'
  BY <1>3, <1>5, OthersEnded DEF Queue
<1>. QED
  BY <1>1, <1>2, <1>4, <1>6 DEF BusSafe

\* In a forked child nobody has destroyed the bus and no thread lives.
LEMMA ForkSafe ==
  ASSUME BusSafe, NEW c \in Callers, Fork(c)
  PROVE  BusSafe'
<1>. USE DEF Fork
<1>1. TimerSafe'
  BY Constants, ForkedSafe DEF BusSafe
<1>2. troubles' \in 0..MaxTroubles
  BY BusAssumption DEF Trouble, BusSafe, BusTypeOK
<1>3. BusTypeOK'
  BY <1>2 DEF BusSafe, BusTypeOK
<1>4. Locked' /\ Marked' /\ Silenced'
  BY DEF Locked, Marked, Silenced
<1>5. Known' /\ Born'
  BY DEF BusSafe, BusTypeOK, Known, Born, Alive
<1>. QED
  BY <1>1, <1>3, <1>4, <1>5 DEF BusSafe

\* No caller spawns a thread while another one sets @destroyed.
LEMMA MarkSafe ==
  ASSUME BusSafe, NEW c \in Callers, Mark(c)
  PROVE  BusSafe'
<1>. USE DEF Mark, GoTo
<1>1. TimerSafe'
  BY TimerStutter DEF BusSafe
<1>2. BusTypeOK'
  BY DEF BusSafe, BusTypeOK
<1>3. Serves' = Serves
  BY DEF Serves, Alive
<1>4. \A d \in Callers : at[d] # "spawning" /\ at'[d] # "spawning"
  BY Constants DEF BusSafe, BusTypeOK, Locked
<1>5. Locked' /\ Known' /\ Born' /\ Marked'
  BY <1>4 DEF BusSafe, Locked, Known, Born, Marked, Alive
<1>6. /\ at'[c] # "destroyed"
      /\ \A d \in Callers \ {c} : call'[d] = call[d] /\ at'[d] = at[d]
  BY DEF BusSafe, BusTypeOK, timerVars
<1>7. Silenced'
  BY <1>3, <1>6, OthersEnded DEF timerVars
<1>. QED
  BY <1>1, <1>2, <1>5, <1>7 DEF BusSafe

\* The timer is stopped when the thread is gone.
LEMMA JoinSafe ==
  ASSUME BusSafe, NEW c \in Callers, Join(c)
  PROVE  BusSafe'
<1>. USE DEF Join
<1>1. TimerSafe'
  BY Constants, StopSafe DEF BusSafe
<1>2. BusTypeOK'
  BY DEF BusSafe, BusTypeOK, GoTo
<1>3. Serves' = Serves /\ destroyed
  BY DEF BusSafe, Marked, Serves, Alive
<1>4. Locked' /\ Known' /\ Born' /\ Marked'
  BY <1>3 DEF BusSafe, BusTypeOK, Locked, Known, Born, Marked, Alive, GoTo
<1>5. ASSUME NEW d \in Callers, at'[d] = "destroyed"
      PROVE  Ended(d)'
  <2>1. CASE d = c
    <3>1. stopped' /\ call'[c].pc = "stopping"
      BY Constants DEF Stop, BusSafe, TimerSafe, TimerTypeOK
    <3>. QED
      BY <2>1, <3>1, <1>3 DEF Ended
  <2>2. CASE d # c
    <3>1. at[d] = "destroyed"
      BY <1>5, <2>2 DEF GoTo, BusSafe, BusTypeOK
    <3>2. call'[d] = call[d] /\ worker' = worker
      BY <2>2, Constants DEF Stop, BusSafe, TimerSafe, TimerTypeOK
    <3>3. stopped'
      BY DEF Stop
    <3>. QED
      BY <3>1, <3>2, <3>3, <1>3 DEF BusSafe, Silenced, Ended, Returned
  <2>. QED
    BY <2>1, <2>2
<1>6. Silenced'
  BY <1>5 DEF Silenced
<1>. QED
  BY <1>1, <1>2, <1>4, <1>6 DEF BusSafe

-----------------------------------------------------------------------------
(* The steps of the subscriber threads: none is born, none comes to life.  *)

LEMMA ThreadSafe ==
  ASSUME BusSafe, NEW t \in Threads, Alive(t),
         NEW s \in {"starting", "listening", "dead"}, Becomes(t, s),
         unsub' \subseteq Threads, lostUnsub' \in BOOLEAN,
         troubles' \in 0..MaxTroubles
  PROVE  BusSafe'
<1>. USE DEF Becomes
<1>1. TimerSafe'
  BY TimerStutter DEF BusSafe
<1>2. BusTypeOK'
  BY DEF BusSafe, BusTypeOK
<1>3. \A u \in Threads :
        /\ Alive(u)' => Alive(u)
        /\ thread'[u] = "unborn" <=> thread[u] = "unborn"
  BY DEF Alive, BusSafe, BusTypeOK
<1>4. Serves' => Serves
  BY <1>3 DEF Serves, BusSafe, BusTypeOK
<1>5. Locked' /\ Known' /\ Born' /\ Marked'
  BY <1>3, <1>4 DEF BusSafe, BusTypeOK, Locked, Known, Born, Marked
<1>6. Silenced'
  BY <1>4 DEF BusSafe, Silenced, Ended, Returned, timerVars
<1>. QED
  BY <1>1, <1>2, <1>5, <1>6 DEF BusSafe

LEMMA SubscriberSafe ==
  ASSUME BusSafe, NEW t \in Threads,
         Subscriber(t) \/ ReadMessage(t) \/ Breaks(t)
  PROVE  BusSafe'
<1>1. /\ unsub \subseteq Threads /\ lostUnsub \in BOOLEAN
      /\ destroyed \in BOOLEAN /\ troubles \in 0..MaxTroubles
  BY DEF BusSafe, BusTypeOK
<1>2. CASE Begin(t)
  BY <1>1, <1>2, ThreadSafe DEF Begin, Alive
<1>3. CASE Listen(t)
  BY <1>1, <1>3, ThreadSafe DEF Listen, Alive
<1>4. CASE ReadUnsub(t)
  BY <1>1, <1>4, ThreadSafe DEF ReadUnsub, Alive
<1>5. CASE ReadMessage(t)
  BY <1>1, <1>5, ThreadSafe DEF ReadMessage, Alive
<1>6. CASE Breaks(t)
  <2>1. troubles' \in 0..MaxTroubles
    BY <1>1, <1>6, BusAssumption DEF Breaks, Trouble
  <2>2. lostUnsub' \in BOOLEAN /\ unsub' \subseteq Threads
    BY <1>1, <1>6 DEF Breaks
  <2>. QED
    BY <1>6, <2>1, <2>2, ThreadSafe DEF Breaks, Subscribing, Alive
<1>. QED
  BY <1>2, <1>3, <1>4, <1>5, <1>6 DEF Subscriber

-----------------------------------------------------------------------------
LEMMA BusSafeStutter == BusSafe /\ UNCHANGED vars => BusSafe'
<1>. SUFFICES ASSUME BusSafe, UNCHANGED vars PROVE BusSafe'
  OBVIOUS
<1>1. TimerSafe'
  BY TimerStutter DEF BusSafe, vars
<1>2. \A c \in Callers : at[c] = "destroyed" => Ended(c)'
  BY DEF vars, timerVars, busVars, BusSafe, Silenced, Ended, Returned, Serves,
         Alive
<1>. QED
  BY <1>1, <1>2, BusAsItWas DEF vars

LEMMA BusSafeStep == BusSafe /\ [Next]_vars => BusSafe'
<1>. SUFFICES ASSUME BusSafe, [Next]_vars PROVE BusSafe'
  OBVIOUS
<1>1. CASE UNCHANGED vars
  BY <1>1, BusSafeStutter
<1>2. CASE Over
  BY <1>2, BusSafeStutter DEF Over
<1>3. ASSUME NEW c \in Callers, Calls(c) PROVE BusSafe'
  BY <1>3, CallerQueuesSafe, SubscribeBeginsSafe, DestroyBeginsSafe, ForkSafe
     DEF Calls
<1>4. ASSUME NEW c \in Callers, GoesOn(c) PROVE BusSafe'
  BY <1>4, EnsureSafe, SpawnedSafe, QueueNopSafe, PublishUnsubSafe, MarkSafe,
     JoinSafe DEF GoesOn
<1>5. ASSUME NEW u \in Users, InTimer(u) PROVE BusSafe'
  BY <1>5, InTimerEnds
<1>6. ASSUME NEW t \in Threads, Subscriber(t) \/ ReadMessage(t) \/ Breaks(t)
      PROVE  BusSafe'
  BY <1>6, SubscriberSafe
<1>7. CASE Timer
  BY <1>7, TimerEnds
<1>8. CASE KeepaliveRaises
  BY <1>8, KeepaliveRaisesEnds
<1>9. CASE Ticks
  BY <1>9, TicksEnd
<1>. QED
  BY <1>1, <1>2, <1>3, <1>4, <1>5, <1>6, <1>7, <1>8, <1>9 DEF Next

THEOREM BusSafeAlways == Spec => []BusSafe
BY BusSafeInit, BusSafeStep, PTL DEF Spec

-----------------------------------------------------------------------------
\* The variables of the timer thread and of the bus keep their types, however
\* many threads call them: @jobs holds jobs with times, @next is a time or nil
\* and @subscriber_thread is a thread or nil (timer_thread.rb, message_bus.rb).
THEOREM BusTypeCorrect == Spec => []TypeOK
<1>1. BusSafe => TypeOK
  BY SafeImplies DEF BusSafe, TypeOK
<1>. QED
  BY <1>1, BusSafeAlways, PTL

\* ensure_subscriber_thread never lets two threads live that listen for the
\* bus, through forks, lost subscriptions and threads that end with an error.
THEOREM OneSubscriberAlways == Spec => []OneSubscriber
BY OneAlive, BusSafeAlways, PTL

\* When destroy has returned no subscriber thread lives and the timer's thread
\* runs no job, and both stay so.
THEOREM QuietAfterDestroyAlways == Spec => []QuietAfterDestroy
BY QuietWhenEnded, BusSafeAlways, PTL

\* TimerThread#do_work takes no job before its time, whatever is queued and
\* whenever, as long as no job was running when the process was forked.
THEOREM NeverEarlyAlways == Spec => []NeverEarly
<1>1. BusSafe => NeverEarly
  BY SafeImplies DEF BusSafe
<1>. QED
  BY <1>1, BusSafeAlways, PTL

\* TimerThread sleeps past the first job's time only if a wake-up fell between
\* its measuring of the time to sleep and its sleeping.
THEOREM NoOversleepAlways == Spec => []NoOversleep
<1>1. BusSafe => NoOversleep
  BY SafeImplies DEF BusSafe
<1>. QED
  BY <1>1, BusSafeAlways, PTL

-----------------------------------------------------------------------------
(* The keepalive of a thread: its job is in the queue, or in a call that   *)
(* will put it there, or in the hands of the timer's thread.               *)

Calling(u, t) == call[u].pc = "insert" /\ call[u].job = t

Unqueued(t) == \A k \in DOMAIN jobs : jobs[k].job # t
Uncalled(t) == \A u \in Users : ~Calling(u, t)

QueuedOnce(t) ==
  \E k \in DOMAIN jobs : \A m \in DOMAIN jobs : jobs[m].job = t <=> m = k

CalledOnce(t) == \E u \in Users : \A v \in Users : Calling(v, t) <=> v = u

InHand(t) ==
  worker.pc \in {"job", "shift"} /\ worker.entry # None /\ worker.entry.job = t

Nowhere(t) == Unqueued(t) /\ Uncalled(t) /\ ~InHand(t)

Once(t) ==
  \/ QueuedOnce(t) /\ Uncalled(t) /\ ~InHand(t)
  \/ Unqueued(t) /\ CalledOnce(t) /\ ~InHand(t)
  \/ Unqueued(t) /\ Uncalled(t) /\ InHand(t)

\* The timer's thread holds a job only while it runs it, and calls queue only
\* from a keepalive that queues itself again.
Hands ==
  /\ worker.pc \notin {"job", "requeue", "renext"} => worker.entry = None
  /\ worker.pc # "requeue" => Returned(Itself)

\* A thread not yet started has no keepalive and a living one has one, until
\* the bus is destroyed or a keepalive could not be published.
Chain ==
  \A t \in Threads :
    /\ thread[t] = "unborn" => Nowhere(t)
    /\ ~destroyed /\ Alive(t) /\ t \notin unpublished => Once(t)

KeepaliveInv == BusSafe /\ Hands /\ Chain

-----------------------------------------------------------------------------
(* Steps, as one thread's keepalive sees them.                             *)

\* What a step leaves of a keepalive.
Keeps(t) ==
  (Nowhere(t) => Nowhere(t)') /\ (Once(t) => Once(t)')

\* A step that brings no thread into being and no other one to life.
LEMMA ChainKept ==
  ASSUME Chain, NEW t \in Threads, Keeps(t),
         thread'[t] = "unborn" => thread[t] = "unborn",
         Alive(t)' => Alive(t), destroyed => destroyed',
         unpublished \subseteq unpublished'
  PROVE  /\ thread'[t] = "unborn" => Nowhere(t)'
         /\ ~destroyed' /\ Alive(t)' /\ t \notin unpublished' => Once(t)'
BY DEF Chain, Keeps

\* The queue, the calls and the hand as they were.
LEMMA Unmoved ==
  ASSUME NEW t, jobs' = jobs, InHand(t)' <=> InHand(t),
         \A u \in Users : Calling(u, t)' <=> Calling(u, t)
  PROVE  Keeps(t)
BY DEF Keeps, Nowhere, Once, Unqueued, QueuedOnce, Uncalled, CalledOnce

LEMMA QueueMoves ==
  ASSUME TimerSafe, NEW c \in Users, NEW j \in Jobs, NEW d \in 0..MaxDelay,
         Queue(c, j, d), NEW t
  PROVE  /\ Returned(c) /\ jobs' = jobs
         /\ InHand(t)' <=> InHand(t)
         /\ Calling(c, t)' <=> j = t
         /\ \A u \in Users \ {c} : Calling(u, t)' <=> Calling(u, t)
BY DEF Queue, TimerSafe, TimerTypeOK, InHand, Calling

LEMMA QueueOtherKeeps ==
  ASSUME TimerSafe, NEW c \in Users, NEW j \in Jobs, NEW d \in 0..MaxDelay,
         Queue(c, j, d), NEW t, t # j
  PROVE  Keeps(t)
<1>1. ~Calling(c, t)
  BY QueueMoves DEF Returned, Calling
<1>. QED
  BY <1>1, QueueMoves, Unmoved

LEMMA QueueOwn ==
  ASSUME TimerSafe, NEW c \in Users, NEW j \in Jobs, NEW d \in 0..MaxDelay,
         Queue(c, j, d), Nowhere(j)
  PROVE  Once(j)'
<1>1. Unqueued(j)' /\ ~InHand(j)'
  BY QueueMoves DEF Nowhere, Unqueued
<1>2. \A u \in Users : Calling(u, j)' <=> u = c
  BY QueueMoves DEF Nowhere, Uncalled
<1>3. CalledOnce(j)'
  BY <1>2 DEF CalledOnce
<1>. QED
  BY <1>1, <1>3 DEF Once

\* The critical section of queue moves a job from the call to the queue.
LEMMA InsertKeeps ==
  ASSUME TimerSafe, NEW u \in Users, Insert(u), NEW t
  PROVE  Keeps(t)
<1>. DEFINE n == Len(jobs)
            e == [at |-> call[u].at, job |-> call[u].job]
            a == Ahead(e.at)
            l == InsertAt(jobs, a + 1, e)
<1>1. jobs \in Seq(Entry) /\ e \in Entry /\ e.at \in Time
  BY DEF TimerSafe, TimerTypeOK, Asked, Insert, Entry
<1>2. n \in Nat /\ DOMAIN jobs = 1..n
  BY <1>1, LenProperties
<1>3. a \in 0..n
  BY <1>1, AheadExists
<1>4. /\ l \in Seq(Entry) /\ Len(l) = n + 1
      /\ \A k \in 1..n+1 : l[k] = IF k <= a THEN jobs[k]
                                  ELSE IF k = a + 1 THEN e ELSE jobs[k-1]
  BY <1>1, InsertedAt
<1>5. jobs' = l /\ e.job = call[u].job
  BY DEF Insert, Inserted
<1>6. DOMAIN l = 1..n+1
  BY <1>4, LenProperties
<1>7. InHand(t)' <=> InHand(t)
  BY DEF Insert, InHand
<1>8. /\ \A v \in Users \ {u} : Calling(v, t)' <=> Calling(v, t)
      /\ ~Calling(u, t)'
      /\ Calling(u, t) <=> e.job = t
  <2>1. call[u].pc = "insert" /\ call'[u].pc = "alive"
        /\ \A v \in Users \ {u} : call'[v] = call[v]
    BY DEF Insert, TimerSafe, TimerTypeOK, NoCall
  <2>. QED
    BY <2>1 DEF Calling
<1>. HIDE DEF n, e, a, l
<1>9. CASE e.job = t
  <2>1. ~Nowhere(t)
    BY <1>8, <1>9 DEF Nowhere, Uncalled
  <2>2. ASSUME Once(t) PROVE Once(t)'
    <3>1. Unqueued(t) /\ CalledOnce(t) /\ ~InHand(t)
      BY <2>2, <1>8, <1>9 DEF Once, Uncalled
    <3>2. Uncalled(t)'
      BY <3>1, <1>8, <1>9 DEF CalledOnce, Uncalled
    <3>3. a + 1 \in DOMAIN l
      BY <1>2, <1>3, <1>6
    <3>4. ASSUME NEW m \in DOMAIN l PROVE l[m].job = t <=> m = a + 1
      <4>1. CASE m = a + 1
        BY <4>1, <1>2, <1>3, <1>4, <1>6, <1>9
      <4>2. CASE m <= a
        <5>1. l[m] = jobs[m] /\ m \in DOMAIN jobs /\ m # a + 1
          BY <4>2, <1>2, <1>3, <1>4, <1>6
        <5>. QED
          BY <5>1, <3>1 DEF Unqueued
      <4>3. CASE m > a + 1
        <5>1. l[m] = jobs[m-1] /\ m-1 \in DOMAIN jobs /\ m # a + 1
          BY <4>3, <1>2, <1>3, <1>4, <1>6
        <5>. QED
          BY <5>1, <3>1 DEF Unqueued
      <4>. QED
        BY <4>1, <4>2, <4>3, <1>2, <1>3, <1>6
    <3>5. QueuedOnce(t)'
      BY <3>3, <3>4, <1>5 DEF QueuedOnce
    <3>. QED
      BY <3>1, <3>2, <3>5, <1>7 DEF Once
  <2>. QED
    BY <2>1, <2>2 DEF Keeps
<1>10. CASE e.job # t
  <2>1. \A v \in Users : Calling(v, t)' <=> Calling(v, t)
    BY <1>8, <1>10
  <2>2. (Uncalled(t) => Uncalled(t)') /\ (CalledOnce(t) => CalledOnce(t)')
    BY <2>1 DEF Uncalled, CalledOnce
  <2>3. ASSUME NEW m \in DOMAIN l, l[m].job = t
        PROVE  \/ m <= a /\ m \in DOMAIN jobs /\ l[m] = jobs[m]
               \/ m > a + 1 /\ m - 1 \in DOMAIN jobs /\ l[m] = jobs[m-1]
    BY <2>3, <1>2, <1>3, <1>4, <1>6, <1>10
  <2>4. Unqueued(t) => Unqueued(t)'
    BY <2>3, <1>5 DEF Unqueued
  <2>5. ASSUME QueuedOnce(t) PROVE QueuedOnce(t)'
    <3>1. PICK k \in DOMAIN jobs :
            \A m \in DOMAIN jobs : jobs[m].job = t <=> m = k
      BY <2>5 DEF QueuedOnce
    <3>. DEFINE p == IF k <= a THEN k ELSE k + 1
    <3>2. p \in DOMAIN l /\ l[p] = jobs[k]
      BY <3>1, <1>2, <1>3, <1>4, <1>6
    <3>3. ASSUME NEW m \in DOMAIN l, l[m].job = t PROVE m = p
      <4>1. \/ m <= a /\ m = k
            \/ m > a + 1 /\ m - 1 = k
        BY <2>3, <3>1, <3>3
      <4>. QED
        BY <4>1, <1>2, <1>3, <1>6, <3>1
    <3>4. jobs[k].job = t
      BY <3>1
    <3>. HIDE DEF p
    <3>5. \A m \in DOMAIN l : l[m].job = t <=> m = p
      BY <3>2, <3>3, <3>4
    <3>. QED
      BY <3>2, <3>5, <1>5 DEF QueuedOnce
  <2>. QED
    BY <2>2, <2>4, <2>5, <1>7 DEF Keeps, Nowhere, Once
<1>. QED
  BY <1>9, <1>10

\* The timer's thread takes the first job into its hand.
LEMMA ShiftKeeps ==
  ASSUME TimerSafe, Hands, Shift, NEW t
  PROVE  Keeps(t)
<1>1. jobs \in Seq(Entry)
  BY DEF TimerSafe, TimerTypeOK
<1>2. ~InHand(t)
  BY DEF Hands, InHand, Shift
<1>3. \A u \in Users : Calling(u, t)' <=> Calling(u, t)
  BY DEF Shift, Calling
<1>4. /\ worker'.pc = "job"
      /\ worker'.entry = IF jobs = <<>> THEN None ELSE Head(jobs)
  BY DEF Shift, TimerSafe, TimerTypeOK
<1>5. CASE jobs = <<>>
  <2>1. jobs' = jobs /\ ~InHand(t)'
    BY <1>4, <1>5 DEF Shift, InHand
  <2>. QED
    BY <2>1, <1>2, <1>3, Unmoved
<1>6. CASE jobs # <<>>
  <2>. DEFINE n == Len(jobs)
              l == Tail(jobs)
  <2>1. n \in Nat /\ n > 0 /\ DOMAIN jobs = 1..n
    BY <1>1, <1>6, LenProperties, EmptySeq
  <2>2. l \in Seq(Entry) /\ DOMAIN l = 1..n-1
        /\ \A k \in 1..n-1 : l[k] = jobs[k+1]
    BY <1>1, <1>6, <2>1, HeadTailProperties, LenProperties
  <2>3. jobs' = l /\ worker'.entry = jobs[1] /\ jobs[1] \in Entry
    BY <1>1, <1>4, <1>6, <2>1, ElementOfSeq DEF Shift
  <2>4. InHand(t)' <=> jobs[1].job = t
    BY <1>4, <2>3, BusAssumption DEF InHand
  <2>5. 1 \in DOMAIN jobs /\ \A k \in DOMAIN l : l[k] = jobs[k+1]
        /\ k+1 \in DOMAIN jobs /\ k + 1 # 1
    BY <2>1, <2>2
  <2>6. (Uncalled(t) => Uncalled(t)') /\ (CalledOnce(t) => CalledOnce(t)')
    BY <1>3 DEF Uncalled, CalledOnce
  <2>7. Unqueued(t) => Unqueued(t)' /\ ~InHand(t)'
    BY <2>3, <2>4, <2>5 DEF Unqueued
  <2>8. ASSUME QueuedOnce(t)
        PROVE  \/ QueuedOnce(t)' /\ ~InHand(t)'
               \/ Unqueued(t)' /\ InHand(t)'
    <3>1. PICK k \in DOMAIN jobs :
            \A m \in DOMAIN jobs : jobs[m].job = t <=> m = k
      BY <2>8 DEF QueuedOnce
    <3>2. CASE k = 1
      BY <3>1, <3>2, <2>3, <2>4, <2>5 DEF Unqueued
    <3>3. CASE k # 1
      <4>1. k - 1 \in DOMAIN l /\ (k - 1) + 1 = k
        BY <3>1, <3>3, <2>1, <2>2
      <4>2. ASSUME NEW m \in DOMAIN l PROVE l[m].job = t <=> m = k - 1
        <5>1. l[m].job = t <=> m + 1 = k
          BY <3>1, <2>5
        <5>2. m \in Int /\ k \in Int
          BY <2>1, <2>2, <3>1
        <5>. QED
          BY <5>1, <5>2
      <4>3. ~InHand(t)'
        BY <2>4, <2>5, <3>1, <3>3
      <4>. QED
        BY <4>1, <4>2, <4>3, <2>3 DEF QueuedOnce
    <3>. QED
      BY <3>2, <3>3
  <2>. QED
    BY <2>6, <2>7, <2>8, <1>2 DEF Keeps, Nowhere, Once
<1>. QED
  BY <1>5, <1>6

\* The other steps of the timer's thread, but for the end of a job.
LEMMA DoWorkKeeps ==
  ASSUME TimerSafe, Hands, DoWork, NEW t
  PROVE  Keeps(t)
<1>1. CASE Shift
  BY <1>1, ShiftKeeps
<1>2. CASE Top \/ Renext \/ Measure \/ FallAsleep \/ Awake
  <2>1. jobs' = jobs /\ call' = call
    BY <1>2 DEF Top, Renext, Measure, FallAsleep, Awake
  <2>2. ~InHand(t)
    BY <1>2 DEF Hands, InHand, Top, Renext, Measure, FallAsleep, Awake
  <2>3. ~InHand(t)'
    <3>1. CASE Top
      <4>1. worker'.entry = worker.entry
        BY <3>1 DEF Top, TimerSafe, TimerTypeOK
      <4>. QED
        BY <3>1, <4>1 DEF Hands, InHand, Top
    <3>2. CASE Renext \/ Measure \/ FallAsleep \/ Awake
      <4>1. worker'.pc \notin {"job", "shift"}
        BY <3>2 DEF Renext, Measure, FallAsleep, Awake, Goto, TimerSafe,
                    TimerTypeOK
      <4>. QED
        BY <4>1 DEF InHand
    <3>. QED
      BY <1>2, <3>1, <3>2
  <2>4. \A u \in Users : Calling(u, t)' <=> Calling(u, t)
    BY <2>1 DEF Calling
  <2>. QED
    BY <2>1, <2>2, <2>3, <2>4, Unmoved
<1>. QED
  BY <1>1, <1>2 DEF DoWork

LEMMA DoWorkHands ==
  ASSUME TimerSafe, Hands, DoWork
  PROVE  Hands'
<1>. USE DEF Hands, TimerSafe, TimerTypeOK
<1>1. Returned(Itself)' <=> Returned(Itself)
  BY DEF DoWork, Top, Shift, Renext, Measure, FallAsleep, Awake, Returned
<1>2. worker.pc # "requeue"
  BY DEF DoWork, Top, Shift, Renext, Measure, FallAsleep, Awake
<1>3. worker'.pc \notin {"job", "requeue", "renext"} => worker'.entry = None
  BY DEF DoWork, Top, Shift, Renext, Measure, FallAsleep, Awake, Goto
<1>. QED
  BY <1>1, <1>2, <1>3

\* queue and stop once called, in the thread that called them.
LEMMA UserStepKeeps ==
  ASSUME TimerSafe, Hands, NEW u \in Users, UserStep(u), NEW t
  PROVE  Keeps(t)
<1>1. CASE Insert(u)
  BY <1>1, InsertKeeps
<1>2. CASE Respawn(u) \/ Wake(u) \/ StopWakes(u) \/ StopEnds(u)
  <2>1. jobs' = jobs
    BY <1>2 DEF Respawn, Wake, StopWakes, StopEnds
  <2>2. /\ worker'.entry = worker.entry
        /\ \/ worker'.pc = worker.pc
           \/ worker.pc \in {"dead", "asleep"} /\ worker'.pc = "top"
    BY <1>2 DEF Respawn, Wake, StopWakes, StopEnds, TimerSafe, TimerTypeOK
  <2>3. InHand(t)' <=> InHand(t)
    BY <2>2 DEF InHand
  <2>4. call[u].pc # "insert" /\ call'[u].pc # "insert"
        /\ \A v \in Users \ {u} : call'[v] = call[v]
    BY <1>2 DEF Respawn, Wake, StopWakes, StopEnds, TimerSafe, TimerTypeOK,
                NoCall
  <2>5. \A v \in Users : Calling(v, t)' <=> Calling(v, t)
    BY <2>4 DEF Calling
  <2>. QED
    BY <2>1, <2>3, <2>5, Unmoved
<1>. QED
  BY <1>1, <1>2 DEF UserStep

LEMMA UserStepHands ==
  ASSUME TimerSafe, Hands, NEW u \in Users, UserStep(u)
  PROVE  Hands'
<1>. USE DEF TimerSafe, TimerTypeOK
<1>1. /\ worker'.entry = worker.entry
      /\ \/ worker'.pc = worker.pc
         \/ worker.pc \in {"dead", "asleep"} /\ worker'.pc = "top"
  BY DEF UserStep, Insert, Respawn, Wake, StopWakes, StopEnds
<1>2. Returned(Itself) => Returned(Itself)'
  <2>1. ~Returned(u) /\ \A v \in Users \ {u} : call'[v] = call[v]
    BY DEF UserStep, Insert, Respawn, Wake, StopWakes, StopEnds, Returned
  <2>. QED
    BY <2>1, Constants DEF Returned
<1>. QED
  BY <1>1, <1>2 DEF Hands

-----------------------------------------------------------------------------
(* The bus's steps.                                                        *)

\* A step of the timer that no variable of the bus sees.
LEMMA TimerKeeps ==
  ASSUME KeepaliveInv, BusSafe', Hands', UNCHANGED busVars,
         \A t \in Threads : Keeps(t)
  PROVE  KeepaliveInv'
<1>1. Chain'
  BY ChainKept DEF KeepaliveInv, Chain, busVars, Alive
<1>. QED
  BY <1>1 DEF KeepaliveInv

\* A job that is done leaves the hand of the timer's thread: every other
\* thread's keepalive is where it was.
LEMMA JobDoneKeeps ==
  ASSUME KeepaliveInv, JobDone, worker.pc \in {"job", "requeue"},
         worker.pc = "requeue" => Returned(Itself)
  PROVE  /\ Hands'
         /\ \A t \in Threads : ~InHand(t) => Keeps(t)
         /\ \A t \in Threads : Nowhere(t) => Nowhere(t)'
<1>. USE DEF KeepaliveInv, BusSafe, TimerSafe, TimerTypeOK, JobDone, Goto
<1>1. worker'.pc = "renext"
  OBVIOUS
<1>2. Hands'
  BY <1>1 DEF Hands, Returned
<1>3. \A t \in Threads : ~InHand(t)'
  BY <1>1 DEF InHand
<1>4. \A t \in Threads, u \in Users : Calling(u, t)' <=> Calling(u, t)
  BY DEF Calling
<1>5. ASSUME NEW t \in Threads, ~InHand(t) PROVE Keeps(t)
  BY <1>3, <1>4, <1>5, Unmoved
<1>. QED
  BY <1>2, <1>5 DEF Keeps, Nowhere

LEMMA RunBlockKeeps == KeepaliveInv /\ RunBlock => KeepaliveInv'
<1>. SUFFICES ASSUME KeepaliveInv, RunBlock PROVE KeepaliveInv'
  OBVIOUS
<1>1. BusSafe'
  BY JobDoneEnds DEF KeepaliveInv, RunBlock, Running
<1>2. \A t \in Threads : ~InHand(t)
  BY DEF InHand, RunBlock, Job
<1>3. Hands' /\ \A t \in Threads : Keeps(t)
  BY <1>2, JobDoneKeeps DEF RunBlock
<1>. QED
  BY <1>1, <1>3, TimerKeeps DEF RunBlock

LEMMA RequeuedKeeps == KeepaliveInv /\ Requeued => KeepaliveInv'
<1>. SUFFICES ASSUME KeepaliveInv, Requeued PROVE KeepaliveInv'
  OBVIOUS
<1>1. BusSafe'
  BY JobDoneEnds DEF KeepaliveInv, Requeued, Running
<1>2. \A t \in Threads : ~InHand(t)
  BY DEF InHand, Requeued
<1>3. Hands' /\ \A t \in Threads : Keeps(t)
  BY <1>2, JobDoneKeeps DEF Requeued
<1>. QED
  BY <1>1, <1>3, TimerKeeps DEF Requeued

\* The keepalive of a thread that lives goes from the hand to a call; the one
\* of a thread that does not live is dropped, and nobody misses it.
LEMMA KeepaliveKeeps == KeepaliveInv /\ Keepalive => KeepaliveInv'
<1>. SUFFICES ASSUME KeepaliveInv, Keepalive PROVE KeepaliveInv'
  OBVIOUS
<1>. USE DEF Keepalive
<1>1. BusSafe'
  BY KeepaliveEnds DEF KeepaliveInv
<1>2. Job \in Threads /\ \A t \in Threads : InHand(t) <=> t = Job
  BY DEF InHand, Job
<1>3. CASE ~destroyed /\ Alive(Job)
  <2>1. /\ jobs' = jobs
        /\ call' = [call EXCEPT ![Itself] =
                      [pc |-> "insert", job |-> Job,
                       at |-> clock + KeepaliveInterval]]
        /\ worker'.pc = "requeue"
    BY <1>3 DEF Goto, KeepaliveInv, BusSafe, TimerSafe, TimerTypeOK
  <2>2. Hands'
    BY <2>1 DEF Hands
  <2>3. Returned(Itself)
    BY DEF KeepaliveInv, Hands
  <2>4. /\ call'[Itself].pc = "insert" /\ call'[Itself].job = Job
        /\ \A u \in Users \ {Itself} : call'[u] = call[u]
    BY <2>1, Constants DEF KeepaliveInv, BusSafe, TimerSafe, TimerTypeOK
  <2>5. \A t \in Threads : ~InHand(t)'
    BY <2>1 DEF InHand
  <2>6. ASSUME NEW t \in Threads PROVE Keeps(t)
    <3>1. CASE t # Job
      <4>1. \A u \in Users : Calling(u, t)' <=> Calling(u, t)
        BY <3>1, <2>3, <2>4 DEF Calling, Returned
      <4>. QED
        BY <3>1, <4>1, <1>2, <2>1, <2>5, Unmoved
    <3>2. CASE t = Job
      <4>1. InHand(t) /\ Calling(Itself, t)'
        BY <3>2, <1>2, <2>4 DEF Calling
      <4>2. \A u \in Users \ {Itself} : Calling(u, t)' <=> Calling(u, t)
        BY <2>4 DEF Calling
      <4>3. Unqueued(t) => Unqueued(t)'
        BY <2>1 DEF Unqueued
      <4>4. Uncalled(t) => CalledOnce(t)'
        <5>1. SUFFICES ASSUME Uncalled(t) PROVE CalledOnce(t)'
          OBVIOUS
        <5>2. \A u \in Users : Calling(u, t)' <=> u = Itself
          BY <5>1, <4>1, <4>2 DEF Uncalled
        <5>. QED
          BY <5>2, Constants DEF CalledOnce
      <4>. QED
        BY <4>1, <4>3, <4>4, <2>5 DEF Keeps, Nowhere, Once
    <3>. QED
      BY <3>1, <3>2
  <2>. QED
    BY <1>1, <2>2, <2>6, TimerKeeps
<1>4. CASE ~(~destroyed /\ Alive(Job))
  <2>1. /\ Hands'
        /\ \A t \in Threads : t # Job => Keeps(t)
        /\ \A t \in Threads : Nowhere(t) => Nowhere(t)'
    BY <1>2, <1>4, JobDoneKeeps
  <2>2. ASSUME NEW t \in Threads
        PROVE  /\ thread'[t] = "unborn" => Nowhere(t)'
               /\ ~destroyed' /\ Alive(t)' /\ t \notin unpublished' => Once(t)'
    <3>1. CASE t # Job
      BY <3>1, <2>1, ChainKept DEF KeepaliveInv, busVars, Alive
    <3>2. CASE t = Job
      BY <3>2, <1>4, <2>1 DEF KeepaliveInv, Chain, busVars, Alive
    <3>. QED
      BY <3>1, <3>2
  <2>. QED
    BY <1>1, <2>1, <2>2 DEF KeepaliveInv, Chain
<1>. QED
  BY <1>3, <1>4

LEMMA KeepaliveRaisesKeeps ==
  KeepaliveInv /\ KeepaliveRaises => KeepaliveInv'
<1>. SUFFICES ASSUME KeepaliveInv, KeepaliveRaises PROVE KeepaliveInv'
  OBVIOUS
<1>. USE DEF KeepaliveRaises
<1>1. BusSafe'
  BY KeepaliveRaisesEnds DEF KeepaliveInv
<1>2. Job \in Threads /\ \A t \in Threads : InHand(t) <=> t = Job
  BY DEF InHand, Job
<1>3. /\ Hands'
      /\ \A t \in Threads : t # Job => Keeps(t)
      /\ \A t \in Threads : Nowhere(t) => Nowhere(t)'
  BY <1>2, JobDoneKeeps
<1>4. ASSUME NEW t \in Threads
      PROVE  /\ thread'[t] = "unborn" => Nowhere(t)'
             /\ ~destroyed' /\ Alive(t)' /\ t \notin unpublished' => Once(t)'
  <2>1. CASE t # Job
    BY <2>1, <1>3, ChainKept DEF KeepaliveInv, Alive
  <2>2. CASE t = Job
    BY <2>2, <1>3 DEF KeepaliveInv, Chain
  <2>. QED
    BY <2>1, <2>2
<1>. QED
  BY <1>1, <1>3, <1>4 DEF KeepaliveInv, Chain

LEMMA TimerChain == KeepaliveInv /\ Timer => KeepaliveInv'
<1>. SUFFICES ASSUME KeepaliveInv, Timer PROVE KeepaliveInv'
  OBVIOUS
<1>1. CASE DoWork /\ UNCHANGED busVars
  <2>1. BusSafe'
    BY <1>1, TimerEnds DEF KeepaliveInv, Timer
  <2>2. Hands' /\ \A t \in Threads : Keeps(t)
    BY <1>1, DoWorkHands, DoWorkKeeps DEF KeepaliveInv, BusSafe
  <2>. QED
    BY <1>1, <2>1, <2>2, TimerKeeps
<1>. QED
  BY <1>1, RunBlockKeeps, KeepaliveKeeps, RequeuedKeeps DEF Timer

LEMMA InTimerChain ==
  ASSUME KeepaliveInv, NEW u \in Users, InTimer(u)
  PROVE  KeepaliveInv'
<1>1. BusSafe'
  BY InTimerEnds DEF KeepaliveInv
<1>2. Hands' /\ \A t \in Threads : Keeps(t)
  BY UserStepHands, UserStepKeeps DEF InTimer, KeepaliveInv, BusSafe
<1>. QED
  BY <1>1, <1>2, TimerKeeps DEF InTimer

\* A step that leaves the timer alone but for its clock.
LEMMA StillKeeps ==
  ASSUME KeepaliveInv, BusSafe', UNCHANGED <<jobs, worker, call>>,
         \A t \in Threads :
           /\ thread'[t] = "unborn" => thread[t] = "unborn"
           /\ Alive(t)' => Alive(t),
         destroyed => destroyed', unpublished' = unpublished
  PROVE  KeepaliveInv'
<1>1. Hands'
  BY DEF KeepaliveInv, Hands, Returned
<1>2. ASSUME NEW t \in Threads PROVE Keeps(t)
  <2>1. /\ InHand(t)' <=> InHand(t)
        /\ \A u \in Users : Calling(u, t)' <=> Calling(u, t)
    BY DEF InHand, Calling
  <2>. QED
    BY <2>1, Unmoved
<1>3. Chain'
  BY <1>2, ChainKept DEF KeepaliveInv, Chain
<1>. QED
  BY <1>1, <1>3 DEF KeepaliveInv

\* A caller that queues or stops leaves the hand of the timer's thread alone.
LEMMA CallHands ==
  ASSUME KeepaliveInv, NEW c \in Callers, worker' = worker,
         \A u \in Users \ {c} : call'[u] = call[u]
  PROVE  Hands'
BY Constants DEF KeepaliveInv, Hands, Returned

LEMMA QueueHands ==
  ASSUME KeepaliveInv, NEW c \in Callers, NEW j \in Jobs,
         NEW d \in 0..MaxDelay, Queue(c, j, d)
  PROVE  Hands'
<1>1. \A u \in Users \ {c} : call'[u] = call[u]
  BY Constants DEF Queue, KeepaliveInv, BusSafe, TimerSafe, TimerTypeOK
<1>. QED
  BY <1>1, CallHands DEF Queue

LEMMA CallsChain ==
  ASSUME KeepaliveInv, NEW c \in Callers, Calls(c)
  PROVE  KeepaliveInv'
<1>1. BusSafe'
  BY CallerQueuesSafe, SubscribeBeginsSafe, DestroyBeginsSafe, ForkSafe
     DEF KeepaliveInv, Calls
<1>2. CASE CallerQueues(c)
  <2>1. PICK j \in Blocks, d \in Delays : Queue(c, j, d)
    BY <1>2 DEF CallerQueues
  <2>2. /\ c \in Users /\ j \in Jobs /\ d \in 0..MaxDelay
        /\ \A t \in Threads : t # j
    BY Constants, BusAssumption
  <2>3. Hands' /\ \A t \in Threads : Keeps(t)
    BY <2>1, <2>2, QueueHands, QueueOtherKeeps DEF KeepaliveInv, BusSafe
  <2>4. Chain'
    BY <1>2, <2>3, ChainKept DEF CallerQueues, KeepaliveInv, Chain, Alive
  <2>. QED
    BY <1>1, <2>3, <2>4 DEF KeepaliveInv
<1>3. CASE SubscribeBegins(c) \/ DestroyBegins(c)
  BY <1>1, <1>3, StillKeeps
     DEF SubscribeBegins, DestroyBegins, timerVars, Alive
<1>4. CASE Fork(c)
  <2>1. /\ jobs' = jobs /\ worker'.pc = "dead" /\ worker'.entry = None
        /\ Returned(c) /\ \A u \in Users : Returned(u)'
    BY <1>4 DEF Fork, Free, TimerForked, Returned, NoCall
  <2>2. Hands'
    BY <2>1, Constants DEF Hands
  <2>3. ASSUME NEW t \in Threads, Nowhere(t) PROVE Nowhere(t)'
    BY <2>1, <2>3 DEF Nowhere, Unqueued, Uncalled, Calling, InHand, Returned
  <2>4. \A t \in Threads :
          ~Alive(t)' /\ (thread'[t] = "unborn" => thread[t] = "unborn")
    BY <1>4 DEF Fork, Alive
  <2>5. Chain'
    BY <2>3, <2>4 DEF KeepaliveInv, Chain
  <2>. QED
    BY <1>1, <2>2, <2>5 DEF KeepaliveInv
<1>. QED
  BY <1>2, <1>3, <1>4 DEF Calls

\* new_subscriber_thread queues the first keepalive of the thread it starts.
LEMMA EnsureChain ==
  ASSUME KeepaliveInv, NEW c \in Callers, Ensure(c)
  PROVE  KeepaliveInv'
<1>. USE DEF Ensure
<1>1. BusSafe'
  BY EnsureSafe DEF KeepaliveInv
<1>2. CASE Ensured(c) /\ UNCHANGED <<timerVars, thread>>
  BY <1>1, <1>2, StillKeeps DEF timerVars, Alive
<1>3. CASE Starts(c)
  <2>1. PICK t \in Threads :
          /\ {u \in Threads : thread[u] = "unborn" /\ u <= t} = {t}
          /\ thread' = [thread EXCEPT ![t] = "new"]
          /\ Queue(c, t, KeepaliveInterval)
    BY <1>3 DEF Starts
  <2>2. thread[t] = "unborn"
    BY <2>1
  <2>3. c \in Users /\ t \in Jobs /\ KeepaliveInterval \in 0..MaxDelay
    BY Constants
  <2>4. Hands'
    BY <2>1, <2>3, QueueHands
  <2>5. TimerSafe /\ Nowhere(t)
    BY <2>2 DEF KeepaliveInv, Chain, BusSafe
  <2>6. Once(t)'
    BY <2>1, <2>3, <2>5, QueueOwn
  <2>7. thread'[t] = "new" /\ \A u \in Threads \ {t} : thread'[u] = thread[u]
    BY <2>1 DEF KeepaliveInv, BusSafe, BusTypeOK
  <2>8. ASSUME NEW u \in Threads
        PROVE  /\ thread'[u] = "unborn" => Nowhere(u)'
               /\ ~destroyed' /\ Alive(u)' /\ u \notin unpublished' => Once(u)'
    <3>1. CASE u = t
      BY <3>1, <2>6, <2>7
    <3>2. CASE u # t
      <4>1. Keeps(u)
        BY <3>2, <2>1, <2>3, <2>5, QueueOtherKeeps
      <4>. QED
        BY <3>2, <4>1, <2>7, ChainKept DEF KeepaliveInv, Alive
    <3>. QED
      BY <3>1, <3>2
  <2>. QED
    BY <1>1, <2>4, <2>8 DEF KeepaliveInv, Chain
<1>. QED
  BY <1>2, <1>3

LEMMA GoesOnChain ==
  ASSUME KeepaliveInv, NEW c \in Callers, GoesOn(c)
  PROVE  KeepaliveInv'
<1>1. BusSafe'
  BY EnsureSafe, SpawnedSafe, QueueNopSafe, PublishUnsubSafe, MarkSafe,
     JoinSafe DEF GoesOn, KeepaliveInv
<1>2. CASE Ensure(c)
  BY <1>2, EnsureChain
<1>3. CASE Spawned(c) \/ PublishUnsub(c) \/ Mark(c)
  BY <1>1, <1>3, StillKeeps DEF Spawned, PublishUnsub, Mark, timerVars, Alive
<1>4. CASE QueueNop(c)
  <2>1. /\ c \in Users /\ Nop \in Jobs /\ 0 \in 0..MaxDelay
        /\ \A t \in Threads : t # Nop
    BY Constants, BusAssumption, TimerAssumption
  <2>2. Hands' /\ \A t \in Threads : Keeps(t)
    BY <1>4, <2>1, QueueHands, QueueOtherKeeps
       DEF QueueNop, KeepaliveInv, BusSafe
  <2>3. Chain'
    BY <1>4, <2>2, ChainKept DEF QueueNop, KeepaliveInv, Chain, Alive
  <2>. QED
    BY <1>1, <2>2, <2>3 DEF KeepaliveInv
<1>5. CASE Join(c)
  <2>1. /\ Stop(c) /\ Returned(c)
        /\ call'[c].pc = "stopping"
        /\ \A u \in Users \ {c} : call'[u] = call[u]
    BY <1>5, Constants
       DEF Join, Stop, KeepaliveInv, BusSafe, TimerSafe, TimerTypeOK
  <2>2. Hands'
    BY <2>1, CallHands DEF Stop
  <2>3. ASSUME NEW t \in Threads PROVE Keeps(t)
    <3>1. InHand(t)' <=> InHand(t)
      BY <2>1 DEF InHand, Stop
    <3>2. \A u \in Users : Calling(u, t)' <=> Calling(u, t)
      BY <2>1 DEF Calling, Returned
    <3>. QED
      BY <2>1, <3>1, <3>2, Unmoved DEF Stop
  <2>4. Chain'
    BY <1>5, <2>3, ChainKept DEF Join, KeepaliveInv, Chain, Alive
  <2>. QED
    BY <1>1, <2>2, <2>4 DEF KeepaliveInv
<1>. QED
  BY <1>2, <1>3, <1>4, <1>5 DEF GoesOn

LEMMA SubscriberChain ==
  ASSUME KeepaliveInv, NEW t \in Threads,
         Subscriber(t) \/ ReadMessage(t) \/ Breaks(t)
  PROVE  KeepaliveInv'
<1>1. BusSafe'
  BY SubscriberSafe DEF KeepaliveInv
<1>2. PICK s \in {"starting", "listening", "dead"} : Becomes(t, s)
  BY DEF Subscriber, Begin, Listen, ReadUnsub, ReadMessage, Breaks
<1>3. Alive(t)
  BY DEF Subscriber, Begin, Listen, ReadUnsub, ReadMessage, Breaks, Alive,
         Subscribing
<1>4. \A u \in Threads :
        /\ thread'[u] = "unborn" => thread[u] = "unborn"
        /\ Alive(u)' => Alive(u)
  BY <1>2, <1>3 DEF Becomes, Alive, KeepaliveInv, BusSafe, BusTypeOK
<1>. QED
  BY <1>1, <1>2, <1>4, StillKeeps DEF Becomes, timerVars

LEMMA KeepaliveInvInit == Init => KeepaliveInv
<1>. SUFFICES ASSUME Init PROVE KeepaliveInv
  OBVIOUS
<1>. USE DEF Init, TimerInit
<1>1. BusSafe
  BY BusSafeInit
<1>2. \A u \in Users : Returned(u)
  BY DEF Returned, NoCall
<1>3. Hands
  BY <1>2, Constants DEF Hands
<1>4. ASSUME NEW t \in Threads PROVE Nowhere(t) /\ ~Alive(t)
  <2>1. DOMAIN jobs = {}
    BY EmptySeq
  <2>. QED
    BY <2>1, <1>2
       DEF Nowhere, Unqueued, Uncalled, Calling, InHand, Returned, Alive
<1>5. Chain
  BY <1>4 DEF Chain
<1>. QED
  BY <1>1, <1>3, <1>5 DEF KeepaliveInv

LEMMA KeepaliveInvStep == KeepaliveInv /\ [Next]_vars => KeepaliveInv'
<1>. SUFFICES ASSUME KeepaliveInv, [Next]_vars PROVE KeepaliveInv'
  OBVIOUS
<1>1. ASSUME UNCHANGED vars PROVE KeepaliveInv'
  <2>1. BusSafe'
    BY <1>1, BusSafeStutter DEF KeepaliveInv
  <2>. QED
    BY <1>1, <2>1, StillKeeps DEF vars, timerVars, busVars, Alive
<1>2. CASE Over
  BY <1>1, <1>2 DEF Over
<1>3. ASSUME NEW c \in Callers, Calls(c) \/ GoesOn(c) PROVE KeepaliveInv'
  BY <1>3, CallsChain, GoesOnChain
<1>4. ASSUME NEW u \in Users, InTimer(u) PROVE KeepaliveInv'
  BY <1>4, InTimerChain
<1>5. ASSUME NEW t \in Threads, Subscriber(t) \/ ReadMessage(t) \/ Breaks(t)
      PROVE  KeepaliveInv'
  BY <1>5, SubscriberChain
<1>6. CASE Timer
  BY <1>6, TimerChain
<1>7. CASE KeepaliveRaises
  BY <1>7, KeepaliveRaisesKeeps
<1>8. CASE Ticks
  <2>1. BusSafe'
    BY <1>8, TicksEnd DEF KeepaliveInv
  <2>. QED
    BY <1>8, <2>1, StillKeeps DEF Ticks, Tick, busVars, Alive
<1>. QED
  BY <1>1, <1>2, <1>3, <1>4, <1>5, <1>6, <1>7, <1>8 DEF Next

\* Where there is one keepalive and no other, one is counted.
LEMMA OnceCounted == ASSUME NEW t, Once(t) PROVE Keepalives(t) = 1
<1>. DEFINE queued == {k \in DOMAIN jobs : jobs[k].job = t}
            calls == {u \in Users : call[u].pc = "insert" /\ call[u].job = t}
            hand == IF worker.pc \in {"job", "shift"} /\ worker.entry # None
                       /\ worker.entry.job = t THEN 1 ELSE 0
<1>1. Unqueued(t) => queued = {}
  BY DEF Unqueued
<1>2. Uncalled(t) => calls = {}
  BY DEF Uncalled, Calling
<1>3. QueuedOnce(t) => \E k : queued = {k}
  BY DEF QueuedOnce
<1>4. CalledOnce(t) => \E u : calls = {u}
  BY DEF CalledOnce, Calling
<1>5. hand = IF InHand(t) THEN 1 ELSE 0
  BY DEF InHand
<1>6. Keepalives(t) = Cardinality(queued) + Cardinality(calls) + hand
  BY DEF Keepalives
<1>. HIDE DEF queued, calls, hand
<1>7. queued = {} => Cardinality(queued) = 0
  BY FS_EmptySet
<1>8. calls = {} => Cardinality(calls) = 0
  BY FS_EmptySet
<1>9. (\E k : queued = {k}) => Cardinality(queued) = 1
  BY FS_Singleton
<1>10. (\E u : calls = {u}) => Cardinality(calls) = 1
  BY FS_Singleton
<1>11. \/ Cardinality(queued) = 1 /\ Cardinality(calls) = 0 /\ hand = 0
       \/ Cardinality(queued) = 0 /\ Cardinality(calls) = 1 /\ hand = 0
       \/ Cardinality(queued) = 0 /\ Cardinality(calls) = 0 /\ hand = 1
  <2>1. CASE QueuedOnce(t) /\ Uncalled(t) /\ ~InHand(t)
    BY <2>1, <1>2, <1>3, <1>5, <1>8, <1>9
  <2>2. CASE Unqueued(t) /\ CalledOnce(t) /\ ~InHand(t)
    BY <2>2, <1>1, <1>4, <1>5, <1>7, <1>10
  <2>3. CASE Unqueued(t) /\ Uncalled(t) /\ InHand(t)
    BY <2>3, <1>1, <1>2, <1>5, <1>7, <1>8
  <2>. QED
    BY <2>1, <2>2, <2>3 DEF Once
<1>. QED
  BY <1>6, <1>11

\* As long as the bus is not destroyed and no keepalive failed to be published,
\* a living subscriber thread has exactly one keepalive queued, however often
\* threads are replaced and processes forked (new_subscriber_thread).
THEOREM OneKeepaliveAlways == Spec => []OneKeepalive
<1>1. ASSUME KeepaliveInv PROVE OneKeepalive
  <2>. SUFFICES ASSUME ~destroyed, Serves, current \notin unpublished
                PROVE  Keepalives(current) = 1
    BY DEF OneKeepalive
  <2>1. current \in Threads /\ Alive(current)
    BY <1>1 DEF Serves, KeepaliveInv, BusSafe, BusTypeOK
  <2>2. Once(current)
    BY <1>1, <2>1 DEF KeepaliveInv, Chain
  <2>. QED
    BY <2>2, OnceCounted
<1>2. KeepaliveInv => OneKeepalive
  BY <1>1
<1>. QED
  BY <1>2, KeepaliveInvInit, KeepaliveInvStep, PTL DEF Spec
=============================================================================

----------------------------- MODULE TimerThread -----------------------------
(***************************************************************************)
(* MessageBus::TimerThread (src/lib/message_bus/timer_thread.rb): a queue  *)
(* of jobs by due time and the one thread that runs them.  A critical      *)
(* section of its mutex is one step.  What is read or done outside it is   *)
(* a step of its own: the caller of queue takes the time, inserts, looks   *)
(* whether the thread is alive and wakes it up; the thread takes a job,    *)
(* runs it, looks for the next one, measures its sleep and falls asleep.   *)
(***************************************************************************)
EXTENDS Integers, Sequences, FiniteSets, SequencesExt

CONSTANTS
  Users,           \* the threads that call queue and stop
  Itself,          \* the timer's own thread, when a job calls queue
  Jobs,            \* what is queued
  None,
  MaxDelay,        \* the longest delay
  MaxTime          \* bound: the clock; every sleep ends with it, sleep 1000 too

ASSUME TimerAssumption ==
  /\ Itself \in Users /\ None \notin Users
  /\ None \notin Jobs /\ None \notin Int
  /\ MaxDelay \in Nat /\ MaxTime \in Nat

VARIABLES
  clock,
  jobs,            \* @jobs
  next,            \* @next
  stopped,         \* @stopped
  worker,          \* @thread: where it is, its job, when its sleep ends
  call,            \* what each user's call of queue or stop has got to
  stale,           \* history: @next was left behind by a thread that died
  unheard          \* history: a wake-up fell between measuring and sleeping

timerVars == <<clock, jobs, next, stopped, worker, call, stale, unheard>>

Time == 0..MaxTime + MaxDelay
Entry == [at : Time, job : Jobs]
NoCall == [pc |-> "none", at |-> 0, job |-> None]

TimerTypeOK ==
  /\ clock \in 0..MaxTime
  /\ jobs \in Seq(Entry)
  /\ next \in Time \cup {None}
  /\ stopped \in BOOLEAN
  /\ worker \in [pc : {"top", "shift", "job", "requeue", "renext", "measure",
                      "measured", "asleep", "dead"},
                entry : Entry \cup {None},
                until : Time]
  /\ call \in [Users -> [pc : {"none", "insert", "alive", "wake", "stopping"},
                         at : Time, job : Jobs \cup {None}]]
  /\ stale \in BOOLEAN /\ unheard \in BOOLEAN

TimerInit ==
  /\ clock = 0
  /\ jobs = <<>>
  /\ next = None
  /\ stopped = FALSE
  /\ worker = [pc |-> "top", entry |-> None, until |-> 0]
  /\ call = [u \in Users |-> NoCall]
  /\ stale = FALSE
  /\ unheard = FALSE

Tick ==
  /\ clock < MaxTime
  /\ clock' = clock + 1
  /\ UNCHANGED <<jobs, next, stopped, worker, call, stale, unheard>>

-----------------------------------------------------------------------------
(* queue, in the thread that calls it.                                     *)

Returned(u) == call[u].pc = "none"

\* Mutant: the delay is taken for seconds and is in milliseconds.
QueueMillis(u, job, delay) ==
  /\ Returned(u)
  /\ call' = [call EXCEPT ![u] = [pc |-> "insert", at |-> clock + 1000 * delay,
                                  job |-> job]]
  /\ UNCHANGED <<clock, jobs, next, stopped, worker, stale, unheard>>

\* queue_time is taken before the mutex.
Queue(u, job, delay) ==
  /\ Returned(u)
  /\ call' = [call EXCEPT ![u] = [pc |-> "insert", at |-> clock + delay,
                                  job |-> job]]
  /\ UNCHANGED <<clock, jobs, next, stopped, worker, stale, unheard>>

\* How many jobs stay in front of one due at t: from the end of the array, the
\* jobs due at t or later are passed.
Ahead(t) ==
  CHOOSE i \in 0..Len(jobs) :
    /\ i > 0 => jobs[i].at < t
    /\ \A k \in i+1..Len(jobs) : jobs[k].at >= t

Inserted(u) ==
  InsertAt(jobs, Ahead(call[u].at) + 1, [at |-> call[u].at, job |-> call[u].job])

\* Mutant: @next is not set.
InsertOnly(u) ==
  /\ call[u].pc = "insert"
  /\ jobs' = Inserted(u)
  /\ call' = [call EXCEPT ![u] = [NoCall EXCEPT !.pc = "alive"]]
  /\ UNCHANGED <<clock, next, stopped, worker, stale, unheard>>

\* The critical section: in front of the jobs due at the same time.
Insert(u) ==
  /\ call[u].pc = "insert"
  /\ jobs' = Inserted(u)
  /\ next' = IF Ahead(call[u].at) = 0 THEN call[u].at ELSE next
  /\ call' = [call EXCEPT ![u] = [NoCall EXCEPT !.pc = "alive"]]
  /\ UNCHANGED <<clock, stopped, worker, stale, unheard>>

\* Mutant: a dead thread is not replaced.
RespawnNever(u) ==
  /\ call[u].pc = "alive"
  /\ call' = [call EXCEPT ![u].pc = "wake"]
  /\ UNCHANGED <<clock, jobs, next, stopped, worker, stale, unheard>>

\* A dead thread is replaced, in a critical section that looks again.
Respawn(u) ==
  /\ call[u].pc = "alive"
  /\ worker' = [worker EXCEPT !.pc = IF @ = "dead" THEN "top" ELSE @]
  /\ call' = [call EXCEPT ![u].pc = "wake"]
  /\ UNCHANGED <<clock, jobs, next, stopped, stale, unheard>>

\* wakeup, of a thread whose status is "sleep".
Wake(u) ==
  /\ call[u].pc = "wake"
  /\ worker' = [worker EXCEPT !.pc = IF @ = "asleep" THEN "top" ELSE @]
  /\ unheard' = (worker.pc = "measured" \/ (unheard /\ worker.pc # "asleep"))
  /\ call' = [call EXCEPT ![u] = NoCall]
  /\ UNCHANGED <<clock, jobs, next, stopped, stale>>

-----------------------------------------------------------------------------
(* stop, which wakes the thread up until it is dead.                       *)

Stop(u) ==
  /\ Returned(u)
  /\ stopped' = TRUE
  /\ call' = [call EXCEPT ![u].pc = "stopping"]
  /\ UNCHANGED <<clock, jobs, next, worker, stale, unheard>>

StopWakes(u) ==
  /\ call[u].pc = "stopping" /\ worker.pc = "asleep"
  /\ worker' = [worker EXCEPT !.pc = "top"]
  /\ unheard' = FALSE
  /\ UNCHANGED <<clock, jobs, next, stopped, call, stale>>

StopEnds(u) ==
  /\ call[u].pc = "stopping" /\ worker.pc = "dead"
  /\ call' = [call EXCEPT ![u] = NoCall]
  /\ UNCHANGED <<clock, jobs, next, stopped, worker, stale, unheard>>

UserStep(u) ==
  Insert(u) \/ Respawn(u) \/ Wake(u) \/ StopWakes(u) \/ StopEnds(u)

-----------------------------------------------------------------------------
(* do_work, in the timer's thread.                                         *)

Due == next # None /\ next <= clock

Goto(label) == worker' = [worker EXCEPT !.pc = label]

Top ==
  /\ worker.pc = "top"
  /\ worker' = [worker EXCEPT !.pc = IF stopped THEN "dead" ELSE
                                     IF Due THEN "shift" ELSE "measure",
                              !.until = 0]
  /\ UNCHANGED <<clock, jobs, next, stopped, call, stale, unheard>>

\* The first job, whatever its time: @next says that it is due.
Shift ==
  /\ worker.pc = "shift"
  /\ worker' = [worker EXCEPT !.pc = "job",
                              !.entry = IF jobs = <<>> THEN None
                                                       ELSE Head(jobs)]
  /\ jobs' = IF jobs = <<>> THEN jobs ELSE Tail(jobs)
  /\ UNCHANGED <<clock, next, stopped, call, stale, unheard>>

\* Mutant: @next is left at the time of the job that has run.
RenextKept ==
  /\ worker.pc = "renext"
  /\ worker' = [worker EXCEPT !.pc = "measure", !.entry = None]
  /\ stale' = FALSE
  /\ UNCHANGED <<clock, jobs, next, stopped, call, unheard>>

Renext ==
  /\ worker.pc = "renext"
  /\ next' = IF jobs = <<>> THEN None ELSE Head(jobs).at
  /\ worker' = [worker EXCEPT !.pc = "measure", !.entry = None]
  /\ stale' = FALSE
  /\ UNCHANGED <<clock, jobs, stopped, call, unheard>>

Measure ==
  /\ worker.pc = "measure"
  /\ worker' = IF Due THEN [worker EXCEPT !.pc = "top"]
               ELSE [worker EXCEPT !.pc = "measured",
                                   !.until = IF next = None \/ next > MaxTime
                                             THEN MaxTime ELSE next]
  /\ UNCHANGED <<clock, jobs, next, stopped, call, stale, unheard>>

FallAsleep ==
  /\ worker.pc = "measured"
  /\ Goto("asleep")
  /\ UNCHANGED <<clock, jobs, next, stopped, call, stale, unheard>>

Awake ==
  /\ worker.pc = "asleep" /\ clock >= worker.until
  /\ Goto("top")
  /\ unheard' = FALSE
  /\ UNCHANGED <<clock, jobs, next, stopped, call, stale>>

\* All but running the job, which is the job's own affair.
DoWork == Top \/ Shift \/ Renext \/ Measure \/ FallAsleep \/ Awake

JobDone ==
  /\ Goto("renext")
  /\ UNCHANGED <<clock, jobs, next, stopped, call, stale, unheard>>

\* The threads of a process do not survive its fork: in the child only u goes
\* on, and @jobs and @next are what they were.
TimerForked(u) ==
  /\ worker' = [pc |-> "dead", entry |-> None, until |-> 0]
  /\ call' = [v \in Users |-> IF v = u THEN call[u] ELSE NoCall]
  /\ stale' = (stale \/ worker.pc \in {"job", "requeue", "renext"})
  /\ unheard' = FALSE
  /\ UNCHANGED <<clock, jobs, next, stopped>>

-----------------------------------------------------------------------------
Queued(j) == \E k \in DOMAIN jobs : jobs[k].job = j

\* "queue a block to run after a certain delay": no job is run before its time,
\* but for the first one a thread takes that replaces one that died in a job.
NeverEarly ==
  worker.pc = "job" /\ worker.entry # None => worker.entry.at <= clock \/ stale

\* The thread never sleeps past the first job's time once the calls that queued
\* jobs have returned, unless the wake-up of one fell between its measuring and
\* its sleeping.
NoOversleep ==
  worker.pc = "asleep" /\ jobs # <<>> /\
  (\A u \in Users : call[u].pc \notin {"alive", "wake"}) =>
    worker.until <= Head(jobs).at \/ unheard
=============================================================================

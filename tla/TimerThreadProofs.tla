-------------------------- MODULE TimerThreadProofs --------------------------
(***************************************************************************)
(* What each step of the timer thread preserves, for any users, jobs and   *)
(* delays.  BusLifeProofs puts the steps together.                         *)
(***************************************************************************)
EXTENDS TimerThread, FiniteSetTheorems, SequenceTheorems,
        WellFoundedInduction, TLAPS

-----------------------------------------------------------------------------
(* The insertion.                                                          *)

\* Every non-empty set of natural numbers has a least element.
LEMMA LeastNat ==
  ASSUME NEW T, T \subseteq Nat, T # {}
  PROVE  \E x \in T : \A y \in T : x <= y
<1>. DEFINE R == {p \in Nat \X Nat : p[1] < p[2]}
<1>1. IsWellFoundedOn(R, Nat)
  BY NatLessThanWellFounded, Zenon DEF OpToRel
<1>2. \E x \in T : \A y \in T : ~ (<<y, x>> \in R)
  BY <1>1, WFMin
<1>3. \A x, y \in T : <<y, x>> \notin R => x <= y
  OBVIOUS
<1>. QED
  BY <1>2, <1>3

\* The jobs of the queue are in the order of their times.
Sorted ==
  \A j, k \in 1..Len(jobs) : j < k => jobs[j].at <= jobs[k].at

\* Scanned from its end, the queue has a place for every time.
LEMMA AheadExists ==
  ASSUME jobs \in Seq(Entry), NEW t \in Time
  PROVE  /\ Ahead(t) \in 0..Len(jobs)
         /\ Ahead(t) > 0 => jobs[Ahead(t)].at < t
         /\ \A k \in Ahead(t)+1..Len(jobs) : jobs[k].at >= t
<1>. DEFINE n == Len(jobs)
            Later == {i \in 0..n : \A k \in i+1..n : jobs[k].at >= t}
<1>1. n \in Nat /\ \A k \in 1..n : jobs[k].at \in Int
  <2>1. \A k \in 1..n : jobs[k] \in Entry
    BY ElementOfSeq
  <2>2. \A e \in Entry : e.at \in Int
    BY TimerAssumption DEF Entry, Time
  <2>. QED
    BY <2>1, <2>2, LenProperties
<1>. HIDE DEF n
<1>2. n \in Later
  BY <1>1
<1>3. PICK i \in Later : \A j \in Later : i <= j
  <2>1. Later \subseteq Nat /\ Later # {}
    BY <1>1, <1>2
  <2>. QED
    BY <2>1, LeastNat
<1>4. i > 0 => jobs[i].at < t
  <2>. SUFFICES ASSUME i > 0, ~(jobs[i].at < t) PROVE FALSE
    OBVIOUS
  <2>1. i \in 1..n /\ i - 1 \in 0..n
    BY <1>1
  <2>2. jobs[i].at >= t
    BY <1>1, <2>1, TimerAssumption DEF Time
  <2>3. \A k \in (i-1)+1..n : k = i \/ k \in i+1..n
    BY <1>1, <2>1
  <2>4. i - 1 \in Later
    BY <2>1, <2>2, <2>3
  <2>5. i <= i - 1
    BY <1>3, <2>4
  <2>. QED
    BY <2>1, <2>5
<1>5. \E l \in 0..Len(jobs) : /\ l > 0 => jobs[l].at < t
                              /\ \A k \in l+1..Len(jobs) : jobs[k].at >= t
  BY <1>3, <1>4 DEF n
<1>. QED
  BY <1>5 DEF Ahead

\* Element by element, the queue with e put in its place.
LEMMA InsertedAt ==
  ASSUME jobs \in Seq(Entry), NEW e \in Entry
  PROVE  LET a == Ahead(e.at)
             l == InsertAt(jobs, a + 1, e)
         IN  /\ l \in Seq(Entry)
             /\ Len(l) = Len(jobs) + 1
             /\ \A k \in 1..Len(jobs)+1 :
                  l[k] = IF k <= a THEN jobs[k]
                         ELSE IF k = a + 1 THEN e ELSE jobs[k-1]
<1>. DEFINE n == Len(jobs)
            a == Ahead(e.at)
            front == SubSeq(jobs, 1, (a + 1) - 1)
            back == SubSeq(jobs, a + 1, n)
<1>1. n \in Nat /\ \A k \in 1..n : jobs[k] \in Entry
  BY LenProperties, ElementOfSeq
<1>2. e.at \in Time
  BY DEF Entry
<1>3. a \in 0..n
  BY <1>2, AheadExists
<1>. HIDE DEF n, a
<1>4. /\ front \in Seq(Entry) /\ Len(front) = a
      /\ \A k \in 1..a : front[k] = jobs[k]
  <2>1. \A k \in 1..(a+1)-1 : jobs[k] \in Entry
    BY <1>1, <1>3
  <2>2. 1 \in Int /\ (a + 1) - 1 \in Int
    BY <1>3
  <2>. QED
    BY <2>1, <2>2, <1>3, SubSeqProperties
<1>5. /\ back \in Seq(Entry) /\ Len(back) = n - a
      /\ \A k \in 1..n-a : back[k] = jobs[k+a]
  <2>1. \A k \in a+1..n : jobs[k] \in Entry
    BY <1>1, <1>3
  <2>2. a + 1 \in Int /\ n \in Int
    BY <1>1, <1>3
  <2>. QED
    BY <2>1, <2>2, <1>1, <1>3, SubSeqProperties
<1>6. <<e>> \in Seq(Entry) /\ Len(<<e>>) = 1 /\ <<e>>[1] = e
  OBVIOUS
<1>. HIDE DEF front, back
<1>. DEFINE half == front \o <<e>>
<1>7. /\ half \in Seq(Entry) /\ Len(half) = a + 1
      /\ \A k \in 1..a+1 : half[k] = IF k <= a THEN jobs[k] ELSE e
  BY <1>3, <1>4, <1>6, ConcatProperties
<1>. HIDE DEF half
<1>8. /\ half \o back \in Seq(Entry) /\ Len(half \o back) = n + 1
      /\ \A k \in 1..n+1 : (half \o back)[k] =
           IF k <= a THEN jobs[k] ELSE IF k = a + 1 THEN e ELSE jobs[k-1]
  <2>1. /\ half \o back \in Seq(Entry)
        /\ Len(half \o back) = Len(half) + Len(back)
        /\ \A k \in 1..Len(half)+Len(back) : (half \o back)[k] =
             IF k <= Len(half) THEN half[k] ELSE back[k - Len(half)]
    BY <1>5, <1>7, ConcatProperties
  <2>2. Len(half) + Len(back) = n + 1 /\ Len(half) = a + 1
    BY <1>1, <1>3, <1>5, <1>7
  <2>3. ASSUME NEW k \in 1..n+1
        PROVE  (half \o back)[k] =
                 IF k <= a THEN jobs[k] ELSE IF k = a + 1 THEN e ELSE jobs[k-1]
    <3>1. CASE k <= a + 1
      BY <2>1, <2>2, <3>1, <1>1, <1>3, <1>7
    <3>2. CASE k > a + 1
      <4>1. k - (a + 1) \in 1..n-a /\ (k - (a + 1)) + a = k - 1
        BY <3>2, <1>1, <1>3
      <4>. QED
        BY <2>1, <2>2, <3>2, <4>1, <1>1, <1>3, <1>5
    <3>3. k <= a + 1 \/ k > a + 1
      BY <1>1, <1>3
    <3>. QED
      BY <3>1, <3>2, <3>3
  <2>. QED
    BY <2>1, <2>2, <2>3
<1>. QED
  BY <1>8 DEF InsertAt, half, front, back, n, a

\* What the timer relies on: the queue keeps its order, and starts with the new
\* job exactly when no other is due before it.
LEMMA InsertedInOrder ==
  ASSUME jobs \in Seq(Entry), Sorted, NEW e \in Entry
  PROVE  LET a == Ahead(e.at)
             l == InsertAt(jobs, a + 1, e)
         IN  /\ l \in Seq(Entry) /\ l # <<>>
             /\ \A j, k \in 1..Len(l) : j < k => l[j].at <= l[k].at
             /\ a = 0 => Head(l) = e /\ (jobs # <<>> => e.at <= Head(jobs).at)
             /\ a # 0 => jobs # <<>> /\ Head(l) = Head(jobs)
<1>. DEFINE n == Len(jobs)
            a == Ahead(e.at)
            l == InsertAt(jobs, a + 1, e)
<1>1. n \in Nat /\ \A k \in 1..n : jobs[k] \in Entry
  BY LenProperties, ElementOfSeq
<1>2. \A f \in Entry : f.at \in Time /\ f.at \in Int
  BY TimerAssumption DEF Entry, Time
<1>3. /\ a \in 0..n
      /\ a > 0 => jobs[a].at < e.at
      /\ \A k \in a+1..n : jobs[k].at >= e.at
  BY <1>2, AheadExists
<1>4. /\ l \in Seq(Entry) /\ Len(l) = n + 1
      /\ \A k \in 1..n+1 : l[k] = IF k <= a THEN jobs[k]
                                  ELSE IF k = a + 1 THEN e ELSE jobs[k-1]
  BY InsertedAt
<1>5. \A j, k \in 1..n : j < k => jobs[j].at <= jobs[k].at
  BY DEF Sorted
<1>6. Head(l) = l[1] /\ l # <<>>
  BY <1>1, <1>4, EmptySeq
<1>7. jobs # <<>> => n > 0 /\ Head(jobs) = jobs[1]
  BY <1>1, EmptySeq
<1>8. n > 0 => jobs # <<>>
  BY EmptySeq
<1>. HIDE DEF n, a, l
<1>9. \A k \in 1..n : k <= a => jobs[k].at < e.at
  BY <1>1, <1>2, <1>3, <1>5
<1>10. \A j, k \in 1..n+1 : j < k => l[j].at <= l[k].at
  <2>. SUFFICES ASSUME NEW j \in 1..n+1, NEW k \in 1..n+1, j < k
                PROVE  l[j].at <= l[k].at
    OBVIOUS
  <2>1. CASE k <= a
    BY <2>1, <1>1, <1>3, <1>4, <1>5
  <2>2. CASE k = a + 1
    <3>1. j \in 1..n /\ j <= a
      BY <2>2, <1>1, <1>3
    <3>2. l[j] = jobs[j] /\ l[k] = e /\ jobs[j].at < e.at
      BY <3>1, <2>2, <1>1, <1>3, <1>4, <1>9
    <3>3. jobs[j].at \in Int /\ e.at \in Int
      BY <3>1, <1>1, <1>2
    <3>. QED
      BY <3>2, <3>3
  <2>3. CASE k > a + 1
    <3>1. l[k] = jobs[k-1] /\ k-1 \in 1..n /\ k-1 \in a+1..n
      BY <2>3, <1>1, <1>3, <1>4
    <3>2. CASE j <= a
      <4>1. l[j] = jobs[j] /\ j \in 1..n /\ j < k-1
        BY <3>2, <2>3, <1>1, <1>3, <1>4
      <4>. QED
        BY <4>1, <3>1, <1>5
    <3>3. CASE j = a + 1
      BY <3>1, <3>3, <1>1, <1>2, <1>3, <1>4
    <3>4. CASE j > a + 1
      <4>1. l[j] = jobs[j-1] /\ j-1 \in 1..n /\ j-1 < k-1
        BY <3>4, <1>1, <1>3, <1>4
      <4>. QED
        BY <4>1, <3>1, <1>5
    <3>. QED
      BY <3>2, <3>3, <3>4, <1>3
  <2>. QED
    BY <2>1, <2>2, <2>3, <1>3
<1>11. a = 0 => l[1] = e /\ (n > 0 => e.at <= jobs[1].at)
  BY <1>1, <1>2, <1>3, <1>4
<1>12. a # 0 => n > 0 /\ l[1] = jobs[1]
  BY <1>1, <1>3, <1>4
<1>. QED
  BY <1>4, <1>6, <1>7, <1>8, <1>10, <1>11, <1>12 DEF a, l

-----------------------------------------------------------------------------
(* The invariant.                                                          *)

Running == worker.pc \in {"job", "requeue", "renext"}

Waking == \E u \in Users : call[u].pc \in {"alive", "wake"}

\* What is being queued is a job.
Asked == \A u \in Users : call[u].pc = "insert" => call[u].job \in Jobs

\* @next is never later than the first job, but for a time that has passed.
Leads ==
  jobs # <<>> => next # None /\ (next <= Head(jobs).at \/ next <= clock)

\* Outside a job @next is the time of the first one; what a thread leaves
\* behind that dies in a job is not.
Fresh ==
  ~Running /\ ~stale =>
    /\ jobs = <<>> => next = None
    /\ jobs # <<>> => next = Head(jobs).at

\* The job about to be taken is due.
Ripe ==
  worker.pc = "shift" /\ ~stale => jobs # <<>> /\ Head(jobs).at <= clock

\* The end of the sleep is the first job's time, or somebody has yet to wake
\* the thread up, or has done so too early.
Heard ==
  worker.pc \in {"measured", "asleep"} /\ jobs # <<>> =>
    worker.until <= Head(jobs).at \/ unheard \/ Waking

TimerSafe ==
  /\ TimerTypeOK /\ Asked /\ Sorted
  /\ Leads /\ Fresh /\ Ripe /\ NeverEarly /\ Heard

LEMMA SafeImplies == TimerSafe => TimerTypeOK /\ NeverEarly /\ NoOversleep
BY DEF TimerSafe, Heard, Waking, NoOversleep

\* The first job of a queue has a time.
LEMMA FirstJob ==
  ASSUME jobs \in Seq(Entry), jobs # <<>>
  PROVE  /\ Head(jobs) \in Entry /\ Tail(jobs) \in Seq(Entry)
         /\ Head(jobs).at \in Int /\ Head(jobs).at \in Time
         /\ Head(jobs) = jobs[1]
<1>1. Head(jobs) \in Entry /\ Tail(jobs) \in Seq(Entry)
  BY HeadTailProperties
<1>2. \A e \in Entry : e.at \in Int /\ e.at \in Time
  BY TimerAssumption DEF Entry, Time
<1>. QED
  BY <1>1, <1>2

LEMMA TimerSafeInit == TimerInit => TimerSafe
<1>. SUFFICES ASSUME TimerInit PROVE TimerSafe
  OBVIOUS
<1>. USE TimerAssumption DEF TimerInit
<1>1. TimerTypeOK
  <2>1. <<>> \in Seq(Entry)
    BY EmptySeq
  <2>2. 0 \in Time /\ 0 \in 0..MaxTime
    BY DEF Time
  <2>. QED
    BY <2>1, <2>2 DEF TimerTypeOK, NoCall
<1>2. Asked /\ Sorted /\ Leads /\ Fresh /\ Ripe /\ NeverEarly /\ Heard
  BY EmptySeq DEF Asked, NoCall, Sorted, Leads, Fresh, Ripe, NeverEarly, Heard
<1>. QED
  BY <1>1, <1>2 DEF TimerSafe

LEMMA TickSafe == ASSUME TimerSafe, Tick PROVE TimerSafe'
<1>. USE DEF TimerSafe, Tick
<1>1. TimerTypeOK'
  BY TimerAssumption DEF TimerTypeOK
<1>2. Asked' /\ Sorted' /\ Fresh' /\ Heard'
  BY DEF Asked, Sorted, Fresh, Running, Heard, Waking
<1>3. clock \in Int /\ clock' \in Int /\ clock <= clock'
  BY TimerAssumption DEF TimerTypeOK
<1>4. Leads'
  <2>1. next # None => next \in Int
    BY TimerAssumption DEF TimerTypeOK, Time
  <2>. QED
    BY <1>3, <2>1 DEF Leads
<1>5. Ripe'
  BY <1>3, FirstJob DEF Ripe, TimerTypeOK
<1>6. NeverEarly'
  <2>1. worker.entry # None => worker.entry.at \in Int
    BY TimerAssumption DEF TimerTypeOK, Entry, Time
  <2>. QED
    BY <1>3, <2>1 DEF NeverEarly
<1>. QED
  BY <1>1, <1>2, <1>4, <1>5, <1>6

-----------------------------------------------------------------------------
(* The users' steps.                                                       *)

LEMMA QueueSafe ==
  ASSUME TimerSafe, NEW u \in Users, NEW job \in Jobs,
         NEW delay \in 0..MaxDelay, Queue(u, job, delay)
  PROVE  TimerSafe'
<1>. USE DEF TimerSafe, Queue, Returned
<1>1. clock + delay \in Time
  BY TimerAssumption DEF TimerTypeOK, Time
<1>2. TimerTypeOK'
  BY <1>1 DEF TimerTypeOK
<1>3. Asked'
  BY DEF Asked, TimerTypeOK
<1>4. Waking => Waking'
  BY DEF Waking, TimerTypeOK
<1>5. Sorted' /\ Leads' /\ Fresh' /\ Ripe' /\ NeverEarly' /\ Heard'
  BY <1>4 DEF Sorted, Leads, Fresh, Running, Ripe, NeverEarly, Heard
<1>. QED
  BY <1>2, <1>3, <1>5

LEMMA InsertSafe ==
  ASSUME TimerSafe, NEW u \in Users, Insert(u)
  PROVE  TimerSafe'
<1>. USE DEF TimerSafe, Insert
<1>. DEFINE e == [at |-> call[u].at, job |-> call[u].job]
            a == Ahead(e.at)
<1>1. e \in Entry /\ e.at = call[u].at /\ e.at \in Int /\ e.at \in Time
  BY TimerAssumption DEF TimerTypeOK, Asked, Entry, Time
<1>2. /\ jobs' \in Seq(Entry) /\ jobs' # <<>>
      /\ \A j, k \in 1..Len(jobs') : j < k => jobs'[j].at <= jobs'[k].at
      /\ a = 0 => Head(jobs') = e /\ (jobs # <<>> => e.at <= Head(jobs).at)
      /\ a # 0 => jobs # <<>> /\ Head(jobs') = Head(jobs)
  <2>1. jobs' = InsertAt(jobs, a + 1, e)
    BY <1>1 DEF Inserted
  <2>. QED
    BY <1>1, <2>1, InsertedInOrder DEF TimerTypeOK
<1>3. next' = IF a = 0 THEN e.at ELSE next
  BY <1>1
<1>. HIDE DEF a, e
<1>4. TimerTypeOK'
  BY <1>1, <1>2, <1>3, TimerAssumption DEF TimerTypeOK, NoCall, Time
<1>5. Asked'
  BY DEF Asked, TimerTypeOK, NoCall
<1>6. Sorted'
  BY <1>2 DEF Sorted
<1>7. \/ next' = Head(jobs').at
      \/ next' = next /\ jobs # <<>> /\ Head(jobs') = Head(jobs)
  BY <1>2, <1>3
<1>8. Leads'
  <2>1. Head(jobs').at \in Int
    <3>1. Head(jobs') \in Entry
      BY <1>2, HeadTailProperties
    <3>. QED
      BY <3>1, TimerAssumption DEF Entry, Time
  <2>2. next' # None
    BY <1>1, <1>2, <1>3, TimerAssumption DEF Leads
  <2>. QED
    BY <1>7, <2>1, <2>2 DEF Leads
<1>9. Fresh'
  BY <1>2, <1>7 DEF Fresh, Running
<1>10. Ripe'
  <2>. SUFFICES ASSUME worker.pc = "shift", ~stale
                PROVE  Head(jobs').at <= clock
    BY <1>2 DEF Ripe
  <2>1. jobs # <<>> /\ Head(jobs).at <= clock
    BY DEF Ripe
  <2>2. Head(jobs).at \in Int /\ clock \in Int
    BY <2>1, FirstJob DEF TimerTypeOK
  <2>. QED
    BY <1>1, <1>2, <2>1, <2>2
<1>11. NeverEarly'
  BY DEF NeverEarly
<1>12. Waking'
  BY DEF Waking, TimerTypeOK, NoCall
<1>. QED
  BY <1>4, <1>5, <1>6, <1>8, <1>9, <1>10, <1>11, <1>12 DEF Heard

LEMMA RespawnSafe ==
  ASSUME TimerSafe, NEW u \in Users, Respawn(u)
  PROVE  TimerSafe'
<1>. USE DEF TimerSafe, Respawn
<1>1. TimerTypeOK' /\ Asked' /\ Waking'
  BY DEF TimerTypeOK, Asked, Waking
<1>2. worker'.pc = IF worker.pc = "dead" THEN "top" ELSE worker.pc
  BY DEF TimerTypeOK
<1>3. worker'.entry = worker.entry /\ worker'.until = worker.until
  BY DEF TimerTypeOK
<1>4. Sorted' /\ Leads' /\ Fresh' /\ Ripe' /\ NeverEarly' /\ Heard'
  BY <1>1, <1>2, <1>3
  DEF Sorted, Leads, Fresh, Running, Ripe, NeverEarly, Heard
<1>. QED
  BY <1>1, <1>4

LEMMA WakeSafe ==
  ASSUME TimerSafe, NEW u \in Users, Wake(u)
  PROVE  TimerSafe'
<1>. USE DEF TimerSafe, Wake
<1>1. TimerTypeOK' /\ Asked'
  <2>1. NoCall \in [pc : {"none", "insert", "alive", "wake", "stopping"},
                    at : Time, job : Jobs \cup {None}]
    BY TimerAssumption DEF NoCall, Time
  <2>2. unheard' \in BOOLEAN
    OBVIOUS
  <2>3. TimerTypeOK'
    BY <2>1, <2>2 DEF TimerTypeOK
  <2>4. Asked'
    BY DEF Asked, TimerTypeOK, NoCall
  <2>. QED
    BY <2>3, <2>4
<1>2. /\ worker'.pc = IF worker.pc = "asleep" THEN "top" ELSE worker.pc
      /\ worker'.entry = worker.entry /\ worker'.until = worker.until
  BY DEF TimerTypeOK
<1>3. Heard'
  <2>1. worker'.pc \in {"measured", "asleep"} => worker.pc = "measured"
    BY <1>2
  <2>2. worker.pc = "measured" => unheard'
    OBVIOUS
  <2>. QED
    BY <2>1, <2>2 DEF Heard
<1>4. Sorted' /\ Leads' /\ Fresh' /\ Ripe' /\ NeverEarly'
  BY <1>2 DEF Sorted, Leads, Fresh, Running, Ripe, NeverEarly
<1>. QED
  BY <1>1, <1>3, <1>4

LEMMA StopSafe ==
  ASSUME TimerSafe, NEW u \in Users, Stop(u) \/ StopWakes(u) \/ StopEnds(u)
  PROVE  TimerSafe'
<1>. USE DEF TimerSafe
<1>1. CASE Stop(u)
  <2>. USE <1>1 DEF Stop, Returned
  <2>1. TimerTypeOK' /\ Asked'
    BY DEF TimerTypeOK, Asked
  <2>2. Waking => Waking'
    BY DEF Waking, TimerTypeOK
  <2>3. Sorted' /\ Leads' /\ Fresh' /\ Ripe' /\ NeverEarly' /\ Heard'
    BY <2>2 DEF Sorted, Leads, Fresh, Running, Ripe, NeverEarly, Heard
  <2>. QED
    BY <2>1, <2>3
<1>2. CASE StopWakes(u)
  <2>. USE <1>2 DEF StopWakes
  <2>1. TimerTypeOK' /\ Asked'
    BY DEF TimerTypeOK, Asked
  <2>2. worker'.pc = "top" /\ worker.pc = "asleep"
    BY DEF TimerTypeOK
  <2>3. Sorted' /\ Leads' /\ Fresh' /\ Ripe' /\ NeverEarly' /\ Heard'
    BY <2>2 DEF Sorted, Leads, Fresh, Running, Ripe, NeverEarly, Heard
  <2>. QED
    BY <2>1, <2>3
<1>3. CASE StopEnds(u)
  <2>. USE <1>3 DEF StopEnds
  <2>1. TimerTypeOK' /\ Asked'
    BY TimerAssumption DEF TimerTypeOK, Asked, NoCall, Time
  <2>2. Sorted' /\ Leads' /\ Fresh' /\ Ripe' /\ NeverEarly' /\ Heard'
    BY DEF Sorted, Leads, Fresh, Running, Ripe, NeverEarly, Heard
  <2>. QED
    BY <2>1, <2>2
<1>. QED
  BY <1>1, <1>2, <1>3

LEMMA UserStepSafe ==
  ASSUME TimerSafe, NEW u \in Users, UserStep(u)
  PROVE  TimerSafe'
BY InsertSafe, RespawnSafe, WakeSafe, StopSafe DEF UserStep

-----------------------------------------------------------------------------
(* The thread's steps.                                                     *)

LEMMA DueNow == next # None /\ TimerTypeOK => next \in Int /\ clock \in Int
BY TimerAssumption DEF TimerTypeOK, Time

LEMMA TopSafe == ASSUME TimerSafe, Top PROVE TimerSafe'
<1>. USE DEF TimerSafe, Top
<1>1. TimerTypeOK' /\ Asked'
  <2>1. 0 \in Time
    BY TimerAssumption DEF Time
  <2>2. (IF stopped THEN "dead" ELSE IF Due THEN "shift" ELSE "measure")
           \in {"dead", "shift", "measure"}
    OBVIOUS
  <2>. QED
    BY <2>1, <2>2 DEF TimerTypeOK, Asked
<1>2. worker'.pc = IF stopped THEN "dead" ELSE
                   IF Due THEN "shift" ELSE "measure"
  BY DEF TimerTypeOK
<1>3. Ripe'
  BY <1>2 DEF Ripe, Due, Fresh, Running
<1>4. Sorted' /\ Leads' /\ Fresh' /\ NeverEarly' /\ Heard'
  BY <1>2 DEF Sorted, Leads, Fresh, Running, NeverEarly, Heard
<1>. QED
  BY <1>1, <1>3, <1>4

LEMMA ShiftSafe == ASSUME TimerSafe, Shift PROVE TimerSafe'
<1>. USE DEF TimerSafe, Shift
<1>1. CASE jobs = <<>>
  <2>1. worker'.pc = "job" /\ worker'.entry = None /\ jobs' = jobs
    BY <1>1 DEF TimerTypeOK
  <2>2. TimerTypeOK' /\ Asked'
    BY <1>1 DEF TimerTypeOK, Asked
  <2>3. Sorted' /\ Leads' /\ Fresh' /\ Ripe' /\ NeverEarly' /\ Heard'
    BY <2>1 DEF Sorted, Leads, Fresh, Running, Ripe, NeverEarly, Heard
  <2>. QED
    BY <2>2, <2>3
<1>2. CASE jobs # <<>>
  <2>1. worker'.pc = "job" /\ worker'.entry = Head(jobs) /\ jobs' = Tail(jobs)
    BY <1>2 DEF TimerTypeOK
  <2>2. TimerTypeOK' /\ Asked'
    BY <1>2, FirstJob DEF TimerTypeOK, Asked
  <2>3. /\ Len(jobs) \in Nat /\ Len(jobs') = Len(jobs) - 1
        /\ \A k \in 1..Len(jobs') : jobs'[k] = jobs[k+1]
    BY <1>2, <2>1, HeadTailProperties, LenProperties DEF TimerTypeOK
  <2>4. Sorted'
    <3>. SUFFICES ASSUME NEW j \in 1..Len(jobs'), NEW k \in 1..Len(jobs'), j < k
                  PROVE  jobs'[j].at <= jobs'[k].at
      BY DEF Sorted
    <3>1. j+1 \in 1..Len(jobs) /\ k+1 \in 1..Len(jobs) /\ j+1 < k+1
      BY <2>3
    <3>2. jobs'[j] = jobs[j+1] /\ jobs'[k] = jobs[k+1]
      BY <2>3
    <3>. QED
      BY <3>1, <3>2 DEF Sorted
  <2>5. NeverEarly'
    BY <2>1 DEF NeverEarly, Ripe
  <2>6. Leads'
    <3>. SUFFICES ASSUME jobs' # <<>>
                  PROVE  next # None /\ (next <= Head(jobs').at \/ next <= clock)
      BY DEF Leads
    <3>1. Len(jobs') > 0 /\ Head(jobs') = jobs[2] /\ 2 \in 1..Len(jobs)
      <4>1. jobs' \in Seq(Entry)
        BY <2>2 DEF TimerTypeOK
      <4>2. Len(jobs') > 0 /\ Head(jobs') = jobs'[1]
        BY <4>1, EmptySeq
      <4>. QED
        BY <4>2, <2>3
    <3>2. Head(jobs).at <= Head(jobs').at
      <4>1. 1 \in 1..Len(jobs) /\ Head(jobs) = jobs[1]
        BY <1>2, <2>3, <3>1, FirstJob DEF TimerTypeOK
      <4>. QED
        BY <3>1, <4>1 DEF Sorted
    <3>3. Head(jobs).at \in Int /\ Head(jobs').at \in Int
      <4>1. Head(jobs') \in Entry
        BY <3>1, ElementOfSeq DEF TimerTypeOK
      <4>. QED
        BY <1>2, <4>1, FirstJob, TimerAssumption DEF TimerTypeOK, Entry, Time
    <3>. QED
      BY <1>2, <3>2, <3>3, DueNow DEF Leads
  <2>7. Fresh' /\ Ripe' /\ Heard'
    BY <2>1 DEF Fresh, Running, Ripe, Heard
  <2>. QED
    BY <2>2, <2>4, <2>5, <2>6, <2>7
<1>. QED
  BY <1>1, <1>2

LEMMA RenextSafe == ASSUME TimerSafe, Renext PROVE TimerSafe'
<1>. USE DEF TimerSafe, Renext
<1>1. worker'.pc = "measure"
  BY DEF TimerTypeOK
<1>2. TimerTypeOK' /\ Asked'
  BY FirstJob DEF TimerTypeOK, Asked
<1>3. jobs # <<>> => next' = Head(jobs).at /\ next' \in Int /\ next' # None
  BY FirstJob, TimerAssumption DEF TimerTypeOK
<1>4. Sorted' /\ Leads' /\ Fresh' /\ Ripe' /\ NeverEarly' /\ Heard'
  BY <1>1, <1>3 DEF Sorted, Leads, Fresh, Running, Ripe, NeverEarly, Heard
<1>. QED
  BY <1>2, <1>4

LEMMA MeasureSafe == ASSUME TimerSafe, Measure PROVE TimerSafe'
<1>. USE DEF TimerSafe, Measure
<1>1. CASE Due
  <2>1. worker'.pc = "top"
    BY <1>1 DEF TimerTypeOK
  <2>2. TimerTypeOK' /\ Asked'
    BY <1>1 DEF TimerTypeOK, Asked
  <2>3. Sorted' /\ Leads' /\ Fresh' /\ Ripe' /\ NeverEarly' /\ Heard'
    BY <2>1 DEF Sorted, Leads, Fresh, Running, Ripe, NeverEarly, Heard
  <2>. QED
    BY <2>2, <2>3
<1>2. CASE ~Due
  <2>1. /\ worker'.pc = "measured"
        /\ worker'.until = IF next = None \/ next > MaxTime THEN MaxTime
                                                            ELSE next
    BY <1>2 DEF TimerTypeOK
  <2>2. MaxTime \in Time
    BY TimerAssumption DEF Time
  <2>3. TimerTypeOK' /\ Asked'
    BY <1>2, <2>2 DEF TimerTypeOK, Asked
  <2>4. Heard'
    <3>. SUFFICES ASSUME jobs # <<>> PROVE worker'.until <= Head(jobs).at
      BY DEF Heard
    <3>1. next # None /\ next \in Int /\ Head(jobs).at \in Int
      BY DueNow, FirstJob DEF Leads, TimerTypeOK
    <3>2. next <= Head(jobs).at
      BY <1>2, <3>1, DueNow DEF Leads, Due
    <3>. QED
      BY <2>1, <3>1, <3>2, TimerAssumption
  <2>5. Sorted' /\ Leads' /\ Fresh' /\ Ripe' /\ NeverEarly'
    BY <2>1, <1>2 DEF Sorted, Leads, Fresh, Running, Ripe, NeverEarly
  <2>. QED
    BY <2>3, <2>4, <2>5
<1>. QED
  BY <1>1, <1>2

LEMMA SleepSafe == ASSUME TimerSafe, FallAsleep \/ Awake PROVE TimerSafe'
<1>. USE DEF TimerSafe, Goto
<1>1. CASE FallAsleep
  <2>. USE <1>1 DEF FallAsleep
  <2>1. TimerTypeOK' /\ Asked'
    BY DEF TimerTypeOK, Asked
  <2>2. /\ worker.pc = "measured" /\ worker'.pc = "asleep"
        /\ worker'.until = worker.until
    BY DEF TimerTypeOK
  <2>3. Sorted' /\ Leads' /\ Fresh' /\ Ripe' /\ NeverEarly' /\ Heard'
    BY <2>2 DEF Sorted, Leads, Fresh, Running, Ripe, NeverEarly, Heard, Waking
  <2>. QED
    BY <2>1, <2>3
<1>2. CASE Awake
  <2>. USE <1>2 DEF Awake
  <2>1. TimerTypeOK' /\ Asked'
    BY DEF TimerTypeOK, Asked
  <2>2. worker.pc = "asleep" /\ worker'.pc = "top"
    BY DEF TimerTypeOK
  <2>3. Sorted' /\ Leads' /\ Fresh' /\ Ripe' /\ NeverEarly' /\ Heard'
    BY <2>2 DEF Sorted, Leads, Fresh, Running, Ripe, NeverEarly, Heard
  <2>. QED
    BY <2>1, <2>3
<1>. QED
  BY <1>1, <1>2

LEMMA DoWorkSafe == ASSUME TimerSafe, DoWork PROVE TimerSafe'
BY TopSafe, ShiftSafe, RenextSafe, MeasureSafe, SleepSafe DEF DoWork

\* A job ends.
LEMMA JobDoneSafe == ASSUME TimerSafe, Running, JobDone PROVE TimerSafe'
<1>. USE DEF TimerSafe, JobDone, Goto
<1>1. TimerTypeOK' /\ Asked'
  BY DEF TimerTypeOK, Asked
<1>2. worker'.pc = "renext"
  BY DEF TimerTypeOK
<1>3. Sorted' /\ Leads' /\ Fresh' /\ Ripe' /\ NeverEarly' /\ Heard'
  BY <1>2 DEF Sorted, Leads, Fresh, Running, Ripe, NeverEarly, Heard
<1>. QED
  BY <1>1, <1>3

\* What a job that dies with its thread leaves behind is stale.
LEMMA ForkedSafe ==
  ASSUME TimerSafe, NEW u \in Users, TimerForked(u)
  PROVE  TimerSafe'
<1>. USE DEF TimerSafe, TimerForked
<1>1. TimerTypeOK'
  <2>1. 0 \in Time
    BY TimerAssumption DEF Time
  <2>2. stale' \in BOOLEAN
    OBVIOUS
  <2>. QED
    BY <2>1, <2>2 DEF TimerTypeOK, NoCall
<1>2. Asked'
  BY DEF Asked, NoCall, TimerTypeOK
<1>3. worker'.pc = "dead"
  OBVIOUS
<1>4. ~stale' => ~stale /\ ~Running
  BY DEF Running
<1>5. Sorted' /\ Leads' /\ Fresh' /\ Ripe' /\ NeverEarly' /\ Heard'
  BY <1>3, <1>4 DEF Sorted, Leads, Fresh, Ripe, NeverEarly, Heard
<1>. QED
  BY <1>1, <1>2, <1>5

\* Nothing else changes what it says.
LEMMA TimerStutter == ASSUME TimerSafe, UNCHANGED timerVars PROVE TimerSafe'
BY DEF timerVars, TimerSafe, TimerTypeOK, Asked, Sorted, Leads, Fresh, Running,
       Ripe, NeverEarly, Heard, Waking
=============================================================================

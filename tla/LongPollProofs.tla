--------------------------- MODULE LongPollProofs ---------------------------
(***************************************************************************)
(* For every set of clients, every bound and every choice of polls: the    *)
(* connection manager's two tables agree, no response passes over a        *)
(* retained message, and a page misses one only in the window between the  *)
(* reads and the registration of a long poll.                              *)
(***************************************************************************)
EXTENDS LongPoll, FiniteSetTheorems, SequenceTheorems, WellFoundedInduction,
        TLAPS

-----------------------------------------------------------------------------
(* Lemmas about the operators.                                             *)

\* A set of positive numbers has an ascending enumeration.  The proof takes the
\* least upper bound a counterexample could have.
LEMMA AscendingExists ==
  ASSUME NEW b \in Nat, NEW S \in SUBSET (1..b)
  PROVE  \E s \in [1..Cardinality(S) -> S] :
           /\ ToSet(s) = S
           /\ \A j, k \in DOMAIN s : j < k => s[j] < s[k]
<1>. DEFINE Sorted(P) == \E s \in [1..Cardinality(P) -> P] :
                           /\ ToSet(s) = P
                           /\ \A j, k \in DOMAIN s : j < k => s[j] < s[k]
            T == {m \in Nat : \E P \in SUBSET (1..m) : ~Sorted(P)}
<1>1. SUFFICES T = {}
  BY <1>1
<1>2. SUFFICES ASSUME T # {} PROVE FALSE
  OBVIOUS
<1>3. PICK m \in T : \A k \in T : ~(<<k, m>> \in OpToRel(<, Nat))
  <2>1. T \subseteq Nat
    OBVIOUS
  <2>. QED
    BY <1>2, <2>1, WFMin, NatLessThanWellFounded
<1>4. \A k \in Nat : k < m => k \notin T
  BY <1>3 DEF OpToRel
<1>5. PICK P \in SUBSET (1..m) : ~Sorted(P)
  OBVIOUS
<1>n. m \in Nat
  OBVIOUS
<1>m. m \in Nat /\ m \in Int /\ 1 \in Int
  BY <1>n
<1>i. IsFiniteSet(1..m)
  BY <1>m, FS_Interval
<1>6. m \in Nat /\ IsFiniteSet(P)
  BY <1>m, <1>i, FS_Subset
<1>7. CASE P = {}
  <2>1. Cardinality(P) = 0
    BY <1>7, FS_EmptySet
  <2>2. <<>> \in [1..0 -> {}] /\ ToSet(<<>>) = {} /\ DOMAIN <<>> = {}
    BY DEF ToSet
  <2>. QED
    BY <1>5, <1>7, <2>1, <2>2
<1>8. CASE P # {} /\ m \notin P
  <2>1. m # 0
    <3>1. PICK p \in P : TRUE
      BY <1>8
    <3>2. p \in 1..m
      OBVIOUS
    <3>. QED
      BY <1>6, <3>2
  <2>a. m - 1 \in Nat /\ m - 1 < m
    BY <1>6, <2>1
  <2>2. P \in SUBSET (1..(m - 1))
    BY <1>6, <1>8
  <2>. QED
    BY <1>4, <1>5, <2>a, <2>2
<1>9. CASE m \in P
  <2>1. m - 1 \in Nat /\ m - 1 < m
    BY <1>6, <1>9
  <2>. DEFINE Q == P \ {m}
              n == Cardinality(Q)
  <2>2. Q \in SUBSET (1..(m - 1))
    BY <1>6
  <2>3. Sorted(Q)
    BY <1>4, <2>1, <2>2
  <2>4. n \in Nat /\ Cardinality(P) = n + 1
    BY <1>6, <1>9, FS_RemoveElement, FS_Subset, FS_CardinalityType
  <2>. HIDE DEF n
  <2>5. PICK s \in [1..n -> Q] :
          ToSet(s) = Q /\ \A j, k \in DOMAIN s : j < k => s[j] < s[k]
    BY <2>3 DEF n
  <2>. DEFINE r == [k \in 1..(n + 1) |-> IF k = n + 1 THEN m ELSE s[k]]
  <2>6. r \in [1..(n + 1) -> P]
    BY <1>9, <2>4, <2>5
  <2>7. ToSet(r) = P
    <3>1. ASSUME NEW p \in P PROVE p \in ToSet(r)
      <4>1. CASE p = m
        <5>1. r[n + 1] = m /\ n + 1 \in DOMAIN r
          BY <2>4
        <5>. QED
          BY <4>1, <5>1 DEF ToSet
      <4>2. CASE p # m
        <5>1. PICK k \in 1..n : s[k] = p
          BY <2>5, <3>1, <4>2 DEF ToSet
        <5>2. k \in DOMAIN r /\ r[k] = p
          BY <2>4, <5>1
        <5>. QED
          BY <5>2 DEF ToSet
      <4>. QED
        BY <4>1, <4>2
    <3>2. ToSet(r) \subseteq P
      BY <2>6 DEF ToSet
    <3>. QED
      BY <3>1, <3>2
  <2>8. ASSUME NEW j \in DOMAIN r, NEW k \in DOMAIN r, j < k
        PROVE  r[j] < r[k]
    <3>1. j \in 1..n /\ r[j] = s[j] /\ s[j] \in Q
      BY <2>4, <2>5, <2>8
    <3>2. CASE k = n + 1
      <4>a. s[j] \in 1..(m - 1)
        BY <2>2, <3>1
      <4>1. s[j] < m
        BY <1>6, <2>1, <4>a
      <4>. QED
        BY <3>1, <3>2, <4>1, <2>4
    <3>3. CASE k # n + 1
      BY <2>4, <2>5, <2>8, <3>1, <3>3
    <3>. QED
      BY <3>2, <3>3
  <2>. HIDE DEF r
  <2>9. Sorted(P)
    BY <2>4, <2>6, <2>7, <2>8
  <2>. QED
    BY <1>5, <2>9
<1>. QED
  BY <1>7, <1>8, <1>9

\* So Ascending is one.
LEMMA AscendingIs ==
  ASSUME NEW b \in Nat, NEW S \in SUBSET (1..b)
  PROVE  /\ Cardinality(S) \in Nat
         /\ Ascending(S) \in [1..Cardinality(S) -> S]
         /\ ToSet(Ascending(S)) = S
         /\ \A j, k \in 1..Cardinality(S) :
              j < k => Ascending(S)[j] < Ascending(S)[k]
<1>i. b \in Int /\ 1 \in Int
  OBVIOUS
<1>j. IsFiniteSet(1..b)
  BY <1>i, FS_Interval
<1>0. IsFiniteSet(S)
  BY <1>j, FS_Subset
<1>1. Cardinality(S) \in Nat
  BY <1>0, FS_CardinalityType
<1>2. /\ Ascending(S) \in [1..Cardinality(S) -> S]
      /\ ToSet(Ascending(S)) = S
      /\ \A j, k \in DOMAIN Ascending(S) :
           j < k => Ascending(S)[j] < Ascending(S)[k]
  BY AscendingExists DEF Ascending
<1>. QED
  BY <1>1, <1>2

\* Taking a job out of the queue adds none.
LEMMA WithoutIs ==
  ASSUME NEW q \in Seq(Conns), NEW c
  PROVE  /\ Without(q, c) \in Seq(Conns)
         /\ \A k \in DOMAIN Without(q, c) :
              \E j \in DOMAIN q : Without(q, c)[k] = q[j]
<1>1. CASE c \notin ToSet(q)
  BY <1>1 DEF Without
<1>2. CASE c \in ToSet(q)
  <2>. DEFINE x == CHOOSE k \in DOMAIN q : q[k] = c
  <2>1. x \in DOMAIN q
    BY <1>2 DEF ToSet
  <2>. HIDE DEF x
  <2>2. Without(q, c) = RemoveAt(q, x)
    BY <1>2 DEF Without, x
  <2>3. RemoveAt(q, x) = SubSeq(q, 1, x - 1) \o SubSeq(q, x + 1, Len(q))
    BY DEF RemoveAt
  <2>4. x \in 1..Len(q) /\ Len(q) \in Nat
    BY <2>1
  <2>5. /\ SubSeq(q, 1, x - 1) \in Seq(Conns)
        /\ Len(SubSeq(q, 1, x - 1)) = x - 1
        /\ \A k \in 1..(x - 1) : SubSeq(q, 1, x - 1)[k] = q[k]
    BY <2>4
  <2>6. /\ SubSeq(q, x + 1, Len(q)) \in Seq(Conns)
        /\ Len(SubSeq(q, x + 1, Len(q))) = Len(q) - x
        /\ \A k \in 1..(Len(q) - x) :
             SubSeq(q, x + 1, Len(q))[k] = q[x + k]
    BY <2>4
  <2>. DEFINE l == SubSeq(q, 1, x - 1)
              r == SubSeq(q, x + 1, Len(q))
  <2>. HIDE DEF l, r
  <2>7. ASSUME NEW k \in DOMAIN (l \o r)
        PROVE  \E j \in DOMAIN q : (l \o r)[k] = q[j]
    <3>0. Len(l) = x - 1 /\ Len(r) = Len(q) - x
      BY <2>5, <2>6 DEF l, r
    <3>a. l \in Seq(Conns) /\ r \in Seq(Conns)
      BY <2>5, <2>6 DEF l, r
    <3>b. Len(l \o r) = Len(q) - 1 /\ l \o r \in Seq(Conns)
      BY <2>4, <3>0, <3>a
    <3>1. k \in 1..(Len(q) - 1)
      BY <2>7, <3>b
    <3>2. CASE k <= x - 1
      <4>1. (l \o r)[k] = q[k] /\ k \in DOMAIN q
        BY <2>4, <2>5, <2>6, <3>1, <3>2 DEF l, r
      <4>. QED
        BY <4>1
    <3>3. CASE k > x - 1
      <4>1. k - (x - 1) \in 1..(Len(q) - x) /\ x + (k - (x - 1)) = k + 1
        BY <2>4, <3>1, <3>3
      <4>2. (l \o r)[k] = r[k - (x - 1)]
        BY <2>4, <2>5, <2>6, <3>1, <3>3 DEF l, r
      <4>3. (l \o r)[k] = q[k + 1] /\ k + 1 \in DOMAIN q
        <5>1. r[k - (x - 1)] = q[x + (k - (x - 1))]
          BY <2>6, <4>1 DEF r
        <5>2. k + 1 \in 1..Len(q)
          BY <2>4, <3>1
        <5>. QED
          BY <4>1, <4>2, <5>1, <5>2
      <4>. QED
        BY <4>3
    <3>. QED
      BY <2>4, <3>1, <3>2, <3>3
  <2>8. l \o r \in Seq(Conns)
    BY <2>5, <2>6 DEF l, r
  <2>. QED
    BY <2>2, <2>3, <2>7, <2>8 DEF l, r
<1>. QED
  BY <1>1, <1>2

-----------------------------------------------------------------------------
(* The inductive invariant.                                                *)

\* What the steps need of the clients' table beside the property.
Tables ==
  /\ clients \in [Ids -> Conns \cup {None}]
  /\ IndexConsistent

Places == {"unborn", "sent", "counted", "ids", "scanned", "adding", "added",
           "done", "failed"}
Started == {"scanned", "adding", "added", "done", "failed"}
Early == {"unborn", "sent", "counted", "ids", "scanned"}

Requests == [last : Int, chunked : BOOLEAN, long : BOOLEAN,
             busId : Nat, start : Nat, read : Nat]
Webs == [last : Int, conn : Conns \cup {None}, polls : 0..MaxPolls]
Jobs == [job : {"idle", "notify", "close", "remove"},
         conn : Conns \cup {None}, left : SUBSET Ids]

Types ==
  /\ log \in Seq(SUBSET Ids)
  /\ trimmed \in Nat /\ trimmed <= Len(log)
  /\ notified \in Nat /\ notified <= Len(log)
  /\ worker \in Jobs
  /\ timers \in Seq(Conns)
  /\ clients \in [Ids -> Conns \cup {None}]
  /\ subs \subseteq Ids
  /\ at \in [Conns -> Places]
  /\ req \in [Conns -> Requests]
  /\ resp \in [Conns -> Seq(Item)]
  /\ open \subseteq Conns
  /\ out \in [Ids -> Seq(Item)]
  /\ web \in [Ids -> Webs]
  /\ got \in [Ids -> SUBSET Nat]
  /\ base \in [Ids -> Int \cup {None}]
  /\ missed \subseteq Ids \X Nat
  /\ gone \subseteq Ids \X Nat

\* The job of the timer thread.
Busy ==
  /\ worker.job = "notify" => notified < Len(log)
  /\ worker.job \in {"close", "remove"} =>
       worker.conn \in Conns /\ at[worker.conn] = "done"
  /\ \A k \in DOMAIN timers : at[timers[k]] = "done"

\* How far the timer thread has come: with the messages, and with client i.
Dispatched == IF worker.job = "notify" THEN notified + 1 ELSE notified
Told(i) == IF worker.job = "notify" /\ i \notin worker.left THEN notified + 1
                                                           ELSE notified

\* The messages client i may receive, and was not too late to ask for.
Mine(i, n) == n \in DOMAIN log /\ i \in log[n] /\ <<i, n>> \notin gone
Message(n) == [kind |-> "message", id |-> n]
Among(items, n, last) == \E k \in 1..last : items[k] = Message(n)
Accounted(i, n) == n \in got[i] \/ <<i, n>> \in missed

\* Where the ids of a request lie.
Bounds(c) ==
  /\ at[c] \in Started \cup {"ids"} => req[c].busId <= Len(log)
  /\ at[c] \in Started => /\ req[c].start <= req[c].busId
                          /\ req[c].busId <= req[c].read
                          /\ req[c].read <= Len(log)
  /\ at[c] = "adding" => c \in open /\ req[c].long

\* What a backlog holds: no item passes over a message that was retained, and it
\* goes up to what was read.
Backlog(c) ==
  at[c] = "scanned" =>
    /\ \A k \in DOMAIN resp[c] : resp[c][k].id <= Len(log)
    /\ \A k \in DOMAIN resp[c] : \A n \in Nat :
         Mine(c[1], n) /\ req[c].start < n /\ n <= resp[c][k].id
           => Among(resp[c], n, k)
    /\ \A n \in Nat :
         Mine(c[1], n) /\ req[c].start < n /\ n <= req[c].read
           => Among(resp[c], n, Len(resp[c]))

\* What is dispatched while a long poll is in its window is missed.
Window(c) ==
  req[c].long =>
    /\ at[c] = "ids" /\ ~WantsBacklog(req[c].last, req[c].busId) =>
         \A n \in Nat : req[c].busId < n /\ n <= Dispatched
                          => <<c[1], n>> \in missed
    /\ at[c] \in {"scanned", "adding"} =>
         \A n \in Nat : req[c].read < n /\ n <= Dispatched
                          => <<c[1], n>> \in missed

Conn(i) == web[i].conn

\* The page waits for its latest poll, and has been written nothing before the
\* response.
Waiting(i) ==
  /\ \A c \in Conns : c[1] = i /\ c[2] > web[i].polls => at[c] = "unborn"
  /\ Conn(i) = None => out[i] = <<>>
  /\ Conn(i) # None => /\ Conn(i) = <<i, web[i].polls>>
                       /\ at[Conn(i)] # "unborn"
  /\ Conn(i) # None /\ at[Conn(i)] \in Early =>
       out[i] = <<>> /\ req[Conn(i)].last = web[i].last
  /\ \A k \in DOMAIN out[i] : out[i][k].id <= Len(log)

\* A registered connection has its socket open, but for a moment.
Held(i) ==
  clients[i] # None =>
    /\ at[clients[i]] \in {"added", "done"}
    /\ clients[i] \notin open => /\ worker.job = "remove"
                                 /\ worker.conn = clients[i]

\* Every message the page may receive after its start, up to m, has been handed
\* over or written, or was missed.
HandedTo(i, m) ==
  \A n \in Nat : Mine(i, n) /\ req[Conn(i)].start < n /\ n <= m =>
    Accounted(i, n) \/ Among(out[i], n, Len(out[i]))

\* No item on its way to the page passes over a message.
Flow(i) ==
  Conn(i) # None =>
    \A k \in DOMAIN out[i] : \A n \in Nat :
      Mine(i, n) /\ req[Conn(i)].start < n /\ n <= out[i][k].id =>
        Accounted(i, n) \/ Among(out[i], n, k)

\* A poll about to be registered has been written its backlog, and a registered
\* one all that was dispatched.
Informed(i) ==
  Conn(i) # None =>
    /\ at[Conn(i)] = "adding" => HandedTo(i, req[Conn(i)].read)
    /\ clients[i] = Conn(i) => HandedTo(i, Told(i))

Through(i, m) ==
  \A n \in Nat : Mine(i, n) /\ base[i] < n /\ n <= m => Accounted(i, n)

\* What lies behind the page's last id, and before the poll's start.
Behind(i) ==
  base[i] # None =>
    /\ 0 <= web[i].last /\ web[i].last <= Len(log)
    /\ Through(i, web[i].last)
    /\ Conn(i) # None /\ at[Conn(i)] = "ids" =>
         web[i].last <= req[Conn(i)].busId
    /\ Conn(i) # None /\ at[Conn(i)] \in Started =>
         Through(i, req[Conn(i)].start)

OfRequests == \A c \in Conns : Bounds(c) /\ Backlog(c) /\ Window(c)
OfPages ==
  \A i \in Ids :
    Waiting(i) /\ Held(i) /\ Flow(i) /\ Informed(i) /\ Behind(i)

PollInv == Types /\ Tables /\ Busy /\ OfRequests /\ OfPages

-----------------------------------------------------------------------------
(* What is among items.                                                    *)

LEMMA AmongMore ==
  ASSUME NEW s, NEW n, NEW j \in Int, NEW k \in Int, j <= k, Among(s, n, j)
  PROVE  Among(s, n, k)
BY DEF Among

LEMMA AmongLonger ==
  ASSUME NEW s \in Seq(Item), NEW t \in Seq(Item), NEW n,
         NEW k \in Int, k <= Len(s), Among(s, n, k)
  PROVE  Among(s \o t, n, k)
<1>1. PICK m \in 1..k : s[m] = Message(n)
  BY DEF Among
<1>2. (s \o t)[m] = s[m]
  BY <1>1
<1>. QED
  BY <1>1, <1>2 DEF Among

LEMMA AmongAfter ==
  ASSUME NEW s \in Seq(Item), NEW t \in Seq(Item), NEW n,
         NEW k \in Int, k <= Len(t), Among(t, n, k)
  PROVE  Among(s \o t, n, Len(s) + k)
<1>1. PICK m \in 1..k : t[m] = Message(n)
  BY DEF Among
<1>2. Len(s) + m \in 1..(Len(s) + k) /\ (s \o t)[Len(s) + m] = t[m]
  BY <1>1
<1>. QED
  BY <1>1, <1>2 DEF Among

\* Taking the first item leaves the others where they are, one place on.
LEMMA AmongRest ==
  ASSUME NEW s \in Seq(Item), s # <<>>, NEW n, NEW k \in Nat,
         Among(s, n, k + 1), Head(s) # Message(n), k + 1 <= Len(s)
  PROVE  Among(Tail(s), n, k)
<1>1. PICK m \in 1..(k + 1) : s[m] = Message(n)
  BY DEF Among
<1>2. m # 1
  BY <1>1
<1>3. m - 1 \in 1..k /\ Tail(s)[m - 1] = s[m]
  BY <1>1, <1>2
<1>. QED
  BY <1>1, <1>3 DEF Among

\* The messages of a set of ids, and perhaps a status: each is there, and no
\* message passes over another.
LEMMA Composed ==
  ASSUME NEW b \in Nat, NEW S \in SUBSET (1..b), NEW d \in Nat,
         NEW last \in {<<>>, <<[kind |-> "status", id |-> d]>>},
         NEW r, r = AsItems(Ascending(S)) \o last
  PROVE  /\ r \in Seq(Item)
         /\ \A n \in S : Among(r, n, Len(r))
         /\ \A k \in DOMAIN r :
              \/ last # <<>> /\ k = Len(r) /\ r[k].id = d
              \/ /\ r[k].id \in S
                 /\ \A n \in S : n <= r[k].id => Among(r, n, k)
<1>. DEFINE s == Ascending(S)
            m == Cardinality(S)
            x == AsItems(s)
<1>1. /\ m \in Nat
      /\ s \in [1..m -> S]
      /\ ToSet(s) = S
      /\ \A j, k \in 1..m : j < k => s[j] < s[k]
  BY AscendingIs
<1>. HIDE DEF s, m
<1>a. \A n \in S : n \in Nat /\ Message(n) \in Item
  BY DEF Item, Message
<1>b. x = [k \in 1..m |-> Message(s[k])]
  BY <1>1 DEF AsItems, Message
<1>2. x \in [1..m -> Item] /\ \A k \in 1..m : x[k] = Message(s[k])
  <2>. HIDE DEF x
  <2>. QED
    BY <1>1, <1>a, <1>b
<1>3. x \in Seq(Item) /\ Len(x) = m
  BY <1>1, <1>2
<1>4. last \in Seq(Item) /\ Len(last) \in {0, 1}
  <2>1. CASE last = <<>>
    BY <2>1
  <2>2. CASE last = <<[kind |-> "status", id |-> d]>>
    <3>1. [kind |-> "status", id |-> d] \in Item
      BY DEF Item
    <3>. QED
      BY <2>2, <3>1
  <2>. QED
    BY <2>1, <2>2
<1>5. r = x \o last
  BY DEF s
<1>. HIDE DEF x
<1>6. r \in Seq(Item) /\ Len(r) = m + Len(last) /\ DOMAIN r = 1..Len(r)
  <2>1. r \in Seq(Item) /\ Len(r) = Len(x) + Len(last)
    BY <1>3, <1>4, <1>5, ConcatProperties
  <2>. QED
    BY <1>3, <2>1
<1>7. \A k \in 1..m : r[k] = Message(s[k])
  BY <1>1, <1>2, <1>3, <1>4, <1>5
<1>8. ASSUME NEW n \in S
      PROVE  \E j \in 1..m : s[j] = n
  BY <1>1 DEF ToSet
<1>9. \A n \in S : Among(r, n, Len(r))
  <2>1. TAKE n \in S
  <2>2. PICK j \in 1..m : s[j] = n
    BY <1>8
  <2>3. j \in 1..Len(r)
    BY <1>1, <1>4, <1>6
  <2>. QED
    BY <1>7, <2>2, <2>3 DEF Among
<1>10. ASSUME NEW k \in 1..m
       PROVE  /\ r[k].id \in S
              /\ \A n \in S : n <= r[k].id => Among(r, n, k)
  <2>0. s[k] \in S /\ r[k] = Message(s[k])
    BY <1>1, <1>7
  <2>1. r[k].id = s[k] /\ s[k] \in S
    BY <2>0 DEF Message
  <2>2. ASSUME NEW n \in S, n <= s[k] PROVE Among(r, n, k)
    <3>1. PICK j \in 1..m : s[j] = n
      BY <1>8
    <3>2. ~(k < j)
      <4>1. k < j => s[k] < s[j]
        BY <1>1
      <4>2. s[k] \in Nat /\ n \in Nat
        BY <2>1, <1>a
      <4>. QED
        BY <2>2, <3>1, <4>1, <4>2
    <3>3. j \in 1..k
      BY <1>1, <3>2
    <3>. QED
      BY <1>7, <3>1, <3>3 DEF Among
  <2>. QED
    BY <2>1, <2>2
<1>11. ASSUME NEW k \in DOMAIN r, k \notin 1..m
       PROVE  last # <<>> /\ k = Len(r) /\ r[k].id = d
  <2>1. Len(last) = 1 /\ k = m + 1 /\ k = Len(r)
    BY <1>1, <1>4, <1>6, <1>11
  <2>2. last = <<[kind |-> "status", id |-> d]>>
    BY <2>1
  <2>3. r[m + 1] = last[1]
    BY <1>1, <1>3, <1>4, <1>5, <2>1
  <2>. QED
    BY <2>1, <2>2, <2>3
<1>. QED
  BY <1>6, <1>9, <1>10, <1>11

\* Where a backlog starts.
LEMMA StartIs ==
  ASSUME NEW v \in Int, NEW busId \in Nat, v # -1, v <= busId
  PROVE  Start(v, busId) \in Nat /\ Start(v, busId) <= busId
BY DEF Start

-----------------------------------------------------------------------------
(* The tables of clients.                                                  *)

\* Registering a connection writes both tables.
LEMMA Added ==
  ASSUME Tables, NEW c \in Conns,
         clients' = [clients EXCEPT ![c[1]] = c],
         subs' = subs \cup {c[1]}
  PROVE  Tables'
<1>1. c[1] \in Ids
  BY DEF Conns
<1>2. c # None
  BY NoneAssumption
<1>3. clients' \in [Ids -> Conns \cup {None}]
  BY <1>1 DEF Tables
<1>4. Registered' = Registered \cup {c[1]}
  BY <1>1, <1>2 DEF Tables, Registered
<1>5. \A i \in Registered' : clients'[i][1] = i
  BY <1>1, <1>4 DEF Tables, IndexConsistent, Registered
<1>. QED
  BY <1>3, <1>4, <1>5 DEF Tables, IndexConsistent

\* So does removing one, whatever its id: an old connection's removal takes
\* away the registration of the one that replaced it, in both.
LEMMA Removed ==
  ASSUME Tables, NEW d, RemoveClient(d)
  PROVE  Tables'
<1>1. clients' = [clients EXCEPT ![d[1]] = None]
  BY DEF RemoveClient
<1>2. subs' = subs \ {d[1]}
  BY DEF RemoveClient
<1>3. clients' \in [Ids -> Conns \cup {None}]
  BY <1>1 DEF Tables
<1>4. Registered' = Registered \ {d[1]}
  BY <1>1 DEF Tables, Registered
<1>5. \A i \in Registered' : clients'[i][1] = i
  BY <1>1, <1>4 DEF Tables, IndexConsistent, Registered
<1>. QED
  BY <1>2, <1>3, <1>4, <1>5 DEF Tables, IndexConsistent

\* Most steps write neither.
LEMMA Untouched ==
  ASSUME Tables, UNCHANGED <<clients, subs>>
  PROVE  Tables'
BY DEF Tables, IndexConsistent, Registered

LEMMA TablesInit == Init => Tables
BY DEF Init, Tables, IndexConsistent, Registered

LEMMA TablesStep == Tables /\ [Next]_vars => Tables'
<1>. SUFFICES ASSUME Tables, [Next]_vars PROVE Tables'
  OBVIOUS
<1>1. ASSUME NEW c \in Conns, Request(c) \/ HijackFails(c)
      PROVE  Tables'
  <2>1. CASE AddClient(c)
    <3>1. CASE Superseded(c)
      BY <2>1, <3>1, Untouched DEF AddClient
    <3>2. CASE ~Superseded(c)
      BY <2>1, <3>2, Added DEF AddClient
    <3>. QED
      BY <3>1, <3>2
  <2>2. CASE ~AddClient(c)
    BY <1>1, <2>2, Untouched DEF Request, CountClients, ReadLastIds,
       ReadBacklog, RespondNow, Hijack, SetTimer, HijackFails, server
  <2>. QED
    BY <2>1, <2>2
<1>2. ASSUME NEW i \in Ids, Page(i) \/ Abort(i)
      PROVE  Tables'
  BY <1>2, Untouched DEF Page, Poll, Receive, Complete, Abort, server
<1>3. ASSUME NEW audience \in SUBSET Ids, Publish(audience) \/ Trim
      PROVE  Tables'
  BY <1>3, Untouched DEF Publish, Trim
<1>4. CASE Work
  <2>1. ASSUME NEW i \in Ids, NotifyClient(i)
        PROVE  Tables'
    <3>1. UNCHANGED <<clients, subs, timers>> \/ RemoveClient(clients[i])
      BY <2>1 DEF NotifyClient
    <3>. QED
      BY <3>1, Removed, Untouched
  <2>2. CASE CleanUpRemove
    BY <2>2, Removed DEF CleanUpRemove
  <2>3. CASE NotifyBegin \/ NotifyEnd \/ TimerFires \/ CleanUpClose
    BY <2>3, Untouched DEF NotifyBegin, NotifyEnd, TimerFires, CleanUpClose
  <2>. QED
    BY <1>4, <2>1, <2>2, <2>3 DEF Work
<1>5. CASE Finished \/ UNCHANGED vars
  BY <1>5, Untouched DEF Finished, vars
<1>. QED
  BY <1>1, <1>2, <1>3, <1>4, <1>5 DEF Next

-----------------------------------------------------------------------------
(* What a step leaves alone.                                               *)

LEMMA PollInit == Init => PollInv
<1>. SUFFICES ASSUME Init PROVE PollInv
  OBVIOUS
<1>1. Types
  <2>1. \A l \in InitialLast :
          [last |-> l, conn |-> None, polls |-> 0] \in Webs
    BY PollAssumption DEF Webs
  <2>2. web \in [Ids -> Webs]
    BY <2>1 DEF Init
  <2>3. worker \in Jobs
    BY DEF Init, Idle, Jobs
  <2>4. req \in [Conns -> Requests]
    BY DEF Init, Requests
  <2>5. at \in [Conns -> Places]
    BY DEF Init, Places
  <2>6. log \in Seq(SUBSET Ids) /\ Len(log) = 0 /\ timers \in Seq(Conns)
    BY DEF Init
  <2>7. resp \in [Conns -> Seq(Item)] /\ out \in [Ids -> Seq(Item)]
    BY DEF Init
  <2>. QED
    BY <2>2, <2>3, <2>4, <2>5, <2>6, <2>7 DEF Init, Types
<1>2. Busy
  BY DEF Init, Busy, Idle
<1>3. OfRequests
  BY DEF Init, OfRequests, Bounds, Backlog, Window, Started
<1>4. ASSUME NEW i \in Ids
      PROVE  Waiting(i) /\ Held(i) /\ Flow(i) /\ Informed(i) /\ Behind(i)
  <2>1. Conn(i) = None /\ out[i] = <<>> /\ clients[i] = None /\ base[i] = None
    BY DEF Init, Conn
  <2>2. \A c \in Conns : at[c] = "unborn"
    BY DEF Init
  <2>. QED
    BY <2>1, <2>2 DEF Waiting, Held, Flow, Informed, Behind
<1>. QED
  BY <1>1, <1>2, <1>3, <1>4, TablesInit DEF PollInv, OfPages

\* A request nothing happens to.
LEMMA RequestKept ==
  ASSUME NEW c \in Conns, Bounds(c), Backlog(c), Window(c),
         log' = log, Dispatched' = Dispatched, missed' = missed,
         gone \subseteq gone',
         at'[c] = at[c], req'[c] = req[c], resp'[c] = resp[c],
         at[c] = "adding" /\ c \in open => c \in open'
  PROVE  Bounds(c)' /\ Backlog(c)' /\ Window(c)'
<1>1. Bounds(c)'
  BY DEF Bounds
<1>2. Backlog(c)'
  <2>1. \A n : Mine(c[1], n)' => Mine(c[1], n)
    BY DEF Mine
  <2>2. \A n, k : Among(resp[c], n, k)' <=> Among(resp[c], n, k)
    BY DEF Among
  <2>. QED
    BY <2>1, <2>2 DEF Backlog
<1>3. Window(c)'
  BY DEF Window
<1>. QED
  BY <1>1, <1>2, <1>3

\* A page nothing happens to.
PageSame(i) ==
  /\ log' = log /\ missed' = missed /\ gone \subseteq gone'
  /\ web'[i] = web[i] /\ out'[i] = out[i]
  /\ got'[i] = got[i] /\ base'[i] = base[i]
  /\ Conn(i) # None => /\ at'[Conn(i)] = at[Conn(i)]
                       /\ req'[Conn(i)] = req[Conn(i)]
  /\ \A c \in Conns : c[1] = i /\ at[c] = "unborn" => at'[c] = "unborn"

LEMMA PageKept ==
  ASSUME NEW i \in Ids, PageSame(i), Waiting(i), Flow(i), Behind(i)
  PROVE  Waiting(i)' /\ Flow(i)' /\ Behind(i)'
<1>1. Conn(i)' = Conn(i)
  BY DEF PageSame, Conn
<1>2. Waiting(i)'
  BY <1>1 DEF PageSame, Waiting
<1>3. \A n : Accounted(i, n)' <=> Accounted(i, n)
  BY DEF PageSame, Accounted
<1>4. \A n : Mine(i, n)' => Mine(i, n)
  BY DEF PageSame, Mine
<1>5. Flow(i)'
  BY <1>1, <1>3, <1>4 DEF PageSame, Flow, Among
<1>6. Behind(i)'
  BY <1>1, <1>3, <1>4 DEF PageSame, Behind, Through
<1>. QED
  BY <1>2, <1>5, <1>6

LEMMA InformedKept ==
  ASSUME NEW i \in Ids, PageSame(i), Informed(i), Told(i)' = Told(i),
         Conn(i) # None /\ clients'[i] = Conn(i) => clients[i] = Conn(i)
  PROVE  Informed(i)'
<1>1. Conn(i)' = Conn(i)
  BY DEF PageSame, Conn
<1>2. \A n : Accounted(i, n)' <=> Accounted(i, n)
  BY DEF PageSame, Accounted
<1>3. \A n : Mine(i, n)' => Mine(i, n)
  BY DEF PageSame, Mine
<1>. QED
  BY <1>1, <1>2, <1>3 DEF PageSame, Informed, HandedTo, Among

\* A step of the thread of request c, and of nobody else.
Alone(c) ==
  /\ UNCHANGED <<log, notified, worker, missed, web, got, base>>
  /\ gone \subseteq gone'
  /\ at[c] # "unborn"
  /\ \A d \in Conns : d # c =>
       at'[d] = at[d] /\ req'[d] = req[d] /\ resp'[d] = resp[d]
  /\ \A d \in Conns : d # c /\ at[d] = "adding" /\ d \in open => d \in open'
  /\ \A i \in Ids : i # c[1] => out'[i] = out[i]
  /\ ~Reading(c) => out'[c[1]] = out[c[1]]
  /\ \A i \in Ids : clients'[i] # clients[i] => i = c[1] /\ clients'[i] = c

\* It is enough to look at that request and its page.
LEMMA AloneKept ==
  ASSUME PollInv, NEW c \in Conns, Alone(c), Types', Tables', Busy',
         Bounds(c)', Backlog(c)', Window(c)', \A i \in Ids : Held(i)',
         Reading(c) => /\ Waiting(c[1])' /\ Flow(c[1])'
                       /\ Informed(c[1])' /\ Behind(c[1])'
  PROVE  PollInv'
<1>1. ASSUME NEW d \in Conns
      PROVE  Bounds(d)' /\ Backlog(d)' /\ Window(d)'
  <2>1. CASE d # c
    <3>1. Bounds(d) /\ Backlog(d) /\ Window(d)
      BY DEF PollInv, OfRequests
    <3>2. Dispatched' = Dispatched
      BY DEF Alone, Dispatched
    <3>. QED
      BY <2>1, <3>1, <3>2, RequestKept DEF Alone
  <2>. QED
    BY <2>1
<1>2. ASSUME NEW i \in Ids
      PROVE  Waiting(i)' /\ Flow(i)' /\ Informed(i)' /\ Behind(i)'
  <2>1. CASE Conn(i) = c
    <3>1. i = c[1]
      BY <2>1, NoneAssumption DEF PollInv, OfPages, Waiting, Conns
    <3>. QED
      BY <2>1, <3>1 DEF Reading, Conn
  <2>2. CASE Conn(i) # c
    <3>1. Waiting(i) /\ Flow(i) /\ Informed(i) /\ Behind(i)
      BY DEF PollInv, OfPages
    <3>2. Conn(i) = None \/ Conn(i) \in Conns
      BY DEF PollInv, Types, Webs, Conn
    <3>3. out'[i] = out[i]
      BY <2>2 DEF Alone, Reading, Conn
    <3>4. PageSame(i)
      BY <2>2, <3>2, <3>3 DEF Alone, PageSame
    <3>5. Told(i)' = Told(i)
      BY DEF Alone, Told
    <3>6. Conn(i) # None /\ clients'[i] = Conn(i) => clients[i] = Conn(i)
      BY <2>2 DEF Alone
    <3>. QED
      BY <3>1, <3>4, <3>5, <3>6, PageKept, InformedKept
  <2>. QED
    BY <2>1, <2>2
<1>. QED
  BY <1>1, <1>2 DEF PollInv, OfRequests, OfPages

LEMMA HeldKept ==
  ASSUME NEW i \in Ids, Held(i), worker' = worker, clients'[i] = clients[i],
         clients[i] # None =>
           /\ at'[clients[i]] = at[clients[i]]
           /\ clients[i] \in open => clients[i] \in open'
  PROVE  Held(i)'
BY DEF Held

\* The queue and the job of the timer thread hold connections that are done.
LEMMA BusyKept ==
  ASSUME Types, Busy, UNCHANGED <<log, notified, worker, timers>>,
         \A c \in Conns : at[c] = "done" => at'[c] = "done"
  PROVE  Busy'
BY DEF Types, Busy

-----------------------------------------------------------------------------
(* The reads of a request, before anything is written.                     *)

LEMMA EarlyStep ==
  ASSUME PollInv, NEW c \in Conns, Alone(c), Types',
         at[c] \in Early, at'[c] \in Early \ {"unborn"},
         UNCHANGED <<timers, clients, subs, open, out>>,
         req'[c].last = req[c].last,
         Bounds(c)', Backlog(c)', Window(c)',
         Reading(c) /\ base[c[1]] # None =>
           /\ at'[c] = "ids" => web[c[1]].last <= req'[c].busId
           /\ at'[c] = "scanned" => Through(c[1], req'[c].start)
  PROVE  PollInv'
<1>1. Tables'
  BY Untouched DEF PollInv
<1>2. c \notin {d \in Conns : at[d] = "done"}
  BY DEF Early
<1>3. Busy'
  BY <1>2, BusyKept DEF PollInv, Alone
<1>4. ASSUME NEW i \in Ids PROVE Held(i)'
  <2>1. Held(i)
    BY DEF PollInv, OfPages
  <2>2. clients[i] # None => clients[i] \in Conns /\ clients[i] # c
    BY <2>1 DEF Held, Early, PollInv, Types
  <2>. QED
    BY <2>1, <2>2, HeldKept DEF Alone
<1>5. ASSUME Reading(c)
      PROVE  /\ Waiting(c[1])' /\ Flow(c[1])'
             /\ Informed(c[1])' /\ Behind(c[1])'
  <2>. DEFINE i == c[1]
  <2>1. i \in Ids /\ c # None
    BY NoneAssumption DEF Conns
  <2>2. web[i].conn = c /\ web' = web /\ Conn(i) = c /\ Conn(i)' = c
    BY <1>5 DEF Reading, Alone, Conn
  <2>3. Waiting(i) /\ Held(i) /\ Behind(i)
    BY <2>1 DEF PollInv, OfPages
  <2>4. out[i] = <<>> /\ out'[i] = <<>> /\ req'[c].last = web'[i].last
    BY <2>1, <2>2, <2>3 DEF Waiting
  <2>5. Waiting(i)'
    <3>1. \A d \in Conns : d[1] = i /\ d[2] > web'[i].polls
                             => at'[d] = "unborn"
      <4>1. \A d \in Conns : at[d] = "unborn" => at'[d] = "unborn"
        BY DEF Alone
      <4>. QED
        BY <2>2, <2>3, <4>1 DEF Waiting
    <3>2. c = <<i, web'[i].polls>>
      BY <2>1, <2>2, <2>3 DEF Waiting
    <3>. QED
      BY <2>1, <2>2, <2>4, <3>1, <3>2 DEF Waiting
  <2>6. Flow(i)'
    BY <2>4 DEF Flow
  <2>7. clients'[i] # c
    BY <2>1, <2>3 DEF Held, Early
  <2>8. Informed(i)'
    BY <2>2, <2>7 DEF Informed, Early
  <2>9. Behind(i)'
    <3>a. \A n : /\ Mine(i, n)' => Mine(i, n)
                 /\ Accounted(i, n)' <=> Accounted(i, n)
      BY DEF Alone, Accounted, Mine
    <3>1. ASSUME base'[i] # None
          PROVE  /\ 0 <= web'[i].last /\ web'[i].last <= Len(log')
                 /\ Through(i, web[i].last)'
      BY <2>2, <2>3, <3>a, <3>1 DEF Behind, Alone, Through
    <3>2. ASSUME base'[i] # None, at'[c] = "scanned"
          PROVE  Through(i, req[c].start)'
      BY <1>5, <3>a, <3>2 DEF Alone, Through
    <3>3. base'[i] # None /\ at'[c] = "ids" => web'[i].last <= req'[c].busId
      BY <1>5 DEF Alone
    <3>4. at'[c] \in Started => at'[c] = "scanned"
      BY DEF Started, Early
    <3>. QED
      BY <2>2, <3>1, <3>2, <3>3, <3>4 DEF Behind
  <2>. QED
    BY <2>5, <2>6, <2>8, <2>9
<1>. QED
  BY <1>1, <1>3, <1>4, <1>5, AloneKept

LEMMA CountClientsStep ==
  ASSUME PollInv, NEW c \in Conns, CountClients(c)
  PROVE  PollInv'
<1>0. Types
  BY DEF PollInv
<1>1. /\ at[c] = "sent"
      /\ at' = [at EXCEPT ![c] = "counted"]
      /\ UNCHANGED <<log, trimmed, notified, worker, timers, clients, subs,
                     open, resp, out, web, got, base, missed, gone>>
  BY DEF CountClients, ReqGoto, server, store, pages, history
<1>2. PICK l \in BOOLEAN : req' = [req EXCEPT ![c].long = l]
  BY <1>0 DEF CountClients, Types, Requests
<1>3. req' \in [Conns -> Requests] /\ req'[c].last = req[c].last
      /\ \A d \in Conns : d # c => req'[d] = req[d]
  BY <1>0, <1>2 DEF Types, Requests
<1>4. at' \in [Conns -> Places] /\ at'[c] = "counted"
      /\ \A d \in Conns : d # c => at'[d] = at[d]
  BY <1>0, <1>1 DEF Types, Places
<1>5. Types'
  BY <1>0, <1>1, <1>3, <1>4 DEF Types
<1>6. Alone(c)
  BY <1>1, <1>3, <1>4 DEF Alone
<1>7. Bounds(c)' /\ Backlog(c)' /\ Window(c)'
  BY <1>4 DEF Bounds, Backlog, Window, Started
<1>. QED
  BY <1>1, <1>3, <1>4, <1>5, <1>6, <1>7, EarlyStep DEF Early

LEMMA ReadLastIdsStep ==
  ASSUME PollInv, NEW c \in Conns, ReadLastIds(c)
  PROVE  PollInv'
<1>0. Types
  BY DEF PollInv
<1>1. /\ at[c] = "counted"
      /\ at' = [at EXCEPT ![c] = "ids"]
      /\ req' = [req EXCEPT ![c].busId = Len(log)]
      /\ UNCHANGED <<log, trimmed, notified, worker, timers, clients, subs,
                     open, resp, out, web, got, base, missed, gone>>
  BY DEF ReadLastIds, ReqGoto, server, store, pages, history
<1>2. Len(log) \in Nat /\ notified \in Nat /\ notified <= Len(log)
  BY <1>0 DEF Types
<1>3. req' \in [Conns -> Requests] /\ req'[c].last = req[c].last
      /\ req'[c].busId = Len(log)
      /\ \A d \in Conns : d # c => req'[d] = req[d]
  BY <1>0, <1>1, <1>2 DEF Types, Requests
<1>4. at' \in [Conns -> Places] /\ at'[c] = "ids"
      /\ \A d \in Conns : d # c => at'[d] = at[d]
  BY <1>0, <1>1 DEF Types, Places
<1>5. Types'
  BY <1>0, <1>1, <1>3, <1>4 DEF Types
<1>6. Alone(c)
  BY <1>1, <1>3, <1>4 DEF Alone
<1>7. Dispatched' \in Nat /\ Dispatched' <= Len(log)
  BY <1>1, <1>2 DEF PollInv, Busy, Dispatched
<1>8. Bounds(c)'
  BY <1>1, <1>2, <1>3, <1>4 DEF Bounds, Started
<1>9. Window(c)'
  BY <1>1, <1>2, <1>3, <1>4, <1>7 DEF Window
<1>10. Backlog(c)'
  BY <1>4 DEF Backlog
<1>11. ASSUME base[c[1]] # None
       PROVE  web[c[1]].last <= req'[c].busId
  <2>1. c[1] \in Ids
    BY DEF Conns
  <2>. QED
    BY <1>3, <1>11, <2>1 DEF PollInv, OfPages, Behind
<1>. QED
  BY <1>1, <1>3, <1>4, <1>5, <1>6, <1>8, <1>9, <1>10, <1>11, EarlyStep DEF Early

\* The backlog is read.  Nothing up to its furthest item is left out but what is
\* no longer retained, because the ids of the bus were read first.
LEMMA ReadBacklogStep ==
  ASSUME PollInv, NEW c \in Conns, ReadBacklog(c)
  PROVE  PollInv'
<1>. DEFINE v == req[c].last
            busId == req[c].busId
            asked == IF WantsBacklog(v, busId) THEN After(Start(v, busId))
                                               ELSE {}
            ids == asked \ (1..trimmed)
            mine == {n \in ids : c[1] \in log[n]}
            status == v = -1 \/ v > busId \/ mine # ids
            last == IF status THEN <<[kind |-> "status", id |-> busId]>>
                              ELSE <<>>
            s == IF v = -1 \/ v > busId THEN busId ELSE Start(v, busId)
            m == IF WantsBacklog(v, busId) THEN Len(log) ELSE busId
            r == AsItems(Ascending(mine)) \o last
<1>0. Types
  BY DEF PollInv
<1>1. /\ at[c] = "ids"
      /\ at' = [at EXCEPT ![c] = "scanned"]
      /\ req' = [req EXCEPT ![c].read = m, ![c].start = s]
      /\ resp' = [resp EXCEPT ![c] = r]
      /\ gone' = gone \cup ({c[1]} \X (asked \cap 1..trimmed))
      /\ UNCHANGED <<log, trimmed, notified, worker, timers, clients, subs,
                     open, out, web, got, base, missed>>
  BY DEF ReadBacklog, ReqGoto, server, store, pages, history
<1>2. Len(log) \in Nat /\ DOMAIN log = 1..Len(log)
      /\ notified \in Nat /\ notified <= Len(log)
  BY <1>0 DEF Types
<1>3. v \in Int /\ busId \in Nat /\ busId <= Len(log)
  BY <1>0, <1>1 DEF Types, Requests, PollInv, OfRequests, Bounds
<1>. HIDE DEF v, busId
<1>4. s \in Nat /\ s <= busId
  <2>1. CASE v = -1 \/ v > busId
    BY <1>3, <2>1
  <2>2. CASE ~(v = -1 \/ v > busId)
    <3>1. v # -1 /\ v <= busId
      BY <1>3, <2>2
    <3>2. Start(v, busId) \in Nat /\ Start(v, busId) <= busId
      BY <1>3, <3>1, StartIs
    <3>. QED
      BY <2>2, <3>2
  <2>. QED
    BY <2>1, <2>2
<1>5. ASSUME WantsBacklog(v, busId),
             NEW n \in DOMAIN log, n > s, c[1] \in log[n]
      PROVE  n \in mine \/ <<c[1], n>> \in gone'
  <2>1. s = Start(v, busId)
    BY <1>3, <1>5 DEF WantsBacklog
  <2>2. n \in asked
    BY <1>5, <2>1 DEF After
  <2>. HIDE DEF asked, s
  <2>. QED
    BY <1>1, <1>5, <2>2
<1>a. gone \subseteq gone' /\ gone' \subseteq Ids \X Nat
  <2>1. asked \subseteq Nat /\ c[1] \in Ids
    BY <1>2 DEF After, Conns
  <2>. HIDE DEF asked
  <2>. QED
    BY <1>0, <1>1, <2>1 DEF Types
<1>6. ~WantsBacklog(v, busId) => mine = {} /\ s = busId /\ m = busId
  <2>. SUFFICES ASSUME ~WantsBacklog(v, busId)
                PROVE  s = busId
    OBVIOUS
  <2>. QED
    BY <1>3 DEF WantsBacklog, Start
<1>7. m \in Nat /\ busId <= m /\ m <= Len(log)
  BY <1>2, <1>3
<1>8. mine \in SUBSET (1..Len(log))
  BY <1>2 DEF After
<1>9. last \in {<<>>, <<[kind |-> "status", id |-> busId]>>}
  OBVIOUS
<1>. HIDE DEF mine, last, s, m, ids, asked
<1>10. /\ r \in Seq(Item)
       /\ \A n \in mine : Among(r, n, Len(r))
       /\ \A k \in DOMAIN r :
            \/ k = Len(r) /\ r[k].id = busId
            \/ /\ r[k].id \in mine
               /\ \A n \in mine : n <= r[k].id => Among(r, n, k)
  <2>. DEFINE q == r
  <2>1. q = AsItems(Ascending(mine)) \o last
    OBVIOUS
  <2>. HIDE DEF q
  <2>2. /\ q \in Seq(Item)
        /\ \A n \in mine : Among(q, n, Len(q))
        /\ \A k \in DOMAIN q :
             \/ last # <<>> /\ k = Len(q) /\ q[k].id = busId
             \/ /\ q[k].id \in mine
                /\ \A n \in mine : n <= q[k].id => Among(q, n, k)
    BY <1>2, <1>3, <1>8, <1>9, <2>1, Composed
  <2>. QED
    BY <2>2 DEF q
<1>. HIDE DEF r
<1>11. /\ req' \in [Conns -> Requests]
       /\ req'[c].last = v /\ req'[c].busId = busId
       /\ req'[c].start = s /\ req'[c].read = m
       /\ req'[c].long = req[c].long
       /\ \A d \in Conns : d # c => req'[d] = req[d]
  BY <1>0, <1>1, <1>4, <1>7 DEF Types, Requests, v, busId
<1>12. at' \in [Conns -> Places] /\ at'[c] = "scanned"
       /\ \A d \in Conns : d # c => at'[d] = at[d]
  BY <1>0, <1>1 DEF Types, Places
<1>13. resp' \in [Conns -> Seq(Item)] /\ resp'[c] = r
       /\ \A d \in Conns : d # c => resp'[d] = resp[d]
  BY <1>0, <1>1, <1>10 DEF Types
<1>14. Types'
  BY <1>0, <1>1, <1>a, <1>11, <1>12, <1>13 DEF Types
<1>15. Alone(c)
  BY <1>1, <1>a, <1>11, <1>12, <1>13 DEF Alone
<1>16. Bounds(c)'
  BY <1>1, <1>3, <1>4, <1>7, <1>11, <1>12 DEF Bounds
<1>17. Backlog(c)'
  <2>1. ASSUME NEW k \in DOMAIN r PROVE r[k].id <= Len(log)
    <3>1. \A n \in mine : n <= Len(log)
      BY <1>2, <1>8
    <3>. QED
      BY <1>3, <1>10, <3>1
  <2>2. ASSUME NEW n \in Nat, Mine(c[1], n)', s < n, n <= m
        PROVE  n \in mine
    BY <1>1, <1>2, <1>4, <1>5, <1>6, <2>2 DEF Mine
  <2>3. ASSUME NEW k \in DOMAIN r, NEW n \in Nat,
               Mine(c[1], n)', s < n, n <= r[k].id
        PROVE  Among(r, n, k)
    <3>1. CASE /\ r[k].id \in mine
               /\ \A p \in mine : p <= r[k].id => Among(r, p, k)
      <4>1. WantsBacklog(v, busId)
        BY <1>6, <3>1
      <4>2. n \in mine
        BY <1>1, <1>2, <1>5, <2>3, <4>1 DEF Mine
      <4>. QED
        BY <2>3, <3>1, <4>2
    <3>2. CASE k = Len(r) /\ r[k].id = busId
      <4>1. n \in mine
        BY <1>3, <1>4, <1>6, <1>7, <2>2, <2>3, <3>2
      <4>. QED
        BY <1>10, <3>2, <4>1
    <3>. QED
      BY <1>10, <3>1, <3>2
  <2>4. ASSUME NEW n \in Nat, Mine(c[1], n)', s < n, n <= m
        PROVE  Among(r, n, Len(r))
    BY <1>10, <2>2, <2>4
  <2>5. \A n, k : Among(resp[c], n, k)' <=> Among(r, n, k)
    BY <1>13 DEF Among
  <2>. QED
    BY <1>1, <1>11, <1>13, <2>1, <2>3, <2>4, <2>5 DEF Backlog
<1>18. Window(c)'
  <2>1. Dispatched' = Dispatched /\ Dispatched \in Nat /\ Dispatched <= Len(log)
    BY <1>1, <1>2 DEF Dispatched, PollInv, Busy
  <2>2. ASSUME req[c].long, NEW n \in Nat, m < n, n <= Dispatched
        PROVE  <<c[1], n>> \in missed
    <3>1. CASE WantsBacklog(v, busId)
      BY <1>2, <2>1, <2>2, <3>1 DEF m
    <3>2. CASE ~WantsBacklog(v, busId)
      <4>1. busId < n
        BY <1>6, <2>2, <3>2
      <4>. QED
        BY <1>1, <2>2, <3>2, <4>1 DEF PollInv, OfRequests, Window, v, busId
    <3>. QED
      BY <3>1, <3>2
  <2>. QED
    BY <1>1, <1>11, <1>12, <2>1, <2>2 DEF Window
<1>19. ASSUME Reading(c), base[c[1]] # None
       PROVE  Through(c[1], s)
  <2>1. c[1] \in Ids /\ c # None
    BY NoneAssumption DEF Conns
  <2>2. Conn(c[1]) = c
    BY <1>19 DEF Reading, Conn
  <2>3. v = web[c[1]].last
    BY <1>1, <2>1, <2>2 DEF PollInv, OfPages, Waiting, Early, v
  <2>4. 0 <= v /\ v <= busId /\ Through(c[1], v)
    BY <1>1, <1>19, <2>1, <2>2, <2>3 DEF PollInv, OfPages, Behind, busId
  <2>5. s = v
    BY <1>3, <2>4 DEF s, Start
  <2>. QED
    BY <2>4, <2>5
<1>. QED
  BY <1>1, <1>11, <1>12, <1>14, <1>15, <1>16, <1>17, <1>18, <1>19, EarlyStep
     DEF Early, v

-----------------------------------------------------------------------------
(* The response is written.                                                *)

LEMMA DeliverStep ==
  ASSUME PollInv, NEW c \in Conns, at[c] = "scanned",
         at' = [at EXCEPT ![c] = "done"] \/ at' = [at EXCEPT ![c] = "adding"],
         out' = Written(c, resp[c]),
         resp' = [resp EXCEPT ![c] = <<>>],
         open' = open \/ open' = open \cup {c},
         at'[c] = "adding" => c \in open' /\ req[c].long,
         UNCHANGED <<log, trimmed, notified, worker, timers, clients, subs,
                     req, web, got, base, missed, gone>>
  PROVE  PollInv'
<1>0. Types
  BY DEF PollInv
<1>1. c[1] \in Ids /\ c # None
  BY NoneAssumption DEF Conns
<1>2. at' \in [Conns -> Places] /\ at'[c] \in {"done", "adding"}
      /\ \A d \in Conns : d # c => at'[d] = at[d]
  BY <1>0 DEF Types, Places
<1>3. resp' \in [Conns -> Seq(Item)] /\ resp'[c] = <<>>
      /\ \A d \in Conns : d # c => resp'[d] = resp[d]
  BY <1>0 DEF Types
<1>4. /\ out' \in [Ids -> Seq(Item)]
      /\ \A i \in Ids : i # c[1] => out'[i] = out[i]
      /\ ~Reading(c) => out'[c[1]] = out[c[1]]
      /\ Reading(c) => out'[c[1]] = out[c[1]] \o resp[c]
  BY <1>0, <1>1 DEF Types, Written
<1>5. Types'
  BY <1>0, <1>2, <1>3, <1>4 DEF Types
<1>6. Alone(c)
  BY <1>2, <1>3, <1>4 DEF Alone
<1>7. Tables'
  BY Untouched DEF PollInv
<1>8. Busy'
  BY <1>0, <1>2, BusyKept DEF PollInv
<1>9. Bounds(c) /\ Backlog(c) /\ Window(c)
  BY DEF PollInv, OfRequests
<1>10. Bounds(c)' /\ Backlog(c)' /\ Window(c)'
  <2>1. Dispatched' = Dispatched
    BY DEF Dispatched
  <2>. QED
    BY <1>2, <1>3, <1>9, <2>1 DEF Bounds, Backlog, Window, Started
<1>11. ASSUME NEW i \in Ids PROVE Held(i)' /\ clients[i] # c
  <2>1. Held(i)
    BY DEF PollInv, OfPages
  <2>2. clients[i] # None => clients[i] \in Conns
    BY <1>0 DEF Types
  <2>3. clients[i] # c
    BY <1>1, <2>1 DEF Held
  <2>. QED
    BY <1>2, <2>1, <2>2, <2>3, HeldKept
<1>12. ASSUME Reading(c)
       PROVE  /\ Waiting(c[1])' /\ Flow(c[1])'
              /\ Informed(c[1])' /\ Behind(c[1])'
  <2>. DEFINE i == c[1]
  <2>1. web[i].conn = c /\ web'[i].conn = c /\ Conn(i) = c /\ Conn(i)' = c
    BY <1>12 DEF Reading, Conn
  <2>2. Waiting(i) /\ Behind(i)
    BY <1>1 DEF PollInv, OfPages
  <2>3. out[i] = <<>>
    BY <1>1, <2>1, <2>2 DEF Waiting, Early
  <2>4. out'[i] = resp[c] /\ resp[c] \in Seq(Item)
    BY <1>0, <1>4, <1>12, <2>3 DEF Types
  <2>5. \A n, k : Among(out[i], n, k)' <=> Among(resp[c], n, k)
    BY <2>4 DEF Among
  <2>6. \A n : Mine(i, n)' <=> Mine(i, n)
    BY DEF Mine
  <2>7. Waiting(i)'
    <3>1. \A d \in Conns : at[d] = "unborn" => at'[d] = "unborn"
      BY <1>2
    <3>. QED
      BY <1>1, <1>2, <1>9, <2>1, <2>2, <2>4, <3>1 DEF Waiting, Early, Backlog
  <2>8. Flow(i)'
    BY <1>9, <2>1, <2>4, <2>5, <2>6 DEF Flow, Backlog
  <2>9. Informed(i)'
    <3>1. HandedTo(i, req[c].read)'
      BY <1>9, <2>1, <2>4, <2>5, <2>6 DEF HandedTo, Backlog
    <3>. QED
      BY <1>1, <1>11, <2>1, <3>1 DEF Informed, HandedTo
  <2>10. Behind(i)'
    BY <1>2, <2>1, <2>2 DEF Behind, Through, Accounted, Mine, Started
  <2>. QED
    BY <2>7, <2>8, <2>9, <2>10
<1>. QED
  BY <1>5, <1>6, <1>7, <1>8, <1>10, <1>11, <1>12, AloneKept

LEMMA RespondNowStep ==
  ASSUME PollInv, NEW c \in Conns, RespondNow(c)
  PROVE  PollInv'
BY DeliverStep DEF RespondNow, ReqGoto, server, store, pages, history, PollInv,
   Types

LEMMA HijackStep ==
  ASSUME PollInv, NEW c \in Conns, Hijack(c)
  PROVE  PollInv'
BY DeliverStep DEF Hijack, ReqGoto, store, pages, history

LEMMA HijackFailsStep ==
  ASSUME PollInv, NEW c \in Conns, HijackFails(c)
  PROVE  PollInv'
<1>0. Types
  BY DEF PollInv
<1>1. c \in Conns /\ c # None
  BY NoneAssumption
<1>2. /\ at[c] = "scanned" /\ ~Reading(c)
      /\ at' = [at EXCEPT ![c] = "failed"]
      /\ open' = open \cup {c}
      /\ resp' = [resp EXCEPT ![c] = <<>>]
      /\ UNCHANGED <<log, trimmed, notified, worker, timers, clients, subs,
                     req, out, web, got, base, missed, gone>>
  BY DEF HijackFails, ReqGoto, server, store, pages, history
<1>3. at' \in [Conns -> Places] /\ at'[c] = "failed"
      /\ \A d \in Conns : d # c => at'[d] = at[d]
  BY <1>0, <1>2 DEF Types, Places
<1>4. resp' \in [Conns -> Seq(Item)]
      /\ \A d \in Conns : d # c => resp'[d] = resp[d]
  BY <1>0, <1>2 DEF Types
<1>5. Types'
  BY <1>0, <1>2, <1>3, <1>4 DEF Types
<1>6. Alone(c)
  BY <1>2, <1>3, <1>4 DEF Alone
<1>7. Tables'
  BY <1>2, Untouched DEF PollInv
<1>8. Busy'
  BY <1>0, <1>2, <1>3, BusyKept DEF PollInv
<1>9. Bounds(c)' /\ Backlog(c)' /\ Window(c)'
  BY <1>2, <1>3 DEF PollInv, OfRequests, Bounds, Backlog, Window, Started
<1>10. ASSUME NEW i \in Ids PROVE Held(i)'
  <2>1. Held(i)
    BY DEF PollInv, OfPages
  <2>2. clients[i] # None => clients[i] \in Conns
    BY <1>0 DEF Types
  <2>3. clients[i] # c
    BY <1>1, <1>2, <2>1 DEF Held
  <2>. QED
    BY <1>2, <1>3, <2>1, <2>2, <2>3, HeldKept
<1>. QED
  BY <1>2, <1>5, <1>6, <1>7, <1>8, <1>9, <1>10, AloneKept

-----------------------------------------------------------------------------
(* The connection is registered.                                           *)

\* A poll in the window has been written what it read, and what was dispatched
\* since then is missed; from now on it is notified.
LEMMA AddClientStep ==
  ASSUME PollInv, NEW c \in Conns, AddClient(c)
  PROVE  PollInv'
<1>0. Types
  BY DEF PollInv
<1>1. c[1] \in Ids /\ c # None
  BY NoneAssumption DEF Conns
<1>2. /\ at[c] = "adding" /\ worker.job # "notify"
      /\ at' = [at EXCEPT ![c] = "added"]
      /\ UNCHANGED <<log, trimmed, notified, worker, req, resp, out, web, got,
                     base, missed, gone>>
  BY DEF AddClient, ReqGoto, store, pages, history
<1>3. \/ /\ open' = open \ {c}
         /\ UNCHANGED <<clients, subs, timers>>
         /\ clients[c[1]] # None
      \/ /\ open' = open \ {clients[c[1]]}
         /\ timers' = Without(timers, clients[c[1]])
         /\ clients' = [clients EXCEPT ![c[1]] = c]
         /\ subs' = subs \cup {c[1]}
  BY DEF AddClient, Superseded
<1>4. at' \in [Conns -> Places] /\ at'[c] = "added"
      /\ \A d \in Conns : d # c => at'[d] = at[d]
  BY <1>0, <1>2 DEF Types, Places
<1>5. /\ timers' \in Seq(Conns)
      /\ \A k \in DOMAIN timers' : \E j \in DOMAIN timers :
           timers'[k] = timers[j]
  BY <1>0, <1>3, WithoutIs DEF Types
<1>a. clients' \in [Ids -> Conns \cup {None}]
  BY <1>0, <1>3 DEF Types
<1>6. /\ clients' \in [Ids -> Conns \cup {None}]
      /\ subs' \subseteq Ids /\ open' \subseteq Conns
  <2>. USE DEF Types
  <2>1. CASE UNCHANGED <<clients, subs, timers>> /\ open' = open \ {c}
    BY <1>0, <1>a, <2>1
  <2>2. CASE /\ open' = open \ {clients[c[1]]}
             /\ subs' = subs \cup {c[1]}
    BY <1>0, <1>1, <1>a, <2>2
  <2>. QED
    BY <1>3, <2>1, <2>2
<1>7. Types'
  BY <1>0, <1>2, <1>4, <1>5, <1>6 DEF Types
<1>8. Tables'
  BY <1>3, Added, Untouched DEF PollInv
<1>9. Busy'
  <2>1. \A d \in Conns : at[d] = "done" => at'[d] = "done"
    BY <1>2, <1>4
  <2>2. \A k \in DOMAIN timers : timers[k] \in Conns
    BY <1>0 DEF Types
  <2>. QED
    BY <1>2, <1>5, <2>1, <2>2 DEF PollInv, Busy
<1>10. ASSUME NEW i \in Ids
       PROVE  /\ clients[i] # None => clients[i] \in Conns /\ clients[i][1] = i
              /\ clients[i] # c
              /\ Held(i)
  BY <1>0, <1>1, <1>2
     DEF PollInv, OfPages, Held, Types, Tables, IndexConsistent, Registered
<1>11. \A d \in Conns : d # c /\ at[d] = "adding" /\ d \in open => d \in open'
  <2>1. clients[c[1]] # None => at[clients[c[1]]] # "adding"
    BY <1>1, <1>10 DEF Held
  <2>. QED
    BY <1>3, <2>1, NoneAssumption
<1>12. \A i \in Ids : clients'[i] # clients[i] => i = c[1] /\ clients'[i] = c
  BY <1>0, <1>3 DEF Types
<1>13. Alone(c)
  BY <1>2, <1>4, <1>11, <1>12 DEF Alone
<1>14. Bounds(c) /\ Window(c)
  BY DEF PollInv, OfRequests
<1>15. Bounds(c)' /\ Backlog(c)' /\ Window(c)'
  BY <1>2, <1>4, <1>14 DEF Bounds, Backlog, Window, Started
<1>16. ASSUME NEW i \in Ids PROVE Held(i)'
  <2>1. CASE clients'[i] = clients[i]
    <3>1. clients[i] # None => clients[i] # c
      BY <1>10
    <3>2. ASSUME clients[i] # None, clients[i] \in open
          PROVE  clients[i] \in open'
      <4>1. CASE open' = open \ {c}
        BY <3>1, <3>2, <4>1
      <4>2. CASE clients' = [clients EXCEPT ![c[1]] = c]
                 /\ open' = open \ {clients[c[1]]}
        <5>1. i # c[1]
          BY <1>0, <1>1, <1>10, <2>1, <4>2 DEF Types
        <5>2. clients[c[1]] # clients[i]
          BY <1>1, <1>10, <3>2, <5>1
        <5>. QED
          BY <3>2, <4>2, <5>2
      <4>. QED
        BY <1>3, <4>1, <4>2
    <3>. QED
      BY <1>2, <1>4, <1>10, <2>1, <3>1, <3>2, HeldKept
  <2>2. CASE clients'[i] # clients[i]
    <3>1. i = c[1] /\ clients'[i] = c
      BY <1>12, <2>2
    <3>2. open' = open \ {clients[c[1]]}
      BY <1>3, <2>2
    <3>3. c \in open'
      BY <1>2, <1>1, <1>10, <1>14, <3>2 DEF Bounds
    <3>. QED
      BY <1>4, <3>1, <3>3 DEF Held
  <2>. QED
    BY <2>1, <2>2
<1>17. ASSUME Reading(c)
       PROVE  /\ Waiting(c[1])' /\ Flow(c[1])'
              /\ Informed(c[1])' /\ Behind(c[1])'
  <2>. DEFINE i == c[1]
  <2>1. Conn(i) = c /\ Conn(i)' = c /\ web'[i] = web[i]
    BY <1>2, <1>17 DEF Reading, Conn
  <2>2. Waiting(i) /\ Flow(i) /\ Informed(i) /\ Behind(i)
    BY <1>1 DEF PollInv, OfPages
  <2>3. \A n : Mine(i, n)' <=> Mine(i, n)
    BY <1>2 DEF Mine
  <2>4. \A n : Accounted(i, n)' <=> Accounted(i, n)
    BY <1>2 DEF Accounted
  <2>5. \A n, k : Among(out[i], n, k)' <=> Among(out[i], n, k)
    BY <1>2 DEF Among
  <2>6. Waiting(i)'
    <3>1. \A d \in Conns : at[d] = "unborn" => at'[d] = "unborn"
      BY <1>2, <1>4
    <3>. QED
      BY <1>1, <1>2, <1>4, <2>1, <2>2, <3>1 DEF Waiting, Early
  <2>7. Flow(i)'
    BY <1>2, <2>1, <2>2, <2>3, <2>4, <2>5 DEF Flow
  <2>8. Behind(i)'
    BY <1>2, <1>4, <2>1, <2>2, <2>3, <2>4 DEF Behind, Through, Started
  <2>9. Informed(i)'
    <3>1. HandedTo(i, req[c].read)
      BY <1>1, <1>2, <2>1, <2>2 DEF Informed
    <3>2. Told(i)' = notified /\ Dispatched = notified
      BY <1>2 DEF Told, Dispatched
    <3>3. \A n \in Nat : req[c].read < n /\ n <= notified
                           => <<i, n>> \in missed
      BY <1>2, <1>14, <3>2 DEF Window, Bounds
    <3>4. req[c].read \in Nat /\ notified \in Nat
      BY <1>0 DEF Types, Requests
    <3>5. HandedTo(i, notified)
      BY <3>1, <3>3, <3>4 DEF HandedTo, Accounted
    <3>6. HandedTo(i, Told(i))'
      BY <1>2, <2>1, <2>3, <2>4, <2>5, <3>2, <3>5 DEF HandedTo
    <3>. QED
      BY <1>4, <2>1, <3>6 DEF Informed
  <2>. QED
    BY <2>6, <2>7, <2>8, <2>9
<1>. QED
  BY <1>7, <1>8, <1>9, <1>13, <1>15, <1>16, <1>17, AloneKept

LEMMA SetTimerStep ==
  ASSUME PollInv, NEW c \in Conns, SetTimer(c)
  PROVE  PollInv'
<1>0. Types
  BY DEF PollInv
<1>1. c[1] \in Ids /\ c # None
  BY NoneAssumption DEF Conns
<1>2. /\ at[c] = "added"
      /\ at' = [at EXCEPT ![c] = "done"]
      /\ timers' = Append(timers, c)
      /\ UNCHANGED <<log, trimmed, notified, worker, clients, subs, open, req,
                     resp, out, web, got, base, missed, gone>>
  BY DEF SetTimer, ReqGoto, store, pages, history
<1>3. at' \in [Conns -> Places] /\ at'[c] = "done"
      /\ \A d \in Conns : d # c => at'[d] = at[d]
  BY <1>0, <1>2 DEF Types, Places
<1>4. timers' \in Seq(Conns)
      /\ \A k \in DOMAIN timers' :
           timers'[k] = c \/ (k \in DOMAIN timers /\ timers'[k] = timers[k])
  BY <1>0, <1>2 DEF Types
<1>5. Types'
  BY <1>0, <1>2, <1>3, <1>4 DEF Types
<1>6. Alone(c)
  BY <1>2, <1>3 DEF Alone
<1>7. Tables'
  BY <1>2, Untouched DEF PollInv
<1>8. Busy'
  <2>1. \A k \in DOMAIN timers : timers[k] \in Conns
    BY <1>0 DEF Types
  <2>. QED
    BY <1>2, <1>3, <1>4, <2>1 DEF PollInv, Busy
<1>9. Bounds(c)' /\ Backlog(c)' /\ Window(c)'
  BY <1>2, <1>3 DEF PollInv, OfRequests, Bounds, Backlog, Window, Started
<1>10. ASSUME NEW i \in Ids PROVE Held(i)'
  <2>1. Held(i)
    BY DEF PollInv, OfPages
  <2>2. clients[i] # None => clients[i] \in Conns
    BY <1>0 DEF Types
  <2>. QED
    BY <1>2, <1>3, <2>1, <2>2 DEF Held
<1>11. ASSUME Reading(c)
       PROVE  /\ Waiting(c[1])' /\ Flow(c[1])'
              /\ Informed(c[1])' /\ Behind(c[1])'
  <2>. DEFINE i == c[1]
  <2>1. Conn(i) = c /\ Conn(i)' = c /\ web'[i] = web[i]
    BY <1>2, <1>11 DEF Reading, Conn
  <2>2. Waiting(i) /\ Flow(i) /\ Informed(i) /\ Behind(i)
    BY <1>1 DEF PollInv, OfPages
  <2>3. \A n : Mine(i, n)' <=> Mine(i, n)
    BY <1>2 DEF Mine
  <2>4. \A n : Accounted(i, n)' <=> Accounted(i, n)
    BY <1>2 DEF Accounted
  <2>5. \A n, k : Among(out[i], n, k)' <=> Among(out[i], n, k)
    BY <1>2 DEF Among
  <2>6. Waiting(i)'
    <3>1. \A d \in Conns : at[d] = "unborn" => at'[d] = "unborn"
      BY <1>2, <1>3
    <3>. QED
      BY <1>1, <1>2, <1>3, <2>1, <2>2, <3>1 DEF Waiting, Early
  <2>7. Flow(i)'
    BY <1>2, <2>1, <2>2, <2>3, <2>4, <2>5 DEF Flow
  <2>8. Behind(i)'
    BY <1>2, <1>3, <2>1, <2>2, <2>3, <2>4 DEF Behind, Through, Started
  <2>9. Informed(i)'
    <3>1. Told(i)' = Told(i)
      BY <1>2 DEF Told
    <3>. QED
      BY <1>2, <1>3, <2>1, <2>2, <2>3, <2>4, <2>5, <3>1 DEF Informed, HandedTo
  <2>. QED
    BY <2>6, <2>7, <2>8, <2>9
<1>. QED
  BY <1>5, <1>6, <1>7, <1>8, <1>9, <1>10, <1>11, AloneKept

-----------------------------------------------------------------------------
(* The page.                                                               *)

\* A step of page i, and of nobody else.
OnPage(i) ==
  /\ UNCHANGED <<log, trimmed, notified, worker, timers, clients, subs, open,
                 resp, missed, gone>>
  /\ \A c \in Conns : at[c] # "unborn" \/ c[1] # i =>
       at'[c] = at[c] /\ req'[c] = req[c]
  /\ \A c \in Conns : at[c] = "unborn" => at'[c] \in {"unborn", "sent"}
  /\ \A j \in Ids : j # i =>
       /\ web'[j] = web[j] /\ out'[j] = out[j]
       /\ got'[j] = got[j] /\ base'[j] = base[j]

\* It is enough to look at that page.
LEMMA OnPageKept ==
  ASSUME PollInv, NEW i \in Ids, OnPage(i), Types',
         Waiting(i)', Flow(i)', Informed(i)', Behind(i)'
  PROVE  PollInv'
<1>0. Types /\ Tables /\ Busy
  BY DEF PollInv
<1>1. Tables'
  BY <1>0, Untouched DEF OnPage
<1>2. Busy'
  <2>1. \A c \in Conns : at[c] = "done" => at'[c] = "done"
    BY DEF OnPage
  <2>. QED
    BY <1>0, <2>1, BusyKept DEF OnPage
<1>3. ASSUME NEW c \in Conns
      PROVE  Bounds(c)' /\ Backlog(c)' /\ Window(c)'
  <2>1. CASE at[c] = "unborn"
    BY <2>1 DEF OnPage, Bounds, Backlog, Window, Started
  <2>2. CASE at[c] # "unborn"
    <3>1. Bounds(c) /\ Backlog(c) /\ Window(c)
      BY DEF PollInv, OfRequests
    <3>2. Dispatched' = Dispatched
      BY DEF OnPage, Dispatched
    <3>. QED
      BY <2>2, <3>1, <3>2, RequestKept DEF OnPage
  <2>. QED
    BY <2>1, <2>2
<1>4. ASSUME NEW j \in Ids PROVE Held(j)'
  <2>1. Held(j)
    BY DEF PollInv, OfPages
  <2>2. clients[j] # None => clients[j] \in Conns
    BY <1>0 DEF Types
  <2>3. clients[j] # None => at[clients[j]] # "unborn"
    BY <2>1 DEF Held
  <2>. QED
    BY <2>1, <2>2, <2>3, HeldKept DEF OnPage
<1>5. ASSUME NEW j \in Ids, j # i
      PROVE  Waiting(j)' /\ Flow(j)' /\ Informed(j)' /\ Behind(j)'
  <2>1. Waiting(j) /\ Flow(j) /\ Informed(j) /\ Behind(j)
    BY DEF PollInv, OfPages
  <2>2. Conn(j) # None => Conn(j) \in Conns /\ at[Conn(j)] # "unborn"
    BY <1>0, <2>1 DEF Types, Webs, Conn, Waiting
  <2>3. PageSame(j)
    BY <1>5, <2>2 DEF OnPage, PageSame
  <2>4. Told(j)' = Told(j)
    BY DEF OnPage, Told
  <2>. QED
    BY <2>1, <2>3, <2>4, PageKept, InformedKept DEF OnPage
<1>. QED
  BY <1>1, <1>2, <1>3, <1>4, <1>5 DEF PollInv, OfRequests, OfPages

LEMMA PollStep ==
  ASSUME PollInv, NEW i \in Ids,
         NEW chunked \in Encodings, NEW long \in LongPolls,
         Poll(i, chunked, long)
  PROVE  PollInv'
<1>. DEFINE c == <<i, web[i].polls + 1>>
<1>0. Types
  BY DEF PollInv
<1>1. /\ web[i].conn = None /\ web[i].polls < MaxPolls
      /\ web' = [web EXCEPT ![i] = [web[i] EXCEPT !.conn = c,
                                              !.polls = web[i].polls + 1]]
      /\ at' = [at EXCEPT ![c] = "sent"]
      /\ req' = [req EXCEPT ![c] = [req[c] EXCEPT !.last = web[i].last,
                                       !.chunked = chunked, !.long = long]]
      /\ UNCHANGED <<log, trimmed, notified, worker, timers, clients, subs,
                     open, resp, out, got, base, missed, gone>>
  <2>1. web' = [web EXCEPT ![i].conn = c, ![i].polls = @ + 1]
    BY DEF Poll
  <2>2. req' = [req EXCEPT ![c].last = web[i].last, ![c].chunked = chunked,
                           ![c].long = long]
    BY DEF Poll
  <2>3. web' = [web EXCEPT ![i] = [web[i] EXCEPT !.conn = c,
                                              !.polls = web[i].polls + 1]]
    BY <1>0, <2>1 DEF Types, Webs
  <2>4. req' = [req EXCEPT ![c] = [req[c] EXCEPT !.last = web[i].last,
                                       !.chunked = chunked, !.long = long]]
    BY <1>0, <2>2 DEF Types, Requests
  <2>. QED
    BY <2>3, <2>4 DEF Poll, server, store, history
<1>2. web[i] \in Webs /\ web[i].polls \in Nat /\ web[i].last \in Int
      /\ web[i].polls + 1 \in 1..MaxPolls /\ MaxPolls \in Nat
  BY <1>0, <1>1, PollAssumption DEF Types, Webs
<1>3. c \in Conns /\ c[1] = i /\ c[2] = web[i].polls + 1 /\ c # None
  BY <1>2, NoneAssumption DEF Conns
<1>4. chunked \in BOOLEAN /\ long \in BOOLEAN
  BY PollAssumption
<1>. HIDE DEF c
<1>5. /\ web' \in [Ids -> Webs]
      /\ web'[i].conn = c /\ web'[i].polls = web[i].polls + 1
      /\ web'[i].last = web[i].last
      /\ \A j \in Ids : j # i => web'[j] = web[j]
  <2>. DEFINE w == [web[i] EXCEPT !.conn = c, !.polls = web[i].polls + 1]
  <2>1. w \in Webs /\ w.conn = c /\ w.polls = web[i].polls + 1
        /\ w.last = web[i].last
    <3>1. PICK p \in 0..MaxPolls : p = web[i].polls + 1
      BY <1>2
    <3>2. PICK u \in Webs : u = web[i]
      BY <1>2
    <3>3. PICK v : v = [u EXCEPT !.conn = c, !.polls = p]
      OBVIOUS
    <3>4. v \in Webs /\ v.conn = c /\ v.polls = p /\ v.last = u.last
      BY <1>3, <3>1, <3>2, <3>3 DEF Webs
    <3>5. w = v
      BY <3>1, <3>2, <3>3
    <3>. HIDE DEF w
    <3>. QED
      BY <3>1, <3>2, <3>4, <3>5
  <2>2. web' = [web EXCEPT ![i] = w]
    BY <1>1
  <2>. HIDE DEF w
  <2>. QED
    BY <1>0, <2>1, <2>2 DEF Types
<1>6. /\ req' \in [Conns -> Requests]
      /\ req'[c].last = web[i].last
      /\ \A d \in Conns : d # c => req'[d] = req[d]
  <2>. DEFINE q == [req[c] EXCEPT !.last = web[i].last,
                                  !.chunked = chunked, !.long = long]
  <2>1. q \in Requests /\ q.last = web[i].last
    BY <1>0, <1>2, <1>3, <1>4 DEF Types, Requests
  <2>2. req' = [req EXCEPT ![c] = q]
    BY <1>1
  <2>. HIDE DEF q
  <2>. QED
    BY <1>0, <1>3, <2>1, <2>2 DEF Types
<1>7. at' \in [Conns -> Places] /\ at'[c] = "sent"
      /\ \A d \in Conns : d # c => at'[d] = at[d]
  BY <1>0, <1>1, <1>3 DEF Types, Places
<1>8. Types'
  BY <1>0, <1>1, <1>5, <1>6, <1>7 DEF Types
<1>9. Waiting(i) /\ Held(i) /\ Behind(i)
  BY DEF PollInv, OfPages
<1>10. at[c] = "unborn"
  BY <1>2, <1>3, <1>9 DEF Waiting
<1>11. OnPage(i)
  BY <1>1, <1>3, <1>5, <1>6, <1>7, <1>10 DEF OnPage
<1>12. Conn(i) = None /\ Conn(i)' = c /\ out[i] = <<>> /\ out'[i] = <<>>
  BY <1>1, <1>5, <1>9 DEF Conn, Waiting
<1>13. Waiting(i)'
  <2>1. \A d \in Conns : d[1] = i /\ d[2] > web'[i].polls => at'[d] = "unborn"
    <3>1. TAKE d \in Conns
    <3>2. HAVE d[1] = i /\ d[2] > web'[i].polls
    <3>3. d[2] > web[i].polls /\ d # c
      <4>1. d[2] \in Nat
        BY DEF Conns
      <4>. QED
        BY <1>2, <1>3, <1>5, <3>2, <4>1
    <3>. QED
      BY <1>7, <1>9, <3>2, <3>3 DEF Waiting
  <2>2. c = <<i, web'[i].polls>>
    BY <1>5 DEF c
  <2>. QED
    BY <1>5, <1>6, <1>7, <1>12, <2>1, <2>2 DEF Waiting
<1>14. Flow(i)'
  BY <1>12 DEF Flow
<1>15. Informed(i)'
  <2>1. clients'[i] # c
    BY <1>1, <1>3, <1>9, <1>10 DEF Held
  <2>. QED
    BY <1>7, <1>12, <2>1 DEF Informed
<1>16. Behind(i)'
  BY <1>1, <1>5, <1>7, <1>9, <1>12
     DEF Behind, Through, Accounted, Mine, Started
<1>. QED
  BY <1>8, <1>11, <1>13, <1>14, <1>15, <1>16, OnPageKept

\* An item is handed over.  If it is a message the page now has it, and what
\* went before it was accounted for.
LEMMA ReceiveStep ==
  ASSUME PollInv, NEW i \in Ids, Receive(i)
  PROVE  PollInv'
<1>. DEFINE item == Head(out[i])
            c == Conn(i)
            had == IF item.kind = "message" THEN got[i] \cup {item.id}
                                            ELSE got[i]
            from == IF base[i] = None THEN req[c].start ELSE base[i]
<1>0. Types
  BY DEF PollInv
<1>1. Waiting(i) /\ Flow(i) /\ Informed(i) /\ Behind(i)
  BY DEF PollInv, OfPages
<1>2. out[i] # <<>> /\ out[i] \in Seq(Item) /\ Len(out[i]) \in Nat
      /\ Len(out[i]) >= 1
  BY <1>0 DEF Receive, Types
<1>3. c # None /\ c \in Conns
  BY <1>0, <1>1, <1>2 DEF Waiting, Types, Webs, Conn
<1>4. item = out[i][1] /\ item \in Item /\ item.id \in Nat
      /\ item.id <= Len(log)
  <2>1. item = out[i][1] /\ item \in Item /\ 1 \in DOMAIN out[i]
    BY <1>2
  <2>2. item.id \in Nat
    BY <2>1 DEF Item
  <2>. QED
    BY <1>1, <2>1, <2>2 DEF Waiting
<1>5. /\ out' = [out EXCEPT ![i] = Tail(out[i])]
      /\ web' = [web EXCEPT ![i] = [web[i] EXCEPT !.last = item.id]]
      /\ got' = [got EXCEPT ![i] = had]
      /\ base' = [base EXCEPT ![i] = from]
      /\ UNCHANGED <<log, trimmed, notified, worker, timers, clients, subs,
                     open, at, req, resp, missed, gone>>
  BY <1>0 DEF Receive, server, store, history, Conn, Types, Webs
<1>6. from \in Int \cup {None} /\ had \in SUBSET Nat
  BY <1>0, <1>3, <1>4 DEF Types, Requests
<1>7. /\ out' \in [Ids -> Seq(Item)] /\ got' \in [Ids -> SUBSET Nat]
      /\ base' \in [Ids -> Int \cup {None}]
      /\ out'[i] = Tail(out[i]) /\ got'[i] = had /\ base'[i] = from
      /\ \A j \in Ids : j # i =>
           out'[j] = out[j] /\ got'[j] = got[j] /\ base'[j] = base[j]
  <2>1. Tail(out[i]) \in Seq(Item)
    BY <1>2
  <2>. HIDE DEF had, from
  <2>. QED
    BY <1>0, <1>5, <1>6, <2>1 DEF Types
<1>8. /\ web' \in [Ids -> Webs]
      /\ web'[i].conn = web[i].conn /\ web'[i].polls = web[i].polls
      /\ web'[i].last = item.id
      /\ \A j \in Ids : j # i => web'[j] = web[j]
  <2>. DEFINE w == [web[i] EXCEPT !.last = item.id]
  <2>1. w \in Webs /\ w.conn = web[i].conn /\ w.polls = web[i].polls
        /\ w.last = item.id
    <3>1. web[i] \in Webs
      BY <1>0 DEF Types
    <3>. HIDE DEF item
    <3>. QED
      BY <1>4, <3>1 DEF Webs
  <2>2. web' = [web EXCEPT ![i] = w]
    BY <1>5
  <2>. HIDE DEF w
  <2>. QED
    BY <1>0, <2>1, <2>2 DEF Types
<1>9. Types'
  BY <1>0, <1>5, <1>7, <1>8 DEF Types
<1>10. OnPage(i)
  BY <1>5, <1>7, <1>8 DEF OnPage
<1>11. Conn(i)' = c
  BY <1>8 DEF Conn
<1>. HIDE DEF c
<1>12. at[c] \notin Early /\ at[c] \in Started
  <2>1. at[c] \in Places
    BY <1>0, <1>3 DEF Types
  <2>. QED
    BY <1>1, <1>2, <1>3, <2>1 DEF Waiting, Early, Started, Places, c
<1>13. \A n : Accounted(i, n) => Accounted(i, n)'
  BY <1>5, <1>7 DEF Accounted
<1>14. ASSUME NEW n, item = Message(n) PROVE Accounted(i, n)'
  <2>1. item.kind = "message" /\ item.id = n
    BY <1>14 DEF Message
  <2>. QED
    BY <1>7, <2>1 DEF Accounted
<1>15. ASSUME NEW n \in Nat, NEW k \in Nat, k + 1 <= Len(out[i]),
              Among(out[i], n, k + 1)
       PROVE  Accounted(i, n)' \/ Among(out'[i], n, k)
  <2>1. CASE item = Message(n)
    BY <1>14, <2>1
  <2>2. CASE item # Message(n)
    <3>1. Among(Tail(out[i]), n, k)
      BY <1>2, <1>15, <2>2, AmongRest
    <3>. QED
      BY <1>7, <3>1
  <2>. QED
    BY <2>1, <2>2
<1>16. \A n : Mine(i, n)' <=> Mine(i, n)
  BY <1>5 DEF Mine
<1>17. \A k \in DOMAIN out'[i] : k \in Nat /\ k + 1 \in DOMAIN out[i]
         /\ out'[i][k] = out[i][k + 1] /\ k + 1 <= Len(out[i])
  BY <1>2, <1>7
<1>18. Len(out'[i]) + 1 = Len(out[i]) /\ Len(out'[i]) \in Nat
  BY <1>2, <1>7
<1>19. Waiting(i)'
  BY <1>1, <1>3, <1>5, <1>8, <1>11, <1>12, <1>17 DEF Waiting, c
<1>20. Flow(i)'
  <2>1. ASSUME NEW k \in DOMAIN out'[i], NEW n \in Nat, Mine(i, n),
               req[c].start < n, n <= out'[i][k].id
        PROVE  Accounted(i, n)' \/ Among(out'[i], n, k)
    <3>1. Accounted(i, n) \/ Among(out[i], n, k + 1)
      BY <1>1, <1>3, <1>17, <2>1 DEF Flow, c
    <3>. QED
      BY <1>13, <1>15, <1>17, <3>1
  <2>. QED
    BY <1>5, <1>11, <1>16, <2>1 DEF Flow
<1>21. ASSUME NEW m, HandedTo(i, m)
       PROVE  \A n \in Nat : Mine(i, n) /\ req[c].start < n /\ n <= m =>
                Accounted(i, n)' \/ Among(out'[i], n, Len(out'[i]))
  <2>1. TAKE n \in Nat
  <2>2. HAVE Mine(i, n) /\ req[c].start < n /\ n <= m
  <2>3. Accounted(i, n) \/ Among(out[i], n, Len(out'[i]) + 1)
    BY <1>18, <1>21, <2>2 DEF HandedTo, c
  <2>. QED
    BY <1>13, <1>15, <1>18, <2>3
<1>22. Informed(i)'
  <2>2. Told(i)' = Told(i)
    BY <1>5 DEF Told
  <2>3. at'[c] = "adding" => HandedTo(i, req[c].read)
    BY <1>1, <1>3, <1>5 DEF Informed, c
  <2>4. clients'[i] = c => HandedTo(i, Told(i))
    BY <1>1, <1>3, <1>5 DEF Informed, c
  <2>5. at'[c] = "adding" =>
          \A n \in Nat :
            Mine(i, n) /\ req[c].start < n /\ n <= req[c].read =>
              Accounted(i, n)' \/ Among(out'[i], n, Len(out'[i]))
    BY <1>21, <2>3
  <2>6. clients'[i] = c =>
          \A n \in Nat :
            Mine(i, n) /\ req[c].start < n /\ n <= Told(i) =>
              Accounted(i, n)' \/ Among(out'[i], n, Len(out'[i]))
    BY <1>21, <2>4
  <2>. QED
    BY <1>5, <1>11, <1>16, <2>2, <2>5, <2>6 DEF Informed, HandedTo
<1>23. Behind(i)'
  <2>1. 1 \in DOMAIN out[i] /\ out[i][1].id = item.id
    BY <1>2, <1>4
  <2>2. ASSUME NEW n \in Nat, Mine(i, n), req[c].start < n, n <= item.id
        PROVE  Accounted(i, n)'
    <3>1. Accounted(i, n) \/ Among(out[i], n, 1)
      BY <1>1, <1>3, <2>1, <2>2 DEF Flow, c
    <3>2. Among(out[i], n, 1) => item = Message(n)
      BY <1>4 DEF Among
    <3>. QED
      BY <1>13, <1>14, <3>1, <3>2
  <2>3. req[c].start \in Nat
    BY <1>0, <1>3 DEF Types, Requests
  <2>4. base[i] # None =>
          \A n \in Nat : Mine(i, n) /\ base[i] < n /\ n <= req[c].start
                           => Accounted(i, n)
    BY <1>1, <1>3, <1>12 DEF Behind, Through, c
  <2>5. ASSUME NEW n \in Nat, Mine(i, n), from < n, n <= item.id
        PROVE  Accounted(i, n)'
    BY <1>13, <2>2, <2>3, <2>4, <2>5
  <2>6. ASSUME NEW n \in Nat, Mine(i, n), from < n, n <= req[c].start
        PROVE  Accounted(i, n)'
    BY <1>13, <2>3, <2>4, <2>6
  <2>. HIDE DEF from
  <2>7. Through(i, web[i].last)'
    BY <1>7, <1>8, <1>16, <2>5 DEF Through
  <2>8. Through(i, req[Conn(i)].start)'
    BY <1>5, <1>7, <1>11, <1>16, <2>6 DEF Through
  <2>9. at'[Conn(i)'] # "ids"
    BY <1>5, <1>11, <1>12 DEF Early
  <2>. HIDE DEF item
  <2>. QED
    BY <1>4, <1>5, <1>8, <2>7, <2>8, <2>9 DEF Behind
<1>. QED
  BY <1>9, <1>10, <1>19, <1>20, <1>22, <1>23, OnPageKept

\* The page leaves its poll: nothing more is on its way to it.
LEMMA LeaveStep ==
  ASSUME PollInv, NEW i \in Ids,
         web' = [web EXCEPT ![i].conn = None],
         out' = [out EXCEPT ![i] = <<>>],
         UNCHANGED <<log, trimmed, notified, worker, timers, clients, subs,
                     open, at, req, resp, got, base, missed, gone>>
  PROVE  PollInv'
<1>0. Types
  BY DEF PollInv
<1>1. /\ web' \in [Ids -> Webs]
      /\ web'[i].conn = None /\ web'[i].polls = web[i].polls
      /\ web'[i].last = web[i].last
      /\ \A j \in Ids : j # i => web'[j] = web[j]
  BY <1>0 DEF Types, Webs
<1>2. out' \in [Ids -> Seq(Item)] /\ out'[i] = <<>>
      /\ \A j \in Ids : j # i => out'[j] = out[j]
  BY <1>0 DEF Types
<1>3. Types'
  BY <1>0, <1>1, <1>2 DEF Types
<1>4. OnPage(i)
  BY <1>1, <1>2 DEF OnPage
<1>5. Conn(i)' = None
  BY <1>1 DEF Conn
<1>6. Waiting(i) /\ Behind(i)
  BY DEF PollInv, OfPages
<1>7. Waiting(i)'
  BY <1>1, <1>2, <1>5, <1>6 DEF Waiting
<1>8. Flow(i)' /\ Informed(i)'
  BY <1>5 DEF Flow, Informed
<1>9. Behind(i)'
  BY <1>1, <1>5, <1>6 DEF Behind, Through, Accounted, Mine
<1>. QED
  BY <1>3, <1>4, <1>7, <1>8, <1>9, OnPageKept

LEMMA CompleteStep ==
  ASSUME PollInv, NEW i \in Ids, Complete(i)
  PROVE  PollInv'
<1>1. out' = [out EXCEPT ![i] = <<>>]
  BY DEF Complete, PollInv, Types
<1>. QED
  BY <1>1, LeaveStep DEF Complete, server, store, history

LEMMA AbortStep ==
  ASSUME PollInv, NEW i \in Ids, Abort(i)
  PROVE  PollInv'
BY LeaveStep DEF Abort, server, store, history

-----------------------------------------------------------------------------
(* The bus and its timer thread.                                           *)

LEMMA PublishStep ==
  ASSUME PollInv, NEW audience \in SUBSET Ids, Publish(audience)
  PROVE  PollInv'
<1>0. Types
  BY DEF PollInv
<1>1. /\ log' = Append(log, audience)
      /\ UNCHANGED <<trimmed, notified, worker, timers, clients, subs, at, req,
                     resp, open, out, web, got, base, missed, gone>>
  BY DEF Publish, store, pages, history
<1>2. /\ log' \in Seq(SUBSET Ids) /\ Len(log') = Len(log) + 1
      /\ Len(log) \in Nat /\ notified \in Nat /\ notified <= Len(log)
      /\ \A n \in 1..Len(log) : log'[n] = log[n]
  BY <1>0, <1>1 DEF Types
<1>3. Types'
  BY <1>0, <1>1, <1>2 DEF Types
<1>4. Tables'
  BY <1>1, Untouched DEF PollInv
<1>5. Busy'
  BY <1>1, <1>2 DEF PollInv, Busy
<1>6. ASSUME NEW i, NEW n \in Nat, n <= Len(log)
      PROVE  Mine(i, n)' <=> Mine(i, n)
  <2>1. n \in DOMAIN log' <=> n \in DOMAIN log
    BY <1>2, <1>6
  <2>2. n \in DOMAIN log => log'[n] = log[n]
    BY <1>2
  <2>. QED
    BY <1>1, <2>1, <2>2 DEF Mine
<1>7. Dispatched' = Dispatched
  BY <1>1 DEF Dispatched
<1>8. ASSUME NEW c \in Conns
      PROVE  Bounds(c)' /\ Backlog(c)' /\ Window(c)'
  <2>1. Bounds(c) /\ Backlog(c) /\ Window(c)
    BY DEF PollInv, OfRequests
  <2>2. req[c] \in Requests /\ resp[c] \in Seq(Item)
    BY <1>0 DEF Types
  <2>3. Bounds(c)'
    BY <1>1, <1>2, <2>1, <2>2 DEF Bounds, Requests
  <2>4. Window(c)'
    BY <1>1, <1>7, <2>1 DEF Window
  <2>5. Backlog(c)'
    <3>. SUFFICES ASSUME at[c] = "scanned" PROVE Backlog(c)'
      BY <1>1 DEF Backlog
    <3>1. req[c].read \in Nat /\ req[c].read <= Len(log)
      BY <2>1, <2>2 DEF Bounds, Requests, Started
    <3>2. ASSUME NEW k \in DOMAIN resp[c]
          PROVE  resp[c][k].id \in Nat /\ resp[c][k].id <= Len(log)
      <4>1. resp[c][k] \in Item
        BY <2>2
      <4>. QED
        BY <2>1, <4>1 DEF Backlog, Item
    <3>3. \A k \in DOMAIN resp[c] : resp[c][k].id <= Len(log')
      BY <1>2, <3>2
    <3>4. ASSUME NEW k \in DOMAIN resp[c], NEW n \in Nat,
                 Mine(c[1], n)', req[c].start < n, n <= resp[c][k].id
          PROVE  Among(resp[c], n, k)
      <4>1. n <= Len(log)
        BY <1>2, <3>2, <3>4
      <4>. QED
        BY <1>6, <2>1, <3>4, <4>1 DEF Backlog
    <3>5. ASSUME NEW n \in Nat,
                 Mine(c[1], n)', req[c].start < n, n <= req[c].read
          PROVE  Among(resp[c], n, Len(resp[c]))
      <4>1. n <= Len(log)
        BY <1>2, <3>1, <3>5
      <4>. QED
        BY <1>6, <2>1, <3>5, <4>1 DEF Backlog
    <3>. QED
      BY <1>1, <3>3, <3>4, <3>5 DEF Backlog, Among
  <2>. QED
    BY <2>3, <2>4, <2>5
<1>9. ASSUME NEW i \in Ids
      PROVE  Waiting(i)' /\ Held(i)' /\ Flow(i)' /\ Informed(i)' /\ Behind(i)'
  <2>1. Waiting(i) /\ Held(i) /\ Flow(i) /\ Informed(i) /\ Behind(i)
    BY DEF PollInv, OfPages
  <2>2. Conn(i)' = Conn(i) /\ Told(i)' = Told(i)
    BY <1>1 DEF Conn, Told
  <2>3. \A n : Accounted(i, n)' <=> Accounted(i, n)
    BY <1>1 DEF Accounted
  <2>4. ASSUME NEW k \in DOMAIN out[i]
        PROVE  out[i][k].id \in Nat /\ out[i][k].id <= Len(log)
    <3>1. out[i][k] \in Item
      BY <1>0 DEF Types
    <3>. QED
      BY <2>1, <3>1 DEF Waiting, Item
  <2>5. Conn(i) # None => Conn(i) \in Conns
    BY <1>0 DEF Types, Webs, Conn
  <2>6. Waiting(i)'
    BY <1>1, <1>2, <2>1, <2>2, <2>4 DEF Waiting
  <2>7. Held(i)'
    BY <1>1, <2>1 DEF Held
  <2>8. Flow(i)'
    <3>1. ASSUME Conn(i) # None, NEW k \in DOMAIN out[i], NEW n \in Nat,
                 Mine(i, n)', req[Conn(i)].start < n, n <= out[i][k].id
          PROVE  Accounted(i, n) \/ Among(out[i], n, k)
      <4>1. n <= Len(log)
        BY <1>2, <2>4, <3>1
      <4>. QED
        BY <1>6, <2>1, <3>1, <4>1 DEF Flow
    <3>. QED
      BY <1>1, <2>2, <2>3, <3>1 DEF Flow, Among
  <2>9. Informed(i)'
    <3>1. ASSUME NEW m \in Nat, m <= Len(log), HandedTo(i, m)
          PROVE  \A n \in Nat :
                   Mine(i, n)' /\ req[Conn(i)].start < n /\ n <= m =>
                     Accounted(i, n) \/ Among(out[i], n, Len(out[i]))
      BY <1>2, <1>6, <3>1 DEF HandedTo
    <3>2. Told(i) \in Nat /\ Told(i) <= Len(log)
      BY <1>2 DEF Told, PollInv, Busy
    <3>3. Conn(i) # None /\ at[Conn(i)] = "adding" =>
            req[Conn(i)].read \in Nat /\ req[Conn(i)].read <= Len(log)
      BY <1>0, <2>5 DEF PollInv, OfRequests, Bounds, Started, Types, Requests
    <3>. QED
      BY <1>1, <2>1, <2>2, <2>3, <3>1, <3>2, <3>3
         DEF Informed, HandedTo, Among
  <2>10. Behind(i)'
    <3>1. ASSUME NEW m \in Int, m <= Len(log), Through(i, m)
          PROVE  \A n \in Nat : Mine(i, n)' /\ base[i] < n /\ n <= m =>
                                  Accounted(i, n)
      BY <1>2, <1>6, <3>1 DEF Through
    <3>2. web[i].last \in Int
      BY <1>0 DEF Types, Webs
    <3>3. Conn(i) # None /\ at[Conn(i)] \in Started =>
            req[Conn(i)].start \in Int /\ req[Conn(i)].start <= Len(log)
      <4>. SUFFICES ASSUME Conn(i) # None, at[Conn(i)] \in Started
                    PROVE  /\ req[Conn(i)].start \in Int
                           /\ req[Conn(i)].start <= Len(log)
        OBVIOUS
      <4>1. Bounds(Conn(i)) /\ req[Conn(i)] \in Requests
        BY <1>0, <2>5 DEF PollInv, OfRequests, Types
      <4>. QED
        BY <1>2, <4>1 DEF Bounds, Requests
    <3>4. base[i] # None => web[i].last <= Len(log)
      BY <2>1 DEF Behind
    <3>. QED
      BY <1>1, <1>2, <2>1, <2>2, <2>3, <3>1, <3>2, <3>3, <3>4
         DEF Behind, Through
  <2>. QED
    BY <2>6, <2>7, <2>8, <2>9, <2>10
<1>. QED
  BY <1>3, <1>4, <1>5, <1>8, <1>9 DEF PollInv, OfRequests, OfPages

\* A step of the store or of the timer thread that writes to no page.
LEMMA WorkKept ==
  ASSUME PollInv, Types', Tables', Busy', \A i \in Ids : Held(i)',
         UNCHANGED <<log, at, req, resp, out, web, got, base, missed, gone>>,
         Dispatched' = Dispatched,
         \A i \in Ids : Told(i)' = Told(i),
         \A c \in Conns : at[c] = "adding" /\ c \in open => c \in open',
         \A i \in Ids : clients'[i] \in {clients[i], None}
  PROVE  PollInv'
<1>1. ASSUME NEW c \in Conns
      PROVE  Bounds(c)' /\ Backlog(c)' /\ Window(c)'
  BY RequestKept DEF PollInv, OfRequests
<1>2. ASSUME NEW i \in Ids
      PROVE  Waiting(i)' /\ Flow(i)' /\ Informed(i)' /\ Behind(i)'
  <2>1. Waiting(i) /\ Flow(i) /\ Informed(i) /\ Behind(i)
    BY DEF PollInv, OfPages
  <2>2. PageSame(i)
    BY DEF PageSame
  <2>. QED
    BY <2>1, <2>2, PageKept, InformedKept
<1>. QED
  BY <1>1, <1>2 DEF PollInv, OfRequests, OfPages

LEMMA TrimStep ==
  ASSUME PollInv, Trim
  PROVE  PollInv'
<1>0. Types /\ Busy
  BY DEF PollInv
<1>1. /\ trimmed < Len(log) /\ trimmed' = trimmed + 1
      /\ UNCHANGED <<log, notified, worker, timers, clients, subs, at, req,
                     resp, open, out, web, got, base, missed, gone>>
  BY DEF Trim, pages, history
<1>2. trimmed' \in Nat /\ trimmed' <= Len(log)
  BY <1>0, <1>1 DEF Types
<1>3. Types'
  BY <1>0, <1>1, <1>2 DEF Types
<1>4. Busy'
  BY <1>0, <1>1 DEF Busy
<1>5. Dispatched' = Dispatched /\ \A i \in Ids : Told(i)' = Told(i)
  BY <1>1 DEF Dispatched, Told
<1>6. \A i \in Ids : Held(i)'
  BY <1>1 DEF PollInv, OfPages, Held
<1>7. Tables'
  BY <1>1, Untouched DEF PollInv
<1>. QED
  BY <1>1, <1>3, <1>4, <1>5, <1>6, <1>7, WorkKept

LEMMA NotifyEndStep ==
  ASSUME PollInv, NotifyEnd
  PROVE  PollInv'
<1>0. Types /\ Busy
  BY DEF PollInv
<1>1. /\ worker.job = "notify" /\ worker.left = {}
      /\ worker' = Idle /\ notified' = notified + 1
      /\ UNCHANGED <<log, trimmed, timers, clients, subs, at, req, resp, open,
                     out, web, got, base, missed, gone>>
  BY DEF NotifyEnd, store, pages, history
<1>2. worker' \in Jobs /\ worker'.job = "idle"
  BY <1>1 DEF Idle, Jobs
<1>3. notified' \in Nat /\ notified' <= Len(log)
  BY <1>0, <1>1 DEF Types, Busy
<1>4. Types'
  BY <1>0, <1>1, <1>2, <1>3 DEF Types
<1>5. Busy'
  BY <1>0, <1>1, <1>2 DEF Busy
<1>6. Dispatched' = Dispatched /\ \A i \in Ids : Told(i)' = Told(i)
  BY <1>1, <1>2 DEF Dispatched, Told
<1>7. \A i \in Ids : Held(i)'
  BY <1>1 DEF PollInv, OfPages, Held
<1>8. Tables'
  BY <1>1, Untouched DEF PollInv
<1>. QED
  BY <1>1, <1>4, <1>5, <1>6, <1>7, <1>8, WorkKept

LEMMA TimerFiresStep ==
  ASSUME PollInv, TimerFires
  PROVE  PollInv'
<1>0. Types /\ Busy
  BY DEF PollInv
<1>1. /\ worker = Idle /\ timers # <<>>
      /\ worker' = [Idle EXCEPT !.job = "close", !.conn = Head(timers)]
      /\ timers' = Tail(timers)
      /\ UNCHANGED <<log, trimmed, notified, clients, subs, at, req, resp,
                     open, out, web, got, base, missed, gone>>
  BY DEF TimerFires, store, pages, history
<1>2. /\ timers' \in Seq(Conns) /\ Head(timers) \in Conns
      /\ at[Head(timers)] = "done"
      /\ \A k \in DOMAIN timers' : at[timers'[k]] = "done"
  BY <1>0, <1>1 DEF Types, Busy
<1>3. worker' \in Jobs /\ worker'.job = "close" /\ worker'.conn = Head(timers)
      /\ worker.job = "idle"
  BY <1>1, <1>2 DEF Idle, Jobs
<1>4. Types'
  BY <1>0, <1>1, <1>2, <1>3 DEF Types
<1>5. Busy'
  BY <1>1, <1>2, <1>3 DEF Busy
<1>6. Dispatched' = Dispatched /\ \A i \in Ids : Told(i)' = Told(i)
  BY <1>1, <1>3 DEF Dispatched, Told
<1>7. \A i \in Ids : Held(i)'
  BY <1>1, <1>3 DEF PollInv, OfPages, Held
<1>8. Tables'
  BY <1>1, Untouched DEF PollInv
<1>. QED
  BY <1>1, <1>4, <1>5, <1>6, <1>7, <1>8, WorkKept

LEMMA CleanUpCloseStep ==
  ASSUME PollInv, CleanUpClose
  PROVE  PollInv'
<1>0. Types /\ Busy
  BY DEF PollInv
<1>1. /\ worker.job = "close" /\ open' = open \ {worker.conn}
      /\ worker' = [worker EXCEPT !.job = "remove"]
      /\ UNCHANGED <<log, trimmed, notified, timers, clients, subs, at, req,
                     resp, out, web, got, base, missed, gone>>
  BY DEF CleanUpClose, store, pages, history
<1>2. worker' \in Jobs /\ worker'.job = "remove" /\ worker'.conn = worker.conn
  BY <1>0, <1>1 DEF Types, Jobs
<1>3. Types'
  BY <1>0, <1>1, <1>2 DEF Types
<1>4. Busy'
  BY <1>0, <1>1, <1>2 DEF Busy
<1>5. Dispatched' = Dispatched /\ \A i \in Ids : Told(i)' = Told(i)
  BY <1>1, <1>2 DEF Dispatched, Told
<1>6. \A i \in Ids : Held(i)'
  BY <1>1, <1>2 DEF PollInv, OfPages, Held
<1>7. \A c \in Conns : at[c] = "adding" /\ c \in open => c \in open'
  BY <1>0, <1>1 DEF Busy
<1>8. Tables'
  BY <1>1, Untouched DEF PollInv
<1>. QED
  BY <1>1, <1>3, <1>4, <1>5, <1>6, <1>7, <1>8, WorkKept

LEMMA CleanUpRemoveStep ==
  ASSUME PollInv, CleanUpRemove
  PROVE  PollInv'
<1>0. Types /\ Busy
  BY DEF PollInv
<1>. DEFINE d == worker.conn
<1>1. /\ worker.job = "remove" /\ RemoveClient(d) /\ worker' = Idle
      /\ clients' = [clients EXCEPT ![d[1]] = None]
      /\ timers' = Without(timers, d)
      /\ subs' = subs \ {d[1]}
      /\ UNCHANGED <<log, trimmed, notified, at, req, resp, open, out, web,
                     got, base, missed, gone>>
  BY DEF CleanUpRemove, RemoveClient, store, pages, history
<1>2. d \in Conns /\ d[1] \in Ids
  BY <1>0, <1>1 DEF Busy, Conns
<1>3. worker' \in Jobs /\ worker'.job = "idle"
  BY <1>1 DEF Idle, Jobs
<1>4. /\ timers' \in Seq(Conns)
      /\ \A k \in DOMAIN timers' : \E j \in DOMAIN timers :
           timers'[k] = timers[j]
  BY <1>0, <1>1, WithoutIs DEF Types
<1>5. /\ clients' \in [Ids -> Conns \cup {None}]
      /\ \A i \in Ids : clients'[i] \in {clients[i], None}
      /\ clients'[d[1]] = None
  BY <1>0, <1>1, <1>2 DEF Types
<1>6. Types'
  BY <1>0, <1>1, <1>3, <1>4, <1>5 DEF Types
<1>7. Busy'
  BY <1>0, <1>1, <1>3, <1>4 DEF Busy
<1>8. Dispatched' = Dispatched /\ \A i \in Ids : Told(i)' = Told(i)
  BY <1>1, <1>3 DEF Dispatched, Told
<1>9. ASSUME NEW i \in Ids PROVE Held(i)'
  <2>1. CASE clients'[i] = None
    BY <2>1 DEF Held
  <2>2. CASE clients'[i] # None
    <3>1. clients'[i] = clients[i] /\ i # d[1]
      BY <1>5, <2>2
    <3>2. clients[i] # d
      BY <2>2, <3>1 DEF PollInv, Tables, IndexConsistent, Registered
    <3>. QED
      BY <1>1, <2>2, <3>1, <3>2 DEF PollInv, OfPages, Held
  <2>. QED
    BY <2>1, <2>2
<1>10. Tables'
  BY <1>1, Removed DEF PollInv
<1>. QED
  BY <1>1, <1>5, <1>6, <1>7, <1>8, <1>9, <1>10, WorkKept

\* A notification begins: the polls in their window miss it.
LEMMA NotifyBeginStep ==
  ASSUME PollInv, NotifyBegin
  PROVE  PollInv'
<1>0. Types /\ Tables /\ Busy
  BY DEF PollInv
<1>. DEFINE n == notified + 1
            now == {<<c[1], n>> : c \in {d \in Conns : InWindow(d, n)}}
<1>1. /\ worker = Idle /\ notified < Len(log)
      /\ worker' = [Idle EXCEPT !.job = "notify", !.left = subs]
      /\ missed' = missed \cup now
      /\ UNCHANGED <<log, trimmed, notified, timers, clients, subs, at, req,
                     resp, open, out, web, got, base, gone>>
  BY DEF NotifyBegin, store, pages, history
<1>2. worker' \in Jobs /\ worker'.job = "notify" /\ worker'.left = subs
      /\ worker.job = "idle"
  BY <1>0, <1>1 DEF Idle, Jobs, Types
<1>3. notified \in Nat /\ n \in Nat
  BY <1>0 DEF Types
<1>4. missed' \subseteq Ids \X Nat
  BY <1>0, <1>1, <1>3 DEF Types, Conns
<1>5. Types'
  BY <1>0, <1>1, <1>2, <1>4 DEF Types
<1>6. Busy'
  BY <1>0, <1>1, <1>2 DEF Busy
<1>7. Tables'
  BY <1>0, <1>1, Untouched
<1>8. Dispatched = notified /\ Dispatched' = n
  BY <1>1, <1>2 DEF Dispatched
<1>9. ASSUME NEW c \in Conns
      PROVE  Bounds(c)' /\ Backlog(c)' /\ Window(c)'
  <2>1. Bounds(c) /\ Backlog(c) /\ Window(c)
    BY DEF PollInv, OfRequests
  <2>2. Bounds(c)'
    BY <1>1, <2>1 DEF Bounds
  <2>3. Backlog(c)'
    BY <1>1, <2>1 DEF Backlog, Mine, Among
  <2>4. Window(c)'
    <3>1. InWindow(c, n) => <<c[1], n>> \in missed'
      BY <1>1
    <3>2. \A k \in Nat : k <= n => k = n \/ k <= notified
      BY <1>3
    <3>. HIDE DEF n
    <3>3. ASSUME req[c].long, at[c] = "ids",
                 ~WantsBacklog(req[c].last, req[c].busId),
                 NEW k \in Nat, req[c].busId < k, k <= n
          PROVE  <<c[1], k>> \in missed'
      <4>1. CASE k = n
        BY <3>1, <3>3, <4>1 DEF InWindow
      <4>2. CASE k <= notified
        BY <1>1, <1>8, <2>1, <3>3, <4>2 DEF Window
      <4>. QED
        BY <3>2, <3>3, <4>1, <4>2
    <3>4. ASSUME req[c].long, at[c] \in {"scanned", "adding"},
                 NEW k \in Nat, req[c].read < k, k <= n
          PROVE  <<c[1], k>> \in missed'
      <4>1. CASE k = n
        BY <3>1, <3>4, <4>1 DEF InWindow
      <4>2. CASE k <= notified
        BY <1>1, <1>8, <2>1, <3>4, <4>2 DEF Window
      <4>. QED
        BY <3>2, <3>4, <4>1, <4>2
    <3>. QED
      BY <1>1, <1>8, <3>3, <3>4 DEF Window
  <2>. QED
    BY <2>2, <2>3, <2>4
<1>10. ASSUME NEW i \in Ids
       PROVE  Waiting(i)' /\ Held(i)' /\ Flow(i)' /\ Informed(i)' /\ Behind(i)'
  <2>1. Waiting(i) /\ Held(i) /\ Flow(i) /\ Informed(i) /\ Behind(i)
    BY DEF PollInv, OfPages
  <2>2. Conn(i)' = Conn(i)
    BY <1>1 DEF Conn
  <2>3. \A k : Accounted(i, k) => Accounted(i, k)'
    BY <1>1 DEF Accounted
  <2>4. \A k : Mine(i, k)' <=> Mine(i, k)
    BY <1>1 DEF Mine
  <2>5. Waiting(i)'
    BY <1>1, <2>1, <2>2 DEF Waiting
  <2>6. Held(i)'
    BY <1>1, <1>2, <2>1 DEF Held
  <2>7. Flow(i)'
    BY <1>1, <2>1, <2>2, <2>3, <2>4 DEF Flow, Among
  <2>8. Behind(i)'
    BY <1>1, <2>1, <2>2, <2>3, <2>4 DEF Behind, Through
  <2>9. Informed(i)'
    <3>1. clients[i] # None => i \in subs
      BY <1>0 DEF Tables, IndexConsistent, Registered
    <3>2. clients[i] # None => Told(i)' = Told(i)
      BY <1>1, <1>2, <3>1 DEF Told
    <3>. QED
      BY <1>1, <2>1, <2>2, <2>3, <2>4, <3>2 DEF Informed, HandedTo, Among
  <2>. QED
    BY <2>5, <2>6, <2>7, <2>8, <2>9
<1>. QED
  BY <1>5, <1>6, <1>7, <1>9, <1>10 DEF PollInv, OfRequests, OfPages

\* One client is notified: it is written to, after all that went before, and
\* stays registered only with an open socket.
LEMMA NotifyClientStep ==
  ASSUME PollInv, NEW j \in Ids, NotifyClient(j)
  PROVE  PollInv'
<1>0. Types /\ Tables /\ Busy
  BY DEF PollInv
<1>. DEFINE c == clients[j]
            n == notified + 1
            for == c # None /\ j \in log[n]
<1>1. /\ worker.job = "notify" /\ j \in worker.left
      /\ worker' = [worker EXCEPT !.left = worker.left \ {j}]
      /\ UNCHANGED <<log, trimmed, notified, at, req, resp, web, got, base,
                     missed, gone>>
  BY <1>0 DEF NotifyClient, store, pages, history, Types, Jobs
<1>2. ~for => UNCHANGED <<out, open, clients, subs, timers>>
  BY DEF NotifyClient
<1>3. for => /\ at[c] # "added"
             /\ out' = IF c \in open THEN Written(c, AsItems(<<n>>)) ELSE out
             /\ open' = open \/ open' = open \ {c}
             /\ IF c \in open' THEN UNCHANGED <<clients, subs, timers>>
                               ELSE RemoveClient(c)
  BY DEF NotifyClient
<1>4. /\ worker' \in Jobs /\ worker'.job = "notify"
      /\ worker'.left = worker.left \ {j}
  BY <1>0, <1>1 DEF Types, Jobs
<1>5. notified \in Nat /\ n \in Nat /\ n <= Len(log) /\ Len(log) \in Nat
      /\ n \in DOMAIN log
  BY <1>0, <1>1 DEF Types, Busy
<1>6. ASSUME NEW i \in Ids, clients[i] # None
      PROVE  /\ clients[i] \in Conns /\ clients[i][1] = i
             /\ clients[i] \in open
             /\ at[clients[i]] \in {"added", "done"}
  BY <1>0, <1>1, <1>6
     DEF Types, Tables, IndexConsistent, Registered, PollInv, OfPages, Held
<1>7. for => c \in Conns /\ c[1] = j /\ c \in open /\ at[c] = "done"
  BY <1>3, <1>6
<1>8. AsItems(<<n>>) = <<Message(n)>> /\ Message(n) \in Item
  BY <1>5 DEF AsItems, Message, Item
<1>. DEFINE to == for /\ web[j].conn = c
<1>9. /\ out' \in [Ids -> Seq(Item)]
      /\ \A i \in Ids : i # j => out'[i] = out[i]
      /\ to => out'[j] = Append(out[j], Message(n))
      /\ ~to => out'[j] = out[j]
  <2>1. CASE ~for
    BY <1>0, <1>2, <2>1 DEF Types
  <2>2. CASE for
    <3>1. out' = [out EXCEPT ![j] = IF web[j].conn = c
                                    THEN out[j] \o <<Message(n)>> ELSE out[j]]
      BY <1>0, <1>3, <1>7, <1>8, <2>2 DEF Written, Reading, Types
    <3>2. out[j] \in Seq(Item)
      BY <1>0 DEF Types
    <3>3. /\ out[j] \o <<Message(n)>> \in Seq(Item)
          /\ out[j] \o <<Message(n)>> = Append(out[j], Message(n))
      BY <1>8, <3>2
    <3>. HIDE DEF c, n
    <3>. QED
      BY <1>0, <2>2, <3>1, <3>2, <3>3 DEF Types
  <2>. QED
    BY <2>1, <2>2
<1>10. /\ open' \subseteq Conns
       /\ \A d \in open : d \notin open' => for /\ d = c
  BY <1>0, <1>2, <1>3 DEF Types
<1>11. \/ UNCHANGED <<clients, subs, timers>> /\ (for => c \in open')
       \/ RemoveClient(c) /\ for
  BY <1>2, <1>3
<1>12. /\ timers' \in Seq(Conns)
       /\ \A k \in DOMAIN timers' : \E m \in DOMAIN timers :
            timers'[k] = timers[m]
  BY <1>0, <1>11, WithoutIs DEF Types, RemoveClient
<1>13. /\ clients' \in [Ids -> Conns \cup {None}]
       /\ \A i \in Ids : clients'[i] \in {clients[i], None}
       /\ for /\ c \notin open' => clients'[j] = None
  <2>1. CASE UNCHANGED <<clients, subs, timers>> /\ (for => c \in open')
    BY <1>0, <2>1 DEF Types
  <2>2. CASE RemoveClient(c) /\ for
    BY <1>0, <1>7, <2>2 DEF Types, RemoveClient
  <2>. QED
    BY <1>11, <2>1, <2>2
<1>14. subs' \subseteq Ids
  BY <1>0, <1>11 DEF Types, RemoveClient
<1>15. Types'
  BY <1>0, <1>1, <1>4, <1>9, <1>10, <1>12, <1>13, <1>14 DEF Types
<1>16. Busy'
  BY <1>0, <1>1, <1>4, <1>12 DEF Busy
<1>17. Tables'
  BY <1>0, <1>11, Removed, Untouched
<1>18. ASSUME NEW d \in Conns
       PROVE  Bounds(d)' /\ Backlog(d)' /\ Window(d)'
  <2>1. Dispatched' = Dispatched
    BY <1>1, <1>4 DEF Dispatched
  <2>2. at[d] = "adding" /\ d \in open => d \in open'
    BY <1>7, <1>10
  <2>. QED
    BY <1>1, <2>1, <2>2, RequestKept DEF PollInv, OfRequests
<1>19. ASSUME NEW i \in Ids PROVE Held(i)'
  <2>1. CASE clients'[i] = None
    BY <2>1 DEF Held
  <2>2. CASE clients'[i] # None
    <3>1. clients'[i] = clients[i]
      BY <1>13, <2>2
    <3>2. clients[i] \in open'
      <4>1. clients[i] = c /\ for => i = j
        BY <1>6, <1>7, <2>2, <3>1
      <4>. QED
        BY <1>6, <1>10, <1>13, <2>2, <3>1, <4>1
    <3>. QED
      BY <1>1, <1>6, <2>2, <3>1, <3>2 DEF Held
  <2>. QED
    BY <2>1, <2>2
<1>20. ASSUME NEW i \in Ids, ~(i = j /\ to)
       PROVE  Waiting(i)' /\ Flow(i)' /\ Informed(i)' /\ Behind(i)'
  <2>1. Waiting(i) /\ Flow(i) /\ Informed(i) /\ Behind(i)
    BY DEF PollInv, OfPages
  <2>2. PageSame(i)
    BY <1>1, <1>9, <1>20 DEF PageSame
  <2>3. Conn(i) # None /\ clients'[i] = Conn(i) => clients[i] = Conn(i)
    BY <1>13
  <2>4. CASE i # j
    <3>1. Told(i)' = Told(i)
      BY <1>1, <1>4, <2>4 DEF Told
    <3>. QED
      BY <2>1, <2>2, <2>3, <3>1, PageKept, InformedKept
  <2>5. CASE i = j
    <3>1. Told(i) = notified /\ Told(i)' = n
      BY <1>1, <1>4, <2>5 DEF Told
    <3>2. Waiting(i)' /\ Flow(i)' /\ Behind(i)'
      BY <2>1, <2>2, PageKept
    <3>3. Informed(i)'
      <4>1. Conn(i)' = Conn(i) /\ at' = at /\ req' = req /\ out'[i] = out[i]
        BY <1>1, <2>2 DEF PageSame, Conn
      <4>2. \A k : Mine(i, k)' <=> Mine(i, k)
        BY <1>1 DEF Mine
      <4>3. \A k : Accounted(i, k)' <=> Accounted(i, k)
        BY <1>1 DEF Accounted
      <4>4. ASSUME Conn(i) # None, clients'[i] = Conn(i)
            PROVE  ~Mine(i, n) /\ HandedTo(i, notified)
        <5>1. c = web[j].conn /\ c # None
          BY <2>3, <2>5, <4>4 DEF Conn
        <5>2. j \notin log[n]
          BY <1>20, <2>5, <5>1
        <5>. QED
          BY <2>1, <2>3, <2>5, <3>1, <4>4, <5>2 DEF Mine, Informed
      <4>5. \A k \in Nat : k <= n => k = n \/ k <= notified
        BY <1>5
      <4>6. ASSUME Conn(i) # None, clients'[i] = Conn(i)
            PROVE  HandedTo(i, n)
        <5>. HIDE DEF n
        <5>. QED
          BY <4>4, <4>5, <4>6 DEF HandedTo
      <4>. HIDE DEF n
      <4>7. Conn(i) # None /\ clients'[i] = Conn(i)
              => HandedTo(i, Told(i))'
        BY <3>1, <4>1, <4>2, <4>3, <4>6 DEF HandedTo, Among
      <4>8. Conn(i) # None /\ at[Conn(i)] = "adding"
              => HandedTo(i, req[Conn(i)].read)'
        BY <2>1, <4>1, <4>2, <4>3 DEF Informed, HandedTo, Among
      <4>. QED
        BY <4>1, <4>7, <4>8 DEF Informed
    <3>. QED
      BY <3>2, <3>3
  <2>. QED
    BY <2>4, <2>5
<1>21. ASSUME to
       PROVE  Waiting(j)' /\ Flow(j)' /\ Informed(j)' /\ Behind(j)'
  <2>1. Waiting(j) /\ Flow(j) /\ Informed(j) /\ Behind(j)
    BY DEF PollInv, OfPages
  <2>2. c \in Conns /\ c # None /\ at[c] = "done" /\ Conn(j) = c
        /\ Conn(j)' = c /\ web'[j] = web[j]
    BY <1>1, <1>7, <1>21 DEF Conn
  <2>. DEFINE s == out[j]
              r == Append(s, Message(n))
  <2>3. s \in Seq(Item) /\ Len(s) \in Nat
    BY <1>0 DEF Types
  <2>4. out'[j] = r /\ r \in Seq(Item) /\ Len(r) = Len(s) + 1
        /\ r = s \o <<Message(n)>> /\ r[Len(s) + 1] = Message(n)
        /\ \A k \in DOMAIN s : r[k] = s[k]
    BY <1>8, <1>9, <1>21, <2>3
  <2>5. \A k : Mine(j, k)' <=> Mine(j, k)
    BY <1>1 DEF Mine
  <2>6. \A k : Accounted(j, k)' <=> Accounted(j, k)
    BY <1>1 DEF Accounted
  <2>7. HandedTo(j, notified)
    <3>1. Told(j) = notified
      BY <1>1 DEF Told
    <3>. QED
      BY <2>1, <2>2, <3>1 DEF Informed
  <2>. HIDE DEF r, c
  <2>8. ASSUME NEW p \in Nat, NEW k \in 1..Len(s), Among(s, p, k)
        PROVE  Among(r, p, k)
    BY <2>3, <2>4, <2>8 DEF Among
  <2>9. ASSUME NEW p \in Nat, Mine(j, p), req[c].start < p, p <= n
        PROVE  Accounted(j, p) \/ Among(r, p, Len(r))
    <3>1. CASE p = n
      <4>1. Len(s) + 1 \in 1..Len(r)
        BY <2>3, <2>4
      <4>. QED
        BY <2>4, <3>1, <4>1 DEF Among
    <3>2. CASE p # n
      <4>1. p <= notified
        BY <1>5, <2>9, <3>2
      <4>2. Accounted(j, p) \/ Among(s, p, Len(s))
        BY <2>2, <2>7, <2>9, <4>1 DEF HandedTo
      <4>3. Among(s, p, Len(s)) => Among(r, p, Len(r))
        BY <2>3, <2>4 DEF Among
      <4>. QED
        BY <4>2, <4>3
    <3>. QED
      BY <3>1, <3>2
  <2>. HIDE DEF n
  <2>10. ASSUME NEW k \in DOMAIN r, k \notin DOMAIN s
         PROVE  k = Len(r) /\ r[k] = Message(n) /\ r[k].id = n
    BY <2>3, <2>4, <2>10 DEF Message
  <2>11. Waiting(j)'
    <3>1. \A k \in DOMAIN r : r[k].id <= Len(log)
      <4>1. \A k \in DOMAIN s : s[k].id <= Len(log)
        BY <2>1 DEF Waiting
      <4>. QED
        BY <1>5, <2>4, <2>10, <4>1
    <3>2. at[c] \notin Early
      BY <2>2 DEF Early
    <3>. HIDE DEF s
    <3>. QED
      BY <1>1, <2>1, <2>2, <2>4, <3>1, <3>2 DEF Waiting
  <2>12. Flow(j)'
    <3>1. ASSUME NEW k \in DOMAIN r, NEW p \in Nat, Mine(j, p),
                 req[c].start < p, p <= r[k].id
          PROVE  Accounted(j, p) \/ Among(r, p, k)
      <4>1. CASE k \in DOMAIN s
        <5>1. Accounted(j, p) \/ Among(s, p, k)
          BY <2>1, <2>2, <2>4, <3>1, <4>1 DEF Flow
        <5>2. k \in 1..Len(s)
          BY <2>3, <4>1
        <5>. QED
          BY <2>8, <5>1, <5>2
      <4>2. CASE k \notin DOMAIN s
        BY <2>9, <2>10, <3>1, <4>2
      <4>. QED
        BY <4>1, <4>2
    <3>. QED
      BY <1>1, <2>2, <2>4, <2>5, <2>6, <3>1 DEF Flow
  <2>13. Informed(j)'
    <3>1. Told(j)' = n
      BY <1>1, <1>4 DEF Told, n
    <3>2. HandedTo(j, Told(j))'
      BY <1>1, <2>2, <2>4, <2>5, <2>6, <2>9, <3>1 DEF HandedTo
    <3>. QED
      BY <1>1, <2>2, <3>2 DEF Informed
  <2>14. Behind(j)'
    BY <1>1, <2>1, <2>2, <2>5, <2>6 DEF Behind, Through
  <2>. QED
    BY <2>11, <2>12, <2>13, <2>14
<1>. QED
  BY <1>15, <1>16, <1>17, <1>18, <1>19, <1>20, <1>21
     DEF PollInv, OfRequests, OfPages

-----------------------------------------------------------------------------
(* The theorems.                                                           *)

LEMMA PollNext == PollInv /\ [Next]_vars => PollInv'
<1>. SUFFICES ASSUME PollInv, [Next]_vars PROVE PollInv'
  OBVIOUS
<1>1. ASSUME NEW c \in Conns, Request(c) \/ HijackFails(c)
      PROVE  PollInv'
  BY <1>1, CountClientsStep, ReadLastIdsStep, ReadBacklogStep, RespondNowStep,
     HijackStep, HijackFailsStep, AddClientStep, SetTimerStep DEF Request
<1>2. ASSUME NEW i \in Ids, Page(i) \/ Abort(i)
      PROVE  PollInv'
  BY <1>2, PollStep, ReceiveStep, CompleteStep, AbortStep DEF Page
<1>3. ASSUME NEW audience \in SUBSET Ids, Publish(audience) \/ Trim
      PROVE  PollInv'
  BY <1>3, PublishStep, TrimStep
<1>4. CASE Work
  BY <1>4, NotifyBeginStep, NotifyClientStep, NotifyEndStep, TimerFiresStep,
     CleanUpCloseStep, CleanUpRemoveStep DEF Work
<1>5. CASE Finished \/ UNCHANGED vars
  <2>1. UNCHANGED vars
    BY <1>5 DEF Finished
  <2>. QED
    BY <2>1 DEF vars, store, PollInv, Types, Tables, IndexConsistent,
       Registered, Busy, OfRequests, Bounds, Backlog, Window, Dispatched,
       OfPages, Waiting, Conn, Held, Flow, Informed, HandedTo, Told, Behind,
       Through, Accounted, Mine, Among
<1>. QED
  BY <1>1, <1>2, <1>3, <1>4, <1>5 DEF Next

LEMMA PollInvariant == Spec => []PollInv
BY PollInit, PollNext, PTL DEF Spec

\* Every variable keeps its type: in particular no backlog is read from a
\* position before the first message (client.rb:175-206).
THEOREM TypeCorrect == Spec => []TypeOK
<1>1. PollInv => TypeOK
  <2>. SUFFICES ASSUME PollInv PROVE TypeOK
    OBVIOUS
  <2>1. Types
    BY DEF PollInv
  <2>2. /\ worker.job \in {"idle", "notify", "close", "remove"}
        /\ worker.conn \in Conns \cup {None}
        /\ worker.left \subseteq Ids
    BY <2>1 DEF Types, Jobs
  <2>3. notified \in 0..Len(log) /\ trimmed \in 0..Len(log)
    BY <2>1 DEF Types
  <2>. QED
    BY <2>1, <2>2, <2>3 DEF Types, TypeOK, Places, Requests, Webs
<1>. QED
  BY <1>1, PollInvariant, PTL

\* What Client#backlog returns moves no page past a message that is retained,
\* that it may receive and is not given, whatever is published or trimmed
\* between its reads (client.rb:175-221).
THEOREM BacklogNeverSkipsAlways == Spec => []BacklogNeverSkips
<1>1. PollInv => BacklogNeverSkips
  <2>. SUFFICES ASSUME PollInv, NEW c \in Conns, at[c] = "scanned",
                       NEW k \in DOMAIN resp[c], NEW n \in 1..resp[c][k].id,
                       n > req[c].start, c[1] \in log[n],
                       <<c[1], n>> \notin gone
                PROVE  Message(n) \in ToSet(resp[c])
    BY DEF BacklogNeverSkips, Message
  <2>1. resp[c] \in Seq(Item) /\ log \in Seq(SUBSET Ids)
        /\ req[c] \in Requests
    BY DEF PollInv, Types
  <2>2. resp[c][k].id \in Nat /\ resp[c][k].id <= Len(log) /\ Backlog(c)
    <3>1. resp[c][k] \in Item
      BY <2>1
    <3>. QED
      BY <3>1 DEF PollInv, OfRequests, Backlog, Item
  <2>3. n \in Nat /\ n <= resp[c][k].id /\ n \in DOMAIN log
        /\ req[c].start < n
    BY <2>1, <2>2 DEF Requests
  <2>4. Among(resp[c], n, k)
    BY <2>2, <2>3 DEF Backlog, Mine
  <2>5. PICK m \in 1..k : resp[c][m] = Message(n)
    BY <2>4 DEF Among
  <2>6. m \in DOMAIN resp[c]
    BY <2>1, <2>5
  <2>. QED
    BY <2>5, <2>6 DEF ToSet
<1>. QED
  BY <1>1, PollInvariant, PTL

\* A page passes over a message it may receive only if the message was no longer
\* retained when a poll asked for it, or was dispatched while a long poll of the
\* page had done its reads and was not yet registered: aborted polls, polls that
\* supersede one another, clean-ups that remove a newer connection and late
\* notifications lose none (middleware.rb:67-229, connection_manager.rb:22-95).
THEOREM LossOnlyInWindowAlways == Spec => []LossOnlyInWindow
<1>1. PollInv => LossOnlyInWindow
  <2>. SUFFICES ASSUME PollInv, NEW i \in Ids, base[i] # None,
                       NEW n \in DOMAIN log,
                       base[i] < n, n <= web[i].last, i \in log[n]
                PROVE  n \in got[i] \/ <<i, n>> \in missed \cup gone
    BY DEF LossOnlyInWindow
  <2>1. n \in Nat
    BY DEF PollInv, Types
  <2>2. Through(i, web[i].last)
    BY DEF PollInv, OfPages, Behind
  <2>. QED
    BY <2>1, <2>2 DEF Through, Mine, Accounted
<1>. QED
  BY <1>1, PollInvariant, PTL

\* A client is in the channel's set exactly when it is registered, and under
\* its own id, however requests, notifications and clean-ups interleave
\* (connection_manager.rb:53-95).
THEOREM IndexConsistentAlways == Spec => []IndexConsistent
<1>1. Tables => IndexConsistent
  BY DEF Tables
<1>. QED
  BY <1>1, TablesInit, TablesStep, PTL DEF Spec
=============================================================================

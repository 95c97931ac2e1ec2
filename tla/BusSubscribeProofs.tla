------------------------- MODULE BusSubscribeProofs -------------------------
(***************************************************************************)
(* Theorems about BusSubscribe, for every set of callbacks and any number  *)
(* of messages and errors.                                                 *)
(***************************************************************************)
EXTENDS BusSubscribe, SequenceTheorems, TLAPS

\* A subscribing thread that has not put its callback in an array yet.
Early(k) == pc[k] \in {"idle", "replay", "lookup", "create", "append"}

\* The array that callers change.
Table == IF array = Nil THEN <<>> ELSE array

\* The array a walk goes through, or would.
Route == IF walk.own = Nil THEN Table ELSE walk.own

\* Where the subscriber thread and the subscribing threads may be.
Placed ==
  /\ thread # "live" => taken = 0 /\ ~Walking
  /\ thread # "none" => array # Nil
  /\ Walking => walk.msg = taken /\ walk.pos >= 1
  /\ \A k \in Callbacks : pc[k] \in {"append", "ensure", "on"} => array # Nil
  /\ \A k \in Callbacks : pc[k] = "replay" => lastId[k] >= 0

\* A callback is in one array at most, once, and in none before its thread has
\* put it there.
Distinct(s) == \A i, j \in DOMAIN s : s[i] = s[j] => i = j

Apart ==
  /\ Distinct(Table) /\ Distinct(Route)
  /\ walk.own # Nil => ToSet(Table) \cap ToSet(Route) = {}
  /\ \A k \in Callbacks : Early(k) => k \notin ToSet(Table) \cup ToSet(Route)

\* A callback that was not called yet has its closure as the thread made it.
Untouched ==
  /\ \A k \in Callbacks : Early(k) => ~justYield[k]
  /\ \A k \in Callbacks :
       Early(k) /\ (pc[k] = "idle" \/ lastId[k] = -1) =>
         currentId[k] = Nil /\ given[k] = <<>>
  /\ thread # "live" => \A k \in Callbacks : ~justYield[k]
  /\ Walking /\ walk.own # Nil => \A k \in ToSet(Table) : ~justYield[k]

Structure == TypeOK /\ Placed /\ Apart /\ Untouched

\* Every retained message after k's last_id and up to n was given to k, or the
\* walk of it passed over k.
GivenUpTo(k, n) ==
  \A i \in (lastId[k] + 1)..n :
    i >= first => i \in ToSet(given[k]) \/ <<k, i>> \in skipped

\* What was replayed is complete up to current_id.
ReplaysComplete ==
  \A k \in Callbacks :
    lastId[k] >= 0 /\ currentId[k] # Nil => GivenUpTo(k, currentId[k])

\* A callback whose replays are over was given everything dispatched.
DispatchComplete ==
  \A k \in ToSet(Table) :
    lastId[k] >= 0 /\ justYield[k] => GivenUpTo(k, Dispatched)

\* The callbacks the walk is past were given its message too.
WalkComplete ==
  Walking /\ walk.own = Nil =>
    \A i \in DOMAIN Table :
      i < walk.pos /\ lastId[Table[i]] >= 0 /\ justYield[Table[i]] =>
        GivenUpTo(Table[i], walk.msg)

Complete == ReplaysComplete /\ DispatchComplete /\ WalkComplete

\* A block that is called directly was given nothing after the last message
\* taken, ...
NotAhead ==
  \A k \in Callbacks :
    Direct(k) /\ given[k] # <<>> => Last(given[k]) <= taken

\* ... and not yet the current one, if the walk has still to come to it.
StillToCome ==
  Walking =>
    \A i \in DOMAIN Route :
      i >= walk.pos /\ Direct(Route[i]) /\ given[Route[i]] # <<>> =>
        Last(given[Route[i]]) < walk.msg

InOrder == NotAhead /\ StillToCome

BusInv == Structure /\ Complete /\ InOrder

-----------------------------------------------------------------------------
(* Sequences.                                                              *)

LEMMA ToSetOf ==
  ASSUME NEW S, NEW s \in Seq(S)
  PROVE  /\ ToSet(s) \subseteq S
         /\ \A x \in ToSet(s) : \E i \in 1..Len(s) : s[i] = x
         /\ \A i \in 1..Len(s) : s[i] \in ToSet(s)
         /\ Len(s) \in Nat /\ DOMAIN s = 1..Len(s)
<1>1. Len(s) \in Nat /\ DOMAIN s = 1..Len(s)
  BY LenProperties
<1>2. \A i \in 1..Len(s) : s[i] \in S
  BY ElementOfSeq
<1>. QED BY <1>1, <1>2 DEF ToSet

\* What a block was given, and what comes next.
LEMMA Concatenated ==
  ASSUME NEW S, NEW s \in Seq(S), NEW t \in Seq(S)
  PROVE  /\ s \o t \in Seq(S)
         /\ ToSet(s \o t) = ToSet(s) \cup ToSet(t)
         /\ t # <<>> => s \o t # <<>> /\ Last(s \o t) = Last(t)
         /\ t = <<>> => s \o t = s
<1>. DEFINE c == s \o t
<1>1. /\ c \in Seq(S) /\ Len(c) = Len(s) + Len(t)
      /\ \A i \in 1..(Len(s) + Len(t)) :
           c[i] = IF i <= Len(s) THEN s[i] ELSE t[i - Len(s)]
  BY ConcatProperties
<1>2. t = <<>> => c = s
  BY ConcatEmptySeq
<1>3. t # <<>> => Len(t) \in Nat \ {0}
  BY EmptySeq
<1>4. Len(<<>>) = 0
  BY EmptySeq
<1>5. Len(s) \in Nat /\ Len(t) \in Nat
  BY LenProperties
<1>. HIDE DEF c
<1>6. ToSet(c) \subseteq ToSet(s) \cup ToSet(t)
  <2>1. SUFFICES ASSUME NEW x \in ToSet(c) PROVE x \in ToSet(s) \cup ToSet(t)
    OBVIOUS
  <2>2. PICK i \in 1..Len(c) : c[i] = x
    BY <1>1, ToSetOf
  <2>3. CASE i <= Len(s)
    <3>1. i \in 1..Len(s) /\ x = s[i]
      BY <1>1, <1>5, <2>2, <2>3
    <3>. QED BY <3>1, ToSetOf
  <2>4. CASE ~(i <= Len(s))
    <3>1. (i - Len(s)) \in 1..Len(t) /\ x = t[i - Len(s)]
      BY <1>1, <1>5, <2>2, <2>4
    <3>. QED BY <3>1, ToSetOf
  <2>. QED BY <2>3, <2>4
<1>7. ToSet(s) \subseteq ToSet(c)
  <2>1. SUFFICES ASSUME NEW x \in ToSet(s) PROVE x \in ToSet(c)
    OBVIOUS
  <2>2. PICK i \in 1..Len(s) : s[i] = x
    BY ToSetOf
  <2>3. i \in 1..Len(c) /\ c[i] = x
    BY <1>1, <1>5, <2>2
  <2>. QED BY <1>1, <2>3, ToSetOf
<1>8. ToSet(t) \subseteq ToSet(c)
  <2>1. SUFFICES ASSUME NEW x \in ToSet(t) PROVE x \in ToSet(c)
    OBVIOUS
  <2>2. PICK i \in 1..Len(t) : t[i] = x
    BY ToSetOf
  <2>3. /\ (Len(s) + i) \in 1..(Len(s) + Len(t))
        /\ ~(Len(s) + i <= Len(s)) /\ (Len(s) + i) - Len(s) = i
    BY <1>5, <2>2
  <2>4. (Len(s) + i) \in 1..Len(c) /\ c[Len(s) + i] = x
    BY <1>1, <2>2, <2>3
  <2>. QED BY <1>1, <2>4, ToSetOf
<1>9. t # <<>> => c # <<>> /\ Last(c) = Last(t)
  BY <1>1, <1>3, <1>4, <1>5 DEF Last
<1>. QED BY <1>1, <1>2, <1>6, <1>7, <1>8, <1>9 DEF c

LEMMA AppendedSet ==
  ASSUME NEW S, NEW s \in Seq(S), NEW x \in S
  PROVE  /\ Append(s, x) \in Seq(S)
         /\ Len(Append(s, x)) = Len(s) + 1
         /\ \A i \in 1..Len(s) : Append(s, x)[i] = s[i]
         /\ Append(s, x)[Len(s) + 1] = x
         /\ ToSet(Append(s, x)) = ToSet(s) \cup {x}
<1>. DEFINE t == Append(s, x)
<1>1. /\ t \in Seq(S) /\ Len(t) = Len(s) + 1
      /\ \A i \in 1..Len(s) : t[i] = s[i]
      /\ t[Len(s) + 1] = x
  BY AppendProperties
<1>2. Len(s) \in Nat /\ DOMAIN s = 1..Len(s)
  BY LenProperties
<1>3. DOMAIN t = 1..Len(t)
  BY <1>1, LenProperties
<1>. HIDE DEF t
<1>4. 1..Len(t) = 1..Len(s) \cup {Len(s) + 1}
  BY <1>1, <1>2
<1>5. ToSet(t) = ToSet(s) \cup {x}
  BY <1>1, <1>2, <1>3, <1>4 DEF ToSet
<1>. QED BY <1>1, <1>5 DEF t

LEMMA Removed ==
  ASSUME NEW S, NEW s \in Seq(S), NEW i \in DOMAIN s
  PROVE  /\ RemoveAt(s, i) \in Seq(S)
         /\ Len(RemoveAt(s, i)) = Len(s) - 1
         /\ \A j \in 1..(Len(s) - 1) :
              RemoveAt(s, i)[j] = IF j < i THEN s[j] ELSE s[j + 1]
         /\ ToSet(RemoveAt(s, i)) \subseteq ToSet(s)
<1>. DEFINE a == SubSeq(s, 1, i - 1)
            b == SubSeq(s, i + 1, Len(s))
<1>1. Len(s) \in Nat /\ DOMAIN s = 1..Len(s)
  BY LenProperties
<1>2. \A j \in 1..Len(s) : s[j] \in S
  BY ElementOfSeq
<1>3. /\ a \in Seq(S) /\ Len(a) = i - 1
      /\ \A j \in 1..(i - 1) : a[j] = s[j]
  <2>1. /\ a \in Seq(S)
        /\ Len(a) = IF 1 <= i - 1 THEN (i - 1) - 1 + 1 ELSE 0
        /\ \A j \in 1..((i - 1) - 1 + 1) : a[j] = s[1 + j - 1]
    <3>1. \A j \in 1..(i - 1) : s[j] \in S
      BY <1>1, <1>2
    <3>2. i - 1 \in Int /\ 1 \in Int
      BY <1>1
    <3>. HIDE DEF a
    <3>. QED BY <3>1, <3>2, SubSeqProperties DEF a
  <2>. QED BY <1>1, <2>1
<1>4. /\ b \in Seq(S) /\ Len(b) = Len(s) - i
      /\ \A j \in 1..(Len(s) - i) : b[j] = s[i + j]
  <2>1. /\ b \in Seq(S)
        /\ Len(b) = IF i + 1 <= Len(s) THEN Len(s) - (i + 1) + 1 ELSE 0
        /\ \A j \in 1..(Len(s) - (i + 1) + 1) : b[j] = s[(i + 1) + j - 1]
    <3>1. \A j \in (i + 1)..Len(s) : s[j] \in S
      BY <1>1, <1>2
    <3>2. i + 1 \in Int /\ Len(s) \in Int
      BY <1>1
    <3>. HIDE DEF b
    <3>. QED BY <3>1, <3>2, SubSeqProperties DEF b
  <2>. QED BY <1>1, <2>1
<1>. HIDE DEF a, b
<1>. DEFINE t == a \o b
<1>5. /\ t \in Seq(S) /\ Len(t) = Len(a) + Len(b)
      /\ \A j \in 1..(Len(a) + Len(b)) :
           t[j] = IF j <= Len(a) THEN a[j] ELSE b[j - Len(a)]
  BY <1>3, <1>4, ConcatProperties
<1>. HIDE DEF t
<1>6. t = RemoveAt(s, i)
  BY DEF t, a, b, RemoveAt
<1>7. Len(t) = Len(s) - 1
  BY <1>1, <1>3, <1>4, <1>5
<1>8. ASSUME NEW j \in 1..(Len(s) - 1)
      PROVE  t[j] = IF j < i THEN s[j] ELSE s[j + 1]
  <2>1. j \in 1..(Len(a) + Len(b)) /\ Len(a) = i - 1
    BY <1>1, <1>3, <1>4
  <2>2. CASE j < i
    <3>1. j <= Len(a) /\ j \in 1..(i - 1)
      BY <1>1, <2>1, <2>2
    <3>. QED BY <1>3, <1>5, <2>1, <2>2, <3>1
  <2>3. CASE ~(j < i)
    <3>1. /\ ~(j <= Len(a)) /\ (j - Len(a)) \in 1..(Len(s) - i)
          /\ i + (j - Len(a)) = j + 1
      BY <1>1, <2>1, <2>3
    <3>. QED BY <1>4, <1>5, <2>1, <2>3, <3>1
  <2>. QED BY <2>2, <2>3
<1>9. ToSet(t) \subseteq ToSet(s)
  <2>1. SUFFICES ASSUME NEW x \in ToSet(t) PROVE x \in ToSet(s)
    OBVIOUS
  <2>2. PICK j \in 1..Len(t) : t[j] = x
    BY <1>5, ToSetOf
  <2>3. \E n \in 1..Len(s) : s[n] = x
    BY <1>1, <1>7, <1>8, <2>2
  <2>. QED BY <2>3, ToSetOf
<1>. QED BY <1>5, <1>6, <1>7, <1>8, <1>9

LEMMA Prefix ==
  ASSUME NEW S, NEW s \in Seq(S), NEW n \in DOMAIN s
  PROVE  SubSeq(s, 1, n) \in Seq(S)
<1>1. n \in 1..Len(s) /\ Len(s) \in Nat
  BY LenProperties
<1>2. \A i \in 1..Len(s) : s[i] \in S
  BY ElementOfSeq
<1>3. n \in Int /\ 1 \in Int /\ \A i \in 1..n : s[i] \in S
  BY <1>1, <1>2
<1>. QED BY <1>3, SubSeqProperties

\* What a replay reads: the retained messages after last, up to the newest.
LEMMA BacklogIs ==
  ASSUME BusAssumption, log \in Nat, first \in 1..(log + 1),
         NEW last \in 0..log \cup {Nil}
  PROVE  /\ Backlog(last) \in Seq(1..log)
         /\ Backlog(last) # <<>> =>
              Replayed(Backlog(last)) = log /\ Last(Backlog(last)) = log
         /\ \A n \in 1..log :
              n >= first /\ (last # Nil => n > last) =>
                n \in ToSet(Backlog(last))
<1>. DEFINE after == IF last = Nil THEN 0 ELSE last
            from == IF after + 1 < first THEN first ELSE after + 1
            all == [n \in 1..log |-> n]
            ids == SubSeq(all, from, log)
<1>1. Backlog(last) = ids
  BY DEF Backlog
<1>2. after \in 0..log /\ (last # Nil => after = last)
  BY DEF BusAssumption
<1>. HIDE DEF after
<1>3. from \in 1..(log + 1)
  BY <1>2
<1>4. \A n \in 1..log : n >= first /\ (last # Nil => n > last) => n >= from
  BY <1>2, <1>3 DEF after
<1>. HIDE DEF from
<1>5. \A n \in from..log : all[n] = n /\ all[n] \in 1..log
  BY <1>3
<1>. HIDE DEF all
<1>6. /\ ids \in Seq(1..log)
      /\ Len(ids) = IF from <= log THEN log - from + 1 ELSE 0
      /\ \A i \in 1..(log - from + 1) : ids[i] = all[from + i - 1]
  <2>1. from \in Int /\ log \in Int /\ \A i \in from..log : all[i] \in 1..log
    BY <1>3, <1>5
  <2>. HIDE DEF ids
  <2>. QED BY <2>1, SubSeqProperties DEF ids
<1>. HIDE DEF ids
<1>7. ASSUME NEW i \in 1..(log - from + 1) PROVE ids[i] = from + i - 1
  <2>1. (from + i - 1) \in from..log
    BY <1>3
  <2>. QED BY <1>5, <1>6, <2>1
<1>8. ids # <<>> => Len(ids) \in Nat \ {0}
  BY <1>6, EmptySeq
<1>9. ids # <<>> => Last(ids) = log /\ Replayed(ids) = log
  BY <1>3, <1>6, <1>7, <1>8 DEF Last, Replayed
<1>10. ASSUME NEW n \in from..log PROVE n \in ToSet(ids)
  <2>1. n - from + 1 \in 1..Len(ids) /\ ids[n - from + 1] = n
    BY <1>3, <1>6, <1>7
  <2>. QED BY <1>6, <2>1, ToSetOf
<1>11. \A n \in 1..log :
         n >= first /\ (last # Nil => n > last) => n \in ToSet(ids)
  <2>1. \A n \in 1..log : n >= from => n \in from..log
    BY <1>3
  <2>. QED BY <1>4, <1>10, <2>1
<1>. QED BY <1>1, <1>6, <1>9, <1>11

-----------------------------------------------------------------------------
(* What a step does to a block and its closure.                            *)

Call(k) == CallDirect(k) \/ CallNext(k) \/ CallReplay(k) \/ CallRaises(k)

LEMMA Types ==
  ASSUME TypeOK
  PROVE  /\ log \in Nat /\ first \in 1..(log + 1) /\ taken \in 0..log
         /\ walk.msg \in 0..log /\ walk.pos \in Nat
         /\ walk.own \in Seq(Callbacks) \cup {Nil}
         /\ walk = [msg |-> walk.msg, pos |-> walk.pos, own |-> walk.own]
         /\ array \in Seq(Callbacks) \cup {Nil}
         /\ Table \in Seq(Callbacks) /\ Route \in Seq(Callbacks)
         /\ lastId \in [Callbacks -> -1..log]
         /\ currentId \in [Callbacks -> 1..log \cup {Nil}]
         /\ justYield \in [Callbacks -> BOOLEAN]
         /\ given \in [Callbacks -> Seq(1..log)]
<1>1. <<>> \in Seq(Callbacks)
  BY EmptySeq
<1>2. walk \in [msg : 0..log, pos : Nat, own : Seq(Callbacks) \cup {Nil}]
  BY DEF TypeOK
<1>3. /\ walk.msg \in 0..log /\ walk.pos \in Nat
      /\ walk.own \in Seq(Callbacks) \cup {Nil}
      /\ walk = [msg |-> walk.msg, pos |-> walk.pos, own |-> walk.own]
  BY <1>2
<1>4. log \in Nat
  BY BusAssumption DEF BusAssumption, TypeOK
<1>. QED BY <1>1, <1>3, <1>4 DEF TypeOK, Table, Route

\* The walk is at k.
LEMMA AtCall ==
  ASSUME Structure, NEW k \in Callbacks, Calling(k)
  PROVE  /\ Walking /\ walk.msg = taken /\ walk.msg \in 1..log
         /\ walk.pos \in 1..Len(Route) /\ Route[walk.pos] = k
         /\ k \in ToSet(Route) /\ ~Early(k)
         /\ walk' = [msg |-> walk.msg, pos |-> walk.pos + 1, own |-> walk.own]
         /\ walk'.msg = walk.msg /\ walk'.pos = walk.pos + 1
         /\ walk'.own = walk.own /\ Table' = Table /\ Route' = Route
         /\ UNCHANGED <<log, first, thread, taken, array, pc, lastId, skipped>>
<1>1. TypeOK
  BY DEF Structure
<1>2. /\ walk.msg \in 0..log /\ walk.pos \in Nat /\ log \in Nat
      /\ Route \in Seq(Callbacks) /\ walk.msg > 0
      /\ walk = [msg |-> walk.msg, pos |-> walk.pos, own |-> walk.own]
  BY <1>1, Types DEF Calling, Walking
<1>3. walk.msg = taken /\ walk.pos >= 1 /\ thread = "live"
  BY DEF Structure, Placed, Calling
<1>4. Walked = Route
  BY <1>3 DEF Walked, Route, Table, Structure, Placed
<1>5. walk.pos \in 1..Len(Route) /\ Route[walk.pos] = k
  BY <1>2, <1>3, <1>4, LenProperties DEF Calling
<1>6. k \in ToSet(Route)
  BY <1>2, <1>5, ToSetOf
<1>7. ~Early(k)
  BY <1>6 DEF Structure, Apart
<1>8. walk' = [msg |-> walk.msg, pos |-> walk.pos + 1, own |-> walk.own]
  BY <1>2 DEF Calling
<1>9. /\ walk'.msg = walk.msg /\ walk'.pos = walk.pos + 1
      /\ walk'.own = walk.own
  BY <1>8
<1>10. Table' = Table /\ Route' = Route
  BY <1>9 DEF Calling, Table, Route
<1>. QED
  BY <1>2, <1>3, <1>5, <1>6, <1>7, <1>8, <1>9, <1>10 DEF Calling, Walking

\* The block is given ids, and its closure is left with c and b.
Effect(k, ids, c, b) ==
  /\ given' = [given EXCEPT ![k] = @ \o ids]
  /\ currentId' = [currentId EXCEPT ![k] = c]
  /\ justYield' = [justYield EXCEPT ![k] = b]

\* Everything retained after the replayed messages and up to n is in ids.
Continues(k, ids, n) ==
  \A i \in 1..n :
    i >= first /\ (currentId[k] # Nil => i > currentId[k]) => i \in ToSet(ids)

LEMMA CallEffect ==
  ASSUME Structure, NEW k \in Callbacks, Call(k)
  PROVE  \E ids \in Seq(1..log), c \in 1..log \cup {Nil}, b \in BOOLEAN :
           /\ Effect(k, ids, c, b)
           /\ Direct(k) => ids = <<walk.msg>> /\ b = justYield[k]
           /\ b /\ ~Direct(k) => /\ ids # <<>> /\ Last(ids) = walk.msg
                                 /\ Continues(k, ids, walk.msg)
           /\ \/ c = currentId[k]
              \/ c = Nil
              \/ c = log /\ Continues(k, ids, log)
<1>1. Calling(k) /\ TypeOK
  BY DEF Call, CallDirect, CallNext, CallReplay, CallRaises, Structure
<1>2. walk.msg \in 1..log /\ log \in Nat /\ first \in 1..(log + 1)
  BY <1>1, AtCall, Types
<1>3. /\ currentId \in [Callbacks -> 1..log \cup {Nil}]
      /\ justYield \in [Callbacks -> BOOLEAN]
      /\ given \in [Callbacks -> Seq(1..log)]
  BY <1>1, Types
<1>4. /\ currentId = [currentId EXCEPT ![k] = currentId[k]]
      /\ justYield = [justYield EXCEPT ![k] = justYield[k]]
      /\ currentId[k] \in 1..log \cup {Nil} /\ justYield[k] \in BOOLEAN
  BY <1>3
<1>5. /\ <<walk.msg>> \in Seq(1..log) /\ <<walk.msg>> # <<>>
      /\ Last(<<walk.msg>>) = walk.msg /\ walk.msg \in ToSet(<<walk.msg>>)
  BY <1>2 DEF Last, ToSet
<1>6. currentId[k] \in 0..log \cup {Nil}
  BY <1>2, <1>4
<1>7. /\ Backlog(currentId[k]) \in Seq(1..log)
      /\ Backlog(currentId[k]) # <<>> =>
           /\ Replayed(Backlog(currentId[k])) = log
           /\ Last(Backlog(currentId[k])) = log
      /\ Continues(k, Backlog(currentId[k]), log)
  BY <1>2, <1>6, BusAssumption, BacklogIs DEF Continues
<1>8. Direct(k) => justYield[k] \/ lastId[k] = -1
  BY DEF Direct
<1>9. ~Direct(k) => ~justYield[k]
  BY DEF Direct
<1>10. CASE CallDirect(k)
  <2>1. Effect(k, <<walk.msg>>, currentId[k], justYield[k]) /\ Direct(k)
    BY <1>4, <1>10 DEF CallDirect, Give, Effect, closures
  <2>. QED BY <1>4, <1>5, <2>1
<1>11. CASE CallNext(k)
  <2>1. /\ Effect(k, <<walk.msg>>, currentId[k], TRUE) /\ ~Direct(k)
        /\ currentId[k] # Nil /\ currentId[k] = walk.msg - 1
    BY <1>4, <1>11 DEF CallNext, Give, Effect, Follows
  <2>2. Continues(k, <<walk.msg>>, walk.msg)
    BY <1>2, <1>5, <2>1 DEF Continues
  <2>. QED BY <1>4, <1>5, <2>1, <2>2
<1>12. CASE CallReplay(k)
  <2>. DEFINE ids == Backlog(currentId[k])
  <2>1. /\ Effect(k, ids, Replayed(ids), Replayed(ids) = walk.msg)
        /\ ~Direct(k)
    BY <1>12 DEF CallReplay, Give, Effect
  <2>2. ids \in Seq(1..log) /\ Continues(k, ids, log)
    BY <1>7
  <2>3. ids = <<>> => Replayed(ids) = Nil
    BY DEF Replayed
  <2>4. ids # <<>> => Replayed(ids) = log /\ Last(ids) = log
    BY <1>7
  <2>. HIDE DEF ids
  <2>. DEFINE c == Replayed(ids)
              b == (c = walk.msg)
  <2>5. c \in 1..log \cup {Nil} /\ b \in BOOLEAN
    BY <1>2, <2>3, <2>4
  <2>6. /\ c = Nil \/ (c = log /\ Continues(k, ids, log))
        /\ b => c # Nil
    BY <1>2, <2>2, <2>3, <2>4, BusAssumption
  <2>7. Effect(k, ids, c, b)
    BY <2>1
  <2>8. b => ids # <<>> /\ Last(ids) = walk.msg /\ walk.msg = log
    BY <2>3, <2>4, <2>6
  <2>. HIDE DEF c, b
  <2>. QED BY <2>1, <2>2, <2>5, <2>6, <2>7, <2>8
<1>13. CASE CallRaises(k)
  <2>1. \E ids \in Seq(1..log) :
          /\ given' = [given EXCEPT ![k] = @ \o ids]
          /\ Direct(k) => ids = <<walk.msg>>
    <3>1. CASE Give(k, <<walk.msg>>)
      BY <1>5, <3>1 DEF Give
    <3>2. CASE /\ ~Direct(k)
               /\ \E n \in DOMAIN Backlog(currentId[k]) :
                    Give(k, SubSeq(Backlog(currentId[k]), 1, n))
      <4>. DEFINE ids == Backlog(currentId[k])
      <4>1. ids \in Seq(1..log)
        BY <1>7
      <4>2. PICK n \in DOMAIN ids : Give(k, SubSeq(ids, 1, n))
        BY <3>2
      <4>. HIDE DEF ids
      <4>3. SubSeq(ids, 1, n) \in Seq(1..log)
        BY <4>1, Prefix
      <4>. QED BY <3>2, <4>2, <4>3 DEF Give
    <3>. QED BY <1>13, <3>1, <3>2 DEF CallRaises
  <2>2. PICK ids \in Seq(1..log) :
          /\ given' = [given EXCEPT ![k] = @ \o ids]
          /\ Direct(k) => ids = <<walk.msg>>
    BY <2>1
  <2>3. Effect(k, ids, currentId[k], justYield[k])
    BY <1>4, <1>13, <2>2 DEF CallRaises, Effect, closures
  <2>. QED BY <1>4, <1>9, <2>2, <2>3
<1>. QED BY <1>10, <1>11, <1>12, <1>13 DEF Call

\* The first replay, raising or not.
LEMMA ReplayEffect ==
  ASSUME Structure, NEW k \in Callbacks, Replay(k) \/ ReplayRaises(k)
  PROVE  /\ pc[k] = "replay" /\ lastId[k] >= 0
         /\ \E l \in {"lookup", "off"} : pc' = [pc EXCEPT ![k] = l]
         /\ UNCHANGED <<log, first, thread, taken, walk, array, lastId,
                        justYield, skipped>>
         /\ raises' \in 0..MaxRaises
         /\ \E ids \in Seq(1..log), c \in 1..log \cup {Nil} :
              /\ given' = [given EXCEPT ![k] = @ \o ids]
              /\ currentId' = [currentId EXCEPT ![k] = c]
              /\ \/ c = currentId[k]
                 \/ c = Nil
                 \/ /\ c = log
                    /\ \A i \in 1..log :
                         i >= first /\ i > lastId[k] => i \in ToSet(ids)
<1>1. TypeOK
  BY DEF Structure
<1>2. log \in Nat /\ first \in 1..(log + 1)
  BY <1>1, Types
<1>3. /\ currentId \in [Callbacks -> 1..log \cup {Nil}]
      /\ lastId \in [Callbacks -> -1..log]
      /\ raises \in 0..MaxRaises
  BY <1>1, Types DEF TypeOK
<1>4. pc[k] = "replay" /\ lastId[k] >= 0
  BY DEF Structure, Placed, Replay, ReplayRaises
<1>5. lastId[k] \in 0..log /\ lastId[k] # Nil
  BY <1>2, <1>3, <1>4, BusAssumption DEF BusAssumption
<1>. DEFINE ids == Backlog(lastId[k])
<1>6. /\ ids \in Seq(1..log)
      /\ ids # <<>> => Replayed(ids) = log
      /\ \A i \in 1..log :
           i >= first /\ (lastId[k] # Nil => i > lastId[k]) => i \in ToSet(ids)
  BY <1>2, <1>5, BusAssumption, BacklogIs
<1>7. ids = <<>> => Replayed(ids) = Nil
  BY DEF Replayed
<1>8. CASE Replay(k)
  <2>1. /\ given' = [given EXCEPT ![k] = @ \o ids]
        /\ currentId' = [currentId EXCEPT ![k] = Replayed(ids)]
        /\ pc' = [pc EXCEPT ![k] = "lookup"]
        /\ UNCHANGED <<log, first, thread, taken, walk, array, lastId,
                       justYield, skipped, raises>>
    BY <1>8 DEF Replay, Give, Goto
  <2>. HIDE DEF ids
  <2>2. Replayed(ids) \in {log, Nil} /\ (Replayed(ids) = log => log > 0)
    <3>1. CASE ids = <<>>
      BY <1>2, <1>7, <3>1, BusAssumption DEF BusAssumption
    <3>2. CASE ids # <<>>
      <4>1. 1 \in 1..Len(ids)
        BY <1>6, <3>2, EmptySeq
      <4>2. ids[1] \in 1..log
        BY <1>6, <4>1, ElementOfSeq
      <4>. QED BY <1>2, <1>6, <3>2, <4>2
    <3>. QED BY <3>1, <3>2
  <2>3. Replayed(ids) \in 1..log \cup {Nil}
    BY <1>2, <2>2
  <2>. QED BY <1>3, <1>4, <1>5, <1>6, <2>1, <2>2, <2>3
<1>9. CASE ReplayRaises(k)
  <2>1. PICK n \in DOMAIN ids : Give(k, SubSeq(ids, 1, n))
    BY <1>9 DEF ReplayRaises
  <2>. HIDE DEF ids
  <2>2. SubSeq(ids, 1, n) \in Seq(1..log)
    BY <1>6, Prefix
  <2>3. /\ pc' = [pc EXCEPT ![k] = "off"]
        /\ UNCHANGED <<log, first, thread, taken, walk, array, lastId,
                       justYield, currentId, skipped>>
        /\ raises < MaxRaises /\ raises' = raises + 1
    BY <1>9 DEF ReplayRaises, Goto, closures
  <2>4. currentId' = [currentId EXCEPT ![k] = currentId[k]]
    BY <1>3, <2>3
  <2>5. raises' \in 0..MaxRaises
    BY <1>3, <2>3, BusAssumption DEF BusAssumption
  <2>. QED BY <1>3, <1>4, <2>1, <2>2, <2>3, <2>4, <2>5 DEF Give
<1>. QED BY <1>8, <1>9

-----------------------------------------------------------------------------
(* What a step does to the arrays.                                         *)

\* The table gets an empty array; a walk goes on in the old one.
LEMMA Renewed ==
  ASSUME Structure, array' = <<>>, Detach
  PROVE  /\ Table' = <<>> /\ array' # Nil
         /\ walk' = [msg |-> walk.msg, pos |-> walk.pos, own |-> walk'.own]
         /\ walk'.msg = walk.msg /\ walk'.pos = walk.pos
         /\ walk'.own \in Seq(Callbacks) \cup {Nil}
         /\ Walking => walk'.own # Nil /\ Route' = Route
         /\ ~Walking => Route' = Route \/ Route' = <<>>
<1>1. TypeOK
  BY DEF Structure
<1>2. /\ walk.own \in Seq(Callbacks) \cup {Nil}
      /\ walk = [msg |-> walk.msg, pos |-> walk.pos, own |-> walk.own]
      /\ array \in Seq(Callbacks) \cup {Nil}
  BY <1>1, Types
<1>3. <<>> # Nil
  BY EmptySeq, BusAssumption DEF BusAssumption
<1>4. Table' = <<>> /\ array' # Nil
  BY <1>3 DEF Table
<1>5. Walking => array # Nil
  BY DEF Structure, Placed
<1>6. CASE Walking /\ walk.own = Nil
  <2>1. walk' = [msg |-> walk.msg, pos |-> walk.pos, own |-> array]
    BY <1>2, <1>6 DEF Detach
  <2>2. /\ walk'.msg = walk.msg /\ walk'.pos = walk.pos
        /\ walk'.own = array
    BY <2>1
  <2>3. Route' = array
    BY <1>5, <1>6, <2>2 DEF Route
  <2>. QED BY <1>2, <1>4, <1>5, <1>6, <2>1, <2>2, <2>3 DEF Route, Table
<1>7. CASE ~(Walking /\ walk.own = Nil)
  <2>1. walk' = walk
    BY <1>7 DEF Detach
  <2>. QED BY <1>2, <1>4, <1>7, <2>1 DEF Route
<1>. QED BY <1>6, <1>7

LEMMA CallbackAppended ==
  ASSUME Structure, NEW k \in Callbacks, AppendCallback(k)
  PROVE  /\ array' = Append(Table, k) /\ Table' = Append(Table, k)
         /\ array' # Nil /\ array' \in Seq(Callbacks)
         /\ Route' = IF walk.own = Nil THEN Append(Table, k) ELSE Route
<1>1. TypeOK
  BY DEF Structure
<1>2. array # Nil /\ array \in Seq(Callbacks) /\ Table = array
  BY <1>1, Types DEF AppendCallback, Structure, Placed, Table
<1>3. Append(array, k) \in Seq(Callbacks)
  BY <1>2, AppendProperties
<1>4. Append(array, k) # Nil
  BY <1>3, BusAssumption DEF BusAssumption
<1>5. array' = Append(array, k) /\ walk' = walk
  BY DEF AppendCallback
<1>. QED BY <1>2, <1>3, <1>4, <1>5 DEF Table, Route

LEMMA CallbackRemoved ==
  ASSUME Structure, NEW k \in Callbacks, Unsubscribe(k)
  PROVE  \E i \in DOMAIN Table :
           /\ Table[i] = k
           /\ array' = RemoveAt(Table, i) /\ Table' = RemoveAt(Table, i)
           /\ array' # Nil /\ array' \in Seq(Callbacks)
           /\ Route' = IF walk.own = Nil THEN RemoveAt(Table, i) ELSE Route
           /\ skipped \subseteq skipped'
           /\ skipped' \subseteq Callbacks \X (1..log)
           /\ /\ Walking /\ walk.own = Nil
              /\ i < walk.pos /\ walk.pos <= Len(Table)
              => <<Table[walk.pos], walk.msg>> \in skipped'
<1>1. TypeOK
  BY DEF Structure
<1>2. array # Nil /\ array \in Seq(Callbacks) /\ Table = array
  BY <1>1, Types DEF Unsubscribe, Structure, Placed, Table
<1>3. PICK i \in DOMAIN Table :
        /\ Table[i] = k
        /\ array' = RemoveAt(Table, i)
        /\ skipped' =
             IF /\ Walking /\ walk.own = Nil
                /\ i < walk.pos /\ walk.pos <= Len(Table)
             THEN skipped \cup {<<Table[walk.pos], walk.msg>>}
             ELSE skipped
  BY <1>2 DEF Unsubscribe
<1>4. RemoveAt(Table, i) \in Seq(Callbacks)
  BY <1>2, Removed
<1>5. RemoveAt(Table, i) # Nil
  BY <1>4, BusAssumption DEF BusAssumption
<1>6. walk' = walk
  BY DEF Unsubscribe
<1>7. skipped' \subseteq Callbacks \X (1..log)
  <2>1. skipped \subseteq Callbacks \X (1..log)
    BY <1>1 DEF TypeOK
  <2>2. CASE Walking /\ walk.pos <= Len(Table)
    <3>1. walk.msg \in 1..log /\ walk.pos \in 1..Len(Table)
      BY <1>1, <1>2, <2>2, Types, LenProperties
         DEF Walking, Structure, Placed
    <3>2. Table[walk.pos] \in Callbacks
      BY <1>2, <3>1, ElementOfSeq
    <3>. QED BY <1>3, <2>1, <3>1, <3>2
  <2>. QED BY <1>3, <2>1, <2>2
<1>8. Table' = RemoveAt(Table, i)
  BY <1>3, <1>5 DEF Table
<1>9. Route' = IF walk.own = Nil THEN RemoveAt(Table, i) ELSE Route
  BY <1>6, <1>8 DEF Route
<1>. QED BY <1>3, <1>4, <1>5, <1>7, <1>8, <1>9

-----------------------------------------------------------------------------
(* The inductive invariant.                                                *)

LEMMA Steps ==
  ASSUME [Next]_vars
  PROVE  \/ UNCHANGED vars
         \/ Publish \/ UnsubscribeAll \/ Connect \/ Take \/ EndWalk
         \/ \E k \in Callbacks :
              \/ \E last \in -1..log : Subscribe(k, last)
              \/ Replay(k) \/ ReplayRaises(k)
              \/ Lookup(k) \/ Create(k) \/ AppendCallback(k)
              \/ EnsureThread(k) \/ Unsubscribe(k) \/ Call(k)
BY DEF Next, Caller, Dispatch, Finished, Call

LEMMA InitInv == Init => BusInv
<1>. SUFFICES ASSUME Init PROVE BusInv
  OBVIOUS
<1>. USE BusAssumption DEF BusAssumption
<1>1. /\ Table = <<>> /\ Route = <<>> /\ ~Walking
      /\ walk.msg = 0 /\ walk.pos = 0 /\ walk.own = Nil
  BY DEF Init, Table, Route, NoWalk, Walking
<1>2. DOMAIN <<>> = {} /\ ToSet(<<>>) = {} /\ \A S : <<>> \in Seq(S)
  BY EmptySeq DEF ToSet
<1>3. TypeOK
  BY <1>2 DEF Init, TypeOK, NoWalk
<1>4. Placed /\ Untouched
  BY <1>1, <1>2 DEF Init, Placed, Untouched
<1>5. Apart
  BY <1>1, <1>2 DEF Apart, Distinct
<1>6. Complete /\ InOrder
  BY <1>1, <1>2
     DEF Init, Complete, ReplaysComplete, DispatchComplete, WalkComplete,
         InOrder, NotAhead, StillToCome
<1>. QED BY <1>3, <1>4, <1>5, <1>6 DEF BusInv, Structure

LEMMA TypeKept == Structure /\ [Next]_vars => TypeOK'
<1>. SUFFICES ASSUME Structure, [Next]_vars PROVE TypeOK'
  OBVIOUS
<1>. USE BusAssumption DEF BusAssumption
<1>1. TypeOK
  BY DEF Structure, TypeOK
<1>2. /\ log \in Nat /\ first \in 1..(log + 1) /\ taken \in 0..log
      /\ walk.msg \in 0..log /\ walk.pos \in Nat
      /\ walk.own \in Seq(Callbacks) \cup {Nil}
      /\ walk = [msg |-> walk.msg, pos |-> walk.pos, own |-> walk.own]
      /\ currentId \in [Callbacks -> 1..log \cup {Nil}]
      /\ justYield \in [Callbacks -> BOOLEAN]
      /\ given \in [Callbacks -> Seq(1..log)]
  BY <1>1, Types
<1>3. CASE UNCHANGED vars
  BY <1>1, <1>3 DEF vars, TypeOK
<1>4. CASE Publish
  <2>1. /\ log' = log + 1 /\ log' \in 0..MaxMessages
        /\ first' \in 1..(log' + 1)
        /\ UNCHANGED <<thread, taken, walk, array, pc, lastId, closures, given,
                       skipped, raises>>
    BY <1>1, <1>2, <1>4 DEF Publish, TypeOK
  <2>2. 0..log \subseteq 0..log' /\ 1..log \subseteq 1..log'
    BY <1>2, <2>1
  <2>3. \A s \in Seq(1..log) : s \in Seq(1..log')
    BY <2>2, SeqMonotonic
  <2>4. given' \in [Callbacks -> Seq(1..log')]
    BY <1>2, <2>1, <2>3
  <2>5. lastId' \in [Callbacks -> -1..log']
    <3>1. -1..log \subseteq -1..log'
      BY <1>2, <2>1
    <3>. QED BY <1>1, <2>1, <3>1 DEF TypeOK
  <2>6. currentId' \in [Callbacks -> 1..log' \cup {Nil}]
    BY <1>2, <2>1, <2>2 DEF closures
  <2>7. skipped' \subseteq Callbacks \X (1..log')
    BY <1>1, <2>1, <2>2 DEF TypeOK
  <2>8. walk' \in [msg : 0..log', pos : Nat, own : Seq(Callbacks) \cup {Nil}]
    BY <1>2, <2>1, <2>2
  <2>9. taken' \in 0..log'
    BY <1>2, <2>1
  <2>. QED
    BY <1>1, <2>1, <2>4, <2>5, <2>6, <2>7, <2>8, <2>9 DEF TypeOK, closures
<1>5. CASE UnsubscribeAll
  <2>1. /\ array' = <<>> /\ Detach
        /\ UNCHANGED <<log, first, thread, taken, pc, lastId, closures, given,
                       skipped, raises>>
    BY <1>5 DEF UnsubscribeAll
  <2>2. walk' \in [msg : 0..log, pos : Nat, own : Seq(Callbacks) \cup {Nil}]
    BY <1>2, <2>1, Renewed
  <2>. QED BY <1>1, <2>1, <2>2, EmptySeq DEF TypeOK, closures
<1>6. CASE Connect
  BY <1>1, <1>2, <1>6 DEF Connect, TypeOK, closures
<1>7. CASE Take
  <2>1. taken' \in 0..log /\ taken' = taken + 1
    BY <1>2, <1>7 DEF Take
  <2>2. walk' = [msg |-> taken', pos |-> 1, own |-> Nil]
    BY <1>7 DEF Take
  <2>3. walk' \in [msg : 0..log, pos : Nat, own : Seq(Callbacks) \cup {Nil}]
    BY <2>1, <2>2
  <2>. QED BY <1>1, <1>7, <2>1, <2>3 DEF Take, TypeOK, closures
<1>8. CASE EndWalk
  <2>1. walk' \in [msg : 0..log, pos : Nat, own : Seq(Callbacks) \cup {Nil}]
    BY <1>2, <1>8 DEF EndWalk, NoWalk
  <2>. QED BY <1>1, <1>8, <2>1 DEF EndWalk, TypeOK, closures
<1>9. ASSUME NEW k \in Callbacks, \E last \in -1..log : Subscribe(k, last)
      PROVE  TypeOK'
  BY <1>1, <1>9 DEF Subscribe, Goto, TypeOK, closures
<1>10. ASSUME NEW k \in Callbacks, Replay(k) \/ ReplayRaises(k)
       PROVE  TypeOK'
  <2>1. /\ \E l \in {"lookup", "off"} : pc' = [pc EXCEPT ![k] = l]
        /\ UNCHANGED <<log, first, thread, taken, walk, array, lastId,
                       justYield, skipped>>
        /\ raises' \in 0..MaxRaises
    BY <1>10, ReplayEffect
  <2>2. PICK ids \in Seq(1..log), c \in 1..log \cup {Nil} :
          /\ given' = [given EXCEPT ![k] = @ \o ids]
          /\ currentId' = [currentId EXCEPT ![k] = c]
    BY <1>10, ReplayEffect
  <2>3. given[k] \o ids \in Seq(1..log)
    BY <1>2, ConcatProperties
  <2>4. /\ given' \in [Callbacks -> Seq(1..log)]
        /\ currentId' \in [Callbacks -> 1..log \cup {Nil}]
    BY <1>2, <2>2, <2>3
  <2>5. PICK l \in {"lookup", "off"} : pc' = [pc EXCEPT ![k] = l]
    BY <2>1
  <2>6. pc' \in [Callbacks -> {"idle", "replay", "lookup", "create", "append",
                               "ensure", "on", "off"}]
    BY <1>1, <2>5 DEF TypeOK
  <2>. QED BY <1>1, <2>1, <2>4, <2>6 DEF TypeOK
<1>11. ASSUME NEW k \in Callbacks, Lookup(k) PROVE TypeOK'
  BY <1>1, <1>11 DEF Lookup, Goto, TypeOK, closures
<1>12. ASSUME NEW k \in Callbacks, Create(k) PROVE TypeOK'
  <2>1. /\ array' = <<>> /\ Detach /\ pc' = [pc EXCEPT ![k] = "append"]
        /\ UNCHANGED <<log, first, thread, taken, lastId, closures, given,
                       skipped, raises>>
    BY <1>12 DEF Create, Goto
  <2>2. walk' \in [msg : 0..log, pos : Nat, own : Seq(Callbacks) \cup {Nil}]
    BY <1>2, <2>1, Renewed
  <2>. QED BY <1>1, <2>1, <2>2, EmptySeq DEF TypeOK, closures
<1>13. ASSUME NEW k \in Callbacks, AppendCallback(k) PROVE TypeOK'
  <2>1. array' \in Seq(Callbacks)
    BY <1>13, CallbackAppended
  <2>. QED BY <1>1, <1>13, <2>1 DEF AppendCallback, Goto, TypeOK, closures
<1>14. ASSUME NEW k \in Callbacks, EnsureThread(k) PROVE TypeOK'
  BY <1>1, <1>14 DEF EnsureThread, Goto, TypeOK, closures
<1>15. ASSUME NEW k \in Callbacks, Unsubscribe(k) PROVE TypeOK'
  <2>1. array' \in Seq(Callbacks) /\ skipped' \subseteq Callbacks \X (1..log)
    BY <1>15, CallbackRemoved
  <2>. QED BY <1>1, <1>15, <2>1 DEF Unsubscribe, Goto, TypeOK, closures
<1>16. ASSUME NEW k \in Callbacks, Call(k) PROVE TypeOK'
  <2>1. Calling(k)
    BY <1>16 DEF Call, CallDirect, CallNext, CallReplay, CallRaises
  <2>2. /\ walk' = [msg |-> walk.msg, pos |-> walk.pos + 1, own |-> walk.own]
        /\ UNCHANGED <<log, first, thread, taken, array, pc, lastId, skipped>>
    BY <2>1, AtCall
  <2>3. PICK ids \in Seq(1..log), c \in 1..log \cup {Nil}, b \in BOOLEAN :
          Effect(k, ids, c, b)
    BY <1>16, CallEffect
  <2>4. given[k] \o ids \in Seq(1..log)
    BY <1>2, ConcatProperties
  <2>5. /\ given' \in [Callbacks -> Seq(1..log)]
        /\ currentId' \in [Callbacks -> 1..log \cup {Nil}]
        /\ justYield' \in [Callbacks -> BOOLEAN]
    BY <1>2, <2>3, <2>4 DEF Effect
  <2>6. walk' \in [msg : 0..log, pos : Nat, own : Seq(Callbacks) \cup {Nil}]
    BY <1>2, <2>2
  <2>7. raises' \in 0..MaxRaises
    BY <1>1, <1>16
       DEF Call, CallDirect, CallNext, CallReplay, CallRaises, TypeOK
  <2>. QED BY <1>1, <2>2, <2>5, <2>6, <2>7 DEF TypeOK
<1>. QED
  BY <1>3, <1>4, <1>5, <1>6, <1>7, <1>8, <1>9, <1>10, <1>11, <1>12, <1>13,
     <1>14, <1>15, <1>16, Steps

LEMMA PlacedKept == Structure /\ [Next]_vars => Placed'
<1>. SUFFICES ASSUME Structure, [Next]_vars PROVE Placed'
  OBVIOUS
<1>1. TypeOK /\ Placed
  BY DEF Structure
<1>2. /\ taken \in 0..log /\ log \in Nat
      /\ walk.msg \in 0..log /\ walk.pos \in Nat
      /\ pc \in [Callbacks -> {"idle", "replay", "lookup", "create", "append",
                               "ensure", "on", "off"}]
      /\ lastId \in [Callbacks -> -1..log]
  BY <1>1, Types DEF TypeOK
<1>3. CASE UNCHANGED vars
  BY <1>1, <1>3 DEF vars, Placed, Walking
<1>4. CASE Publish
  BY <1>1, <1>4 DEF Publish, Placed, Walking
<1>5. CASE UnsubscribeAll
  <2>1. /\ array' # Nil /\ walk'.msg = walk.msg /\ walk'.pos = walk.pos
        /\ UNCHANGED <<thread, taken, pc, lastId>>
    <3>1. array' = <<>> /\ Detach /\ UNCHANGED <<thread, taken, pc, lastId>>
      BY <1>5 DEF UnsubscribeAll
    <3>. QED BY <3>1, Renewed
  <2>. QED BY <1>1, <2>1 DEF Placed, Walking
<1>6. CASE Connect
  BY <1>1, <1>2, <1>6 DEF Connect, Placed, Walking
<1>7. CASE Take
  BY <1>1, <1>2, <1>7 DEF Take, Placed, Walking
<1>8. CASE EndWalk
  BY <1>1, <1>8 DEF EndWalk, NoWalk, Placed, Walking
<1>9. ASSUME NEW k \in Callbacks, \E last \in -1..log : Subscribe(k, last)
      PROVE  Placed'
  <2>1. PICK last \in -1..log : Subscribe(k, last)
    BY <1>9
  <2>2. /\ lastId' = [lastId EXCEPT ![k] = last]
        /\ pc' = [pc EXCEPT ![k] = IF last >= 0 THEN "replay" ELSE "lookup"]
        /\ UNCHANGED <<thread, taken, walk, array>>
    BY <2>1 DEF Subscribe, Goto
  <2>3. \A j \in Callbacks \ {k} : pc'[j] = pc[j] /\ lastId'[j] = lastId[j]
    BY <1>2, <2>2
  <2>4. /\ pc'[k] = IF last >= 0 THEN "replay" ELSE "lookup"
        /\ lastId'[k] = last
    BY <1>2, <2>2
  <2>. QED BY <1>1, <2>2, <2>3, <2>4 DEF Placed, Walking
<1>10. ASSUME NEW k \in Callbacks, Replay(k) \/ ReplayRaises(k)
       PROVE  Placed'
  <2>1. /\ \E l \in {"lookup", "off"} : pc' = [pc EXCEPT ![k] = l]
        /\ UNCHANGED <<log, first, thread, taken, walk, array, lastId,
                       justYield, skipped>>
    BY <1>10, ReplayEffect
  <2>2. PICK l \in {"lookup", "off"} : pc' = [pc EXCEPT ![k] = l]
    BY <2>1
  <2>. QED BY <1>1, <1>2, <2>1, <2>2 DEF Placed, Walking
<1>11. ASSUME NEW k \in Callbacks, Lookup(k) PROVE Placed'
  BY <1>1, <1>2, <1>11 DEF Lookup, Goto, Placed, Walking
<1>12. ASSUME NEW k \in Callbacks, Create(k) PROVE Placed'
  <2>1. /\ array' = <<>> /\ Detach /\ pc' = [pc EXCEPT ![k] = "append"]
        /\ UNCHANGED <<thread, taken, lastId>>
    BY <1>12 DEF Create, Goto
  <2>2. /\ array' # Nil /\ walk'.msg = walk.msg /\ walk'.pos = walk.pos
    BY <2>1, Renewed
  <2>3. \A j \in Callbacks : pc'[j] = "replay" => pc[j] = "replay"
    BY <1>2, <2>1
  <2>. QED BY <1>1, <2>1, <2>2, <2>3 DEF Placed, Walking
<1>13. ASSUME NEW k \in Callbacks, AppendCallback(k) PROVE Placed'
  <2>1. array' # Nil
    BY <1>13, CallbackAppended
  <2>2. /\ pc' = [pc EXCEPT ![k] = "ensure"]
        /\ UNCHANGED <<thread, taken, walk, lastId>>
    BY <1>13 DEF AppendCallback, Goto
  <2>3. \A j \in Callbacks : pc'[j] = "replay" => pc[j] = "replay"
    BY <1>2, <2>2
  <2>. QED BY <1>1, <2>1, <2>2, <2>3 DEF Placed, Walking
<1>14. ASSUME NEW k \in Callbacks, EnsureThread(k) PROVE Placed'
  <2>1. array # Nil
    BY <1>1, <1>14 DEF EnsureThread, Placed
  <2>2. /\ pc' = [pc EXCEPT ![k] = "on"]
        /\ thread' = IF thread = "none" THEN "connecting" ELSE thread
        /\ UNCHANGED <<taken, walk, array, lastId>>
    BY <1>14 DEF EnsureThread, Goto
  <2>3. \A j \in Callbacks : pc'[j] = "replay" => pc[j] = "replay"
    BY <1>2, <2>2
  <2>. QED BY <1>1, <2>1, <2>2, <2>3 DEF Placed, Walking
<1>15. ASSUME NEW k \in Callbacks, Unsubscribe(k) PROVE Placed'
  <2>1. array' # Nil
    BY <1>15, CallbackRemoved
  <2>2. /\ pc' = [pc EXCEPT ![k] = "off"]
        /\ UNCHANGED <<thread, taken, walk, lastId>>
    BY <1>15 DEF Unsubscribe, Goto
  <2>3. \A j \in Callbacks : pc'[j] = "replay" => pc[j] = "replay"
    BY <1>2, <2>2
  <2>. QED BY <1>1, <2>1, <2>2, <2>3 DEF Placed, Walking
<1>16. ASSUME NEW k \in Callbacks, Call(k) PROVE Placed'
  <2>1. Calling(k)
    BY <1>16 DEF Call, CallDirect, CallNext, CallReplay, CallRaises
  <2>2. /\ walk'.msg = walk.msg /\ walk'.pos = walk.pos + 1
        /\ UNCHANGED <<log, first, thread, taken, array, pc, lastId, skipped>>
    BY <2>1, AtCall
  <2>. QED BY <1>1, <1>2, <2>2 DEF Placed, Walking
<1>. QED
  BY <1>3, <1>4, <1>5, <1>6, <1>7, <1>8, <1>9, <1>10, <1>11, <1>12, <1>13,
     <1>14, <1>15, <1>16, Steps

LEMMA DistinctAppended ==
  ASSUME NEW S, NEW s \in Seq(S), NEW x \in S, Distinct(s), x \notin ToSet(s)
  PROVE  Distinct(Append(s, x))
<1>. DEFINE t == Append(s, x)
<1>1. /\ t \in Seq(S) /\ Len(t) = Len(s) + 1
      /\ \A i \in 1..Len(s) : t[i] = s[i]
      /\ t[Len(s) + 1] = x
  BY AppendProperties
<1>. HIDE DEF t
<1>2. /\ Len(s) \in Nat /\ DOMAIN s = 1..Len(s)
      /\ \A i \in 1..Len(s) : s[i] \in ToSet(s)
  BY ToSetOf
<1>3. DOMAIN t = 1..(Len(s) + 1)
  BY <1>1, LenProperties
<1>4. \A i \in 1..(Len(s) + 1) : i \in 1..Len(s) \/ i = Len(s) + 1
  BY <1>2
<1>. QED BY <1>1, <1>2, <1>3, <1>4 DEF Distinct, t

LEMMA DistinctRemoved ==
  ASSUME NEW S, NEW s \in Seq(S), NEW i \in DOMAIN s, Distinct(s)
  PROVE  Distinct(RemoveAt(s, i)) /\ s[i] \notin ToSet(RemoveAt(s, i))
<1>. DEFINE t == RemoveAt(s, i)
            old(j) == IF j < i THEN j ELSE j + 1
<1>1. /\ t \in Seq(S) /\ Len(t) = Len(s) - 1
      /\ \A j \in 1..(Len(s) - 1) : t[j] = IF j < i THEN s[j] ELSE s[j + 1]
  BY Removed
<1>. HIDE DEF t
<1>2. Len(s) \in Nat /\ DOMAIN s = 1..Len(s) /\ DOMAIN t = 1..(Len(s) - 1)
  BY <1>1, LenProperties
<1>3. \A j \in DOMAIN t : /\ old(j) \in DOMAIN s /\ t[j] = s[old(j)]
                          /\ old(j) # i
  BY <1>1, <1>2
<1>4. \A j, n \in DOMAIN t : old(j) = old(n) => j = n
  BY <1>2
<1>. HIDE DEF old
<1>5. Distinct(t)
  BY <1>3, <1>4 DEF Distinct
<1>6. s[i] \notin ToSet(t)
  BY <1>3 DEF Distinct, ToSet
<1>. QED BY <1>5, <1>6 DEF t

LEMMA ApartKept == Structure /\ [Next]_vars => Apart'
<1>. SUFFICES ASSUME Structure, [Next]_vars PROVE Apart'
  OBVIOUS
<1>1. Apart /\ TypeOK /\ Placed
  BY DEF Structure
<1>2. /\ Table \in Seq(Callbacks) /\ Route \in Seq(Callbacks)
      /\ pc \in [Callbacks -> {"idle", "replay", "lookup", "create", "append",
                               "ensure", "on", "off"}]
  BY <1>1, Types DEF TypeOK
<1>3. ToSet(<<>>) = {} /\ Distinct(<<>>)
  BY EmptySeq DEF ToSet, Distinct
<1>4. ASSUME UNCHANGED <<Table, Route, walk>>,
             \A k \in Callbacks : Early(k)' => Early(k)
      PROVE  Apart'
  BY <1>1, <1>4 DEF Apart
<1>5. ASSUME UNCHANGED <<array, walk>>,
             \A k \in Callbacks : Early(k)' => Early(k)
      PROVE  Apart'
  BY <1>4, <1>5 DEF Table, Route
<1>6. ASSUME UNCHANGED <<array, pc>>, walk'.own = Nil PROVE Apart'
  <2>1. Table' = Table /\ Route' = Table
    BY <1>6 DEF Table, Route
  <2>. QED BY <1>1, <1>6, <2>1 DEF Apart, Early
<1>7. ASSUME array' = <<>>, Detach,
             \A k \in Callbacks : Early(k)' => Early(k)
      PROVE  Apart'
  <2>1. Table' = <<>> /\ (Route' = Route \/ Route' = <<>>)
    BY <1>7, Renewed
  <2>. QED BY <1>1, <1>3, <1>7, <2>1 DEF Apart
<1>8. CASE UNCHANGED vars
  BY <1>5, <1>8 DEF vars, Early
<1>9. CASE Publish \/ Connect
  BY <1>5, <1>9 DEF Publish, Connect, Early
<1>10. CASE UnsubscribeAll
  BY <1>7, <1>10 DEF UnsubscribeAll, Early
<1>11. CASE Take \/ EndWalk
  BY <1>6, <1>11 DEF Take, EndWalk, NoWalk
<1>12. ASSUME NEW k \in Callbacks, \E last \in -1..log : Subscribe(k, last)
       PROVE  Apart'
  BY <1>2, <1>5, <1>12 DEF Subscribe, Goto, Early
<1>13. ASSUME NEW k \in Callbacks, Replay(k) \/ ReplayRaises(k)
       PROVE  Apart'
  <2>1. PICK l \in {"lookup", "off"} : pc' = [pc EXCEPT ![k] = l]
    BY <1>13, ReplayEffect
  <2>2. UNCHANGED <<walk, array>> /\ pc[k] = "replay"
    BY <1>13, ReplayEffect
  <2>. QED BY <1>2, <1>5, <2>1, <2>2 DEF Early
<1>14. ASSUME NEW k \in Callbacks, Lookup(k) PROVE Apart'
  BY <1>2, <1>5, <1>14 DEF Lookup, Goto, Early
<1>15. ASSUME NEW k \in Callbacks, Create(k) PROVE Apart'
  BY <1>2, <1>7, <1>15 DEF Create, Goto, Early
<1>16. ASSUME NEW k \in Callbacks, AppendCallback(k) PROVE Apart'
  <2>1. /\ Table' = Append(Table, k)
        /\ Route' = IF walk.own = Nil THEN Append(Table, k) ELSE Route
    BY <1>16, CallbackAppended
  <2>2. walk' = walk /\ pc[k] = "append" /\ pc' = [pc EXCEPT ![k] = "ensure"]
    BY <1>16 DEF AppendCallback, Goto
  <2>3. k \notin ToSet(Table) /\ k \notin ToSet(Route)
    BY <1>1, <2>2 DEF Apart, Early
  <2>4. /\ Distinct(Append(Table, k))
        /\ ToSet(Append(Table, k)) = ToSet(Table) \cup {k}
    BY <1>1, <1>2, <2>3, DistinctAppended, AppendedSet DEF Apart
  <2>5. \A j \in Callbacks : Early(j)' => Early(j) /\ j # k
    BY <1>2, <2>2 DEF Early
  <2>. QED BY <1>1, <2>1, <2>2, <2>3, <2>4, <2>5 DEF Apart, Route
<1>17. ASSUME NEW k \in Callbacks, EnsureThread(k) PROVE Apart'
  BY <1>2, <1>5, <1>17 DEF EnsureThread, Goto, Early
<1>18. ASSUME NEW k \in Callbacks, Unsubscribe(k) PROVE Apart'
  <2>1. PICK i \in DOMAIN Table :
          /\ Table[i] = k /\ Table' = RemoveAt(Table, i)
          /\ Route' = IF walk.own = Nil THEN RemoveAt(Table, i) ELSE Route
    BY <1>18, CallbackRemoved
  <2>2. /\ Distinct(RemoveAt(Table, i))
        /\ ToSet(RemoveAt(Table, i)) \subseteq ToSet(Table)
    BY <1>1, <1>2, DistinctRemoved, Removed DEF Apart
  <2>3. walk' = walk /\ \A j \in Callbacks : Early(j)' => Early(j)
    BY <1>2, <1>18 DEF Unsubscribe, Goto, Early
  <2>. QED BY <1>1, <2>1, <2>2, <2>3 DEF Apart, Route
<1>19. ASSUME NEW k \in Callbacks, Call(k) PROVE Apart'
  <2>1. Calling(k)
    BY <1>19 DEF Call, CallDirect, CallNext, CallReplay, CallRaises
  <2>2. walk'.own = walk.own /\ Table' = Table /\ Route' = Route /\ pc' = pc
    BY <2>1, AtCall
  <2>. QED BY <1>1, <2>2 DEF Apart, Early
<1>. QED
  BY <1>8, <1>9, <1>10, <1>11, <1>12, <1>13, <1>14, <1>15, <1>16, <1>17,
     <1>18, <1>19, Steps

LEMMA UntouchedKept == Structure /\ [Next]_vars => Untouched'
<1>. SUFFICES ASSUME Structure, [Next]_vars PROVE Untouched'
  OBVIOUS
<1>1. Apart /\ TypeOK /\ Placed /\ Untouched
  BY DEF Structure
<1>2. /\ Table \in Seq(Callbacks) /\ Route \in Seq(Callbacks)
      /\ pc \in [Callbacks -> {"idle", "replay", "lookup", "create", "append",
                               "ensure", "on", "off"}]
      /\ lastId \in [Callbacks -> -1..log]
      /\ currentId \in [Callbacks -> 1..log \cup {Nil}]
      /\ justYield \in [Callbacks -> BOOLEAN]
      /\ given \in [Callbacks -> Seq(1..log)]
  BY <1>1, Types DEF TypeOK
<1>3. ToSet(<<>>) = {}
  BY EmptySeq DEF ToSet
<1>4. ASSUME UNCHANGED <<thread, array, walk, lastId, closures, given>>,
             \A k \in Callbacks : pc'[k] # "idle" \/ pc'[k] = pc[k],
             \A k \in Callbacks : Early(k)' => Early(k)
      PROVE  Untouched'
  BY <1>1, <1>4 DEF Untouched, Walking, Table, closures
<1>5. ASSUME array' = <<>>, Detach,
             UNCHANGED <<thread, lastId, closures, given>>,
             \A k \in Callbacks : pc'[k] # "idle" \/ pc'[k] = pc[k],
             \A k \in Callbacks : Early(k)' => Early(k)
      PROVE  Untouched'
  <2>1. Table' = <<>>
    BY <1>5, Renewed
  <2>2. ToSet(Table') = {}
    BY <1>3, <2>1
  <2>3. /\ thread' = thread /\ lastId' = lastId /\ justYield' = justYield
        /\ currentId' = currentId /\ given' = given
    BY <1>5 DEF closures
  <2>. QED BY <1>1, <1>5, <2>2, <2>3 DEF Untouched
<1>6. CASE UNCHANGED vars
  BY <1>4, <1>6 DEF vars, closures, Early
<1>7. CASE Publish
  BY <1>4, <1>7 DEF Publish, Early
<1>8. CASE Connect
  BY <1>1, <1>8 DEF Connect, Untouched, Walking, Table, Early, closures
<1>9. CASE UnsubscribeAll
  BY <1>5, <1>9 DEF UnsubscribeAll, Early
<1>10. CASE Take \/ EndWalk
  BY <1>1, <1>10
     DEF Take, EndWalk, NoWalk, Untouched, Walking, Early, closures
<1>11. ASSUME NEW k \in Callbacks, \E last \in -1..log : Subscribe(k, last)
       PROVE  Untouched'
  <2>1. PICK last \in -1..log : Subscribe(k, last)
    BY <1>11
  <2>2. /\ pc[k] = "idle"
        /\ lastId' = [lastId EXCEPT ![k] = last]
        /\ pc' = [pc EXCEPT ![k] = IF last >= 0 THEN "replay" ELSE "lookup"]
        /\ UNCHANGED <<thread, walk, array, closures, given>>
    BY <2>1 DEF Subscribe, Goto
  <2>3. \A j \in Callbacks \ {k} : pc'[j] = pc[j] /\ lastId'[j] = lastId[j]
    BY <1>2, <2>2
  <2>4. /\ currentId[k] = Nil /\ given[k] = <<>>
        /\ ~justYield[k] /\ pc'[k] # "idle"
    BY <1>1, <1>2, <2>2 DEF Untouched, Early
  <2>. QED
    BY <1>1, <2>2, <2>3, <2>4 DEF Untouched, Early, Walking, Table, closures
<1>12. ASSUME NEW k \in Callbacks, Replay(k) \/ ReplayRaises(k)
       PROVE  Untouched'
  <2>1. PICK l \in {"lookup", "off"} : pc' = [pc EXCEPT ![k] = l]
    BY <1>12, ReplayEffect
  <2>2. /\ UNCHANGED <<thread, walk, array, lastId, justYield>>
        /\ pc[k] = "replay" /\ lastId[k] >= 0
    BY <1>12, ReplayEffect
  <2>3. PICK ids \in Seq(1..log), c \in 1..log \cup {Nil} :
          /\ given' = [given EXCEPT ![k] = @ \o ids]
          /\ currentId' = [currentId EXCEPT ![k] = c]
    BY <1>12, ReplayEffect
  <2>4. \A j \in Callbacks \ {k} :
          pc'[j] = pc[j] /\ given'[j] = given[j] /\ currentId'[j] = currentId[j]
    BY <1>2, <2>1, <2>3
  <2>5. pc'[k] # "idle" /\ lastId[k] # -1 /\ ~justYield[k]
    BY <1>1, <1>2, <2>1, <2>2 DEF Untouched, Early
  <2>6. \A j \in Callbacks : Early(j)' => Early(j)
    BY <1>2, <2>1, <2>2 DEF Early
  <2>. QED
    BY <1>1, <2>2, <2>4, <2>5, <2>6 DEF Untouched, Walking, Table
<1>13. ASSUME NEW k \in Callbacks, Lookup(k) PROVE Untouched'
  BY <1>2, <1>4, <1>13 DEF Lookup, Goto, Early
<1>14. ASSUME NEW k \in Callbacks, Create(k) PROVE Untouched'
  BY <1>2, <1>5, <1>14 DEF Create, Goto, Early
<1>15. ASSUME NEW k \in Callbacks, AppendCallback(k) PROVE Untouched'
  <2>1. Table' = Append(Table, k)
    BY <1>15, CallbackAppended
  <2>2. /\ pc[k] = "append" /\ pc' = [pc EXCEPT ![k] = "ensure"]
        /\ UNCHANGED <<thread, walk, lastId, closures, given>>
    BY <1>15 DEF AppendCallback, Goto
  <2>3. ToSet(Table') = ToSet(Table) \cup {k}
    BY <1>2, <2>1, AppendedSet
  <2>4. ~justYield[k]
    BY <1>1, <2>2 DEF Untouched, Early
  <2>5. \A j \in Callbacks : /\ Early(j)' => Early(j)
                             /\ pc'[j] # "idle" \/ pc'[j] = pc[j]
    BY <1>2, <2>2 DEF Early
  <2>. QED BY <1>1, <2>2, <2>3, <2>4, <2>5 DEF Untouched, Walking, closures
<1>16. ASSUME NEW k \in Callbacks, EnsureThread(k) PROVE Untouched'
  <2>1. /\ pc[k] = "ensure" /\ pc' = [pc EXCEPT ![k] = "on"]
        /\ thread' = IF thread = "none" THEN "connecting" ELSE thread
        /\ UNCHANGED <<walk, array, lastId, closures, given>>
    BY <1>16 DEF EnsureThread, Goto
  <2>2. \A j \in Callbacks : /\ Early(j)' => Early(j)
                             /\ pc'[j] # "idle" \/ pc'[j] = pc[j]
    BY <1>2, <2>1 DEF Early
  <2>. QED BY <1>1, <2>1, <2>2 DEF Untouched, Walking, Table, closures
<1>17. ASSUME NEW k \in Callbacks, Unsubscribe(k) PROVE Untouched'
  <2>1. PICK i \in DOMAIN Table : Table' = RemoveAt(Table, i)
    BY <1>17, CallbackRemoved
  <2>2. ToSet(Table') \subseteq ToSet(Table)
    BY <1>2, <2>1, Removed
  <2>3. /\ pc' = [pc EXCEPT ![k] = "off"]
        /\ UNCHANGED <<thread, walk, lastId, closures, given>>
    BY <1>17 DEF Unsubscribe, Goto
  <2>4. \A j \in Callbacks : /\ Early(j)' => Early(j)
                             /\ pc'[j] # "idle" \/ pc'[j] = pc[j]
    BY <1>2, <2>3 DEF Early
  <2>. QED BY <1>1, <2>2, <2>3, <2>4 DEF Untouched, Walking, closures
<1>18. ASSUME NEW k \in Callbacks, Call(k) PROVE Untouched'
  <2>1. Calling(k)
    BY <1>18 DEF Call, CallDirect, CallNext, CallReplay, CallRaises
  <2>2. /\ Walking /\ ~Early(k) /\ k \in ToSet(Route)
        /\ walk'.own = walk.own /\ walk'.msg = walk.msg
        /\ Table' = Table /\ Route' = Route
        /\ UNCHANGED <<thread, pc, lastId>>
    BY <2>1, AtCall
  <2>3. PICK ids \in Seq(1..log), c \in 1..log \cup {Nil}, b \in BOOLEAN :
          Effect(k, ids, c, b)
    BY <1>18, CallEffect
  <2>4. \A j \in Callbacks \ {k} :
          /\ given'[j] = given[j] /\ currentId'[j] = currentId[j]
          /\ justYield'[j] = justYield[j]
    BY <1>2, <2>3 DEF Effect
  <2>5. walk.own # Nil => k \notin ToSet(Table)
    BY <1>1, <2>2 DEF Apart
  <2>6. thread = "live"
    BY <1>1, <2>2 DEF Placed
  <2>7. ToSet(Table) \subseteq Callbacks
    BY <1>2, ToSetOf
  <2>. QED
    BY <1>1, <2>2, <2>4, <2>5, <2>6, <2>7 DEF Untouched, Walking, Early
<1>. QED
  BY <1>6, <1>7, <1>8, <1>9, <1>10, <1>11, <1>12, <1>13, <1>14, <1>15,
     <1>16, <1>17, <1>18, Steps

LEMMA StructureKept == Structure /\ [Next]_vars => Structure'
BY TypeKept, PlacedKept, ApartKept, UntouchedKept DEF Structure

-----------------------------------------------------------------------------
(* Nothing a block was given or passed over for is forgotten.              *)

Remembers(k) ==
  /\ first \in Nat /\ first' \in Nat /\ first <= first'
  /\ skipped \subseteq skipped'
  /\ ToSet(given[k]) \subseteq ToSet(given'[k])
  /\ \/ lastId'[k] = lastId[k]
     \/ pc[k] = "idle" /\ UNCHANGED <<currentId, justYield, given>>

LEMMA History ==
  ASSUME Structure, [Next]_vars, NEW k \in Callbacks
  PROVE  Remembers(k)
<1>1. TypeOK
  BY DEF Structure
<1>2. /\ log \in Nat /\ first \in 1..(log + 1)
      /\ given \in [Callbacks -> Seq(1..log)]
      /\ lastId \in [Callbacks -> -1..log]
  BY <1>1, Types
<1>3. ASSUME UNCHANGED <<first, skipped, given, lastId>> PROVE Remembers(k)
  BY <1>2, <1>3 DEF Remembers
<1>4. ASSUME UNCHANGED <<first, skipped, lastId>>, NEW j \in Callbacks,
             NEW ids \in Seq(1..log), given' = [given EXCEPT ![j] = @ \o ids]
      PROVE  Remembers(k)
  <2>1. j = k => given'[k] = given[k] \o ids
    BY <1>2, <1>4
  <2>2. j # k => given'[k] = given[k]
    BY <1>2, <1>4
  <2>3. ToSet(given[k] \o ids) = ToSet(given[k]) \cup ToSet(ids)
    BY <1>2, Concatenated
  <2>4. ToSet(given[k]) \subseteq ToSet(given'[k])
    BY <2>1, <2>2, <2>3
  <2>. QED BY <1>2, <1>4, <2>4 DEF Remembers
<1>5. CASE UNCHANGED vars
  BY <1>3, <1>5 DEF vars
<1>6. CASE Publish
  <2>1. /\ first' \in first..(log + 2)
        /\ UNCHANGED <<skipped, given, lastId>>
    BY <1>6 DEF Publish
  <2>. QED BY <1>2, <2>1 DEF Remembers
<1>7. CASE UnsubscribeAll \/ Connect \/ Take \/ EndWalk
  BY <1>3, <1>7 DEF UnsubscribeAll, Connect, Take, EndWalk
<1>8. ASSUME NEW j \in Callbacks, NEW last \in -1..log, Subscribe(j, last)
      PROVE  Remembers(k)
  <2>1. /\ pc[j] = "idle" /\ lastId' = [lastId EXCEPT ![j] = last]
        /\ UNCHANGED <<first, skipped, given, currentId, justYield>>
    BY <1>8 DEF Subscribe, closures
  <2>. QED BY <1>2, <2>1 DEF Remembers
<1>9. ASSUME NEW j \in Callbacks, Replay(j) \/ ReplayRaises(j)
      PROVE  Remembers(k)
  <2>1. UNCHANGED <<first, skipped, lastId>>
    BY <1>9, ReplayEffect
  <2>2. PICK ids \in Seq(1..log) : given' = [given EXCEPT ![j] = @ \o ids]
    BY <1>9, ReplayEffect
  <2>. QED BY <1>4, <2>1, <2>2
<1>10. ASSUME NEW j \in Callbacks,
              \/ Lookup(j) \/ Create(j) \/ AppendCallback(j) \/ EnsureThread(j)
       PROVE  Remembers(k)
  BY <1>3, <1>10 DEF Lookup, Create, AppendCallback, EnsureThread
<1>11. ASSUME NEW j \in Callbacks, Unsubscribe(j) PROVE Remembers(k)
  <2>1. skipped \subseteq skipped' /\ UNCHANGED <<first, given, lastId>>
    BY <1>11, CallbackRemoved DEF Unsubscribe
  <2>. QED BY <1>2, <2>1 DEF Remembers
<1>12. ASSUME NEW j \in Callbacks, Call(j) PROVE Remembers(k)
  <2>1. Calling(j)
    BY <1>12 DEF Call, CallDirect, CallNext, CallReplay, CallRaises
  <2>2. UNCHANGED <<first, skipped, lastId>>
    BY <2>1, AtCall
  <2>3. PICK ids \in Seq(1..log) : given' = [given EXCEPT ![j] = @ \o ids]
    BY <1>12, CallEffect DEF Effect
  <2>. QED BY <1>4, <2>2, <2>3
<1>. QED
  BY <1>5, <1>6, <1>7, <1>8, <1>9, <1>10, <1>11, <1>12, Steps

LEMMA GivenKept ==
  ASSUME Structure, [Next]_vars, NEW k \in Callbacks
  PROVE  \/ /\ lastId'[k] = lastId[k]
            /\ \A n \in Int : GivenUpTo(k, n) => GivenUpTo(k, n)'
         \/ pc[k] = "idle" /\ UNCHANGED <<currentId, justYield, given>>
<1>1. Remembers(k)
  BY History
<1>2. CASE lastId'[k] = lastId[k]
  <2>1. ASSUME NEW n \in Int, GivenUpTo(k, n) PROVE GivenUpTo(k, n)'
    <3>1. SUFFICES ASSUME NEW i \in (lastId[k] + 1)..n, i >= first'
                   PROVE  i \in ToSet(given'[k]) \/ <<k, i>> \in skipped'
      BY <1>2 DEF GivenUpTo
    <3>2. i >= first
      BY <1>1, <3>1 DEF Remembers
    <3>3. i \in ToSet(given[k]) \/ <<k, i>> \in skipped
      BY <2>1, <3>2 DEF GivenUpTo
    <3>. QED BY <1>1, <3>3 DEF Remembers
  <2>. QED BY <1>2, <2>1
<1>. QED BY <1>1, <1>2 DEF Remembers

\* A replay that continues what was replayed leaves no gap.
LEMMA Extended ==
  ASSUME Structure, NEW k \in Callbacks, NEW ids, NEW n \in Nat,
         lastId[k] >= 0,
         currentId[k] # Nil => GivenUpTo(k, currentId[k]),
         Continues(k, ids, n),
         UNCHANGED <<first, lastId, skipped>>,
         ToSet(given[k]) \cup ToSet(ids) \subseteq ToSet(given'[k])
  PROVE  GivenUpTo(k, n)'
<1>1. /\ lastId[k] \in Int
      /\ currentId[k] # Nil => currentId[k] \in Nat
  BY Types DEF Structure
<1>2. SUFFICES ASSUME NEW i \in (lastId[k] + 1)..n, i >= first
               PROVE  i \in ToSet(given'[k]) \/ <<k, i>> \in skipped
  BY DEF GivenUpTo
<1>3. i \in 1..n
  BY <1>1
<1>4. CASE currentId[k] # Nil /\ ~(i > currentId[k])
  <2>1. i \in (lastId[k] + 1)..currentId[k]
    BY <1>1, <1>4
  <2>2. i \in ToSet(given[k]) \/ <<k, i>> \in skipped
    BY <1>2, <1>4, <2>1 DEF GivenUpTo
  <2>. QED BY <2>2
<1>5. CASE currentId[k] = Nil \/ i > currentId[k]
  <2>1. i \in ToSet(ids)
    BY <1>2, <1>3, <1>5 DEF Continues
  <2>. QED BY <2>1
<1>. QED BY <1>4, <1>5

\* A block whose replays are over after the call was given the message too.
LEMMA CallGives ==
  ASSUME Structure, ReplaysComplete, DispatchComplete,
         NEW k \in Callbacks, Call(k), k \in ToSet(Table),
         lastId[k] >= 0, justYield'[k]
  PROVE  GivenUpTo(k, walk.msg)'
<1>1. Calling(k) /\ TypeOK
  BY DEF Call, CallDirect, CallNext, CallReplay, CallRaises, Structure
<1>2. /\ Walking /\ walk.msg = taken /\ walk.msg \in 1..log /\ log \in Nat
      /\ walk'.msg = walk.msg
      /\ UNCHANGED <<first, lastId, skipped>>
  BY <1>1, AtCall, Types
<1>3. /\ given \in [Callbacks -> Seq(1..log)] /\ lastId[k] \in Int
      /\ justYield \in [Callbacks -> BOOLEAN]
  BY <1>1, Types
<1>4. PICK ids \in Seq(1..log), c \in 1..log \cup {Nil}, b \in BOOLEAN :
        /\ Effect(k, ids, c, b)
        /\ Direct(k) => ids = <<walk.msg>> /\ b = justYield[k]
        /\ b /\ ~Direct(k) => Continues(k, ids, walk.msg)
  BY CallEffect
<1>5. given'[k] = given[k] \o ids /\ justYield'[k] = b
  BY <1>3, <1>4 DEF Effect
<1>6. ToSet(given'[k]) = ToSet(given[k]) \cup ToSet(ids)
  BY <1>3, <1>5, Concatenated
<1>7. CASE Direct(k)
  <2>1. GivenUpTo(k, walk.msg - 1)
    BY <1>2, <1>4, <1>5, <1>7 DEF DispatchComplete, Dispatched
  <2>2. walk.msg \in ToSet(ids)
    BY <1>4, <1>7 DEF ToSet
  <2>3. SUFFICES ASSUME NEW i \in (lastId[k] + 1)..walk.msg, i >= first
                 PROVE  i \in ToSet(given'[k]) \/ <<k, i>> \in skipped
    BY <1>2 DEF GivenUpTo
  <2>4. i = walk.msg \/ i \in (lastId[k] + 1)..(walk.msg - 1)
    BY <1>2, <1>3
  <2>. QED BY <1>6, <2>1, <2>2, <2>3, <2>4 DEF GivenUpTo
<1>8. CASE ~Direct(k)
  <2>1. Continues(k, ids, walk.msg)
    BY <1>4, <1>5, <1>8
  <2>2. currentId[k] # Nil => GivenUpTo(k, currentId[k])
    BY DEF ReplaysComplete
  <2>3. \A n \in Nat : Continues(k, ids, n) => GivenUpTo(k, n)'
    BY <1>2, <1>6, <2>2, Extended
  <2>. QED BY <1>2, <2>1, <2>3 DEF GivenUpTo
<1>. QED BY <1>7, <1>8

LEMMA ReplaysCompleteKept ==
  Structure /\ ReplaysComplete /\ [Next]_vars => ReplaysComplete'
<1>. SUFFICES ASSUME Structure, ReplaysComplete, [Next]_vars,
                     NEW k \in Callbacks, lastId'[k] >= 0, currentId'[k] # Nil
              PROVE  GivenUpTo(k, currentId[k])'
  BY DEF ReplaysComplete
<1>1. TypeOK /\ Untouched
  BY DEF Structure
<1>2. /\ currentId \in [Callbacks -> 1..log \cup {Nil}] /\ log \in Nat
      /\ given \in [Callbacks -> Seq(1..log)]
  BY <1>1, Types
<1>3. ASSUME currentId'[k] = currentId[k] PROVE GivenUpTo(k, currentId[k])'
  <2>1. currentId[k] \in Int /\ currentId[k] # Nil
    BY <1>2, <1>3
  <2>2. pc[k] # "idle"
    BY <1>1, <2>1 DEF Untouched, Early
  <2>3. /\ lastId'[k] = lastId[k]
        /\ \A n \in Int : GivenUpTo(k, n) => GivenUpTo(k, n)'
    BY <2>2, GivenKept
  <2>4. GivenUpTo(k, currentId[k])
    BY <2>1, <2>3 DEF ReplaysComplete
  <2>. QED BY <1>3, <2>1, <2>3, <2>4 DEF GivenUpTo
<1>4. CASE UNCHANGED currentId
  BY <1>3, <1>4
<1>5. ASSUME NEW j \in Callbacks, Replay(j) \/ ReplayRaises(j)
      PROVE  GivenUpTo(k, currentId[k])'
  <2>1. PICK ids \in Seq(1..log), c \in 1..log \cup {Nil} :
          /\ given' = [given EXCEPT ![j] = @ \o ids]
          /\ currentId' = [currentId EXCEPT ![j] = c]
          /\ \/ c = currentId[j]
             \/ c = Nil
             \/ /\ c = log
                /\ \A i \in 1..log :
                     i >= first /\ i > lastId[j] => i \in ToSet(ids)
    BY <1>5, ReplayEffect
  <2>2. UNCHANGED <<first, lastId, skipped>> /\ lastId[j] >= 0
    BY <1>5, ReplayEffect
  <2>3. CASE j # k \/ c = currentId[j]
    <3>1. currentId'[k] = currentId[k]
      BY <1>2, <2>1, <2>3
    <3>. QED BY <1>3, <3>1
  <2>4. CASE /\ j = k /\ c = log
             /\ \A i \in 1..log :
                  i >= first /\ i > lastId[j] => i \in ToSet(ids)
    <3>1. given'[k] = given[k] \o ids /\ currentId'[k] = log
      BY <1>2, <2>1, <2>4
    <3>2. ToSet(given'[k]) = ToSet(given[k]) \cup ToSet(ids)
      BY <1>2, <3>1, Concatenated
    <3>3. \A i \in (lastId[k] + 1)..log : i \in 1..log /\ i > lastId[k]
      BY <1>1, <1>2, <2>2, <2>4, Types
    <3>. QED BY <2>2, <2>4, <3>1, <3>2, <3>3 DEF GivenUpTo
  <2>5. CASE j = k /\ c = Nil
    <3>1. currentId'[k] = Nil
      BY <1>2, <2>1, <2>5
    <3>. QED BY <3>1
  <2>. QED BY <2>1, <2>3, <2>4, <2>5
<1>6. ASSUME NEW j \in Callbacks, Call(j) PROVE GivenUpTo(k, currentId[k])'
  <2>1. Calling(j)
    BY <1>6 DEF Call, CallDirect, CallNext, CallReplay, CallRaises
  <2>2. UNCHANGED <<first, lastId, skipped>>
    BY <2>1, AtCall
  <2>3. PICK ids \in Seq(1..log), c \in 1..log \cup {Nil}, b \in BOOLEAN :
          /\ Effect(j, ids, c, b)
          /\ \/ c = currentId[j]
             \/ c = Nil
             \/ c = log /\ Continues(j, ids, log)
    BY <1>6, CallEffect
  <2>4. CASE j # k \/ c = currentId[j]
    <3>1. currentId'[k] = currentId[k]
      BY <1>2, <2>3, <2>4 DEF Effect
    <3>. QED BY <1>3, <3>1
  <2>5. CASE j = k /\ c = Nil
    <3>1. currentId'[k] = Nil
      BY <1>2, <2>3, <2>5 DEF Effect
    <3>. QED BY <3>1
  <2>6. CASE j = k /\ c = log /\ Continues(j, ids, log)
    <3>1. given'[k] = given[k] \o ids /\ currentId'[k] = log
      BY <1>2, <2>3, <2>6 DEF Effect
    <3>2. ToSet(given'[k]) = ToSet(given[k]) \cup ToSet(ids)
      BY <1>2, <3>1, Concatenated
    <3>3. lastId[k] >= 0 /\ (currentId[k] # Nil => GivenUpTo(k, currentId[k]))
      BY <2>2 DEF ReplaysComplete
    <3>4. \A n \in Nat : Continues(k, ids, n) => GivenUpTo(k, n)'
      BY <2>2, <3>2, <3>3, Extended
    <3>. QED BY <1>2, <2>6, <3>1, <3>4 DEF GivenUpTo
  <2>. QED BY <2>3, <2>4, <2>5, <2>6
<1>7. CASE UNCHANGED vars
  BY <1>4, <1>7 DEF vars
<1>8. CASE Publish \/ UnsubscribeAll \/ Connect \/ Take \/ EndWalk
  BY <1>4, <1>8
     DEF Publish, UnsubscribeAll, Connect, Take, EndWalk, closures
<1>9. ASSUME NEW j \in Callbacks,
             \/ \E last \in -1..log : Subscribe(j, last)
             \/ Lookup(j) \/ Create(j) \/ AppendCallback(j) \/ EnsureThread(j)
             \/ Unsubscribe(j)
      PROVE  GivenUpTo(k, currentId[k])'
  BY <1>4, <1>9 DEF Subscribe, Lookup, Create, AppendCallback, EnsureThread,
                    Unsubscribe, closures
<1>. QED BY <1>5, <1>6, <1>7, <1>8, <1>9, Steps

LEMMA DispatchCompleteKept ==
  /\ Structure /\ ReplaysComplete /\ DispatchComplete /\ WalkComplete
  /\ [Next]_vars
  => DispatchComplete'
<1>. SUFFICES ASSUME Structure, ReplaysComplete, DispatchComplete, WalkComplete,
                     [Next]_vars,
                     NEW k \in ToSet(Table'), lastId'[k] >= 0, justYield'[k]
              PROVE  GivenUpTo(k, Dispatched)'
  BY DEF DispatchComplete
<1>1. TypeOK /\ Placed /\ Apart /\ Untouched
  BY DEF Structure
<1>2. /\ Table \in Seq(Callbacks) /\ ToSet(Table) \subseteq Callbacks
      /\ taken \in Nat /\ Dispatched \in Int /\ log \in Nat
      /\ justYield \in [Callbacks -> BOOLEAN]
  BY <1>1, Types, ToSetOf DEF Dispatched
<1>3. ASSUME k \in ToSet(Table)
      PROVE  /\ lastId'[k] = lastId[k]
             /\ \A n \in Int : GivenUpTo(k, n) => GivenUpTo(k, n)'
  <2>1. k \in Callbacks /\ pc[k] # "idle"
    BY <1>1, <1>2, <1>3 DEF Apart, Early
  <2>. QED BY <2>1, GivenKept
<1>4. ASSUME k \in ToSet(Table), justYield'[k] = justYield[k],
             Dispatched' = Dispatched
      PROVE  GivenUpTo(k, Dispatched)'
  <2>1. GivenUpTo(k, Dispatched)
    BY <1>3, <1>4 DEF DispatchComplete
  <2>. QED BY <1>2, <1>3, <1>4, <2>1 DEF GivenUpTo
<1>5. ASSUME UNCHANGED <<array, walk, taken, justYield>>
      PROVE  GivenUpTo(k, Dispatched)'
  <2>1. Table' = Table /\ Dispatched' = Dispatched
    BY <1>5 DEF Table, Dispatched, Walking
  <2>. QED BY <1>4, <1>5, <2>1
<1>6. ASSUME array' = <<>>, Detach PROVE FALSE
  <2>1. Table' = <<>>
    BY <1>6, Renewed
  <2>. QED BY <2>1, EmptySeq DEF ToSet
<1>7. CASE UNCHANGED vars
  BY <1>5, <1>7 DEF vars
<1>8. CASE Publish
  BY <1>5, <1>8 DEF Publish, closures
<1>9. CASE UnsubscribeAll
  BY <1>6, <1>9 DEF UnsubscribeAll
<1>10. CASE Connect
  <2>1. Table' = Table /\ justYield' = justYield /\ thread # "live"
    BY <1>10 DEF Connect, Table, closures
  <2>. QED BY <1>1, <1>2, <2>1 DEF Untouched
<1>11. CASE Take
  <2>1. /\ Table' = Table /\ justYield' = justYield /\ ~Walking
        /\ taken' = taken + 1 /\ walk'.msg = taken + 1
    BY <1>11 DEF Take, Table, closures
  <2>2. Dispatched' = Dispatched
    BY <1>2, <2>1 DEF Dispatched, Walking
  <2>. QED BY <1>4, <2>1, <2>2
<1>12. CASE EndWalk
  <2>1. /\ Table' = Table /\ justYield' = justYield /\ Walking
        /\ taken' = taken /\ walk'.msg = 0
    BY <1>12 DEF EndWalk, NoWalk, Table, closures
  <2>2. Dispatched' = walk.msg /\ walk.msg \in Int /\ walk.pos \in Nat
    BY <1>1, <1>2, <2>1, Types DEF Dispatched, Walking, Placed
  <2>3. walk.own = Nil
    BY <1>1, <2>1 DEF Untouched
  <2>4. PICK i \in 1..Len(Table) : Table[i] = k
    BY <1>2, <2>1, ToSetOf
  <2>5. Walked = Table
    BY <1>1, <2>1, <2>3 DEF Walked, Table, Placed
  <2>6. walk.pos > Len(Table)
    BY <1>12, <2>5 DEF EndWalk
  <2>7. i \in DOMAIN Table /\ i < walk.pos
    BY <1>2, <2>2, <2>6, LenProperties
  <2>8. GivenUpTo(k, walk.msg)
    BY <1>3, <2>1, <2>3, <2>4, <2>7 DEF WalkComplete
  <2>. QED BY <1>3, <2>1, <2>2, <2>8 DEF GivenUpTo
<1>13. ASSUME NEW j \in Callbacks, Replay(j) \/ ReplayRaises(j)
       PROVE  GivenUpTo(k, Dispatched)'
  BY <1>5, <1>13, ReplayEffect
<1>14. ASSUME NEW j \in Callbacks,
              \/ \E last \in -1..log : Subscribe(j, last)
              \/ Lookup(j) \/ EnsureThread(j)
       PROVE  GivenUpTo(k, Dispatched)'
  BY <1>5, <1>14 DEF Subscribe, Lookup, EnsureThread, closures
<1>15. ASSUME NEW j \in Callbacks, Create(j) PROVE GivenUpTo(k, Dispatched)'
  BY <1>6, <1>15 DEF Create
<1>16. ASSUME NEW j \in Callbacks, AppendCallback(j)
       PROVE  GivenUpTo(k, Dispatched)'
  <2>1. Table' = Append(Table, j)
    BY <1>16, CallbackAppended
  <2>2. ToSet(Table') = ToSet(Table) \cup {j}
    BY <1>2, <2>1, AppendedSet
  <2>3. pc[j] = "append" /\ UNCHANGED <<walk, taken, justYield>>
    BY <1>16 DEF AppendCallback, closures
  <2>4. ~justYield[j]
    BY <1>1, <2>3 DEF Untouched, Early
  <2>5. Dispatched' = Dispatched
    BY <2>3 DEF Dispatched, Walking
  <2>. QED BY <1>4, <2>2, <2>3, <2>4, <2>5
<1>17. ASSUME NEW j \in Callbacks, Unsubscribe(j)
       PROVE  GivenUpTo(k, Dispatched)'
  <2>1. PICK i \in DOMAIN Table : Table' = RemoveAt(Table, i)
    BY <1>17, CallbackRemoved
  <2>2. ToSet(Table') \subseteq ToSet(Table)
    BY <1>2, <2>1, Removed
  <2>3. UNCHANGED <<walk, taken, justYield>>
    BY <1>17 DEF Unsubscribe, closures
  <2>4. Dispatched' = Dispatched
    BY <2>3 DEF Dispatched, Walking
  <2>. QED BY <1>4, <2>2, <2>3, <2>4
<1>18. ASSUME NEW j \in Callbacks, Call(j) PROVE GivenUpTo(k, Dispatched)'
  <2>1. Calling(j)
    BY <1>18 DEF Call, CallDirect, CallNext, CallReplay, CallRaises
  <2>2. /\ Walking /\ walk.msg = taken /\ walk'.msg = walk.msg
        /\ Table' = Table /\ taken' = taken /\ lastId' = lastId
    BY <2>1, AtCall
  <2>3. Dispatched' = Dispatched /\ Dispatched = walk.msg - 1
    BY <2>2 DEF Dispatched, Walking
  <2>4. PICK ids \in Seq(1..log), c \in 1..log \cup {Nil}, b \in BOOLEAN :
          Effect(j, ids, c, b)
    BY <1>18, CallEffect
  <2>5. CASE j # k
    <3>1. justYield'[k] = justYield[k]
      BY <1>2, <2>2, <2>4, <2>5 DEF Effect
    <3>. QED BY <1>4, <2>2, <2>3, <3>1
  <2>6. CASE j = k
    <3>1. GivenUpTo(k, walk.msg)'
      BY <1>18, <2>2, <2>6, CallGives
    <3>2. \A i \in Int : i <= Dispatched' => i <= walk'.msg
      BY <1>2, <2>2, <2>3
    <3>3. \A i \in (lastId'[k] + 1)..Dispatched' :
            i \in (lastId'[k] + 1)..walk'.msg
      BY <1>1, <1>2, <2>2, <2>3, <2>6, Types
    <3>. QED BY <3>1, <3>3 DEF GivenUpTo
  <2>. QED BY <2>5, <2>6
<1>. QED
  BY <1>7, <1>8, <1>9, <1>10, <1>11, <1>12, <1>13, <1>14, <1>15, <1>16,
     <1>17, <1>18, Steps

LEMMA WalkCompleteKept ==
  /\ Structure /\ ReplaysComplete /\ DispatchComplete /\ WalkComplete
  /\ [Next]_vars
  => WalkComplete'
<1>. SUFFICES ASSUME Structure, ReplaysComplete, DispatchComplete, WalkComplete,
                     [Next]_vars, Walking', walk'.own = Nil,
                     NEW i \in DOMAIN Table', i < walk'.pos,
                     lastId'[Table'[i]] >= 0, justYield'[Table'[i]]
              PROVE  GivenUpTo(Table[i], walk.msg)'
  BY DEF WalkComplete
<1>1. TypeOK /\ Placed /\ Apart /\ Untouched
  BY DEF Structure
<1>2. /\ Table \in Seq(Callbacks) /\ DOMAIN Table = 1..Len(Table)
      /\ Len(Table) \in Nat
      /\ \A n \in 1..Len(Table) :
           Table[n] \in Callbacks /\ Table[n] \in ToSet(Table)
      /\ walk.msg \in Nat /\ walk.pos \in Nat
      /\ justYield \in [Callbacks -> BOOLEAN]
  BY <1>1, Types, ToSetOf, ElementOfSeq
<1>3. \A k \in ToSet(Table) :
        /\ k \in Callbacks /\ lastId'[k] = lastId[k] /\ lastId[k] \in Int
        /\ \A m \in Int : GivenUpTo(k, m) =>
             \A n \in (lastId[k] + 1)..m :
               n >= first' => n \in ToSet(given'[k]) \/ <<k, n>> \in skipped'
  <2>1. \A k \in ToSet(Table) : k \in Callbacks /\ pc[k] # "idle"
    BY <1>1, <1>2, ToSetOf DEF Apart, Early
  <2>2. \A k \in Callbacks : lastId[k] \in Int
    BY <1>1, Types
  <2>3. \A k \in ToSet(Table) :
          /\ lastId'[k] = lastId[k]
          /\ \A m \in Int : GivenUpTo(k, m) => GivenUpTo(k, m)'
    BY <2>1, GivenKept
  <2>. QED BY <2>1, <2>2, <2>3 DEF GivenUpTo
<1>4. ASSUME Walking, walk.own = Nil, walk'.msg = walk.msg,
             NEW n \in 1..Len(Table), Table'[i] = Table[n], n < walk.pos,
             justYield'[Table[n]] = justYield[Table[n]]
      PROVE  GivenUpTo(Table[i], walk.msg)'
  <2>1. PICK k \in ToSet(Table) : k = Table[n]
    BY <1>2, <1>4
  <2>2. lastId[k] >= 0 /\ justYield[k]
    BY <1>3, <1>4, <2>1
  <2>3. GivenUpTo(k, walk.msg)
    BY <1>2, <1>4, <2>1, <2>2 DEF WalkComplete
  <2>4. \A m \in (lastId[k] + 1)..walk.msg :
          m >= first' => m \in ToSet(given'[k]) \/ <<k, m>> \in skipped'
    BY <1>2, <1>3, <2>3
  <2>. QED BY <1>3, <1>4, <2>1, <2>4 DEF GivenUpTo
<1>5. ASSUME UNCHANGED <<array, walk, justYield>>
      PROVE  GivenUpTo(Table[i], walk.msg)'
  <2>1. Table' = Table /\ Walking /\ walk.own = Nil
    BY <1>5 DEF Table, Walking
  <2>. QED BY <1>2, <1>4, <1>5, <2>1
<1>6. ASSUME array' = <<>>, Detach PROVE FALSE
  <2>1. Table' = <<>>
    BY <1>6, Renewed
  <2>. QED BY <2>1, EmptySeq
<1>7. CASE UNCHANGED vars
  BY <1>5, <1>7 DEF vars
<1>8. CASE Publish \/ Connect
  BY <1>5, <1>8 DEF Publish, Connect, closures
<1>9. CASE UnsubscribeAll
  BY <1>6, <1>9 DEF UnsubscribeAll
<1>10. CASE Take
  <2>1. walk'.pos = 1 /\ Table' = Table
    BY <1>10 DEF Take, Table
  <2>. QED BY <1>2, <2>1
<1>11. CASE EndWalk
  BY <1>11 DEF EndWalk, NoWalk, Walking
<1>12. ASSUME NEW j \in Callbacks, Replay(j) \/ ReplayRaises(j)
       PROVE  GivenUpTo(Table[i], walk.msg)'
  BY <1>5, <1>12, ReplayEffect
<1>13. ASSUME NEW j \in Callbacks,
              \/ \E last \in -1..log : Subscribe(j, last)
              \/ Lookup(j) \/ EnsureThread(j)
       PROVE  GivenUpTo(Table[i], walk.msg)'
  BY <1>5, <1>13 DEF Subscribe, Lookup, EnsureThread, closures
<1>14. ASSUME NEW j \in Callbacks, Create(j)
       PROVE  GivenUpTo(Table[i], walk.msg)'
  BY <1>6, <1>14 DEF Create
<1>15. ASSUME NEW j \in Callbacks, AppendCallback(j)
       PROVE  GivenUpTo(Table[i], walk.msg)'
  <2>1. Table' = Append(Table, j)
    BY <1>15, CallbackAppended
  <2>2. /\ Append(Table, j) \in Seq(Callbacks)
        /\ Len(Append(Table, j)) = Len(Table) + 1
        /\ \A n \in 1..Len(Table) : Append(Table, j)[n] = Table[n]
        /\ Append(Table, j)[Len(Table) + 1] = j
    BY <1>2, AppendedSet
  <2>3. pc[j] = "append" /\ UNCHANGED <<walk, justYield>>
    BY <1>15 DEF AppendCallback, closures
  <2>4. ~justYield[j]
    BY <1>1, <2>3 DEF Untouched, Early
  <2>5. i \in 1..(Len(Table) + 1)
    BY <2>1, <2>2, LenProperties
  <2>6. i \in 1..Len(Table)
    BY <1>2, <2>1, <2>2, <2>3, <2>4, <2>5
  <2>7. Table'[i] = Table[i] /\ Walking /\ walk.own = Nil /\ i < walk.pos
    BY <2>1, <2>2, <2>3, <2>6 DEF Walking
  <2>. QED BY <1>4, <2>3, <2>6, <2>7
<1>16. ASSUME NEW j \in Callbacks, Unsubscribe(j)
       PROVE  GivenUpTo(Table[i], walk.msg)'
  <2>1. walk' = walk /\ justYield' = justYield /\ Walking /\ walk.own = Nil
    <3>1. walk' = walk /\ justYield' = justYield
      BY <1>16 DEF Unsubscribe, closures
    <3>. QED BY <3>1 DEF Walking
  <2>2. PICK r \in DOMAIN Table :
          /\ Table' = RemoveAt(Table, r)
          /\ r < walk.pos /\ walk.pos <= Len(Table) =>
               <<Table[walk.pos], walk.msg>> \in skipped'
    BY <1>16, <2>1, CallbackRemoved
  <2>3. /\ RemoveAt(Table, r) \in Seq(Callbacks)
        /\ Len(RemoveAt(Table, r)) = Len(Table) - 1
        /\ \A n \in 1..(Len(Table) - 1) :
             RemoveAt(Table, r)[n] = IF n < r THEN Table[n] ELSE Table[n + 1]
    <3>1. Table \in Seq(Callbacks) /\ r \in DOMAIN Table
      BY <1>2, <2>2
    <3>. QED BY <3>1, Removed
  <2>4. i \in 1..(Len(Table) - 1) /\ r \in 1..Len(Table)
    BY <1>2, <2>2, <2>3, LenProperties
  <2>5. Table'[i] = IF i < r THEN Table[i] ELSE Table[i + 1]
    BY <2>2, <2>3, <2>4
  <2>6. CASE i < r
    BY <1>2, <1>4, <2>1, <2>4, <2>5, <2>6
  <2>7. CASE ~(i < r) /\ i + 1 < walk.pos
    <3>1. i + 1 \in 1..Len(Table) /\ Table'[i] = Table[i + 1]
      BY <1>2, <2>4, <2>5, <2>7
    <3>. QED BY <1>4, <2>1, <2>7, <3>1
  <2>8. CASE ~(i < r) /\ ~(i + 1 < walk.pos)
    <3>1. /\ i + 1 = walk.pos /\ walk.pos \in 1..Len(Table)
          /\ r < walk.pos /\ walk.pos <= Len(Table)
      BY <1>2, <2>1, <2>4, <2>8
    <3>2. Table'[i] = Table[walk.pos]
      BY <2>5, <2>8, <3>1
    <3>3. <<Table[walk.pos], walk.msg>> \in skipped'
      BY <2>2, <3>1
    <3>4. PICK q \in ToSet(Table) : q = Table[walk.pos]
      BY <1>2, <3>1
    <3>5. lastId[q] >= 0 /\ justYield[q] /\ lastId[q] \in Int
      BY <1>3, <2>1, <3>2, <3>4
    <3>6. GivenUpTo(q, walk.msg - 1)
      <4>1. Dispatched = walk.msg - 1
        BY <1>1, <2>1 DEF Dispatched, Placed
      <4>. QED BY <3>5, <4>1 DEF DispatchComplete
    <3>7. walk.msg - 1 \in Int
      BY <1>2
    <3>8. \A n \in (lastId[q] + 1)..(walk.msg - 1) :
            n >= first' => n \in ToSet(given'[q]) \/ <<q, n>> \in skipped'
      BY <1>3, <3>6, <3>7
    <3>9. \A n \in (lastId[q] + 1)..walk.msg :
            n = walk.msg \/ n \in (lastId[q] + 1)..(walk.msg - 1)
      BY <1>2, <3>5
    <3>. QED BY <1>3, <2>1, <3>2, <3>3, <3>4, <3>8, <3>9 DEF GivenUpTo
  <2>. QED BY <2>6, <2>7, <2>8
<1>17. ASSUME NEW j \in Callbacks, Call(j)
       PROVE  GivenUpTo(Table[i], walk.msg)'
  <2>1. Calling(j)
    BY <1>17 DEF Call, CallDirect, CallNext, CallReplay, CallRaises
  <2>2. /\ Walking /\ walk'.msg = walk.msg /\ walk'.own = walk.own
        /\ walk'.pos = walk.pos + 1 /\ Table' = Table /\ lastId' = lastId
        /\ walk.pos \in 1..Len(Route) /\ Route[walk.pos] = j
    BY <2>1, AtCall
  <2>3. Route = Table /\ walk.own = Nil
    BY <2>2 DEF Route
  <2>4. PICK ids \in Seq(1..log), c \in 1..log \cup {Nil}, b \in BOOLEAN :
          Effect(j, ids, c, b)
    BY <1>17, CallEffect
  <2>5. i \in 1..Len(Table) /\ Table'[i] = Table[i]
    BY <1>2, <2>2
  <2>6. CASE i = walk.pos
    <3>1. Table[i] = j /\ j \in ToSet(Table)
      BY <1>2, <2>2, <2>3, <2>6
    <3>2. GivenUpTo(j, walk.msg)'
      BY <1>17, <2>2, <2>5, <3>1, CallGives
    <3>. QED BY <2>5, <3>1, <3>2 DEF GivenUpTo
  <2>7. CASE i # walk.pos
    <3>1. i < walk.pos /\ Table[i] # j
      BY <1>1, <1>2, <2>2, <2>3, <2>5, <2>7 DEF Apart, Distinct
    <3>2. justYield'[Table[i]] = justYield[Table[i]]
      BY <1>2, <2>4, <2>5, <3>1 DEF Effect
    <3>. QED BY <1>4, <2>2, <2>3, <2>5, <3>1, <3>2
  <2>. QED BY <2>6, <2>7
<1>. QED
  BY <1>7, <1>8, <1>9, <1>10, <1>11, <1>12, <1>13, <1>14, <1>15, <1>16,
     <1>17, Steps

LEMMA NotAheadKept ==
  Structure /\ NotAhead /\ [Next]_vars => NotAhead'
<1>. SUFFICES ASSUME Structure, NotAhead, [Next]_vars,
                     NEW k \in Callbacks, Direct(k)', given'[k] # <<>>
              PROVE  Last(given'[k]) <= taken'
  BY DEF NotAhead
<1>1. TypeOK /\ Placed /\ Untouched
  BY DEF Structure
<1>2. /\ given \in [Callbacks -> Seq(1..log)] /\ log \in Nat
      /\ taken \in 0..log
      /\ lastId \in [Callbacks -> -1..log]
      /\ justYield \in [Callbacks -> BOOLEAN]
  BY <1>1, Types
<1>3. given[k] # <<>> => Last(given[k]) \in Nat
  <2>1. ASSUME given[k] # <<>> PROVE Last(given[k]) \in 1..log
    <3>1. Len(given[k]) \in 1..Len(given[k])
      BY <1>2, <2>1, EmptySeq
    <3>. QED BY <1>2, <3>1, ElementOfSeq DEF Last
  <2>. QED BY <2>1
<1>4. ASSUME given'[k] = given[k], Direct(k)' => Direct(k),
             taken' \in Nat, taken <= taken'
      PROVE  Last(given'[k]) <= taken'
  <2>1. Last(given[k]) <= taken /\ given[k] # <<>>
    BY <1>4 DEF NotAhead
  <2>. QED BY <1>2, <1>3, <1>4, <2>1
<1>5. ASSUME UNCHANGED <<given, lastId, justYield, taken>>
      PROVE  Last(given'[k]) <= taken'
  BY <1>2, <1>4, <1>5 DEF Direct
<1>6. CASE UNCHANGED vars
  BY <1>5, <1>6 DEF vars
<1>7. CASE Publish \/ UnsubscribeAll \/ EndWalk
  BY <1>5, <1>7 DEF Publish, UnsubscribeAll, EndWalk, closures
<1>8. CASE Connect \/ Take
  BY <1>2, <1>4, <1>8 DEF Connect, Take, closures, Direct
<1>9. ASSUME NEW j \in Callbacks, NEW last \in -1..log, Subscribe(j, last)
      PROVE  Last(given'[k]) <= taken'
  <2>1. /\ pc[j] = "idle" /\ lastId' = [lastId EXCEPT ![j] = last]
        /\ UNCHANGED <<given, justYield, taken>>
    BY <1>9 DEF Subscribe, closures
  <2>2. j # k
    BY <1>1, <2>1 DEF Untouched, Early
  <2>. QED BY <1>2, <1>4, <2>1, <2>2 DEF Direct
<1>10. ASSUME NEW j \in Callbacks, Replay(j) \/ ReplayRaises(j)
       PROVE  Last(given'[k]) <= taken'
  <2>1. /\ pc[j] = "replay" /\ lastId[j] >= 0
        /\ UNCHANGED <<lastId, justYield, taken>>
    BY <1>10, ReplayEffect
  <2>2. PICK ids \in Seq(1..log) : given' = [given EXCEPT ![j] = @ \o ids]
    BY <1>10, ReplayEffect
  <2>3. j # k
    BY <1>1, <2>1 DEF Untouched, Early, Direct
  <2>. QED BY <1>2, <1>4, <2>1, <2>2, <2>3 DEF Direct
<1>11. ASSUME NEW j \in Callbacks,
              \/ Lookup(j) \/ Create(j) \/ AppendCallback(j) \/ EnsureThread(j)
              \/ Unsubscribe(j)
       PROVE  Last(given'[k]) <= taken'
  BY <1>5, <1>11 DEF Lookup, Create, AppendCallback, EnsureThread, Unsubscribe,
                     closures
<1>12. ASSUME NEW j \in Callbacks, Call(j) PROVE Last(given'[k]) <= taken'
  <2>1. Calling(j)
    BY <1>12 DEF Call, CallDirect, CallNext, CallReplay, CallRaises
  <2>2. walk.msg = taken /\ taken' = taken /\ lastId' = lastId
    BY <2>1, AtCall
  <2>3. PICK ids \in Seq(1..log), c \in 1..log \cup {Nil}, b \in BOOLEAN :
          /\ Effect(j, ids, c, b)
          /\ Direct(j) => ids = <<walk.msg>>
          /\ b /\ ~Direct(j) => ids # <<>> /\ Last(ids) = walk.msg
    BY <1>12, CallEffect
  <2>4. CASE j # k
    <3>1. given'[k] = given[k] /\ justYield'[k] = justYield[k]
      BY <1>2, <2>3, <2>4 DEF Effect
    <3>. QED BY <1>2, <1>4, <2>2, <3>1 DEF Direct
  <2>5. CASE j = k
    <3>1. given'[k] = given[k] \o ids /\ justYield'[k] = b
      BY <1>2, <2>3, <2>5 DEF Effect
    <3>2. Direct(k) \/ b
      BY <2>2, <3>1 DEF Direct
    <3>3. ids # <<>> /\ Last(ids) = walk.msg
      BY <2>3, <2>5, <3>2 DEF Last
    <3>4. Last(given'[k]) = Last(ids)
      BY <1>2, <3>1, <3>3, Concatenated
    <3>. QED BY <1>2, <2>2, <3>3, <3>4
  <2>. QED BY <2>4, <2>5
<1>. QED
  BY <1>6, <1>7, <1>8, <1>9, <1>10, <1>11, <1>12, Steps

LEMMA StillToComeKept ==
  Structure /\ NotAhead /\ StillToCome /\ [Next]_vars => StillToCome'
<1>. SUFFICES ASSUME Structure, NotAhead, StillToCome, [Next]_vars, Walking',
                     NEW i \in DOMAIN Route', i >= walk'.pos,
                     Direct(Route[i])', given'[Route'[i]] # <<>>
              PROVE  Last(given'[Route'[i]]) < walk'.msg
  BY DEF StillToCome
<1>1. TypeOK /\ Placed /\ Apart /\ Untouched
  BY DEF Structure
<1>2. /\ Route \in Seq(Callbacks) /\ Table \in Seq(Callbacks)
      /\ walk.msg \in Nat /\ walk.pos \in Nat /\ taken \in Nat
      /\ given \in [Callbacks -> Seq(1..log)] /\ log \in Nat
      /\ lastId \in [Callbacks -> -1..log]
      /\ justYield \in [Callbacks -> BOOLEAN]
  BY <1>1, Types
<1>3. /\ DOMAIN Route = 1..Len(Route) /\ Len(Route) \in Nat
      /\ \A n \in 1..Len(Route) :
           Route[n] \in Callbacks /\ Route[n] \in ToSet(Route)
  BY <1>2, ToSetOf, ElementOfSeq
<1>4. /\ DOMAIN Table = 1..Len(Table) /\ Len(Table) \in Nat
      /\ \A n \in 1..Len(Table) :
           Table[n] \in Callbacks /\ Table[n] \in ToSet(Table)
  BY <1>2, ToSetOf, ElementOfSeq
<1>5. \A k \in Callbacks : given[k] # <<>> => Last(given[k]) \in Nat
  <2>1. ASSUME NEW k \in Callbacks, given[k] # <<>>
        PROVE  Last(given[k]) \in 1..log
    <3>1. Len(given[k]) \in 1..Len(given[k])
      BY <1>2, <2>1, EmptySeq
    <3>. QED BY <1>2, <3>1, ElementOfSeq DEF Last
  <2>. QED BY <2>1
<1>6. ASSUME Walking, walk'.msg = walk.msg,
             NEW n \in 1..Len(Route), Route'[i] = Route[n], n >= walk.pos,
             NEW k \in Callbacks, k = Route[n],
             given'[k] = given[k], lastId'[k] = lastId[k],
             justYield'[k] = justYield[k]
      PROVE  Last(given'[Route'[i]]) < walk'.msg
  <2>1. Direct(k) /\ given[k] # <<>>
    BY <1>6 DEF Direct
  <2>. QED BY <1>2, <1>6, <2>1 DEF StillToCome
<1>7. ASSUME Walking, UNCHANGED <<Route, walk, given, lastId, justYield>>
      PROVE  Last(given'[Route'[i]]) < walk'.msg
  BY <1>6, <1>3, <1>7
<1>8. ASSUME UNCHANGED <<array, walk, given, lastId, justYield>>
      PROVE  Last(given'[Route'[i]]) < walk'.msg
  <2>1. Route' = Route /\ Walking
    BY <1>8 DEF Route, Table, Walking
  <2>. QED BY <1>7, <1>8, <2>1
<1>9. ASSUME array' = <<>>, Detach, UNCHANGED <<given, lastId, justYield>>
      PROVE  Last(given'[Route'[i]]) < walk'.msg
  <2>1. walk'.msg = walk.msg /\ walk'.pos = walk.pos
    BY <1>9, Renewed
  <2>2. Walking
    BY <2>1 DEF Walking
  <2>3. Route' = Route
    BY <1>9, <2>2, Renewed
  <2>. QED BY <1>6, <1>3, <1>9, <2>1, <2>2, <2>3
<1>10. CASE UNCHANGED vars
  BY <1>8, <1>10 DEF vars
<1>11. CASE Publish \/ Connect
  BY <1>8, <1>11 DEF Publish, Connect, closures
<1>12. CASE UnsubscribeAll
  BY <1>9, <1>12 DEF UnsubscribeAll, closures
<1>13. CASE Take
  <2>1. /\ walk'.msg = taken + 1 /\ walk'.own = Nil /\ array' = array
        /\ UNCHANGED <<given, lastId, justYield>>
    BY <1>13 DEF Take, closures
  <2>2. Route' = Table
    BY <2>1 DEF Route, Table
  <2>3. PICK k \in Callbacks : k = Route'[i]
    BY <1>4, <2>2
  <2>4. Direct(k) /\ given[k] # <<>>
    BY <2>1, <2>3 DEF Direct
  <2>5. Last(given[k]) <= taken
    BY <2>4 DEF NotAhead
  <2>. QED BY <1>2, <1>5, <2>1, <2>3, <2>4, <2>5
<1>14. CASE EndWalk
  BY <1>14 DEF EndWalk, NoWalk, Walking
<1>15. ASSUME NEW j \in Callbacks, NEW last \in -1..log, Subscribe(j, last)
       PROVE  Last(given'[Route'[i]]) < walk'.msg
  <2>1. /\ pc[j] = "idle" /\ lastId' = [lastId EXCEPT ![j] = last]
        /\ UNCHANGED <<array, walk, given, justYield>>
    BY <1>15 DEF Subscribe, closures
  <2>2. Route' = Route /\ Walking
    BY <2>1 DEF Route, Table, Walking
  <2>3. PICK k \in Callbacks : k = Route[i] /\ k \in ToSet(Route)
    BY <1>3, <2>2
  <2>4. k # j
    BY <1>1, <2>1, <2>3 DEF Apart, Early
  <2>5. lastId'[k] = lastId[k]
    BY <1>2, <2>1, <2>4
  <2>. QED BY <1>6, <1>3, <2>1, <2>2, <2>3, <2>5
<1>16. ASSUME NEW j \in Callbacks, Replay(j) \/ ReplayRaises(j)
       PROVE  Last(given'[Route'[i]]) < walk'.msg
  <2>1. /\ pc[j] = "replay"
        /\ UNCHANGED <<array, walk, lastId, justYield>>
    BY <1>16, ReplayEffect
  <2>2. PICK ids \in Seq(1..log) : given' = [given EXCEPT ![j] = @ \o ids]
    BY <1>16, ReplayEffect
  <2>3. Route' = Route /\ Walking
    BY <2>1 DEF Route, Table, Walking
  <2>4. PICK k \in Callbacks : k = Route[i] /\ k \in ToSet(Route)
    BY <1>3, <2>3
  <2>5. k # j
    BY <1>1, <2>1, <2>4 DEF Apart, Early
  <2>6. given'[k] = given[k]
    BY <1>2, <2>2, <2>5
  <2>. QED BY <1>6, <1>3, <2>1, <2>3, <2>4, <2>6
<1>17. ASSUME NEW j \in Callbacks, Lookup(j) \/ EnsureThread(j)
       PROVE  Last(given'[Route'[i]]) < walk'.msg
  BY <1>8, <1>17 DEF Lookup, EnsureThread, closures
<1>18. ASSUME NEW j \in Callbacks, Create(j)
       PROVE  Last(given'[Route'[i]]) < walk'.msg
  BY <1>9, <1>18 DEF Create, closures
<1>19. ASSUME NEW j \in Callbacks, AppendCallback(j)
       PROVE  Last(given'[Route'[i]]) < walk'.msg
  <2>1. Route' = IF walk.own = Nil THEN Append(Table, j) ELSE Route
    BY <1>19, CallbackAppended
  <2>2. pc[j] = "append" /\ UNCHANGED <<walk, given, lastId, justYield>>
    BY <1>19 DEF AppendCallback, closures
  <2>3. Walking
    BY <2>2 DEF Walking
  <2>4. CASE walk.own # Nil
    BY <1>7, <2>1, <2>2, <2>3, <2>4
  <2>5. CASE walk.own = Nil
    <3>1. Route = Table /\ Route' = Append(Table, j)
      BY <2>1, <2>5 DEF Route
    <3>2. /\ Append(Table, j) \in Seq(Callbacks)
          /\ Len(Append(Table, j)) = Len(Table) + 1
          /\ \A n \in 1..Len(Table) : Append(Table, j)[n] = Table[n]
          /\ Append(Table, j)[Len(Table) + 1] = j
      BY <1>2, AppendedSet
    <3>3. i \in 1..(Len(Table) + 1)
      BY <3>1, <3>2, LenProperties
    <3>4. ~(Direct(j)' /\ given'[j] # <<>>)
      BY <1>1, <2>2 DEF Untouched, Early, Direct
    <3>5. i \in 1..Len(Table)
      <4>1. Route'[Len(Table) + 1] = j
        BY <3>1, <3>2
      <4>2. i # Len(Table) + 1
        BY <3>4, <4>1 DEF Direct
      <4>. QED BY <1>4, <3>3, <4>2
    <3>6. Route'[i] = Route[i]
      BY <3>1, <3>2, <3>5
    <3>7. PICK k \in Callbacks : k = Route[i]
      BY <1>4, <3>1, <3>5
    <3>. QED BY <1>6, <2>2, <2>3, <3>1, <3>5, <3>6, <3>7
  <2>. QED BY <2>4, <2>5
<1>20. ASSUME NEW j \in Callbacks, Unsubscribe(j)
       PROVE  Last(given'[Route'[i]]) < walk'.msg
  <2>1. PICK r \in DOMAIN Table :
          Route' = IF walk.own = Nil THEN RemoveAt(Table, r) ELSE Route
    BY <1>20, CallbackRemoved
  <2>2. UNCHANGED <<walk, given, lastId, justYield>>
    BY <1>20 DEF Unsubscribe, closures
  <2>3. Walking
    BY <2>2 DEF Walking
  <2>4. CASE walk.own # Nil
    BY <1>7, <2>1, <2>2, <2>3, <2>4
  <2>5. CASE walk.own = Nil
    <3>1. Route = Table /\ Route' = RemoveAt(Table, r)
      BY <2>1, <2>5 DEF Route
    <3>2. Table \in Seq(Callbacks) /\ r \in DOMAIN Table
      BY <1>2, <2>1
    <3>3. /\ RemoveAt(Table, r) \in Seq(Callbacks)
          /\ Len(RemoveAt(Table, r)) = Len(Table) - 1
          /\ \A n \in 1..(Len(Table) - 1) :
               RemoveAt(Table, r)[n] = IF n < r THEN Table[n] ELSE Table[n + 1]
      BY <3>2, Removed
    <3>4. i \in 1..(Len(Table) - 1)
      BY <3>1, <3>3, LenProperties
    <3>5. PICK n \in 1..Len(Table) : Route'[i] = Table[n] /\ n >= i
      <4>1. Route'[i] = IF i < r THEN Table[i] ELSE Table[i + 1]
        BY <3>1, <3>3, <3>4
      <4>2. i \in 1..Len(Table) /\ i + 1 \in 1..Len(Table) /\ i + 1 >= i
        BY <1>4, <3>4
      <4>. QED BY <4>1, <4>2
    <3>6. n >= walk.pos /\ n \in 1..Len(Route) /\ Route'[i] = Route[n]
      <4>1. i >= walk.pos
        BY <2>2
      <4>2. walk.pos \in Nat /\ i \in Nat /\ n \in Nat /\ n >= i
        BY <1>2, <3>4, <3>5
      <4>3. n >= walk.pos
        BY <4>1, <4>2
      <4>. QED BY <3>1, <3>5, <4>3
    <3>7. PICK k \in Callbacks : k = Route[n]
      BY <1>3, <3>6
    <3>. QED BY <1>6, <2>2, <2>3, <3>6, <3>7
  <2>. QED BY <2>4, <2>5
<1>21. ASSUME NEW j \in Callbacks, Call(j)
       PROVE  Last(given'[Route'[i]]) < walk'.msg
  <2>1. Calling(j)
    BY <1>21 DEF Call, CallDirect, CallNext, CallReplay, CallRaises
  <2>2. /\ Walking /\ walk'.msg = walk.msg /\ walk'.pos = walk.pos + 1
        /\ Route' = Route /\ lastId' = lastId
        /\ walk.pos \in 1..Len(Route) /\ Route[walk.pos] = j
    BY <2>1, AtCall
  <2>3. PICK ids \in Seq(1..log), c \in 1..log \cup {Nil}, b \in BOOLEAN :
          Effect(j, ids, c, b)
    BY <1>21, CallEffect
  <2>4. PICK k \in Callbacks : k = Route[i]
    BY <1>3, <2>2
  <2>5. i \in 1..Len(Route) /\ i >= walk.pos /\ i # walk.pos
    <3>1. i \in DOMAIN Route /\ i >= walk.pos + 1
      BY <2>2
    <3>2. i \in 1..Len(Route)
      BY <1>3, <3>1
    <3>3. walk.pos \in Nat /\ i \in Nat
      BY <1>2, <3>2
    <3>4. i >= walk.pos /\ i # walk.pos
      BY <3>1, <3>3
    <3>. QED BY <3>2, <3>4
  <2>6. k # j
    BY <1>1, <1>3, <2>2, <2>4, <2>5 DEF Apart, Distinct
  <2>7. given'[k] = given[k] /\ justYield'[k] = justYield[k]
    BY <1>2, <2>3, <2>6 DEF Effect
  <2>. QED BY <1>6, <2>2, <2>4, <2>5, <2>7
<1>. QED
  BY <1>10, <1>11, <1>12, <1>13, <1>14, <1>15, <1>16, <1>17, <1>18, <1>19,
     <1>20, <1>21, Steps

-----------------------------------------------------------------------------
(* Theorems.                                                               *)

LEMMA Invariance == Spec => []BusInv
<1>1. BusInv /\ [Next]_vars => BusInv'
  BY StructureKept, ReplaysCompleteKept, DispatchCompleteKept, WalkCompleteKept,
     NotAheadKept, StillToComeKept
     DEF BusInv, Complete, InOrder
<1>. QED BY InitInv, <1>1, PTL DEF Spec

\* The array, the walk and the closures keep their types, and the subscriber
\* thread never has a message that was not published.
THEOREM TypeCorrect == Spec => []TypeOK
BY Invariance, PTL DEF BusInv, Structure

\* subscribe(channel, last_id) and the dispatch, for any number of callbacks,
\* messages and errors: once its replays are over, a callback in the array was
\* given everything after last_id that was dispatched and is retained, whoever
\* put another array in the table, and whatever was removed under the walk but
\* for the one callback the removal makes it pass over.
THEOREM NoneMissedAlways == Spec => []NoneMissed
<1>1. BusInv => NoneMissed
  BY DEF BusInv, Complete, DispatchComplete, GivenUpTo, NoneMissed, Table
<1>. QED BY Invariance, <1>1, PTL

\* Once its replays are over, a block gets one message at a time and each after
\* the one before, whether the call raises or not.
THEOREM LiveInOrderAlways == Spec => LiveInOrder
<1>. DEFINE Ordered(k) ==
              Direct(k) /\ given'[k] # given[k] =>
                /\ Len(given'[k]) = Len(given[k]) + 1
                /\ given[k] # <<>> => Last(given[k]) < Last(given'[k])
<1>1. ASSUME BusInv, [Next]_vars, NEW k \in Callbacks, Direct(k),
             given'[k] # given[k]
      PROVE  /\ Len(given'[k]) = Len(given[k]) + 1
             /\ given[k] # <<>> => Last(given[k]) < Last(given'[k])
  <2>1. Structure /\ TypeOK /\ Untouched /\ StillToCome
    BY <1>1 DEF BusInv, Structure, InOrder
  <2>2. /\ given \in [Callbacks -> Seq(1..log)] /\ log \in Nat
        /\ Route \in Seq(Callbacks)
    BY <2>1, Types
  <2>3. ASSUME NEW j \in Callbacks, Replay(j) \/ ReplayRaises(j) PROVE FALSE
    <3>1. pc[j] = "replay" /\ lastId[j] >= 0
      BY <2>1, <2>3, ReplayEffect
    <3>2. PICK ids \in Seq(1..log) : given' = [given EXCEPT ![j] = @ \o ids]
      BY <2>1, <2>3, ReplayEffect
    <3>3. j = k
      BY <1>1, <2>2, <3>2
    <3>. QED BY <1>1, <2>1, <3>1, <3>3 DEF Untouched, Early, Direct
  <2>4. PICK j \in Callbacks : Call(j)
    BY <1>1, <2>3, Steps
       DEF vars, Publish, UnsubscribeAll, Connect, Take, EndWalk, Subscribe,
           Lookup, Create, AppendCallback, EnsureThread, Unsubscribe
  <2>5. Calling(j)
    BY <2>4 DEF Call, CallDirect, CallNext, CallReplay, CallRaises
  <2>6. /\ Walking /\ walk.msg \in 1..log
        /\ walk.pos \in 1..Len(Route) /\ Route[walk.pos] = j
    BY <2>1, <2>5, AtCall
  <2>7. PICK ids \in Seq(1..log), c \in 1..log \cup {Nil}, b \in BOOLEAN :
          /\ Effect(j, ids, c, b)
          /\ Direct(j) => ids = <<walk.msg>>
    BY <2>1, <2>4, CallEffect
  <2>8. j = k
    BY <1>1, <2>2, <2>7 DEF Effect
  <2>9. given'[k] = given[k] \o ids /\ ids = <<walk.msg>>
    BY <1>1, <2>2, <2>7, <2>8 DEF Effect
  <2>10. ids # <<>> /\ Len(ids) = 1 /\ Last(ids) = walk.msg
    BY <2>9 DEF Last
  <2>11. Len(given'[k]) = Len(given[k]) + 1 /\ Last(given'[k]) = walk.msg
    <3>1. given[k] \in Seq(1..log) /\ ids \in Seq(1..log)
      BY <2>2, <2>7
    <3>2. Len(given[k] \o ids) = Len(given[k]) + Len(ids)
      BY <3>1, ConcatProperties
    <3>3. Last(given[k] \o ids) = Last(ids)
      BY <2>10, <3>1, Concatenated
    <3>. QED BY <2>9, <2>10, <3>2, <3>3
  <2>12. given[k] # <<>> => Last(given[k]) < walk.msg
    <3>1. walk.pos \in DOMAIN Route /\ walk.pos >= walk.pos
      BY <2>2, <2>6, LenProperties
    <3>. QED BY <1>1, <2>1, <2>6, <2>8, <3>1 DEF StillToCome
  <2>. QED BY <2>11, <2>12
<1>2. BusInv /\ [Next]_vars => [\A k \in Callbacks : Ordered(k)]_vars
  BY <1>1
<1>. QED BY Invariance, <1>2, PTL DEF Spec, LiveInOrder


=============================================================================

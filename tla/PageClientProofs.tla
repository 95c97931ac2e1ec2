--------------------------- MODULE PageClientProofs ---------------------------
(***************************************************************************)
(* For any channels, calls, timers and failures: a started client polls,   *)
(* one request at a time, and backs off for failures only; and a callback  *)
(* that has its channel to itself is handed every message once, in order.  *)
(***************************************************************************)
EXTENDS PageClient, SequenceTheorems, FiniteSetTheorems,
        WellFoundedInduction, TLAPS

-----------------------------------------------------------------------------
(* The variables of the client.                                            *)

Flags == {"started", "stopped", "ajaxInProgress", "longPoll",
          "delayPollTimeout"}

Shape(p) ==
  /\ Flags \cup {"callbacks", "later", "req", "paused", "hidden", "failCount",
                 "chunkedBackoff", "pollTimeout", "chunkedTimeout", "adapter"}
       \subseteq DOMAIN p
  /\ {"open", "chunked", "begun", "upto"} \subseteq DOMAIN p.req
  /\ \A f \in Flags : p[f] \in BOOLEAN
  /\ p.req.open \in BOOLEAN
  /\ p.failCount \in Nat

\* Whatever makes the next request, but for a walk that ends one.
Pending(p) ==
  p.req.open \/ p.delayPollTimeout \/ p.pollTimeout # "none"

\* The two flags stand for a request that is open or, in success, walked.
Held(p, walked) ==
  /\ p.longPoll <=> p.ajaxInProgress
  /\ p.longPoll <=> p.req.open \/ walked
  /\ ~(p.req.open /\ walked)

\* With jQuery, n failures have been counted at most.
Calm(p, n) ==
  p.adapter = "jquery" =>
    p.failCount <= n /\ (p.pollTimeout = "backoff" => n > Patience)

\* A client between two statements of an event; one that is stopped waits for
\* nothing but the request it is about to abort.
Nearly(p, walked, n) ==
  /\ Shape(p) /\ Held(p, walked) /\ Calm(p, n)
  /\ p.started => ~p.stopped
  /\ ~p.started => ~p.delayPollTimeout /\ p.pollTimeout = "none"

\* A client between two events or calls: started, it has something pending.
Lively(p, walked, n) ==
  /\ Nearly(p, walked, n)
  /\ ~p.started => ~p.req.open
  /\ p.started /\ ~walked => Pending(p)

\* What does not touch the polling.
LEMMA OthersKept ==
  ASSUME NEW p, NEW walked \in BOOLEAN, NEW n \in Nat, Lively(p, walked, n),
         NEW q, DOMAIN q = DOMAIN p, DOMAIN q.req = DOMAIN p.req,
         \A f \in Flags : q[f] = p[f],
         q.req.open = p.req.open, q.pollTimeout = p.pollTimeout,
         q.adapter = p.adapter, q.failCount = p.failCount \/ q.failCount = 0
  PROVE  Lively(q, walked, n)
<1>1. /\ q.started = p.started /\ q.stopped = p.stopped
      /\ q.ajaxInProgress = p.ajaxInProgress /\ q.longPoll = p.longPoll
      /\ q.delayPollTimeout = p.delayPollTimeout
  BY DEF Flags
<1>2. Shape(q)
  BY DEF Lively, Nearly, Shape
<1>3. Held(q, walked) /\ Pending(q) = Pending(p)
  BY <1>1 DEF Lively, Nearly, Held, Pending
<1>4. Calm(q, n)
  BY DEF Lively, Nearly, Calm, Shape
<1>. QED
  BY <1>1, <1>2, <1>3, <1>4 DEF Lively, Nearly

-----------------------------------------------------------------------------
(* What the operators of the client do to it.                              *)

LEMMA PollLively ==
  ASSUME NEW p, NEW walked \in BOOLEAN, NEW n \in Nat, Nearly(p, walked, n),
         p.started, NEW wait
  PROVE  Lively(Poll(p, wait), walked, n)
<1>. USE DEF Nearly
<1>1. ~p.stopped /\ p.started \in BOOLEAN /\ p.longPoll \in BOOLEAN
  BY DEF Shape, Flags
<1>2. CASE p.callbacks = <<>> \/ HiddenTabShouldWait(p, wait)
  <2>. DEFINE q == [p EXCEPT !.delayPollTimeout = TRUE]
  <2>1. Poll(p, wait) = q
    BY <1>1, <1>2 DEF Poll
  <2>2. Shape(q)
    BY DEF Shape, Flags
  <2>3. Lively(q, walked, n)
    BY <2>2 DEF Lively, Held, Calm, Pending, Shape, Flags
  <2>. QED
    BY <2>1, <2>3
<1>3. CASE ~(p.callbacks = <<>> \/ HiddenTabShouldWait(p, wait)) /\ p.longPoll
  <2>1. Poll(p, wait) = p
    BY <1>1, <1>3 DEF Poll
  <2>. QED
    BY <1>3, <2>1 DEF Lively, Held, Pending
<1>4. CASE ~(p.callbacks = <<>> \/ HiddenTabShouldWait(p, wait)) /\ ~p.longPoll
  <2>1. Poll(p, wait) = LongPoller(p)
    BY <1>1, <1>4 DEF Poll
  <2>. DEFINE chunked == /\ ShouldLongPoll(p) /\ p.allowChunked
                         /\ p.chunkedBackoff = 0
              back == IF p.chunkedBackoff > 0 THEN p.chunkedBackoff - 1 ELSE 0
              r == [open |-> TRUE, chunked |-> chunked, begun |-> FALSE,
                    want |-> [x \in Chans |-> Position(p, x)],
                    upto |-> Len(log)]
  <2>2. ~p.ajaxInProgress
    BY <1>4 DEF Held
  <2>3. LongPoller(p) =
          [p EXCEPT !.ajaxInProgress = TRUE, !.longPoll = TRUE,
                    !.chunkedBackoff = back, !.chunkedTimeout = chunked,
                    !.req = r]
    BY <2>2 DEF LongPoller
  <2>4. DOMAIN r = {"open", "chunked", "begun", "want", "upto"} /\ r.open = TRUE
    OBVIOUS
  <2>. HIDE DEF chunked, back, r
  <2>. DEFINE q == [p EXCEPT !.ajaxInProgress = TRUE, !.longPoll = TRUE,
                             !.chunkedBackoff = back,
                             !.chunkedTimeout = chunked, !.req = r]
  <2>5. /\ q.ajaxInProgress = TRUE /\ q.longPoll = TRUE /\ q.req = r
        /\ q.started = p.started /\ q.stopped = p.stopped
        /\ q.delayPollTimeout = p.delayPollTimeout
        /\ q.pollTimeout = p.pollTimeout /\ q.adapter = p.adapter
        /\ q.failCount = p.failCount /\ DOMAIN q = DOMAIN p
    BY DEF Shape, Flags
  <2>. HIDE DEF q
  <2>6. Shape(q)
    BY <2>4, <2>5 DEF Shape, Flags
  <2>7. ~walked
    BY <1>4 DEF Held
  <2>8. Held(q, walked) /\ Calm(q, n) /\ Pending(q)
    BY <2>4, <2>5, <2>7 DEF Held, Calm, Pending
  <2>9. Lively(q, walked, n)
    BY <2>5, <2>6, <2>8 DEF Lively
  <2>. QED
    BY <2>1, <2>3, <2>9 DEF q
<1>. QED
  BY <1>2, <1>3, <1>4

\* A request is completed in the middle of an event.
LEMMA CompleteLively ==
  ASSUME NEW p, NEW n \in Nat, Shape(p), p.started => ~p.stopped,
         ~p.started => ~p.delayPollTimeout,
         p.adapter = "jquery" => p.failCount <= n,
         NEW verdict \in {"limited", "abort", "fail", "success"}, NEW got
  PROVE  Lively(Complete(p, verdict, got), FALSE, n)
<1>. DEFINE wait == CASE verdict = "limited" -> "limited"
                      [] verdict = "abort" -> "min"
                      [] verdict \notin {"limited", "abort"} ->
                           IF p.failCount > Patience THEN "backoff"
                           ELSE IF ShouldLongPoll(p) /\ got THEN "min"
                           ELSE "interval"
            q == Complete(p, verdict, got)
<1>1. wait # "none" /\ (wait = "backoff" => p.failCount > Patience)
  <2>1. CASE verdict = "limited"
    BY <2>1
  <2>2. CASE verdict = "abort"
    BY <2>2
  <2>3. CASE verdict \notin {"limited", "abort"}
    BY <2>3
  <2>. QED
    BY <2>1, <2>2, <2>3
<1>. HIDE DEF wait
<1>2. q = [p EXCEPT !.ajaxInProgress = FALSE, !.longPoll = FALSE,
                    !.req = NoRequest,
                    !.pollTimeout = IF p.started THEN wait ELSE "none"]
  BY DEF Complete, wait
<1>. HIDE DEF q
<1>3. /\ q.ajaxInProgress = FALSE /\ q.longPoll = FALSE /\ q.req = NoRequest
      /\ q.pollTimeout = (IF p.started THEN wait ELSE "none")
      /\ q.started = p.started /\ q.stopped = p.stopped
      /\ q.delayPollTimeout = p.delayPollTimeout /\ q.adapter = p.adapter
      /\ q.failCount = p.failCount /\ DOMAIN q = DOMAIN p
  BY <1>2 DEF Shape, Flags
<1>4. /\ NoRequest.open = FALSE
      /\ DOMAIN NoRequest = {"open", "chunked", "begun", "want", "upto"}
  BY DEF NoRequest
<1>5. Shape(q)
  BY <1>3, <1>4 DEF Shape, Flags
<1>6. Held(q, FALSE)
  BY <1>3, <1>4 DEF Held
<1>7. Calm(q, n)
  <2>1. p.failCount \in Nat /\ Patience \in Nat
    BY PageAssumption DEF Shape
  <2>. QED
    BY <1>1, <1>3, <2>1 DEF Calm
<1>8. q.started => Pending(q)
  BY <1>1, <1>3 DEF Pending
<1>9. Lively(q, FALSE, n)
  BY <1>3, <1>4, <1>5, <1>6, <1>7, <1>8 DEF Lively, Nearly
<1>. QED
  BY <1>9 DEF q

LEMMA FailLively ==
  ASSUME NEW p, NEW n \in Nat, Shape(p), p.started => ~p.stopped,
         ~p.started => ~p.delayPollTimeout,
         NEW verdict \in {"limited", "abort", "fail"},
         p.adapter = "jquery" =>
           IF verdict = "fail" THEN p.failCount + 1 <= n ELSE p.failCount <= n
  PROVE  Lively(Fail(p, verdict), FALSE, n)
<1>. DEFINE count == IF verdict = "fail" /\ p.failCount <= Patience
                     THEN p.failCount + 1 ELSE p.failCount
            q == [p EXCEPT !.chunkedTimeout = FALSE, !.failCount = count]
<1>1. count \in Nat /\ (p.adapter = "jquery" => count <= n)
  BY DEF Shape
<1>2. Fail(p, verdict) = Complete(q, verdict, FALSE)
  BY DEF Fail
<1>. HIDE DEF count
<1>3. /\ q.started = p.started /\ q.stopped = p.stopped
      /\ q.delayPollTimeout = p.delayPollTimeout /\ q.adapter = p.adapter
      /\ q.failCount = count /\ Shape(q)
  BY <1>1 DEF Shape, Flags
<1>. HIDE DEF q
<1>. QED
  BY <1>1, <1>2, <1>3, CompleteLively

\* Any end of a request but an answer that makes success raise.
LEMMA SettleLively ==
  ASSUME NEW p, NEW n \in Nat, Shape(p), p.started => ~p.stopped,
         ~p.started => ~p.delayPollTimeout,
         NEW answer \in {"aborted", "failed", "refused", "garbled"},
         answer = "garbled" => p.adapter = "jquery" /\ ~p.req.begun,
         p.adapter = "jquery" =>
           IF answer \in {"aborted", "refused"} THEN p.failCount <= n
                                                ELSE p.failCount + 1 <= n
  PROVE  Lively(Settle(p, answer), FALSE, n)
<1>. DEFINE text == p.req.chunked \/ p.req.begun
            verdict == IF p.adapter = "jquery"
                       THEN JQueryDone(answer, text, p.req.chunked)
                       ELSE BareDone(answer, p.req.chunked)
            q == [p EXCEPT !.chunkedTimeout = FALSE]
<1>1. CASE p.adapter = "jquery"
  <2>1. /\ answer = "refused" => verdict = "limited"
        /\ answer = "aborted" => verdict = "abort"
        /\ answer = "failed" => verdict = "fail"
        /\ answer = "garbled" => verdict \in {"success", "fail"}
    BY <1>1 DEF JQueryDone, AjaxConvert, Success
  <2>2. Settle(p, answer) = (IF verdict = "success"
                             THEN Complete(q, "success", FALSE)
                             ELSE Fail(p, verdict))
    BY <2>1 DEF Settle
  <2>. HIDE DEF verdict
  <2>3. CASE verdict = "success"
    <3>1. /\ q.started = p.started /\ q.stopped = p.stopped
          /\ q.delayPollTimeout = p.delayPollTimeout /\ q.adapter = p.adapter
          /\ q.failCount = p.failCount /\ Shape(q)
      BY DEF Shape, Flags
    <3>2. p.failCount <= n
      BY <1>1 DEF Shape
    <3>. HIDE DEF q
    <3>. QED
      BY <2>2, <2>3, <3>1, <3>2, CompleteLively
  <2>4. CASE verdict # "success"
    <3>1. verdict \in {"limited", "abort", "fail"}
      BY <2>1, <2>4
    <3>2. IF verdict = "fail" THEN p.failCount + 1 <= n ELSE p.failCount <= n
      BY <1>1, <2>1 DEF Shape
    <3>. QED
      BY <2>2, <2>4, <3>1, <3>2, FailLively
  <2>. QED
    BY <2>3, <2>4
<1>2. CASE p.adapter # "jquery"
  <2>1. verdict \in {"limited", "fail"}
    BY <1>2 DEF BareDone
  <2>2. Settle(p, answer) = Fail(p, verdict)
    BY <2>1 DEF Settle
  <2>. HIDE DEF verdict
  <2>. QED
    BY <1>2, <2>1, <2>2, FailLively
<1>. QED
  BY <1>1, <1>2

LEMMA AbortLively ==
  ASSUME NEW p, NEW walked \in BOOLEAN, NEW n \in Nat, Nearly(p, walked, n),
         p.req.open \/ Lively(p, walked, n)
  PROVE  Lively(Abort(p), walked, n)
<1>1. CASE p.req.open
  <2>1. p.longPoll /\ walked = FALSE
    BY <1>1 DEF Nearly, Held
  <2>2. Abort(p) = Settle(p, "aborted")
    BY <1>1, <2>1 DEF Abort
  <2>3. Lively(Settle(p, "aborted"), FALSE, n)
    BY SettleLively DEF Nearly, Calm
  <2>. QED
    BY <2>1, <2>2, <2>3
<1>2. CASE ~p.req.open
  BY <1>2 DEF Abort
<1>. QED
  BY <1>1, <1>2

-----------------------------------------------------------------------------
(* Calls of the page.                                                      *)

LEMMA StopLively ==
  ASSUME NEW p, NEW walked \in BOOLEAN, NEW n \in Nat, Lively(p, walked, n)
  PROVE  Lively(Stop(p), walked, n)
<1>. DEFINE q == [p EXCEPT !.stopped = TRUE, !.started = FALSE,
                           !.pollTimeout = "none", !.delayPollTimeout = FALSE]
<1>1. /\ q.stopped = TRUE /\ q.started = FALSE /\ q.pollTimeout = "none"
      /\ q.delayPollTimeout = FALSE /\ q.longPoll = p.longPoll
      /\ q.ajaxInProgress = p.ajaxInProgress /\ q.req = p.req
      /\ q.adapter = p.adapter /\ q.failCount = p.failCount
      /\ DOMAIN q = DOMAIN p
  BY DEF Lively, Nearly, Shape, Flags
<1>2. Stop(p) = Abort(q)
  BY DEF Stop
<1>. HIDE DEF q
<1>3. Shape(q)
  BY <1>1 DEF Lively, Nearly, Shape, Flags
<1>4. Held(q, walked) /\ Calm(q, n)
  BY <1>1 DEF Lively, Nearly, Held, Calm
<1>5. Nearly(q, walked, n) /\ (q.req.open \/ Lively(q, walked, n))
  BY <1>1, <1>3, <1>4 DEF Lively, Nearly
<1>. QED
  BY <1>2, <1>5, AbortLively

LEMMA StartLively ==
  ASSUME NEW p, NEW walked \in BOOLEAN, NEW n \in Nat, Lively(p, walked, n),
         NEW wait
  PROVE  Lively(Start(p, wait), walked, n)
<1>. DEFINE q == [p EXCEPT !.started = TRUE, !.stopped = FALSE]
<1>1. CASE p.started
  BY <1>1 DEF Start
<1>2. CASE ~p.started
  <2>1. /\ q.stopped = FALSE /\ q.started = TRUE
        /\ q.pollTimeout = p.pollTimeout
        /\ q.delayPollTimeout = p.delayPollTimeout /\ q.longPoll = p.longPoll
        /\ q.ajaxInProgress = p.ajaxInProgress /\ q.req = p.req
        /\ q.adapter = p.adapter /\ q.failCount = p.failCount
        /\ DOMAIN q = DOMAIN p
    BY DEF Lively, Nearly, Shape, Flags
  <2>2. Start(p, wait) = Poll(q, wait)
    BY <1>2 DEF Start
  <2>. HIDE DEF q
  <2>3. Shape(q)
    BY <2>1 DEF Lively, Nearly, Shape, Flags
  <2>4. Held(q, walked) /\ Calm(q, n)
    BY <2>1 DEF Lively, Nearly, Held, Calm
  <2>5. Nearly(q, walked, n)
    BY <2>1, <2>3, <2>4 DEF Nearly
  <2>. QED
    BY <2>1, <2>2, <2>5, PollLively
<1>. QED
  BY <1>1, <1>2

\* A client whose callbacks alone change.
LEMMA CallbacksLively ==
  ASSUME NEW p, NEW walked \in BOOLEAN, NEW n \in Nat, Lively(p, walked, n),
         NEW cbs
  PROVE  Lively([p EXCEPT !.callbacks = cbs], walked, n)
<1>. DEFINE q == [p EXCEPT !.callbacks = cbs]
<1>1. /\ \A f \in Flags : q[f] = p[f]
      /\ q.req = p.req /\ q.pollTimeout = p.pollTimeout
      /\ q.adapter = p.adapter /\ q.failCount = p.failCount
      /\ DOMAIN q = DOMAIN p
  BY DEF Lively, Nearly, Shape, Flags
<1>. HIDE DEF q
<1>2. Lively(q, walked, n)
  BY <1>1, OthersKept
<1>. QED
  BY <1>2 DEF q

LEMMA SharedLively ==
  ASSUME NEW p, NEW walked \in BOOLEAN, NEW n \in Nat, Lively(p, walked, n),
         NEW S
  PROVE  Lively(Shared(p, S), walked, n)
<1>. DEFINE cbs == [k \in DOMAIN p.callbacks |->
                      [p.callbacks[k] EXCEPT
                         !.alone = @ /\ p.callbacks[k].chan \notin S]]
<1>1. Shared(p, S) = [p EXCEPT !.callbacks = cbs]
  BY DEF Shared
<1>. HIDE DEF cbs
<1>. QED
  BY <1>1, CallbacksLively

LEMMA SubscribeLively ==
  ASSUME NEW p, NEW walked \in BOOLEAN, NEW n \in Nat, Lively(p, walked, n),
         NEW c, NEW f, NEW v, NEW wait
  PROVE  Lively(Subscribe(p, c, f, v, wait), walked, n)
<1>. DEFINE q == IF ~p.started /\ ~p.stopped THEN Start(p, wait) ELSE p
            r == Shared(q, {c})
            alone == Position(p, c) = None /\ stack = <<>> /\ ~p.paused
            cbs == Append(r.callbacks, [chan |-> c, func |-> f, last |-> v,
                                        alone |-> alone])
<1>1. Subscribe(p, c, f, v, wait) = Abort([r EXCEPT !.callbacks = cbs])
  BY DEF Subscribe
<1>2. Lively(q, walked, n)
  BY StartLively
<1>. HIDE DEF q
<1>3. Lively(r, walked, n)
  BY <1>2, SharedLively
<1>. HIDE DEF r, cbs
<1>4. Lively([r EXCEPT !.callbacks = cbs], walked, n)
  BY <1>3, CallbacksLively
<1>. QED
  BY <1>1, <1>4, AbortLively DEF Lively

LEMMA UnsubscribeLively ==
  ASSUME NEW p, NEW walked \in BOOLEAN, NEW n \in Nat, Lively(p, walked, n),
         NEW S, NEW F
  PROVE  Lively(Unsubscribe(p, S, F), walked, n)
<1>. DEFINE cbs  == p.callbacks
            gone == {k \in DOMAIN cbs : cbs[k].chan \in S /\ cbs[k].func \in F}
            kept == Ascending(DOMAIN cbs \ gone)
            left == [k \in DOMAIN kept |-> cbs[kept[k]]]
<1>1. Unsubscribe(p, S, F) = (IF gone = {} THEN p
                              ELSE Abort([p EXCEPT !.callbacks = left]))
  BY DEF Unsubscribe
<1>. HIDE DEF gone, left
<1>2. Lively([p EXCEPT !.callbacks = left], walked, n)
  BY CallbacksLively
<1>. QED
  BY <1>1, <1>2, AbortLively DEF Lively

-----------------------------------------------------------------------------
(* The stack of walks.                                                     *)

Kinds == {"progress", "success", "resume"}

\* The answer to a request is walked below every other walk.
StackOK(s) ==
  /\ \E S : s \in Seq(S)
  /\ \A k \in 1..Len(s) : /\ "of" \in DOMAIN s[k] /\ s[k].of \in Kinds
                          /\ s[k].of = "success" => k = Len(s)

Busy(s) == \E k \in DOMAIN s : s[k].of = "success"

\* The empty stack.
LEMMA NoWalk == StackOK(<<>>) /\ ~Busy(<<>>)
<1>1. <<>> \in Seq({})
  OBVIOUS
<1>2. Len(<<>>) = 0
  OBVIOUS
<1>. QED
  BY <1>1, <1>2 DEF StackOK, Busy

LEMMA WalkPushed ==
  ASSUME NEW s, StackOK(s), NEW w, "of" \in DOMAIN w, w.of \in Kinds,
         w.of = "success" => s = <<>>
  PROVE  /\ StackOK(<<w>> \o s)
         /\ Busy(<<w>> \o s) <=> w.of = "success" \/ Busy(s)
<1>1. PICK S : s \in Seq(S)
  BY DEF StackOK
<1>. DEFINE T == S \cup {w}
            t == <<w>> \o s
<1>2. s \in Seq(T) /\ <<w>> \in Seq(T)
  BY <1>1
<1>3. /\ t \in Seq(T) /\ Len(s) \in Nat /\ Len(t) = Len(s) + 1
      /\ t[1] = w /\ \A k \in 2..Len(t) : t[k] = s[k - 1]
      /\ DOMAIN t = 1..Len(t) /\ DOMAIN s = 1..Len(s)
  BY <1>2, ConcatProperties
<1>. HIDE DEF T, t
<1>4. ASSUME NEW k \in 1..Len(t)
      PROVE  /\ "of" \in DOMAIN t[k] /\ t[k].of \in Kinds
             /\ t[k].of = "success" => k = Len(t)
  <2>1. CASE k = 1
    <3>1. s = <<>> => Len(s) = 0
      OBVIOUS
    <3>. QED
      BY <1>3, <2>1, <3>1
  <2>2. CASE k # 1
    <3>1. k \in 2..Len(t) /\ k - 1 \in 1..Len(s)
      BY <1>3, <2>2
    <3>2. /\ "of" \in DOMAIN s[k - 1] /\ s[k - 1].of \in Kinds
          /\ s[k - 1].of = "success" => k - 1 = Len(s)
      BY <3>1 DEF StackOK
    <3>3. t[k] = s[k - 1]
      BY <1>3, <3>1
    <3>. QED
      BY <1>3, <3>2, <3>3
  <2>. QED
    BY <2>1, <2>2
<1>5. StackOK(t)
  BY <1>3, <1>4 DEF StackOK
<1>6. ASSUME Busy(s) PROVE Busy(t)
  <2>1. PICK k \in 1..Len(s) : s[k].of = "success"
    BY <1>3, <1>6 DEF Busy
  <2>2. k + 1 \in 2..Len(t) /\ t[k + 1] = s[k + 1 - 1]
    BY <1>3
  <2>3. k + 1 \in DOMAIN t /\ t[k + 1] = s[k]
    BY <1>3, <2>2
  <2>. QED
    BY <2>1, <2>3 DEF Busy
<1>7. ASSUME w.of = "success" PROVE Busy(t)
  <2>1. 1 \in DOMAIN t
    BY <1>3
  <2>. QED
    BY <1>3, <1>7, <2>1 DEF Busy
<1>8. ASSUME Busy(t) PROVE w.of = "success" \/ Busy(s)
  <2>1. PICK k \in 1..Len(t) : t[k].of = "success"
    BY <1>3, <1>8 DEF Busy
  <2>2. CASE k = 1
    BY <1>3, <2>1, <2>2
  <2>3. CASE k # 1
    <3>1. k \in 2..Len(t) /\ k - 1 \in 1..Len(s)
      BY <1>3, <2>3
    <3>. QED
      BY <1>3, <2>1, <3>1 DEF Busy
  <2>. QED
    BY <2>2, <2>3
<1>. QED
  BY <1>5, <1>6, <1>7, <1>8 DEF t

LEMMA WalkPopped ==
  ASSUME NEW s, StackOK(s), s # <<>>
  PROVE  /\ StackOK(Tail(s))
         /\ s[1].of = "success" => Tail(s) = <<>>
         /\ s[1].of # "success" => (Busy(Tail(s)) <=> Busy(s))
         /\ s[1].of = "success" => Busy(s)
<1>1. PICK S : s \in Seq(S)
  BY DEF StackOK
<1>. DEFINE t == Tail(s)
<1>2. /\ t \in Seq(S) /\ Len(s) \in Nat \ {0} /\ Len(t) = Len(s) - 1
      /\ \A k \in 1..Len(t) : t[k] = s[k + 1]
      /\ DOMAIN t = 1..Len(t) /\ DOMAIN s = 1..Len(s)
  <2>1. Len(s) \in Nat /\ (Len(s) = 0 => s = <<>>) /\ DOMAIN s = 1..Len(s)
    BY <1>1
  <2>2. Len(s) # 0
    BY <2>1
  <2>3. /\ t \in Seq(S) /\ Len(t) = Len(s) - 1
        /\ \A k \in 1..Len(t) : t[k] = s[k + 1]
    BY <1>1, HeadTailProperties
  <2>4. DOMAIN t = 1..Len(t)
    BY <2>3
  <2>. QED
    BY <2>1, <2>2, <2>3, <2>4
<1>. HIDE DEF t
<1>3. ASSUME NEW k \in 1..Len(t)
      PROVE  /\ "of" \in DOMAIN t[k] /\ t[k].of \in Kinds
             /\ t[k].of = "success" => k = Len(t)
  <2>1. k + 1 \in 1..Len(s) /\ t[k] = s[k + 1]
    BY <1>2
  <2>2. /\ "of" \in DOMAIN s[k + 1] /\ s[k + 1].of \in Kinds
        /\ s[k + 1].of = "success" => k + 1 = Len(s)
    BY <2>1 DEF StackOK
  <2>. QED
    BY <1>2, <2>1, <2>2
<1>4. StackOK(t)
  BY <1>2, <1>3 DEF StackOK
<1>5. 1 \in 1..Len(s)
  BY <1>2
<1>6. ASSUME s[1].of = "success" PROVE t = <<>>
  <2>1. Len(s) = 1
    BY <1>5, <1>6 DEF StackOK
  <2>2. Len(t) = 0
    BY <1>2, <2>1
  <2>. QED
    BY <1>2, <2>2, EmptySeq
<1>7. ASSUME s[1].of = "success" PROVE Busy(s)
  BY <1>2, <1>5, <1>7 DEF Busy
<1>8. ASSUME Busy(t) PROVE Busy(s)
  <2>1. PICK k \in 1..Len(t) : t[k].of = "success"
    BY <1>2, <1>8 DEF Busy
  <2>2. k + 1 \in DOMAIN s /\ t[k] = s[k + 1]
    BY <1>2
  <2>. QED
    BY <2>1, <2>2 DEF Busy
<1>9. ASSUME Busy(s), s[1].of # "success" PROVE Busy(t)
  <2>1. PICK k \in 1..Len(s) : s[k].of = "success"
    BY <1>2, <1>9 DEF Busy
  <2>2. k # 1
    BY <1>9, <2>1
  <2>3. k - 1 \in 1..Len(t) /\ t[k - 1] = s[k - 1 + 1] /\ k - 1 + 1 = k
    BY <1>2, <2>2
  <2>4. k - 1 \in DOMAIN t /\ t[k - 1] = s[k]
    BY <1>2, <2>3
  <2>. QED
    BY <2>1, <2>4 DEF Busy
<1>. QED
  BY <1>4, <1>6, <1>7, <1>8, <1>9 DEF t

\* A step of the innermost walk.
LEMMA WalkChanged ==
  ASSUME NEW s, StackOK(s), s # <<>>, NEW w, DOMAIN w = DOMAIN s[1],
         w.of = s[1].of
  PROVE  /\ StackOK([s EXCEPT ![1] = w])
         /\ Busy([s EXCEPT ![1] = w]) <=> Busy(s)
<1>1. PICK S : s \in Seq(S)
  BY DEF StackOK
<1>. DEFINE T == S \cup {w}
            t == [s EXCEPT ![1] = w]
<1>2. Len(s) \in Nat /\ DOMAIN s = 1..Len(s) /\ s \in Seq(T)
  BY <1>1
<1>3. t \in Seq(T) /\ Len(t) = Len(s) /\ DOMAIN t = DOMAIN s
  BY <1>2
<1>4. ASSUME NEW k \in 1..Len(s)
      PROVE  t[k].of = s[k].of /\ DOMAIN t[k] = DOMAIN s[k]
  BY <1>2, <1>4
<1>. HIDE DEF t, T
<1>5. StackOK(t)
  BY <1>2, <1>3, <1>4 DEF StackOK
<1>6. Busy(t) <=> Busy(s)
  BY <1>2, <1>3, <1>4 DEF Busy
<1>. QED
  BY <1>5, <1>6 DEF t

-----------------------------------------------------------------------------
(* The inductive invariant.                                                *)

PageSafe ==
  /\ StackOK(stack)
  /\ {"calls", "faults", "others"} \subseteq DOMAIN spent
  /\ spent.faults \in Nat
  /\ Lively(page, Busy(stack), spent.faults)

\* A step that counts no failure.
LEMMA NoFault ==
  ASSUME PageSafe,
         \/ spent' = spent
         \/ spent' = [spent EXCEPT !.calls = @ + 1]
         \/ spent' = [spent EXCEPT !.others = @ + 1],
         StackOK(stack'),
         Lively(page', Busy(stack'), spent.faults)
  PROVE  PageSafe'
<1>1. spent'.faults = spent.faults /\ DOMAIN spent' = DOMAIN spent
  BY DEF PageSafe
<1>2. (Lively(page, Busy(stack), spent.faults))'
  BY <1>1 DEF Lively, Nearly, Shape, Held, Calm, Pending, Busy
<1>3. StackOK(stack)'
  BY DEF StackOK
<1>. QED
  BY <1>1, <1>2, <1>3 DEF PageSafe

\* A step that leaves the walks alone, too.
LEMMA NoWalkStep ==
  ASSUME PageSafe, UNCHANGED stack,
         \/ spent' = spent
         \/ spent' = [spent EXCEPT !.calls = @ + 1]
         \/ spent' = [spent EXCEPT !.others = @ + 1],
         Lively(page', Busy(stack), spent.faults)
  PROVE  PageSafe'
<1>1. StackOK(stack') /\ Busy(stack') = Busy(stack)
  BY DEF PageSafe
<1>. QED
  BY <1>1, NoFault

LEMMA Always ==
  ASSUME PageSafe
  PROVE  /\ Busy(stack) \in BOOLEAN /\ spent.faults \in Nat
         /\ Lively(page, Busy(stack), spent.faults)
BY DEF PageSafe, Busy

LEMMA CallsSafe ==
  ASSUME PageSafe,
         \/ PageSubscribes \/ PageUnsubscribes \/ PageStops \/ PageStarts
         \/ PagePauses \/ PageResumes
  PROVE  PageSafe'
<1>. DEFINE n == spent.faults
            walked == Busy(stack)
<1>1. walked \in BOOLEAN /\ n \in Nat /\ Lively(page, walked, n)
  BY Always
<1>2. ASSUME NEW name, Call(name)
      PROVE  spent' = [spent EXCEPT !.calls = @ + 1]
  BY <1>2 DEF Call
<1>. HIDE DEF n, walked
<1>3. CASE PageSubscribes
  <2>1. PICK c \in Chans, f \in Funcs, v \in InitialLast, wait \in BOOLEAN :
          page' = Subscribe(page, c, f, v, wait)
    BY <1>3 DEF PageSubscribes
  <2>2. Lively(page', walked, n)
    BY <1>1, <2>1, SubscribeLively
  <2>. QED
    BY <1>2, <1>3, <2>2, NoWalkStep DEF PageSubscribes, n, walked
<1>4. CASE PageUnsubscribes
  <2>1. PICK S \in {{c} : c \in Chans} \cup {Chans},
             F \in {{f} : f \in Funcs} \cup {Funcs} :
          page' = Unsubscribe(page, S, F)
    BY <1>4 DEF PageUnsubscribes
  <2>2. Lively(page', walked, n)
    BY <1>1, <2>1, UnsubscribeLively
  <2>. QED
    BY <1>2, <1>4, <2>2, NoWalkStep DEF PageUnsubscribes, n, walked
<1>5. CASE PageStops
  <2>1. Lively(page', walked, n)
    BY <1>1, <1>5, StopLively DEF PageStops
  <2>. QED
    BY <1>2, <1>5, <2>1, NoWalkStep DEF PageStops, n, walked
<1>6. CASE PageStarts
  <2>. DEFINE p == IF stack = <<>> THEN page ELSE Shared(page, Chans)
  <2>1. PICK wait \in BOOLEAN : page' = Start(p, wait)
    BY <1>6 DEF PageStarts
  <2>2. Lively(p, walked, n)
    BY <1>1, SharedLively
  <2>. HIDE DEF p
  <2>3. Lively(page', walked, n)
    BY <1>1, <2>1, <2>2, StartLively
  <2>. QED
    BY <1>2, <1>6, <2>3, NoWalkStep DEF PageStarts, n, walked
<1>7. CASE PagePauses
  <2>. DEFINE p == Shared(page, Chans)
              q == [p EXCEPT !.paused = TRUE]
  <2>1. Lively(p, walked, n)
    BY <1>1, SharedLively
  <2>2. page' = q
    BY <1>7 DEF PagePauses
  <2>. HIDE DEF p
  <2>3. /\ \A f \in Flags : q[f] = p[f]
        /\ q.req = p.req /\ q.pollTimeout = p.pollTimeout
        /\ q.adapter = p.adapter /\ q.failCount = p.failCount
        /\ DOMAIN q = DOMAIN p
    BY <2>1 DEF Lively, Nearly, Shape, Flags
  <2>. HIDE DEF q
  <2>4. Lively(q, walked, n)
    BY <1>1, <2>1, <2>3, OthersKept
  <2>. QED
    BY <1>2, <1>7, <2>2, <2>4, NoWalkStep DEF PagePauses, n, walked
<1>8. CASE PageResumes
  <2>. DEFINE q == [page EXCEPT !.paused = FALSE]
              w == Walk("resume", page.later, <<>>, FALSE)
  <2>1. /\ \A f \in Flags : q[f] = page[f]
        /\ q.req = page.req /\ q.pollTimeout = page.pollTimeout
        /\ q.adapter = page.adapter /\ q.failCount = page.failCount
        /\ DOMAIN q = DOMAIN page
    BY <1>1 DEF Lively, Nearly, Shape, Flags
  <2>2. page' = q /\ stack' = <<w>> \o stack
    BY <1>8 DEF PageResumes
  <2>3. "of" \in DOMAIN w /\ w.of = "resume"
    BY DEF Walk
  <2>. HIDE DEF q, w
  <2>4. Lively(q, walked, n)
    BY <1>1, <2>1, OthersKept
  <2>5. /\ StackOK(<<w>> \o stack)
        /\ Busy(<<w>> \o stack) <=> Busy(stack)
    <3>1. StackOK(stack) /\ w.of \in Kinds /\ w.of # "success"
      BY <2>3 DEF PageSafe, Kinds
    <3>. QED
      BY <2>3, <3>1, WalkPushed
  <2>6. StackOK(stack') /\ Busy(stack') = walked
    BY <2>2, <2>5 DEF walked, Busy
  <2>. QED
    BY <1>2, <1>8, <2>2, <2>4, <2>6, NoFault DEF PageResumes, n
<1>. QED
  BY <1>3, <1>4, <1>5, <1>6, <1>7, <1>8

\* The innermost walk goes on.
LEMMA TopStep ==
  ASSUME PageSafe, stack # <<>>, NEW w, DOMAIN w = DOMAIN stack[1],
         w.of = stack[1].of, stack' = [stack EXCEPT ![1] = w],
         spent' = spent, Lively(page', Busy(stack), spent.faults)
  PROVE  PageSafe'
<1>1. StackOK(stack)
  BY DEF PageSafe
<1>2. /\ StackOK([stack EXCEPT ![1] = w])
      /\ Busy([stack EXCEPT ![1] = w]) <=> Busy(stack)
  BY <1>1, WalkChanged
<1>3. StackOK(stack') /\ Busy(stack') = Busy(stack)
  BY <1>2 DEF Busy
<1>. QED
  BY <1>3, NoFault

LEMMA WalksSafe ==
  ASSUME PageSafe, Walks
  PROVE  PageSafe'
<1>. DEFINE n == spent.faults
            walked == Busy(stack)
<1>1. walked \in BOOLEAN /\ n \in Nat /\ Lively(page, walked, n)
  BY Always
<1>2. stack # <<>> =>
        /\ 1 \in DOMAIN stack /\ "of" \in DOMAIN stack[1]
        /\ stack[1].of \in Kinds
  <2>1. PICK S : stack \in Seq(S)
    BY DEF PageSafe, StackOK
  <2>2. stack # <<>> => 1 \in 1..Len(stack)
    BY <2>1, EmptySeq
  <2>. QED
    BY <2>1, <2>2 DEF PageSafe, StackOK
<1>. HIDE DEF n, walked
<1>3. CASE TakeChunk
  <2>. DEFINE chunk == Head(Top.chunks)
              later == IF page.paused THEN page.later \o chunk ELSE page.later
              q == [page EXCEPT !.failCount = 0, !.later = later]
              msgs == IF page.paused THEN <<>> ELSE chunk
              got == ~page.paused /\ chunk # <<>>
              w == [stack[1] EXCEPT !.chunks = Tail(@), !.messages = msgs,
                                    !.got = got]
  <2>1. page' = q /\ spent' = spent /\ stack # <<>>
    BY <1>3 DEF TakeChunk, Walking
  <2>2. stack' = [stack EXCEPT ![1].chunks = Tail(@), ![1].messages = msgs,
                               ![1].got = got]
    BY <1>3 DEF TakeChunk
  <2>. HIDE DEF later, msgs, got
  <2>3. stack' = [stack EXCEPT ![1] = w]
    BY <1>2, <2>1, <2>2
  <2>4. DOMAIN w = DOMAIN stack[1] /\ w.of = stack[1].of
    BY <1>2, <2>1
  <2>5. /\ \A f \in Flags : q[f] = page[f]
        /\ q.req = page.req /\ q.pollTimeout = page.pollTimeout
        /\ q.adapter = page.adapter /\ q.failCount = 0
        /\ DOMAIN q = DOMAIN page
    BY <1>1 DEF Lively, Nearly, Shape, Flags
  <2>. HIDE DEF q, w
  <2>6. Lively(q, walked, n)
    BY <1>1, <2>5, OthersKept
  <2>. QED
    BY <2>1, <2>3, <2>4, <2>6, TopStep DEF n, walked
<1>4. CASE CallFunc
  <2>1. PICK k \in DOMAIN page.callbacks :
          /\ stack' = [stack EXCEPT ![1].j = k + 1, ![1].calling = TRUE]
          /\ page' = [page EXCEPT !.callbacks[k].last = Head(Top.messages).id]
    BY <1>4 DEF CallFunc
  <2>. DEFINE w == [stack[1] EXCEPT !.j = k + 1, !.calling = TRUE]
              cbs == [page.callbacks EXCEPT ![k].last = Head(Top.messages).id]
  <2>2. spent' = spent /\ stack # <<>>
    BY <1>4 DEF CallFunc, Walking
  <2>3. stack' = [stack EXCEPT ![1] = w]
    BY <1>2, <2>1, <2>2
  <2>4. DOMAIN w = DOMAIN stack[1] /\ w.of = stack[1].of
    BY <1>2, <2>2
  <2>5. page' = [page EXCEPT !.callbacks = cbs]
    BY <2>1
  <2>. HIDE DEF w, cbs
  <2>6. Lively(page', walked, n)
    BY <1>1, <2>5, CallbacksLively
  <2>. QED
    BY <2>2, <2>3, <2>4, <2>6, TopStep DEF n, walked
<1>5. CASE FuncReturns
  <2>. DEFINE w == [stack[1] EXCEPT !.calling = FALSE]
  <2>1. /\ spent' = spent /\ stack # <<>> /\ page' = page
        /\ stack' = [stack EXCEPT ![1] = w]
    BY <1>5 DEF FuncReturns
  <2>2. DOMAIN w = DOMAIN stack[1] /\ w.of = stack[1].of
    BY <1>2, <2>1
  <2>. HIDE DEF w
  <2>. QED
    BY <1>1, <2>1, <2>2, TopStep DEF n, walked
<1>6. CASE NextMessage \/ TakeStatus
  <2>. DEFINE w == [stack[1] EXCEPT !.messages = Tail(@), !.j = 1]
  <2>1. /\ spent' = spent /\ stack # <<>>
        /\ stack' = [stack EXCEPT ![1].messages = Tail(@), ![1].j = 1]
    BY <1>6 DEF NextMessage, TakeStatus, Walking
  <2>2. stack' = [stack EXCEPT ![1] = w]
    BY <1>2, <2>1
  <2>3. DOMAIN w = DOMAIN stack[1] /\ w.of = stack[1].of
    BY <1>2, <2>1
  <2>. HIDE DEF w
  <2>4. Lively(page', walked, n)
    <3>1. CASE NextMessage
      BY <1>1, <3>1 DEF NextMessage
    <3>2. CASE TakeStatus
      <4>. DEFINE at == Head(Top.messages).at
                  cbs == page.callbacks
                  named == {k \in DOMAIN cbs : at[cbs[k].chan] # None}
                  moved == [k \in DOMAIN cbs |->
                              IF k \in named
                              THEN [cbs[k] EXCEPT !.last = at[cbs[k].chan]]
                              ELSE cbs[k]]
      <4>1. page' = [page EXCEPT !.callbacks = moved]
        BY <3>2 DEF TakeStatus
      <4>. HIDE DEF moved
      <4>. QED
        BY <1>1, <4>1, CallbacksLively
    <3>. QED
      BY <1>6, <3>1, <3>2
  <2>. QED
    BY <2>1, <2>2, <2>3, <2>4, TopStep DEF n, walked
<1>7. CASE EndWalk
  <2>1. /\ spent' = spent /\ stack # <<>> /\ stack' = Tail(stack)
        /\ page' = CASE Top.of = "progress" -> page
                     [] Top.of = "success" -> Complete(page, "success", Top.got)
                     [] Top.of = "resume" -> [page EXCEPT !.later = <<>>]
    BY <1>7 DEF EndWalk, Walking
  <2>2. /\ StackOK(Tail(stack))
        /\ stack[1].of = "success" => Tail(stack) = <<>> /\ Busy(stack)
        /\ stack[1].of # "success" => (Busy(Tail(stack)) <=> Busy(stack))
    BY <2>1, WalkPopped DEF PageSafe
  <2>3. CASE stack[1].of = "success"
    <3>1. page' = Complete(page, "success", Top.got)
      BY <2>1, <2>3 DEF Top
    <3>2. Lively(page', FALSE, n)
      BY <1>1, <3>1, CompleteLively DEF Lively, Nearly, Calm
    <3>3. Busy(stack') = FALSE
      BY <2>1, <2>2, <2>3, NoWalk DEF Busy
    <3>. QED
      BY <2>1, <2>2, <3>2, <3>3, NoFault DEF n
  <2>4. CASE stack[1].of # "success"
    <3>1. Busy(stack') = walked /\ StackOK(stack')
      BY <2>1, <2>2, <2>4 DEF Busy, walked
    <3>2. Lively(page', walked, n)
      <4>1. CASE stack[1].of = "progress"
        BY <1>1, <2>1, <4>1 DEF Top
      <4>2. CASE stack[1].of = "resume"
        <5>. DEFINE q == [page EXCEPT !.later = <<>>]
        <5>1. page' = q
          BY <2>1, <4>2 DEF Top
        <5>2. /\ \A f \in Flags : q[f] = page[f]
              /\ q.req = page.req /\ q.pollTimeout = page.pollTimeout
              /\ q.adapter = page.adapter /\ q.failCount = page.failCount
              /\ DOMAIN q = DOMAIN page
          BY <1>1 DEF Lively, Nearly, Shape, Flags
        <5>. HIDE DEF q
        <5>. QED
          BY <1>1, <5>1, <5>2, OthersKept
      <4>. QED
        BY <1>2, <2>1, <2>4, <4>1, <4>2 DEF Kinds
    <3>. QED
      BY <2>1, <3>1, <3>2, NoFault DEF n
  <2>. QED
    BY <2>3, <2>4
<1>. QED
  BY <1>3, <1>4, <1>5, <1>6, <1>7 DEF Walks

\* A timer has fired, or will not: a started client whose timers are cleared.
LEMMA TimerCleared ==
  ASSUME NEW p, NEW n \in Nat, Lively(p, FALSE, n), p.started,
         NEW wait, NEW delay \in BOOLEAN,
         wait \in {"none", p.pollTimeout}
  PROVE  Nearly([p EXCEPT !.pollTimeout = wait, !.delayPollTimeout = delay],
                FALSE, n)
<1>. DEFINE q == [p EXCEPT !.pollTimeout = wait, !.delayPollTimeout = delay]
<1>1. /\ q.started = p.started /\ q.stopped = p.stopped
      /\ q.longPoll = p.longPoll /\ q.ajaxInProgress = p.ajaxInProgress
      /\ q.req = p.req /\ q.pollTimeout = wait /\ q.delayPollTimeout = delay
      /\ q.adapter = p.adapter /\ q.failCount = p.failCount
      /\ DOMAIN q = DOMAIN p
  BY DEF Lively, Nearly, Shape, Flags
<1>. HIDE DEF q
<1>2. Shape(q)
  BY <1>1 DEF Lively, Nearly, Shape, Flags
<1>3. Held(q, FALSE) /\ Calm(q, n)
  BY <1>1 DEF Lively, Nearly, Held, Calm
<1>4. Nearly(q, FALSE, n)
  BY <1>1, <1>2, <1>3 DEF Lively, Nearly
<1>. QED
  BY <1>4 DEF q

LEMMA EventsSafe ==
  ASSUME PageSafe, Timers \/ FirstChunkTimer \/ VisibilityChange
  PROVE  PageSafe'
<1>. DEFINE n == spent.faults
<1>1. /\ n \in Nat /\ Lively(page, FALSE, n) /\ ~Busy(stack)
      /\ UNCHANGED stack
  <2>1. stack = <<>> /\ UNCHANGED stack
    BY DEF Timers, PollTimer, DelayTimer, FirstChunkTimer, VisibilityChange,
           Event
  <2>2. Busy(stack) = FALSE
    BY <2>1, NoWalk DEF Busy
  <2>. QED
    BY <2>1, <2>2, Always
<1>. HIDE DEF n
<1>2. ASSUME Lively(page', FALSE, n),
             spent' = spent \/ spent' = [spent EXCEPT !.others = @ + 1]
      PROVE  PageSafe'
  <2>1. Busy(stack) = FALSE
    BY <1>1 DEF Busy
  <2>. QED
    BY <1>1, <1>2, <2>1, NoWalkStep DEF n
<1>3. page.delayPollTimeout \in BOOLEAN
  BY <1>1 DEF Lively, Nearly, Shape, Flags
<1>4. CASE PollTimer
  <2>. DEFINE p == [page EXCEPT !.pollTimeout = "none"]
              q == [page EXCEPT !.pollTimeout = "none",
                                !.delayPollTimeout = page.delayPollTimeout]
  <2>1. PICK wait \in BOOLEAN : page' = Poll(p, wait)
    BY <1>4 DEF PollTimer
  <2>2. page.started
    BY <1>1, <1>4 DEF PollTimer, Lively, Nearly
  <2>3. p = q /\ p.started
    BY <1>1, <2>2 DEF Lively, Nearly, Shape, Flags
  <2>4. Nearly(q, FALSE, n)
    BY <1>1, <1>3, <2>2, TimerCleared
  <2>. HIDE DEF p, q
  <2>5. Lively(page', FALSE, n)
    BY <1>1, <2>1, <2>3, <2>4, PollLively
  <2>. QED
    BY <1>2, <1>4, <2>5 DEF PollTimer
<1>5. CASE DelayTimer
  <2>. DEFINE p == [page EXCEPT !.delayPollTimeout = FALSE]
              q == [page EXCEPT !.pollTimeout = page.pollTimeout,
                                !.delayPollTimeout = FALSE]
  <2>1. PICK wait \in BOOLEAN : page' = Poll(p, wait)
    BY <1>5 DEF DelayTimer
  <2>2. page.started
    BY <1>1, <1>5 DEF DelayTimer, Lively, Nearly
  <2>3. p = q /\ p.started
    BY <1>1, <2>2 DEF Lively, Nearly, Shape, Flags
  <2>4. Nearly(q, FALSE, n)
    BY <1>1, <2>2, TimerCleared
  <2>. HIDE DEF p, q
  <2>5. Lively(page', FALSE, n)
    BY <1>1, <2>1, <2>3, <2>4, PollLively
  <2>. QED
    BY <1>2, <1>5, <2>5 DEF DelayTimer
<1>6. CASE FirstChunkTimer
  <2>. DEFINE p == [page EXCEPT !.chunkedTimeout = FALSE]
              q == Abort(p)
              r == [q EXCEPT !.chunkedBackoff = RetryChunked]
  <2>1. page' = IF p.longPoll THEN r ELSE p
    BY <1>6 DEF FirstChunkTimer
  <2>2. /\ \A f \in Flags : p[f] = page[f]
        /\ p.req = page.req /\ p.pollTimeout = page.pollTimeout
        /\ p.adapter = page.adapter /\ p.failCount = page.failCount
        /\ DOMAIN p = DOMAIN page
    BY <1>1 DEF Lively, Nearly, Shape, Flags
  <2>. HIDE DEF p
  <2>3. Lively(p, FALSE, n)
    BY <1>1, <2>2, OthersKept
  <2>4. Lively(q, FALSE, n)
    BY <1>1, <2>3, AbortLively DEF Lively
  <2>. HIDE DEF q
  <2>5. /\ \A f \in Flags : r[f] = q[f]
        /\ r.req = q.req /\ r.pollTimeout = q.pollTimeout
        /\ r.adapter = q.adapter /\ r.failCount = q.failCount
        /\ DOMAIN r = DOMAIN q
    BY <2>4 DEF Lively, Nearly, Shape, Flags
  <2>. HIDE DEF r
  <2>6. Lively(r, FALSE, n)
    BY <1>1, <2>4, <2>5, OthersKept
  <2>. QED
    BY <1>2, <1>6, <2>1, <2>3, <2>6 DEF FirstChunkTimer
<1>7. CASE VisibilityChange
  <2>. DEFINE p == [page EXCEPT !.hidden = ~@]
              q == [p EXCEPT !.pollTimeout = "none", !.delayPollTimeout = FALSE]
              now == /\ p.started /\ ~p.hidden /\ ~p.longPoll
                     /\ p.pollTimeout # "none" \/ p.delayPollTimeout
  <2>1. page' = IF now THEN Poll(q, FALSE) ELSE p
    BY <1>7 DEF VisibilityChange
  <2>2. /\ \A f \in Flags : p[f] = page[f]
        /\ p.req = page.req /\ p.pollTimeout = page.pollTimeout
        /\ p.adapter = page.adapter /\ p.failCount = page.failCount
        /\ DOMAIN p = DOMAIN page
    BY <1>1 DEF Lively, Nearly, Shape, Flags
  <2>. HIDE DEF p
  <2>3. Lively(p, FALSE, n)
    BY <1>1, <2>2, OthersKept
  <2>4. ASSUME now PROVE Lively(Poll(q, FALSE), FALSE, n)
    <3>1. Nearly(q, FALSE, n)
      BY <1>1, <2>3, <2>4, TimerCleared
    <3>2. q.started
      BY <2>3, <2>4 DEF Lively, Nearly, Shape, Flags
    <3>. HIDE DEF q
    <3>. QED
      BY <1>1, <3>1, <3>2, PollLively
  <2>. HIDE DEF now, q
  <2>. QED
    BY <1>2, <1>7, <2>1, <2>3, <2>4 DEF VisibilityChange
<1>. QED
  BY <1>4, <1>5, <1>6, <1>7 DEF Timers

\* An answer begins: one walk on an empty stack.
LEMMA AnswerWalk ==
  ASSUME PageSafe, stack = <<>>, NEW of \in {"progress", "success"},
         NEW chunks, Answer(of, chunks)
  PROVE  /\ StackOK(stack') /\ spent' = spent
         /\ Busy(stack') <=> of = "success"
<1>. DEFINE w == Walk(of, <<>>, chunks, FALSE)
<1>1. stack' = <<w>> /\ spent' = spent
  BY DEF Answer
<1>2. "of" \in DOMAIN w /\ w.of = of
  BY DEF Walk
<1>. HIDE DEF w
<1>3. stack' = <<w>> \o <<>>
  BY <1>1
<1>4. /\ StackOK(<<w>> \o <<>>)
      /\ Busy(<<w>> \o <<>>) <=> w.of = "success" \/ Busy(<<>>)
  BY <1>2, NoWalk, WalkPushed DEF Kinds
<1>. QED
  BY <1>1, <1>2, <1>3, <1>4, NoWalk

LEMMA ServerSafe ==
  ASSUME PageSafe, Server \/ Finish
  PROVE  PageSafe'
<1>. DEFINE n == spent.faults
<1>1. /\ n \in Nat /\ Lively(page, FALSE, n) /\ ~Busy(stack)
      /\ stack = <<>>
  <2>1. stack = <<>>
    BY DEF Server, Reply, Unchunked, Progress, Finish, Event
  <2>2. Busy(stack) = FALSE
    BY <2>1, NoWalk DEF Busy
  <2>. QED
    BY <2>1, <2>2, Always
<1>2. Busy(stack) = FALSE
  BY <1>1 DEF Busy
<1>. HIDE DEF n
<1>3. CASE Reply
  <2>. DEFINE q == [page EXCEPT !.req.open = FALSE]
  <2>1. PICK to \in page.req.upto..Len(log) :
          Answer("success", <<Backlog(to)>>)
    BY <1>3 DEF Reply
  <2>2. StackOK(stack') /\ spent' = spent /\ Busy(stack') = TRUE
    BY <1>1, <2>1, AnswerWalk DEF Busy
  <2>3. page' = q /\ page.req.open
    BY <1>3 DEF Reply
  <2>4. /\ \A f \in Flags : q[f] = page[f]
        /\ q.req.open = FALSE /\ DOMAIN q.req = DOMAIN page.req
        /\ q.pollTimeout = page.pollTimeout
        /\ q.adapter = page.adapter /\ q.failCount = page.failCount
        /\ DOMAIN q = DOMAIN page
    BY <1>1 DEF Lively, Nearly, Shape, Flags
  <2>. HIDE DEF q
  <2>5. /\ q.started = page.started /\ q.stopped = page.stopped
        /\ q.longPoll = page.longPoll
        /\ q.ajaxInProgress = page.ajaxInProgress
        /\ q.delayPollTimeout = page.delayPollTimeout
    BY <2>4 DEF Flags
  <2>6. Shape(q)
    BY <1>1, <2>4 DEF Lively, Nearly, Shape
  <2>7. Held(q, TRUE) /\ Calm(q, n)
    BY <1>1, <2>3, <2>4, <2>5 DEF Lively, Nearly, Held, Calm
  <2>8. Lively(q, TRUE, n)
    BY <1>1, <2>4, <2>5, <2>6, <2>7 DEF Lively, Nearly
  <2>. QED
    BY <2>2, <2>3, <2>8, NoFault DEF n
<1>4. CASE Unchunked
  <2>. DEFINE q == [page EXCEPT !.req.chunked = FALSE, !.req.begun = TRUE,
                                !.chunkedTimeout = FALSE]
  <2>1. page' = q /\ UNCHANGED <<stack, spent>>
    BY <1>4 DEF Unchunked, Event
  <2>2. /\ \A f \in Flags : q[f] = page[f]
        /\ q.req.open = page.req.open /\ DOMAIN q.req = DOMAIN page.req
        /\ q.pollTimeout = page.pollTimeout
        /\ q.adapter = page.adapter /\ q.failCount = page.failCount
        /\ DOMAIN q = DOMAIN page
    BY <1>1 DEF Lively, Nearly, Shape, Flags
  <2>. HIDE DEF q
  <2>3. Lively(q, FALSE, n)
    BY <1>1, <2>2, OthersKept
  <2>. QED
    BY <1>2, <2>1, <2>3, NoWalkStep DEF n
<1>5. CASE Progress
  <2>1. PICK to \in page.req.upto..Len(log) :
          /\ \E chunks : Answer("progress", chunks)
          /\ page' = [page EXCEPT !.chunkedTimeout = FALSE,
                                  !.req.begun = TRUE, !.req.upto = to]
    BY <1>5 DEF Progress
  <2>. DEFINE q == [page EXCEPT !.chunkedTimeout = FALSE,
                                !.req.begun = TRUE, !.req.upto = to]
  <2>2. PICK chunks : Answer("progress", chunks)
    BY <2>1
  <2>3. StackOK(stack') /\ spent' = spent /\ Busy(stack') = FALSE
    BY <1>1, <2>2, AnswerWalk DEF Busy
  <2>4. /\ \A f \in Flags : q[f] = page[f]
        /\ q.req.open = page.req.open /\ DOMAIN q.req = DOMAIN page.req
        /\ q.pollTimeout = page.pollTimeout
        /\ q.adapter = page.adapter /\ q.failCount = page.failCount
        /\ DOMAIN q = DOMAIN page
    BY <1>1 DEF Lively, Nearly, Shape, Flags
  <2>5. page' = q
    BY <2>1
  <2>. HIDE DEF q
  <2>6. Lively(q, FALSE, n)
    BY <1>1, <2>4, OthersKept
  <2>. QED
    BY <2>3, <2>5, <2>6, NoFault DEF n
<1>6. CASE Finish
  <2>1. page' = Complete(page, "success", FALSE) /\ UNCHANGED <<stack, spent>>
    BY <1>6 DEF Finish, Event
  <2>2. Lively(page', FALSE, n)
    BY <1>1, <2>1, CompleteLively DEF Lively, Nearly, Calm
  <2>. QED
    BY <1>2, <2>1, <2>2, NoWalkStep DEF n
<1>. QED
  BY <1>3, <1>4, <1>5, <1>6 DEF Server

LEMMA RequestFailsSafe ==
  ASSUME Garbled \subseteq {"jquery"}, PageSafe, RequestFails
  PROVE  PageSafe'
<1>1. /\ Lively(page, FALSE, spent.faults) /\ spent.faults \in Nat
      /\ stack = <<>> /\ UNCHANGED stack /\ Busy(stack) = FALSE
  <2>1. stack = <<>> /\ UNCHANGED stack
    BY DEF RequestFails, Event
  <2>2. Busy(stack) = FALSE
    BY <2>1, NoWalk DEF Busy
  <2>. QED
    BY <2>1, <2>2, Always
<1>2. PICK answer \in {"failed", "refused", "garbled"} :
        /\ page' = Settle(page, answer)
        /\ answer = "garbled" => page.adapter = "jquery" /\ ~page.req.begun
        /\ spent' = IF answer = "refused"
                    THEN [spent EXCEPT !.others = @ + 1]
                    ELSE [spent EXCEPT !.faults = @ + 1]
  BY DEF RequestFails
<1>. DEFINE n == spent'.faults
<1>3. /\ DOMAIN spent' = DOMAIN spent /\ n \in Nat
      /\ n = IF answer = "refused" THEN spent.faults ELSE spent.faults + 1
  BY <1>1, <1>2 DEF PageSafe
<1>. HIDE DEF n
<1>4. /\ Shape(page)
      /\ page.started => ~page.stopped
      /\ ~page.started => ~page.delayPollTimeout
  BY <1>1 DEF Lively, Nearly
<1>5. page.adapter = "jquery" =>
        IF answer \in {"aborted", "refused"} THEN page.failCount <= n
                                             ELSE page.failCount + 1 <= n
  BY <1>1, <1>3 DEF Lively, Nearly, Calm, Shape
<1>6. Lively(page', FALSE, n)
  <2>1. answer \in {"aborted", "failed", "refused", "garbled"}
    OBVIOUS
  <2>2. Lively(Settle(page, answer), FALSE, n)
    BY <1>2, <1>3, <1>4, <1>5, <2>1, SettleLively
  <2>. QED
    BY <1>2, <2>2
<1>7. (Lively(page, Busy(stack), spent.faults))'
  BY <1>1, <1>6 DEF n, Lively, Nearly, Shape, Held, Calm, Pending, Busy
<1>8. StackOK(stack)'
  BY <1>1 DEF PageSafe, StackOK
<1>. QED
  BY <1>1, <1>3, <1>7, <1>8 DEF PageSafe, n

-----------------------------------------------------------------------------
(* The theorems.                                                           *)

LEMMA PageInit == Init => PageSafe
<1>. SUFFICES ASSUME Init PROVE PageSafe
  OBVIOUS
<1>1. stack = <<>> /\ spent = [calls |-> 0, faults |-> 0, others |-> 0]
  BY DEF Init
<1>2. PICK a \in Adapters, c \in Chunking :
        page = [callbacks |-> <<>>, later |-> <<>>, req |-> NoRequest,
                started |-> FALSE, stopped |-> FALSE, paused |-> FALSE,
                hidden |-> FALSE, failCount |-> 0, chunkedBackoff |-> 0,
                ajaxInProgress |-> FALSE, longPoll |-> FALSE,
                pollTimeout |-> "none", delayPollTimeout |-> FALSE,
                chunkedTimeout |-> FALSE, adapter |-> a, allowChunked |-> c]
  BY DEF Init
<1>3. /\ page.started = FALSE /\ page.stopped = FALSE
      /\ page.ajaxInProgress = FALSE /\ page.longPoll = FALSE
      /\ page.delayPollTimeout = FALSE /\ page.pollTimeout = "none"
      /\ page.req = NoRequest /\ page.failCount = 0
      /\ Flags \cup {"callbacks", "later", "req", "paused", "hidden",
                     "failCount", "chunkedBackoff", "pollTimeout",
                     "chunkedTimeout", "adapter"} \subseteq DOMAIN page
  BY <1>2 DEF Flags
<1>4. /\ NoRequest.open = FALSE
      /\ DOMAIN NoRequest = {"open", "chunked", "begun", "want", "upto"}
  BY DEF NoRequest
<1>5. Shape(page)
  <2>1. \A f \in Flags : page[f] = FALSE
    BY <1>3 DEF Flags
  <2>2. {"open", "chunked", "begun", "upto"} \subseteq DOMAIN page.req
    BY <1>3, <1>4
  <2>3. page.req.open = FALSE /\ page.failCount \in Nat
    BY <1>3, <1>4
  <2>. QED
    BY <1>3, <2>1, <2>2, <2>3 DEF Shape
<1>6. Held(page, FALSE) /\ Calm(page, 0)
  BY <1>3, <1>4 DEF Held, Calm
<1>7. Lively(page, FALSE, 0)
  BY <1>3, <1>4, <1>5, <1>6 DEF Lively, Nearly
<1>8. Busy(stack) = FALSE /\ StackOK(stack)
  BY <1>1, NoWalk DEF Busy
<1>. QED
  BY <1>1, <1>7, <1>8 DEF PageSafe

LEMMA PageStep ==
  ASSUME Garbled \subseteq {"jquery"}, PageSafe, [Next]_vars
  PROVE  PageSafe'
<1>1. CASE UNCHANGED vars
  BY <1>1, Always, NoWalkStep DEF vars
<1>2. CASE Quiet
  BY <1>2, Always, NoWalkStep DEF Quiet, vars
<1>3. CASE Publish
  BY <1>3, Always, NoWalkStep DEF Publish
<1>. QED
  BY <1>1, <1>2, <1>3, CallsSafe, WalksSafe, EventsSafe, ServerSafe,
     RequestFailsSafe DEF Next

LEMMA PageInvariant ==
  ASSUME Garbled \subseteq {"jquery"}
  PROVE  Spec => []PageSafe
<1>1. PageSafe /\ [Next]_vars => PageSafe'
  BY PageStep
<1>. QED
  BY <1>1, PageInit, PTL DEF Spec

\* Started, a client polls or has a timer that will; stopped, it has neither:
\* for any calls, also from callbacks, if whatever the client parses itself is
\* in JSON: the answers to the bare adapter, and those that declare themselves
\* JSON although chunks were allowed.
THEOREM PollsWhileStartedAlways ==
  ASSUME Garbled \subseteq {"jquery"}
  PROVE  Spec => []PollsWhileStarted
<1>1. PageSafe => PollsWhileStarted
  <2>. SUFFICES ASSUME PageSafe, stack = <<>> PROVE PollsWhileStarted
    BY DEF PollsWhileStarted
  <2>1. Busy(stack) = FALSE
    BY NoWalk DEF Busy
  <2>2. Lively(page, FALSE, spent.faults)
    BY <2>1, Always
  <2>. QED
    BY <2>2 DEF Lively, Nearly, Shape, Flags, Pending, PollsWhileStarted
<1>. QED
  BY <1>1, PageInvariant, PTL

\* The two flags that keep a second request from being sent are set only while
\* one is open or its answer is being walked, so the client is never stuck.
THEOREM NeverStuckAlways ==
  ASSUME Garbled \subseteq {"jquery"}
  PROVE  Spec => []NeverStuck
<1>1. PageSafe => NeverStuck
  <2>. SUFFICES ASSUME PageSafe PROVE NeverStuck
    OBVIOUS
  <2>1. Held(page, Busy(stack)) /\ Shape(page)
    BY DEF PageSafe, Lively, Nearly
  <2>2. page.longPoll \in BOOLEAN /\ page.ajaxInProgress \in BOOLEAN
    BY <2>1 DEF Shape, Flags
  <2>. QED
    BY <2>1, <2>2 DEF Held, Busy, NeverStuck
<1>. QED
  BY <1>1, PageInvariant, PTL

\* With jQuery, no number of calls, aborts and refusals makes the client back
\* off: it takes more than Patience failures.
THEOREM BackoffOnlyOnFailuresAlways ==
  ASSUME Garbled \subseteq {"jquery"}
  PROVE  Spec => []BackoffOnlyOnFailures
<1>1. PageSafe => BackoffOnlyOnFailures
  BY DEF PageSafe, Lively, Nearly, Calm, BackoffOnlyOnFailures
<1>. QED
  BY <1>1, PageInvariant, PTL

-----------------------------------------------------------------------------
(* What the operators of the model compute.                                *)

\* The values of the client's variables.
Pages == [callbacks : Seq(Callback), later : Seq(Item), req : Request,
          started : BOOLEAN, stopped : BOOLEAN, paused : BOOLEAN,
          hidden : BOOLEAN, failCount : 0..Patience + 1,
          chunkedBackoff : 0..RetryChunked, ajaxInProgress : BOOLEAN,
          longPoll : BOOLEAN, pollTimeout : Waits, delayPollTimeout : BOOLEAN,
          chunkedTimeout : BOOLEAN, adapter : Adapters,
          allowChunked : BOOLEAN]

\* A set of positive numbers has an ascending enumeration.  The proof takes the
\* least upper bound a counterexample could have.
LEMMA AscendingExists ==
  ASSUME NEW b \in Nat, NEW S \in SUBSET (1..b)
  PROVE  \E s \in [1..Cardinality(S) -> S] :
           /\ ToSet(s) = S
           /\ \A j, k \in DOMAIN s : j < k => s[j] < s[k]
<1>. DEFINE Sorted(P) == \E s \in [1..Cardinality(P) -> P] :
                           /\ ToSet(s) = P
                           /\ \A j, k \in DOMAIN s : j < k => s[j] < s[k]
            T == {m \in Nat : \E P \in SUBSET (1..m) : ~Sorted(P)}
<1>1. SUFFICES T = {}
  BY <1>1
<1>2. SUFFICES ASSUME T # {} PROVE FALSE
  OBVIOUS
<1>3. PICK m \in T : \A k \in T : ~(<<k, m>> \in OpToRel(<, Nat))
  <2>1. T \subseteq Nat
    OBVIOUS
  <2>. QED
    BY <1>2, <2>1, WFMin, NatLessThanWellFounded
<1>4. \A k \in Nat : k < m => k \notin T
  BY <1>3 DEF OpToRel
<1>5. PICK P \in SUBSET (1..m) : ~Sorted(P)
  OBVIOUS
<1>n. m \in Nat
  OBVIOUS
<1>m. m \in Nat /\ m \in Int /\ 1 \in Int
  BY <1>n
<1>i. IsFiniteSet(1..m)
  BY <1>m, FS_Interval
<1>6. m \in Nat /\ IsFiniteSet(P)
  BY <1>m, <1>i, FS_Subset
<1>7. CASE P = {}
  <2>1. Cardinality(P) = 0
    BY <1>7, FS_EmptySet
  <2>2. <<>> \in [1..0 -> {}] /\ ToSet(<<>>) = {} /\ DOMAIN <<>> = {}
    BY DEF ToSet
  <2>. QED
    BY <1>5, <1>7, <2>1, <2>2
<1>8. CASE P # {} /\ m \notin P
  <2>1. m # 0
    <3>1. PICK p \in P : TRUE
      BY <1>8
    <3>2. p \in 1..m
      OBVIOUS
    <3>. QED
      BY <1>6, <3>2
  <2>a. m - 1 \in Nat /\ m - 1 < m
    BY <1>6, <2>1
  <2>2. P \in SUBSET (1..(m - 1))
    BY <1>6, <1>8
  <2>. QED
    BY <1>4, <1>5, <2>a, <2>2
<1>9. CASE m \in P
  <2>1. m - 1 \in Nat /\ m - 1 < m
    BY <1>6, <1>9
  <2>. DEFINE Q == P \ {m}
              n == Cardinality(Q)
  <2>2. Q \in SUBSET (1..(m - 1))
    BY <1>6
  <2>3. Sorted(Q)
    BY <1>4, <2>1, <2>2
  <2>4. n \in Nat /\ Cardinality(P) = n + 1
    BY <1>6, <1>9, FS_RemoveElement, FS_Subset, FS_CardinalityType
  <2>. HIDE DEF n
  <2>5. PICK s \in [1..n -> Q] :
          ToSet(s) = Q /\ \A j, k \in DOMAIN s : j < k => s[j] < s[k]
    BY <2>3 DEF n
  <2>. DEFINE r == [k \in 1..(n + 1) |-> IF k = n + 1 THEN m ELSE s[k]]
  <2>6. r \in [1..(n + 1) -> P]
    BY <1>9, <2>4, <2>5
  <2>7. ToSet(r) = P
    <3>1. ASSUME NEW p \in P PROVE p \in ToSet(r)
      <4>1. CASE p = m
        <5>1. r[n + 1] = m /\ n + 1 \in DOMAIN r
          BY <2>4
        <5>. QED
          BY <4>1, <5>1 DEF ToSet
      <4>2. CASE p # m
        <5>1. PICK k \in 1..n : s[k] = p
          BY <2>5, <3>1, <4>2 DEF ToSet
        <5>2. k \in DOMAIN r /\ r[k] = p
          BY <2>4, <5>1
        <5>. QED
          BY <5>2 DEF ToSet
      <4>. QED
        BY <4>1, <4>2
    <3>2. ToSet(r) \subseteq P
      BY <2>6 DEF ToSet
    <3>. QED
      BY <3>1, <3>2
  <2>8. ASSUME NEW j \in DOMAIN r, NEW k \in DOMAIN r, j < k
        PROVE  r[j] < r[k]
    <3>1. j \in 1..n /\ r[j] = s[j] /\ s[j] \in Q
      BY <2>4, <2>5, <2>8
    <3>2. CASE k = n + 1
      <4>a. s[j] \in 1..(m - 1)
        BY <2>2, <3>1
      <4>1. s[j] < m
        BY <1>6, <2>1, <4>a
      <4>. QED
        BY <3>1, <3>2, <4>1, <2>4
    <3>3. CASE k # n + 1
      BY <2>4, <2>5, <2>8, <3>1, <3>3
    <3>. QED
      BY <3>2, <3>3
  <2>. HIDE DEF r
  <2>9. Sorted(P)
    BY <2>4, <2>6, <2>7, <2>8
  <2>. QED
    BY <1>5, <2>9
<1>. QED
  BY <1>7, <1>8, <1>9

\* So Ascending is one.
LEMMA AscendingIs ==
  ASSUME NEW b \in Nat, NEW S \in SUBSET (1..b)
  PROVE  /\ Cardinality(S) \in Nat
         /\ Ascending(S) \in [1..Cardinality(S) -> S]
         /\ ToSet(Ascending(S)) = S
         /\ \A j, k \in 1..Cardinality(S) :
              j < k => Ascending(S)[j] < Ascending(S)[k]
<1>i. b \in Int /\ 1 \in Int
  OBVIOUS
<1>j. IsFiniteSet(1..b)
  BY <1>i, FS_Interval
<1>0. IsFiniteSet(S)
  BY <1>j, FS_Subset
<1>1. Cardinality(S) \in Nat
  BY <1>0, FS_CardinalityType
<1>2. /\ Ascending(S) \in [1..Cardinality(S) -> S]
      /\ ToSet(Ascending(S)) = S
      /\ \A j, k \in DOMAIN Ascending(S) :
           j < k => Ascending(S)[j] < Ascending(S)[k]
  BY AscendingExists DEF Ascending
<1>. QED
  BY <1>1, <1>2

\* The highest of a set of positive numbers.
LEMMA MaxIs ==
  ASSUME NEW b \in Nat, NEW S \in SUBSET (1..b), S # {}
  PROVE  Max(S) \in S /\ \A k \in S : k <= Max(S)
<1>. DEFINE n == Cardinality(S)
            s == Ascending(S)
<1>1. /\ n \in Nat /\ s \in [1..n -> S] /\ ToSet(s) = S
      /\ \A j, k \in 1..n : j < k => s[j] < s[k]
  BY AscendingIs
<1>. HIDE DEF n, s
<1>2. \A x \in S : \E k \in 1..n : s[k] = x
  BY <1>1 DEF ToSet
<1>3. n \in 1..n
  <2>1. PICK x \in S : TRUE
    OBVIOUS
  <2>2. PICK k \in 1..n : s[k] = x
    BY <1>2
  <2>. QED
    BY <1>1, <2>2
<1>4. s[n] \in S /\ \A x \in S : s[n] >= x
  <2>1. s[n] \in S
    BY <1>1, <1>3
  <2>2. ASSUME NEW x \in S PROVE s[n] >= x
    <3>1. PICK k \in 1..n : s[k] = x
      BY <1>2
    <3>2. k = n \/ s[k] < s[n]
      BY <1>1, <1>3
    <3>3. x \in 1..b /\ s[n] \in 1..b
      BY <2>1
    <3>. QED
      BY <3>1, <3>2, <3>3
  <2>. QED
    BY <2>1, <2>2
<1>5. Max(S) \in S /\ \A x \in S : Max(S) >= x
  BY <1>4 DEF Max
<1>. QED
  BY <1>5

-----------------------------------------------------------------------------
(* What the operators of the client leave alone.                           *)

\* The callbacks' positions.
LEMMA PositionIs ==
  ASSUME NEW p, p.callbacks \in Seq(Callback), NEW c
  PROVE  /\ Position(p, c) \in {None} \cup LastIds
         /\ Position(p, c) = None <=>
              \A k \in DOMAIN p.callbacks : p.callbacks[k].chan # c
         /\ \A k \in DOMAIN p.callbacks :
              /\ p.callbacks[k].chan = c
              /\ \A i \in DOMAIN p.callbacks :
                   p.callbacks[i].chan = c => i = k
              => Position(p, c) = p.callbacks[k].last
<1>. DEFINE cbs == p.callbacks
            on == {k \in DOMAIN cbs : cbs[k].chan = c}
            n == Len(cbs)
<1>1. n \in Nat /\ DOMAIN cbs = 1..n /\ \A k \in 1..n : cbs[k] \in Callback
  BY LenProperties, ElementOfSeq
<1>2. Position(p, c) = IF on = {} THEN None ELSE cbs[Max(on)].last
  BY DEF Position
<1>3. ASSUME on # {}
      PROVE  /\ Max(on) \in on /\ cbs[Max(on)].last \in LastIds
             /\ cbs[Max(on)].last # None
  <2>1. on \in SUBSET (1..n)
    BY <1>1
  <2>. HIDE DEF on, n, cbs
  <2>2. Max(on) \in on
    BY <1>1, <1>3, <2>1, MaxIs
  <2>3. cbs[Max(on)].last \in LastIds
    BY <1>1, <2>1, <2>2 DEF Callback
  <2>. QED
    BY <2>2, <2>3, PageAssumption DEF LastIds
<1>. HIDE DEF n
<1>4. Position(p, c) \in {None} \cup LastIds
  BY <1>2, <1>3
<1>5. Position(p, c) = None <=> on = {}
  BY <1>2, <1>3
<1>6. ASSUME NEW k \in DOMAIN cbs, cbs[k].chan = c,
             \A i \in DOMAIN cbs : cbs[i].chan = c => i = k
      PROVE  Position(p, c) = cbs[k].last
  <2>1. on = {k}
    BY <1>6
  <2>2. Max(on) = k
    BY <1>3, <2>1
  <2>. QED
    BY <1>2, <2>1, <2>2
<1>. QED
  BY <1>4, <1>5, <1>6

\* A client whose request is at most as old as the log.
Sound(p) ==
  /\ p \in Pages
  /\ p.req.open => p.longPoll /\ p.req.upto <= Len(log)

\* A request just sent.
Sent(p, r) ==
  /\ r.open /\ ~r.begun
  /\ r.want = [c \in Chans |-> Position(p, c)]

\* From p to q, the callbacks have not changed, nor what was put off, and the
\* request is the same, or new, or over.
Polled(p, q) ==
  /\ Sound(q)
  /\ q.callbacks = p.callbacks /\ q.later = p.later /\ q.paused = p.paused
  /\ p.started \/ p.stopped => q.started \/ q.stopped
  /\ q.req = p.req \/ ~q.req.open \/ Sent(p, q.req)

LEMMA PolledTwice ==
  ASSUME NEW p, NEW q, NEW r, Polled(p, q), Polled(q, r)
  PROVE  Polled(p, r)
<1>1. \A c : Position(q, c) = Position(p, c)
  BY DEF Polled, Position
<1>. QED
  BY <1>1 DEF Polled, Sent

LEMMA NoRequestType == NoRequest \in Request /\ NoRequest.open = FALSE
<1>1. 0 \in 0..MaxMessages
  BY PageAssumption
<1>. QED
  BY <1>1 DEF NoRequest, Request

LEMMA CompletePolled ==
  ASSUME NEW p \in Pages, NEW verdict, NEW got
  PROVE  /\ Polled(p, Complete(p, verdict, got))
         /\ ~Complete(p, verdict, got).req.open
<1>. DEFINE wait == CASE verdict = "limited" -> "limited"
                      [] verdict = "abort" -> "min"
                      [] verdict \notin {"limited", "abort"} ->
                           IF p.failCount > Patience THEN "backoff"
                           ELSE IF ShouldLongPoll(p) /\ got THEN "min"
                           ELSE "interval"
            next == IF p.started THEN wait ELSE "none"
            q == [p EXCEPT !.ajaxInProgress = FALSE, !.longPoll = FALSE,
                           !.req = NoRequest, !.pollTimeout = next]
<1>1. next \in Waits
  BY DEF Waits
<1>2. Complete(p, verdict, got) = q
  BY DEF Complete
<1>. HIDE DEF next
<1>3. /\ q \in Pages /\ q.req = NoRequest /\ q.callbacks = p.callbacks
      /\ q.later = p.later /\ q.paused = p.paused
      /\ q.started = p.started /\ q.stopped = p.stopped
  BY <1>1, NoRequestType DEF Pages
<1>. HIDE DEF q
<1>. QED
  BY <1>2, <1>3, NoRequestType DEF Polled, Sound

LEMMA FailPolled ==
  ASSUME NEW p \in Pages, NEW verdict
  PROVE  Polled(p, Fail(p, verdict)) /\ ~Fail(p, verdict).req.open
<1>. DEFINE count == IF verdict = "fail" /\ p.failCount <= Patience
                     THEN p.failCount + 1 ELSE p.failCount
            q == [p EXCEPT !.chunkedTimeout = FALSE, !.failCount = count]
<1>1. count \in 0..Patience + 1
  <2>1. p.failCount \in 0..Patience + 1
    BY DEF Pages
  <2>. QED
    BY <2>1, PageAssumption
<1>2. Fail(p, verdict) = Complete(q, verdict, FALSE)
  BY DEF Fail
<1>. HIDE DEF count
<1>3. /\ q \in Pages /\ q.req = p.req /\ q.callbacks = p.callbacks
      /\ q.later = p.later /\ q.paused = p.paused
      /\ q.started = p.started /\ q.stopped = p.stopped
  BY <1>1 DEF Pages
<1>. HIDE DEF q
<1>4. Polled(q, Fail(p, verdict)) /\ ~Fail(p, verdict).req.open
  BY <1>2, <1>3, CompletePolled
<1>. QED
  BY <1>3, <1>4 DEF Polled, Sent, Position

LEMMA SettlePolled ==
  ASSUME NEW p, Sound(p), NEW answer
  PROVE  Polled(p, Settle(p, answer)) /\ ~Settle(p, answer).req.open
<1>. DEFINE text == p.req.chunked \/ p.req.begun
            verdict == IF p.adapter = "jquery"
                       THEN JQueryDone(answer, text, p.req.chunked)
                       ELSE BareDone(answer, p.req.chunked)
            q == [p EXCEPT !.chunkedTimeout = FALSE]
            r == [p EXCEPT !.req.open = FALSE]
<1>1. Settle(p, answer) = CASE verdict = "success" ->
                                 Complete(q, "success", FALSE)
                            [] verdict = "raised" -> r
                            [] OTHER -> Fail(p, verdict)
  BY DEF Settle
<1>. HIDE DEF verdict
<1>2. /\ q \in Pages /\ q.req = p.req /\ q.callbacks = p.callbacks
      /\ q.later = p.later /\ q.paused = p.paused
      /\ q.started = p.started /\ q.stopped = p.stopped
  BY DEF Pages, Sound
<1>3. /\ r \in Pages /\ r.req.open = FALSE /\ r.callbacks = p.callbacks
      /\ r.later = p.later /\ r.paused = p.paused
      /\ r.started = p.started /\ r.stopped = p.stopped
  <2>1. p.req \in Request /\ p \in Pages
    BY DEF Pages, Sound
  <2>. DEFINE s == [p.req EXCEPT !.open = FALSE]
  <2>2. s \in Request /\ s.open = FALSE
    BY <2>1 DEF Request
  <2>3. r = [p EXCEPT !.req = s]
    BY <2>1 DEF Pages
  <2>. HIDE DEF s, r
  <2>. QED
    BY <2>1, <2>2, <2>3 DEF Pages
<1>. HIDE DEF q, r
<1>4. CASE verdict = "success"
  <2>1. Polled(q, Settle(p, answer)) /\ ~Settle(p, answer).req.open
    BY <1>1, <1>2, <1>4, CompletePolled
  <2>. QED
    BY <1>2, <2>1 DEF Polled, Sent, Position
<1>5. CASE verdict = "raised"
  <2>1. Settle(p, answer) = r
    BY <1>1, <1>5
  <2>. QED
    BY <1>3, <2>1 DEF Polled, Sound
<1>6. CASE verdict \notin {"success", "raised"}
  <2>1. Settle(p, answer) = Fail(p, verdict)
    BY <1>1, <1>6
  <2>. QED
    BY <2>1, FailPolled DEF Sound
<1>. QED
  BY <1>4, <1>5, <1>6

LEMMA AbortPolled ==
  ASSUME NEW p, Sound(p)
  PROVE  Polled(p, Abort(p)) /\ ~Abort(p).req.open
<1>1. CASE p.longPoll /\ p.req.open
  BY <1>1, SettlePolled DEF Abort
<1>2. CASE ~(p.longPoll /\ p.req.open)
  <2>1. Abort(p) = p
    BY <1>2 DEF Abort
  <2>. QED
    BY <1>2, <2>1 DEF Polled, Sound
<1>. QED
  BY <1>1, <1>2

LEMMA PollPolled ==
  ASSUME NEW p, Sound(p), NEW wait, Len(log) \in 0..MaxMessages
  PROVE  Polled(p, Poll(p, wait))
<1>. DEFINE chunked == /\ ShouldLongPoll(p) /\ p.allowChunked
                       /\ p.chunkedBackoff = 0
            back == IF p.chunkedBackoff > 0 THEN p.chunkedBackoff - 1 ELSE 0
            want == [c \in Chans |-> Position(p, c)]
            r == [open |-> TRUE, chunked |-> chunked, begun |-> FALSE,
                  want |-> want, upto |-> Len(log)]
            q1 == [p EXCEPT !.delayPollTimeout = TRUE]
            q2 == [p EXCEPT !.longPoll = FALSE]
            q3 == [p EXCEPT !.ajaxInProgress = TRUE, !.longPoll = TRUE,
                            !.chunkedBackoff = back, !.chunkedTimeout = chunked,
                            !.req = r]
<1>1. Poll(p, wait) \in {p, q1, q3} \/ (~p.longPoll /\ Poll(p, wait) = q2)
  BY DEF Poll, LongPoller
<1>2. Polled(p, p)
  BY DEF Polled
<1>3. Polled(p, q1)
  <2>1. /\ q1 \in Pages /\ q1.req = p.req /\ q1.callbacks = p.callbacks
        /\ q1.later = p.later /\ q1.paused = p.paused
        /\ q1.started = p.started /\ q1.stopped = p.stopped
        /\ q1.longPoll = p.longPoll
    BY DEF Pages, Sound
  <2>. HIDE DEF q1
  <2>. QED
    BY <2>1 DEF Polled, Sound
<1>4. ~p.longPoll => Polled(p, q2)
  <2>1. /\ q2 \in Pages /\ q2.req = p.req /\ q2.callbacks = p.callbacks
        /\ q2.later = p.later /\ q2.paused = p.paused
        /\ q2.started = p.started /\ q2.stopped = p.stopped
    BY DEF Pages, Sound
  <2>. HIDE DEF q2
  <2>. QED
    BY <2>1 DEF Polled, Sound
<1>5. Polled(p, q3)
  <2>1. want \in [Chans -> {None} \cup LastIds]
    <3>1. p.callbacks \in Seq(Callback)
      BY DEF Sound, Pages
    <3>. QED
      BY <3>1, PositionIs
  <2>2. back \in 0..RetryChunked
    <3>1. p.chunkedBackoff \in 0..RetryChunked
      BY DEF Sound, Pages
    <3>. QED
      BY <3>1, PageAssumption
  <2>3. chunked \in BOOLEAN
    OBVIOUS
  <2>. HIDE DEF want, back, chunked
  <2>4. /\ r \in Request /\ r.open = TRUE /\ r.begun = FALSE /\ r.want = want
        /\ r.upto = Len(log)
    BY <2>1, <2>3 DEF Request
  <2>. HIDE DEF r
  <2>5. /\ q3 \in Pages /\ q3.req = r /\ q3.callbacks = p.callbacks
        /\ q3.later = p.later /\ q3.paused = p.paused
        /\ q3.started = p.started /\ q3.stopped = p.stopped
        /\ q3.longPoll = TRUE
    BY <2>2, <2>3, <2>4 DEF Pages, Sound
  <2>. HIDE DEF q3
  <2>. QED
    BY <2>4, <2>5 DEF Polled, Sound, Sent, want
<1>. HIDE DEF q1, q2, q3
<1>. QED
  BY <1>1, <1>2, <1>3, <1>4, <1>5

LEMMA StopPolled ==
  ASSUME NEW p, Sound(p)
  PROVE  Polled(p, Stop(p)) /\ ~Stop(p).req.open
<1>. DEFINE q == [p EXCEPT !.stopped = TRUE, !.started = FALSE,
                           !.pollTimeout = "none", !.delayPollTimeout = FALSE]
<1>1. /\ q \in Pages /\ q.req = p.req /\ q.callbacks = p.callbacks
      /\ q.later = p.later /\ q.paused = p.paused /\ q.longPoll = p.longPoll
      /\ q.stopped = TRUE
  BY DEF Pages, Sound, Waits
<1>2. Stop(p) = Abort(q)
  BY DEF Stop
<1>. HIDE DEF q
<1>3. Polled(p, q) /\ Sound(q)
  BY <1>1 DEF Polled, Sound
<1>. QED
  BY <1>2, <1>3, AbortPolled, PolledTwice

LEMMA StartPolled ==
  ASSUME NEW p, Sound(p), NEW wait, Len(log) \in 0..MaxMessages
  PROVE  /\ Polled(p, Start(p, wait))
         /\ Start(p, wait).started \/ Start(p, wait).stopped
<1>. DEFINE q == [p EXCEPT !.started = TRUE, !.stopped = FALSE]
<1>1. CASE p.started
  BY <1>1 DEF Start, Polled
<1>2. CASE ~p.started
  <2>1. /\ q \in Pages /\ q.req = p.req /\ q.callbacks = p.callbacks
        /\ q.later = p.later /\ q.paused = p.paused /\ q.longPoll = p.longPoll
        /\ q.started = TRUE
    BY DEF Pages, Sound
  <2>2. Start(p, wait) = Poll(q, wait)
    BY <1>2 DEF Start
  <2>. HIDE DEF q
  <2>3. Polled(p, q) /\ Sound(q)
    BY <2>1 DEF Polled, Sound
  <2>4. Polled(q, Start(p, wait))
    BY <2>2, <2>3, PollPolled
  <2>. QED
    BY <2>1, <2>3, <2>4, PolledTwice DEF Polled
<1>. QED
  BY <1>1, <1>2

-----------------------------------------------------------------------------
(* What a walk is still to hand over.                                      *)

\* An item says something of channel c: the position it moves callbacks to.
About(it, c) == IF it.kind = "message" THEN it.chan = c ELSE it.at[c] # None
IdOf(it, c) == IF it.kind = "message" THEN it.id ELSE it.at[c]

\* The items of a walk: part 0 is the messages being walked.
Part(F, q) == IF q = 0 THEN F.messages ELSE F.chunks[q]
Places(F) == UNION {{q} \X DOMAIN Part(F, q) : q \in 0..Len(F.chunks)}
ItemAt(F, x) == Part(F, x[1])[x[2]]
Before(x, y) == x[1] < y[1] \/ (x[1] = y[1] /\ x[2] < y[2])

\* Those of a channel that have not moved its callback yet.
Left(F, c) ==
  {x \in Places(F) : About(ItemAt(F, x), c) /\ ~(F.j > 1 /\ x = <<0, 1>>)}

\* The messages of channel c in log lg between two positions.
Span(lg, c, from, to) == {n \in from + 1..to : n \in DOMAIN lg /\ lg[n] = c}

Covers(lg, F, c, from, to) ==
  \A n \in Span(lg, c, from, to) : \E x \in Left(F, c) :
    ItemAt(F, x).kind = "message" /\ ItemAt(F, x).id = n

Climbing(F, c) ==
  \A x, y \in Left(F, c) :
    Before(x, y) => IdOf(ItemAt(F, x), c) < IdOf(ItemAt(F, y), c)

\* What is left moves a callback at position last forward, message by message
\* and up to position to; one without a position has first to be told one.
Rest(lg, F, c, last, to) ==
  /\ Climbing(F, c)
  /\ \A x \in Left(F, c) :
       last < IdOf(ItemAt(F, x), c) /\ IdOf(ItemAt(F, x), c) <= to
  /\ last >= 0 => /\ \A x \in Left(F, c) : ItemAt(F, x).kind = "message"
                  /\ Covers(lg, F, c, last, to)
  /\ last < 0 => \E s \in Left(F, c) :
       /\ ItemAt(F, s).kind = "status"
       /\ \A x \in Left(F, c) \ {s} :
            Before(s, x) /\ ItemAt(F, x).kind = "message"
       /\ Covers(lg, F, c, ItemAt(F, s).at[c], to)

LEMMA ItemIs ==
  ASSUME NEW it \in Item, NEW c \in Chans
  PROVE  /\ it.kind \in {"message", "status"}
         /\ it.kind = "message" => it.id \in Nat /\ it.chan \in Chans
         /\ it.kind = "status" /\ About(it, c) => it.at[c] \in Nat
         /\ About(it, c) => IdOf(it, c) \in Nat
<1>1. CASE it \in Message
  <2>1. it.kind = "message" /\ it.chan \in Chans /\ it.id \in 1..MaxMessages
    BY <1>1 DEF Message, Ids
  <2>. QED
    BY <2>1 DEF IdOf
<1>2. CASE it \in Status
  <2>1. it.kind = "status" /\ it.at[c] \in {None} \cup 0..MaxMessages
    BY <1>2 DEF Status
  <2>. QED
    BY <2>1 DEF About, IdOf
<1>. QED
  BY <1>1, <1>2 DEF Item

LEMMA PlaceIs ==
  ASSUME NEW F \in Frame
  PROVE  /\ Len(F.chunks) \in Nat /\ F.j \in Nat \ {0}
         /\ \A q \in 0..Len(F.chunks) : Part(F, q) \in Seq(Item)
         /\ \A x \in Places(F) :
              /\ x[1] \in 0..Len(F.chunks) /\ x[2] \in 1..Len(Part(F, x[1]))
              /\ x = <<x[1], x[2]>> /\ ItemAt(F, x) \in Item
         /\ \A q \in 0..Len(F.chunks) : \A i \in 1..Len(Part(F, q)) :
              <<q, i>> \in Places(F)
<1>1. /\ F.messages \in Seq(Item) /\ F.chunks \in Seq(Seq(Item))
      /\ F.j \in Nat \ {0}
  BY DEF Frame
<1>2. ASSUME NEW q \in 0..Len(F.chunks)
      PROVE  Part(F, q) \in Seq(Item)
  <2>1. CASE q = 0
    BY <1>1, <2>1 DEF Part
  <2>2. CASE q # 0
    <3>1. q \in 1..Len(F.chunks)
      BY <1>1, <2>2
    <3>2. F.chunks[q] \in Seq(Item)
      BY <1>1, <3>1, ElementOfSeq
    <3>. QED
      BY <2>2, <3>2 DEF Part
  <2>. QED
    BY <2>1, <2>2
<1>3. ASSUME NEW q \in 0..Len(F.chunks)
      PROVE  /\ DOMAIN Part(F, q) = 1..Len(Part(F, q))
             /\ \A i \in 1..Len(Part(F, q)) : Part(F, q)[i] \in Item
  BY <1>2, LenProperties, ElementOfSeq
<1>4. ASSUME NEW x \in Places(F)
      PROVE  /\ x[1] \in 0..Len(F.chunks) /\ x[2] \in 1..Len(Part(F, x[1]))
             /\ x = <<x[1], x[2]>> /\ ItemAt(F, x) \in Item
  <2>1. PICK q \in 0..Len(F.chunks) : x \in {q} \X DOMAIN Part(F, q)
    BY DEF Places
  <2>2. x[1] = q /\ x[2] \in DOMAIN Part(F, q) /\ x = <<x[1], x[2]>>
    BY <2>1
  <2>. QED
    BY <1>3, <2>2 DEF ItemAt
<1>5. ASSUME NEW q \in 0..Len(F.chunks), NEW i \in 1..Len(Part(F, q))
      PROVE  <<q, i>> \in Places(F)
  <2>1. <<q, i>> \in {q} \X DOMAIN Part(F, q)
    BY <1>3
  <2>. QED
    BY <2>1 DEF Places
<1>6. Len(F.chunks) \in Nat
  BY <1>1, LenProperties
<1>. QED
  BY <1>1, <1>2, <1>4, <1>5, <1>6

LEMMA LeftIs ==
  ASSUME NEW F \in Frame, NEW c \in Chans, NEW x \in Left(F, c)
  PROVE  /\ x \in Places(F) /\ About(ItemAt(F, x), c)
         /\ IdOf(ItemAt(F, x), c) \in Nat
         /\ ItemAt(F, x) \in Item
         /\ x[1] \in Nat /\ x[2] \in Nat \ {0} /\ x = <<x[1], x[2]>>
<1>1. x \in Places(F) /\ About(ItemAt(F, x), c)
  BY DEF Left
<1>2. /\ x[1] \in 0..Len(F.chunks) /\ x[2] \in 1..Len(Part(F, x[1]))
      /\ x = <<x[1], x[2]>> /\ ItemAt(F, x) \in Item
  BY <1>1, PlaceIs
<1>3. x[1] \in Nat /\ x[2] \in Nat \ {0}
  <2>1. /\ Len(F.chunks) \in Nat /\ Part(F, x[1]) \in Seq(Item)
    BY <1>2, PlaceIs
  <2>2. Len(Part(F, x[1])) \in Nat
    BY <2>1, LenProperties
  <2>. QED
    BY <1>2, <2>1, <2>2
<1>. QED
  BY <1>1, <1>2, <1>3, ItemIs

\* The items of one walk are those of another, in other places.
LEMMA RestMoved ==
  ASSUME NEW F \in Frame, NEW G \in Frame, NEW c \in Chans, NEW lg,
         NEW last \in Int, NEW to \in Int,
         NEW g, \A x \in Left(G, c) : /\ g[x] \in Left(F, c)
                                      /\ ItemAt(G, x) = ItemAt(F, g[x]),
         \A x, y \in Left(G, c) : Before(x, y) <=> Before(g[x], g[y]),
         \A x, y \in Left(G, c) : g[x] = g[y] => x = y,
         \A y \in Left(F, c) : \E x \in Left(G, c) : g[x] = y,
         Rest(lg, F, c, last, to)
  PROVE  Rest(lg, G, c, last, to)
<1>1. Climbing(G, c)
  BY DEF Rest, Climbing
<1>2. \A x \in Left(G, c) :
        last < IdOf(ItemAt(G, x), c) /\ IdOf(ItemAt(G, x), c) <= to
  BY DEF Rest
<1>3. ASSUME NEW from, Covers(lg, F, c, from, to)
      PROVE  Covers(lg, G, c, from, to)
  BY <1>3 DEF Covers
<1>4. ASSUME last >= 0
      PROVE  /\ \A x \in Left(G, c) : ItemAt(G, x).kind = "message"
             /\ Covers(lg, G, c, last, to)
  BY <1>3, <1>4 DEF Rest
<1>5. ASSUME last < 0
      PROVE  \E s \in Left(G, c) :
               /\ ItemAt(G, s).kind = "status"
               /\ \A x \in Left(G, c) \ {s} :
                    Before(s, x) /\ ItemAt(G, x).kind = "message"
               /\ Covers(lg, G, c, ItemAt(G, s).at[c], to)
  <2>1. PICK t \in Left(F, c) :
          /\ ItemAt(F, t).kind = "status"
          /\ \A x \in Left(F, c) \ {t} :
               Before(t, x) /\ ItemAt(F, x).kind = "message"
          /\ Covers(lg, F, c, ItemAt(F, t).at[c], to)
    BY <1>5 DEF Rest
  <2>2. PICK s \in Left(G, c) : g[s] = t
    OBVIOUS
  <2>3. ItemAt(G, s) = ItemAt(F, t)
    BY <2>2
  <2>4. Covers(lg, G, c, ItemAt(G, s).at[c], to)
    BY <1>3, <2>1, <2>3
  <2>5. ASSUME NEW x \in Left(G, c) \ {s}
        PROVE  Before(s, x) /\ ItemAt(G, x).kind = "message"
    <3>1. g[x] \in Left(F, c) \ {t}
      BY <2>2
    <3>. QED
      BY <2>1, <2>2, <3>1
  <2>. QED
    BY <2>1, <2>3, <2>4, <2>5
<1>. QED
  BY <1>1, <1>2, <1>4, <1>5 DEF Rest

\* Where the items left in G, which has one message less, come from.
Source(G, c) ==
  [x \in Left(G, c) |-> IF x[1] = 0 THEN <<0, x[2] + 1>> ELSE x]

LEMMA HeadDropped ==
  ASSUME NEW F \in Frame, F.messages # <<>>, NEW G \in Frame,
         G.messages = Tail(F.messages), G.chunks = F.chunks, G.j = 1,
         NEW c \in Chans
  PROVE  LET g == Source(G, c)
         IN  /\ \A x \in Left(G, c) : /\ g[x] \in Left(F, c) \ {<<0, 1>>}
                                      /\ ItemAt(G, x) = ItemAt(F, g[x])
             /\ \A x, y \in Left(G, c) : Before(x, y) <=> Before(g[x], g[y])
             /\ \A x, y \in Left(G, c) : g[x] = g[y] => x = y
             /\ \A y \in Left(F, c) \ {<<0, 1>>} :
                  \E x \in Left(G, c) : g[x] = y
<1>. DEFINE g == Source(G, c)
<1>0. \A x \in Left(G, c) : g[x] = IF x[1] = 0 THEN <<0, x[2] + 1>> ELSE x
  BY DEF Source
<1>. HIDE DEF g
<1>1. F.messages \in Seq(Item) /\ G.messages \in Seq(Item)
  BY DEF Frame
<1>2. /\ Len(F.messages) \in Nat \ {0}
      /\ Len(G.messages) = Len(F.messages) - 1
      /\ \A i \in 1..Len(G.messages) : G.messages[i] = F.messages[i + 1]
  <2>1. Len(F.messages) \in Nat /\ (Len(F.messages) = 0 => F.messages = <<>>)
    BY <1>1
  <2>2. /\ Len(G.messages) = Len(F.messages) - 1
        /\ \A i \in 1..Len(G.messages) : G.messages[i] = F.messages[i + 1]
    BY <1>1, HeadTailProperties
  <2>. QED
    BY <2>1, <2>2
<1>3. ASSUME NEW x \in Left(G, c)
      PROVE  /\ g[x] = IF x[1] = 0 THEN <<0, x[2] + 1>> ELSE x
             /\ g[x] \in Left(F, c) \ {<<0, 1>>}
             /\ ItemAt(G, x) = ItemAt(F, g[x])
             /\ x[1] \in Nat /\ x[2] \in Nat \ {0} /\ x = <<x[1], x[2]>>
  <2>0. g[x] = IF x[1] = 0 THEN <<0, x[2] + 1>> ELSE x
    BY <1>0
  <2>1. /\ x \in Places(G) /\ About(ItemAt(G, x), c)
        /\ x[1] \in Nat /\ x[2] \in Nat \ {0} /\ x = <<x[1], x[2]>>
    BY LeftIs
  <2>2. x[1] \in 0..Len(F.chunks) /\ x[2] \in 1..Len(Part(G, x[1]))
    BY <2>1, PlaceIs
  <2>3. CASE x[1] = 0
    <3>1. x[2] \in 1..Len(G.messages)
      BY <2>2, <2>3 DEF Part
    <3>2. x[2] + 1 \in 1..Len(Part(F, 0)) /\ 0 \in 0..Len(F.chunks)
      BY <1>2, <2>1, <2>2, <2>3, <3>1 DEF Part
    <3>3. <<0, x[2] + 1>> \in Places(F)
      BY <3>2, PlaceIs
    <3>4. ItemAt(G, x) = ItemAt(F, <<0, x[2] + 1>>)
      BY <1>2, <2>3, <3>1 DEF ItemAt, Part
    <3>5. <<0, x[2] + 1>> # <<0, 1>>
      BY <2>1
    <3>. QED
      BY <2>0, <2>1, <2>3, <3>3, <3>4, <3>5 DEF Left
  <2>4. CASE x[1] # 0
    <3>1. Part(G, x[1]) = Part(F, x[1])
      BY <2>4 DEF Part
    <3>2. x \in Places(F)
      BY <2>1, <2>2, <3>1, PlaceIs
    <3>3. ItemAt(G, x) = ItemAt(F, x)
      BY <3>1 DEF ItemAt
    <3>4. x # <<0, 1>>
      BY <2>4
    <3>. QED
      BY <2>0, <2>1, <2>4, <3>2, <3>3, <3>4 DEF Left
  <2>. QED
    BY <2>0, <2>1, <2>3, <2>4
<1>4. ASSUME NEW x \in Left(G, c), NEW y \in Left(G, c)
      PROVE  /\ Before(x, y) <=> Before(g[x], g[y])
             /\ g[x] = g[y] => x = y
  <2>1. /\ g[x] = <<x[1], IF x[1] = 0 THEN x[2] + 1 ELSE x[2]>>
        /\ g[y] = <<y[1], IF y[1] = 0 THEN y[2] + 1 ELSE y[2]>>
    BY <1>3
  <2>2. /\ x[1] \in Nat /\ x[2] \in Nat /\ x = <<x[1], x[2]>>
        /\ y[1] \in Nat /\ y[2] \in Nat /\ y = <<y[1], y[2]>>
    BY <1>3
  <2>. QED
    BY <2>1, <2>2 DEF Before
<1>5. ASSUME NEW y \in Left(F, c) \ {<<0, 1>>}
      PROVE  \E x \in Left(G, c) : g[x] = y
  <2>1. /\ y \in Places(F) /\ About(ItemAt(F, y), c)
        /\ y[1] \in Nat /\ y[2] \in Nat \ {0} /\ y = <<y[1], y[2]>>
    BY LeftIs
  <2>2. y[1] \in 0..Len(F.chunks) /\ y[2] \in 1..Len(Part(F, y[1]))
    BY <2>1, PlaceIs
  <2>3. CASE y[1] = 0
    <3>. DEFINE x == <<0, y[2] - 1>>
    <3>1. y[2] # 1
      BY <2>1, <2>3
    <3>2. y[2] \in 1..Len(F.messages)
      BY <2>2, <2>3 DEF Part
    <3>3. y[2] - 1 \in 1..Len(Part(G, 0)) /\ 0 \in 0..Len(G.chunks)
      BY <1>2, <2>1, <2>2, <2>3, <3>1, <3>2 DEF Part
    <3>4. x \in Places(G)
      BY <3>3, PlaceIs
    <3>5. ItemAt(G, x) = ItemAt(F, y)
      <4>1. y[2] - 1 \in 1..Len(G.messages)
        BY <3>3 DEF Part
      <4>2. G.messages[y[2] - 1] = F.messages[y[2]]
        BY <1>2, <2>1, <4>1
      <4>. QED
        BY <2>3, <4>2 DEF ItemAt, Part
    <3>6. x \in Left(G, c)
      BY <2>1, <3>4, <3>5 DEF Left
    <3>7. g[x] = y
      BY <1>0, <2>1, <2>3, <3>6
    <3>. QED
      BY <3>6, <3>7
  <2>4. CASE y[1] # 0
    <3>1. Part(G, y[1]) = Part(F, y[1])
      BY <2>4 DEF Part
    <3>2. y \in Places(G)
      BY <2>1, <2>2, <3>1, PlaceIs
    <3>3. ItemAt(G, y) = ItemAt(F, y)
      BY <3>1 DEF ItemAt
    <3>4. y \in Left(G, c)
      BY <2>1, <3>2, <3>3 DEF Left
    <3>. QED
      BY <1>0, <2>4, <3>4
  <2>. QED
    BY <2>3, <2>4
<1>. QED
  BY <1>3, <1>4, <1>5 DEF g

LEMMA RestPassed ==
  ASSUME NEW F \in Frame, F.messages # <<>>, NEW G \in Frame,
         G.messages = Tail(F.messages), G.chunks = F.chunks, G.j = 1,
         NEW c \in Chans, ~About(Head(F.messages), c) \/ F.j > 1,
         NEW lg, NEW last \in Int, NEW to \in Int, Rest(lg, F, c, last, to)
  PROVE  Rest(lg, G, c, last, to)
<1>. DEFINE g == Source(G, c)
<1>1. <<0, 1>> \notin Left(F, c)
  <2>1. ItemAt(F, <<0, 1>>) = Head(F.messages)
    BY DEF ItemAt, Part, Frame
  <2>. QED
    BY <2>1 DEF Left
<1>. HIDE DEF g
<1>2. /\ \A x \in Left(G, c) : /\ g[x] \in Left(F, c) \ {<<0, 1>>}
                               /\ ItemAt(G, x) = ItemAt(F, g[x])
      /\ \A x, y \in Left(G, c) : Before(x, y) <=> Before(g[x], g[y])
      /\ \A x, y \in Left(G, c) : g[x] = g[y] => x = y
      /\ \A y \in Left(F, c) \ {<<0, 1>>} : \E x \in Left(G, c) : g[x] = y
  BY HeadDropped DEF g
<1>. QED
  BY <1>1, <1>2, RestMoved

\* The first place comes before every other.
LEMMA FirstPlace ==
  ASSUME NEW F \in Frame, NEW c \in Chans, NEW x \in Left(F, c),
         x # <<0, 1>>
  PROVE  Before(<<0, 1>>, x) /\ ~Before(x, <<0, 1>>)
<1>1. x[1] \in Nat /\ x[2] \in Nat \ {0} /\ x = <<x[1], x[2]>>
  BY LeftIs
<1>. QED
  BY <1>1 DEF Before

\* The channel is told its position.
LEMMA RestTold ==
  ASSUME NEW F \in Frame, F.messages # <<>>, NEW G \in Frame,
         G.messages = Tail(F.messages), G.chunks = F.chunks, G.j = 1, F.j = 1,
         NEW c \in Chans, About(Head(F.messages), c),
         Head(F.messages).kind = "status",
         NEW lg, NEW last \in Int, NEW to \in Int, Rest(lg, F, c, last, to)
  PROVE  /\ last < 0 /\ Head(F.messages).at[c] \in Nat
         /\ Head(F.messages).at[c] <= to
         /\ Rest(lg, G, c, Head(F.messages).at[c], to)
<1>. DEFINE g == Source(G, c)
            s == <<0, 1>>
            a == Head(F.messages).at[c]
<1>1. ItemAt(F, s) = Head(F.messages) /\ Head(F.messages) \in Item
  <2>1. F.messages \in Seq(Item)
    BY DEF Frame
  <2>. QED
    BY <2>1 DEF ItemAt, Part
<1>2. s \in Left(F, c)
  <2>1. 1 \in 1..Len(Part(F, 0)) /\ 0 \in 0..Len(F.chunks)
    <3>1. F.messages \in Seq(Item) /\ Len(F.chunks) \in Nat
      BY PlaceIs DEF Frame
    <3>2. Len(F.messages) \in Nat /\ Len(F.messages) # 0
      BY <3>1
    <3>. QED
      BY <3>1, <3>2 DEF Part
  <2>2. s \in Places(F)
    BY <2>1, PlaceIs
  <2>. QED
    BY <1>1, <2>2 DEF Left
<1>3. a \in Nat /\ IdOf(ItemAt(F, s), c) = a
  BY <1>1, ItemIs DEF IdOf
<1>. HIDE DEF g
<1>4. /\ \A x \in Left(G, c) : /\ g[x] \in Left(F, c) \ {s}
                               /\ ItemAt(G, x) = ItemAt(F, g[x])
      /\ \A x, y \in Left(G, c) : Before(x, y) <=> Before(g[x], g[y])
      /\ \A y \in Left(F, c) \ {s} : \E x \in Left(G, c) : g[x] = y
  BY HeadDropped DEF g
<1>5. last < 0 /\ a <= to
  BY <1>1, <1>2, <1>3 DEF Rest
<1>6. /\ \A x \in Left(F, c) \ {s} : ItemAt(F, x).kind = "message"
      /\ Covers(lg, F, c, a, to)
  <2>1. PICK t \in Left(F, c) :
          /\ ItemAt(F, t).kind = "status"
          /\ \A x \in Left(F, c) \ {t} :
               Before(t, x) /\ ItemAt(F, x).kind = "message"
          /\ Covers(lg, F, c, ItemAt(F, t).at[c], to)
    BY <1>5 DEF Rest
  <2>2. t = s
    BY <1>1, <1>2, <2>1
  <2>. QED
    BY <1>1, <2>1, <2>2
<1>7. ASSUME NEW x \in Left(G, c)
      PROVE  /\ ItemAt(G, x).kind = "message"
             /\ a < IdOf(ItemAt(G, x), c) /\ IdOf(ItemAt(G, x), c) <= to
  <2>1. g[x] \in Left(F, c) /\ g[x] # s /\ ItemAt(G, x) = ItemAt(F, g[x])
    BY <1>4
  <2>2. Before(s, g[x])
    BY <2>1, FirstPlace
  <2>. QED
    BY <1>2, <1>3, <1>6, <2>1, <2>2 DEF Rest, Climbing
<1>8. Climbing(G, c)
  BY <1>4 DEF Rest, Climbing
<1>9. Covers(lg, G, c, a, to)
  <2>. SUFFICES ASSUME NEW n \in Span(lg, c, a, to)
                PROVE  \E x \in Left(G, c) : /\ ItemAt(G, x).kind = "message"
                                             /\ ItemAt(G, x).id = n
    BY DEF Covers
  <2>1. PICK y \in Left(F, c) :
          ItemAt(F, y).kind = "message" /\ ItemAt(F, y).id = n
    BY <1>6 DEF Covers
  <2>2. y # s
    BY <1>1, <2>1
  <2>3. PICK x \in Left(G, c) : g[x] = y
    BY <1>4, <2>2
  <2>. QED
    BY <1>4, <2>1, <2>3
<1>10. a \in Int /\ a >= 0
  BY <1>3
<1>11. Rest(lg, G, c, a, to)
  BY <1>7, <1>8, <1>9, <1>10 DEF Rest
<1>. QED
  BY <1>3, <1>5, <1>11

\* Nothing of the messages is left and the next chunk takes their place.
LEMMA RestTaken ==
  ASSUME NEW F \in Frame, F.messages = <<>>, F.chunks # <<>>, F.j = 1,
         NEW G \in Frame, G.j = 1,
         G.messages = Head(F.chunks), G.chunks = Tail(F.chunks),
         NEW c \in Chans,
         NEW lg, NEW last \in Int, NEW to \in Int, Rest(lg, F, c, last, to)
  PROVE  Rest(lg, G, c, last, to)
<1>. DEFINE g == [x \in Left(G, c) |-> <<x[1] + 1, x[2]>>]
<1>1. F.chunks \in Seq(Seq(Item)) /\ G.chunks \in Seq(Seq(Item))
  BY DEF Frame
<1>2. /\ Len(F.chunks) \in Nat \ {0} /\ Len(G.chunks) = Len(F.chunks) - 1
      /\ \A q \in 1..Len(G.chunks) : G.chunks[q] = F.chunks[q + 1]
      /\ G.messages = F.chunks[1]
  <2>1. Len(F.chunks) \in Nat /\ (Len(F.chunks) = 0 => F.chunks = <<>>)
    BY <1>1
  <2>2. /\ Len(G.chunks) = Len(F.chunks) - 1
        /\ \A q \in 1..Len(G.chunks) : G.chunks[q] = F.chunks[q + 1]
        /\ Head(F.chunks) = F.chunks[1]
    BY <1>1, HeadTailProperties
  <2>. QED
    BY <2>1, <2>2
<1>3. \A q \in 0..Len(G.chunks) : Part(G, q) = Part(F, q + 1)
  <2>. SUFFICES ASSUME NEW q \in 0..Len(G.chunks)
                PROVE  Part(G, q) = Part(F, q + 1)
    OBVIOUS
  <2>1. CASE q = 0
    BY <1>2, <2>1 DEF Part
  <2>2. CASE q # 0
    <3>1. q \in 1..Len(G.chunks) /\ q + 1 # 0
      BY <2>2
    <3>. QED
      BY <1>2, <2>2, <3>1 DEF Part
  <2>. QED
    BY <2>1, <2>2
<1>4. ASSUME NEW x \in Left(G, c)
      PROVE  /\ g[x] = <<x[1] + 1, x[2]>>
             /\ g[x] \in Left(F, c)
             /\ ItemAt(G, x) = ItemAt(F, g[x])
             /\ x[1] \in Nat /\ x[2] \in Nat \ {0} /\ x = <<x[1], x[2]>>
  <2>1. /\ x \in Places(G) /\ About(ItemAt(G, x), c)
        /\ x[1] \in Nat /\ x[2] \in Nat \ {0} /\ x = <<x[1], x[2]>>
    BY LeftIs
  <2>2. x[1] \in 0..Len(G.chunks) /\ x[2] \in 1..Len(Part(G, x[1]))
    BY <2>1, PlaceIs
  <2>3. Part(G, x[1]) = Part(F, x[1] + 1)
    BY <1>3, <2>2
  <2>4. x[1] + 1 \in 0..Len(F.chunks) /\ x[2] \in 1..Len(Part(F, x[1] + 1))
    BY <1>2, <2>1, <2>2, <2>3
  <2>5. <<x[1] + 1, x[2]>> \in Places(F)
    BY <2>4, PlaceIs
  <2>6. ItemAt(G, x) = ItemAt(F, <<x[1] + 1, x[2]>>)
    BY <2>3 DEF ItemAt
  <2>. QED
    BY <2>1, <2>5, <2>6 DEF Left
<1>5. ASSUME NEW x \in Left(G, c), NEW y \in Left(G, c)
      PROVE  /\ Before(x, y) <=> Before(g[x], g[y])
             /\ g[x] = g[y] => x = y
  <2>1. g[x] = <<x[1] + 1, x[2]>> /\ g[y] = <<y[1] + 1, y[2]>>
    BY <1>4
  <2>2. /\ x[1] \in Nat /\ x[2] \in Nat /\ x = <<x[1], x[2]>>
        /\ y[1] \in Nat /\ y[2] \in Nat /\ y = <<y[1], y[2]>>
    BY <1>4
  <2>. HIDE DEF g
  <2>. QED
    BY <2>1, <2>2 DEF Before
<1>6. ASSUME NEW y \in Left(F, c)
      PROVE  \E x \in Left(G, c) : g[x] = y
  <2>1. /\ y \in Places(F) /\ About(ItemAt(F, y), c)
        /\ y[1] \in Nat /\ y[2] \in Nat \ {0} /\ y = <<y[1], y[2]>>
    BY LeftIs
  <2>2. y[1] \in 0..Len(F.chunks) /\ y[2] \in 1..Len(Part(F, y[1]))
    BY <2>1, PlaceIs
  <2>3. y[1] # 0
    <3>1. Part(F, 0) = <<>>
      BY DEF Part
    <3>2. Len(Part(F, 0)) = 0
      BY <3>1
    <3>. QED
      BY <2>1, <2>2, <3>2
  <2>. DEFINE x == <<y[1] - 1, y[2]>>
  <2>4. y[1] - 1 \in 0..Len(G.chunks) /\ y[1] - 1 + 1 = y[1]
    BY <1>2, <2>1, <2>2, <2>3
  <2>5. Part(G, y[1] - 1) = Part(F, y[1])
    BY <1>3, <2>4
  <2>6. y[2] \in 1..Len(Part(G, y[1] - 1))
    BY <2>2, <2>5
  <2>7. x \in Places(G)
    BY <2>4, <2>6, PlaceIs
  <2>8. ItemAt(G, x) = ItemAt(F, y)
    BY <2>5 DEF ItemAt
  <2>9. x \in Left(G, c)
    BY <2>1, <2>7, <2>8 DEF Left
  <2>10. g[x] = y
    BY <2>1, <2>4, <2>9
  <2>. QED
    BY <2>9, <2>10
<1>7. /\ \A x \in Left(G, c) : /\ g[x] \in Left(F, c)
                               /\ ItemAt(G, x) = ItemAt(F, g[x])
      /\ \A x, y \in Left(G, c) : Before(x, y) <=> Before(g[x], g[y])
      /\ \A x, y \in Left(G, c) : g[x] = g[y] => x = y
      /\ \A y \in Left(F, c) : \E x \in Left(G, c) : g[x] = y
  BY <1>4, <1>5, <1>6
<1>. HIDE DEF g
<1>. QED
  BY <1>7, RestMoved

\* A callback is handed the first message.
LEMMA RestHanded ==
  ASSUME NEW F \in Frame, F.messages # <<>>, F.j = 1,
         NEW G \in Frame, G.messages = F.messages, G.chunks = F.chunks,
         G.j > 1, NEW c \in Chans,
         Head(F.messages).kind = "message", Head(F.messages).chan = c,
         NEW lg, NEW last \in Int, NEW to \in Int, Rest(lg, F, c, last, to)
  PROVE  LET id == Head(F.messages).id
         IN  /\ id \in Nat /\ 0 <= last /\ last < id /\ id <= to
             /\ Span(lg, c, last, id - 1) = {}
             /\ Rest(lg, G, c, id, to)
<1>. DEFINE s == <<0, 1>>
            id == Head(F.messages).id
<1>1. ItemAt(F, s) = Head(F.messages) /\ Head(F.messages) \in Item
  <2>1. F.messages \in Seq(Item)
    BY DEF Frame
  <2>. QED
    BY <2>1 DEF ItemAt, Part
<1>2. s \in Left(F, c)
  <2>1. 1 \in 1..Len(Part(F, 0)) /\ 0 \in 0..Len(F.chunks)
    <3>1. F.messages \in Seq(Item) /\ Len(F.chunks) \in Nat
      BY PlaceIs DEF Frame
    <3>2. Len(F.messages) \in Nat /\ Len(F.messages) # 0
      BY <3>1
    <3>. QED
      BY <3>1, <3>2 DEF Part
  <2>2. s \in Places(F)
    BY <2>1, PlaceIs
  <2>. QED
    BY <1>1, <2>2 DEF Left, About
<1>3. id \in Nat /\ IdOf(ItemAt(F, s), c) = id
  BY <1>1, ItemIs DEF IdOf
<1>4. last < id /\ id <= to
  BY <1>2, <1>3 DEF Rest
<1>5. last >= 0
  <2>. SUFFICES ASSUME last < 0 PROVE FALSE
    OBVIOUS
  <2>1. PICK t \in Left(F, c) :
          /\ ItemAt(F, t).kind = "status"
          /\ \A x \in Left(F, c) \ {t} : Before(t, x)
    BY DEF Rest
  <2>2. t # s
    BY <1>1, <2>1
  <2>3. Before(t, s)
    BY <1>2, <2>1, <2>2
  <2>. QED
    BY <2>2, <2>3, FirstPlace
<1>6. Left(G, c) = Left(F, c) \ {s} /\ \A x : ItemAt(G, x) = ItemAt(F, x)
  <2>1. \A q : Part(G, q) = Part(F, q)
    BY DEF Part
  <2>2. Places(G) = Places(F) /\ \A x : ItemAt(G, x) = ItemAt(F, x)
    BY <2>1 DEF Places, ItemAt
  <2>. QED
    BY <2>2 DEF Left
<1>7. ASSUME NEW x \in Left(F, c), x # s
      PROVE  /\ ItemAt(F, x).kind = "message"
             /\ id < IdOf(ItemAt(F, x), c) /\ IdOf(ItemAt(F, x), c) <= to
  <2>1. Before(s, x)
    BY <1>7, FirstPlace
  <2>. QED
    BY <1>2, <1>3, <1>5, <2>1 DEF Rest, Climbing
<1>8. ASSUME NEW n \in Span(lg, c, last, to)
      PROVE  \/ n = id
             \/ n > id /\ \E x \in Left(F, c) : /\ x # s
                                                /\ ItemAt(F, x).kind = "message"
                                                /\ ItemAt(F, x).id = n
  <2>1. PICK x \in Left(F, c) :
          ItemAt(F, x).kind = "message" /\ ItemAt(F, x).id = n
    BY <1>5 DEF Rest, Covers
  <2>2. CASE x = s
    BY <1>1, <2>1, <2>2
  <2>3. CASE x # s
    <3>1. id < IdOf(ItemAt(F, x), c)
      BY <1>7, <2>3
    <3>2. IdOf(ItemAt(F, x), c) = n
      BY <2>1 DEF IdOf
    <3>3. n \in Int
      BY DEF Span
    <3>. QED
      BY <1>3, <2>1, <2>3, <3>1, <3>2, <3>3
  <2>. QED
    BY <2>2, <2>3
<1>9. Span(lg, c, last, id - 1) = {}
  <2>. SUFFICES ASSUME NEW n \in Span(lg, c, last, id - 1) PROVE FALSE
    OBVIOUS
  <2>1. n \in Int /\ n <= id - 1
    BY <1>3 DEF Span
  <2>2. n \in Span(lg, c, last, to)
    BY <1>3, <1>4, <2>1 DEF Span
  <2>. QED
    BY <1>3, <1>8, <2>1, <2>2
<1>10. Covers(lg, G, c, id, to)
  <2>. SUFFICES ASSUME NEW n \in Span(lg, c, id, to)
                PROVE  \E x \in Left(G, c) : /\ ItemAt(G, x).kind = "message"
                                             /\ ItemAt(G, x).id = n
    BY DEF Covers
  <2>1. n \in Int /\ n > id
    BY <1>3 DEF Span
  <2>2. n \in Span(lg, c, last, to)
    BY <1>3, <1>4, <2>1 DEF Span
  <2>. QED
    BY <1>3, <1>6, <1>8, <2>1, <2>2
<1>11. Climbing(G, c)
  BY <1>6 DEF Rest, Climbing
<1>12. Rest(lg, G, c, id, to)
  BY <1>3, <1>6, <1>7, <1>10, <1>11 DEF Rest
<1>. QED
  BY <1>3, <1>4, <1>5, <1>9, <1>12

\* Other channels' messages, and whether a function is running, do not matter.
LEMMA RestSame ==
  ASSUME NEW F, NEW G, G.messages = F.messages, G.chunks = F.chunks,
         NEW c,
         (F.j > 1 <=> G.j > 1) \/ F.messages = <<>>
           \/ ~About(Head(F.messages), c),
         F.messages \in Seq(Item),
         NEW lg, NEW last, NEW to, Rest(lg, F, c, last, to)
  PROVE  Rest(lg, G, c, last, to)
<1>1. \A q : Part(G, q) = Part(F, q)
  BY DEF Part
<1>2. Places(G) = Places(F) /\ \A x : ItemAt(G, x) = ItemAt(F, x)
  BY <1>1 DEF Places, ItemAt
<1>3. Left(G, c) = Left(F, c)
  <2>1. CASE F.j > 1 <=> G.j > 1
    BY <1>2, <2>1 DEF Left
  <2>2. CASE F.messages = <<>>
    <3>1. DOMAIN Part(F, 0) = {}
      BY <2>2 DEF Part
    <3>2. <<0, 1>> \notin Places(F)
      <4>1. ASSUME NEW q \in 0..Len(F.chunks),
                   <<0, 1>> \in {q} \X DOMAIN Part(F, q)
            PROVE  FALSE
        <5>1. q = 0 /\ 1 \in DOMAIN Part(F, q)
          BY <4>1
        <5>. QED
          BY <3>1, <5>1
      <4>. QED
        BY <4>1 DEF Places
    <3>. QED
      BY <1>2, <3>2 DEF Left
  <2>3. CASE F.messages # <<>> /\ ~About(Head(F.messages), c)
    <3>1. ItemAt(F, <<0, 1>>) = Head(F.messages)
      BY <2>3 DEF ItemAt, Part
    <3>. QED
      BY <1>2, <2>3, <3>1 DEF Left
  <2>. QED
    BY <2>1, <2>2, <2>3
<1>. QED
  BY <1>2, <1>3 DEF Rest, Climbing, Covers

\* Nothing is left.
LEMMA RestNothing ==
  ASSUME NEW F \in Frame, F.messages = <<>>, F.chunks = <<>>, NEW c \in Chans,
         NEW lg, NEW last \in Int, NEW to, Rest(lg, F, c, last, to)
  PROVE  last >= 0 /\ Span(lg, c, last, to) = {}
<1>1. Left(F, c) = {}
  <2>. SUFFICES ASSUME NEW x \in Left(F, c) PROVE FALSE
    OBVIOUS
  <2>1. x[1] \in 0..Len(F.chunks) /\ x[2] \in 1..Len(Part(F, x[1]))
    BY PlaceIs DEF Left
  <2>2. x[1] = 0
    BY <2>1
  <2>3. Part(F, 0) = <<>>
    BY DEF Part
  <2>. QED
    BY <2>1, <2>2, <2>3
<1>. QED
  BY <1>1 DEF Rest, Covers

-----------------------------------------------------------------------------
(* What an answer brings.                                                  *)

\* What part s of an answer says of channel c is its messages N, in order.
Gives(s, c, N) ==
  /\ \A i \in DOMAIN s :
       About(s[i], c) => s[i].kind = "message" /\ s[i].id \in N
  /\ \A i, k \in DOMAIN s :
       i < k /\ About(s[i], c) /\ About(s[k], c) => s[i].id < s[k].id
  /\ \A n \in N : \E i \in DOMAIN s :
       s[i].kind = "message" /\ s[i].chan = c /\ s[i].id = n

\* All that part s says of channel c is that its position is a.
Tells(s, c, a) ==
  /\ \A i \in DOMAIN s :
       About(s[i], c) => s[i].kind = "status" /\ s[i].at[c] = a
  /\ \A i, k \in DOMAIN s : About(s[i], c) /\ About(s[k], c) => i = k
  /\ \E i \in DOMAIN s : About(s[i], c)

\* An answer in one part or two.
Answered(F) ==
  /\ F \in Frame /\ F.messages = <<>> /\ F.j = 1
  /\ Len(F.chunks) \in {1, 2}

LEMMA AnsweredPlaces ==
  ASSUME NEW F, Answered(F), NEW c \in Chans
  PROVE  /\ \A x \in Left(F, c) :
              /\ x[1] \in 1..Len(F.chunks) /\ x[2] \in DOMAIN F.chunks[x[1]]
              /\ x = <<x[1], x[2]>> /\ ItemAt(F, x) = F.chunks[x[1]][x[2]]
              /\ About(F.chunks[x[1]][x[2]], c)
         /\ \A q \in 1..Len(F.chunks) : \A i \in DOMAIN F.chunks[q] :
              About(F.chunks[q][i], c) =>
                /\ <<q, i>> \in Left(F, c)
                /\ ItemAt(F, <<q, i>>) = F.chunks[q][i]
         /\ \A q \in 1..Len(F.chunks) : F.chunks[q] \in Seq(Item)
<1>1. F \in Frame /\ F.chunks \in Seq(Seq(Item)) /\ F.j = 1
  BY DEF Answered, Frame
<1>2. \A q \in 1..Len(F.chunks) : F.chunks[q] \in Seq(Item)
  BY <1>1, ElementOfSeq
<1>3. ASSUME NEW q \in 1..Len(F.chunks)
      PROVE  /\ q \in 0..Len(F.chunks) /\ Part(F, q) = F.chunks[q]
             /\ DOMAIN F.chunks[q] = 1..Len(F.chunks[q])
  BY <1>2, LenProperties DEF Part
<1>4. ASSUME NEW x \in Left(F, c)
      PROVE  /\ x[1] \in 1..Len(F.chunks) /\ x[2] \in DOMAIN F.chunks[x[1]]
             /\ x = <<x[1], x[2]>> /\ ItemAt(F, x) = F.chunks[x[1]][x[2]]
             /\ About(F.chunks[x[1]][x[2]], c)
  <2>1. /\ x \in Places(F) /\ About(ItemAt(F, x), c)
        /\ x = <<x[1], x[2]>>
    BY <1>1, LeftIs
  <2>2. x[1] \in 0..Len(F.chunks) /\ x[2] \in 1..Len(Part(F, x[1]))
    BY <1>1, <2>1, PlaceIs
  <2>3. x[1] # 0
    <3>1. Part(F, 0) = <<>>
      BY DEF Part, Answered
    <3>2. Len(Part(F, 0)) = 0
      BY <3>1
    <3>. QED
      BY <2>2, <3>2
  <2>4. x[1] \in 1..Len(F.chunks)
    BY <2>2, <2>3
  <2>. QED
    BY <1>3, <2>1, <2>2, <2>4 DEF ItemAt
<1>5. ASSUME NEW q \in 1..Len(F.chunks), NEW i \in DOMAIN F.chunks[q],
             About(F.chunks[q][i], c)
      PROVE  <<q, i>> \in Left(F, c) /\ ItemAt(F, <<q, i>>) = F.chunks[q][i]
  <2>1. <<q, i>> \in Places(F)
    BY <1>1, <1>3, PlaceIs
  <2>2. ItemAt(F, <<q, i>>) = F.chunks[q][i]
    BY <1>3 DEF ItemAt
  <2>. QED
    BY <1>1, <1>5, <2>1, <2>2 DEF Left
<1>. QED
  BY <1>2, <1>4, <1>5

\* An answer to a request that gave a position.
LEMMA RestGiven ==
  ASSUME NEW F, Answered(F), NEW c \in Chans, NEW lg,
         NEW last \in Nat, NEW mid \in Int, NEW to \in Int,
         Gives(F.chunks[1], c, {n \in Span(lg, c, last, to) : n <= mid}),
         IF Len(F.chunks) = 1 THEN mid = to
         ELSE Gives(F.chunks[2], c, {n \in Span(lg, c, last, to) : n > mid})
  PROVE  Rest(lg, F, c, last, to)
<1>. DEFINE N == Span(lg, c, last, to)
            s(q) == F.chunks[q]
            n(x) == s(x[1])[x[2]]
<1>1. Len(F.chunks) \in {1, 2} /\ 1 \in 1..Len(F.chunks)
  BY DEF Answered
<1>2. \A k \in N : k \in Int /\ last < k /\ k <= to
  BY DEF Span
<1>3. ASSUME NEW x \in Left(F, c)
      PROVE  /\ x[1] \in 1..Len(F.chunks) /\ x[2] \in DOMAIN s(x[1])
             /\ About(n(x), c) /\ ItemAt(F, x) = n(x)
             /\ n(x).kind = "message" /\ n(x).id \in N
             /\ x[1] = 1 => n(x).id <= mid
             /\ x[1] # 1 => x[1] = 2 /\ n(x).id > mid
             /\ x[2] \in Nat
  <2>1. /\ x[1] \in 1..Len(F.chunks) /\ x[2] \in DOMAIN s(x[1])
        /\ ItemAt(F, x) = n(x) /\ About(n(x), c)
    BY AnsweredPlaces
  <2>2. CASE x[1] = 1
    BY <2>1, <2>2, LeftIs DEF Gives, Answered
  <2>3. CASE x[1] # 1
    <3>1. x[1] = 2 /\ Len(F.chunks) # 1
      BY <1>1, <2>1, <2>3
    <3>. QED
      BY <2>1, <3>1, LeftIs DEF Gives, Answered
  <2>. QED
    BY <2>2, <2>3
<1>. HIDE DEF N
<1>4. \A x \in Left(F, c) : IdOf(ItemAt(F, x), c) = n(x).id
  BY <1>3 DEF IdOf
<1>5. Climbing(F, c)
  <2>. SUFFICES ASSUME NEW x \in Left(F, c), NEW y \in Left(F, c),
                       Before(x, y)
                PROVE  n(x).id < n(y).id
    BY <1>4 DEF Climbing
  <2>1. /\ n(x).id \in Int /\ n(y).id \in Int
        /\ x[1] \in {1, 2} /\ y[1] \in {1, 2}
    BY <1>2, <1>3
  <2>2. CASE x[1] = y[1]
    <3>1. x[2] < y[2]
      BY <2>1, <2>2 DEF Before
    <3>2. CASE x[1] = 1
      <4>1. \A i, k \in DOMAIN s(1) :
              i < k /\ About(s(1)[i], c) /\ About(s(1)[k], c)
                => s(1)[i].id < s(1)[k].id
        BY DEF Gives
      <4>2. /\ x[2] \in DOMAIN s(1) /\ About(s(1)[x[2]], c)
            /\ y[2] \in DOMAIN s(1) /\ About(s(1)[y[2]], c)
            /\ n(x) = s(1)[x[2]] /\ n(y) = s(1)[y[2]]
        BY <1>3, <2>2, <3>2
      <4>. QED
        BY <3>1, <4>1, <4>2
    <3>3. CASE x[1] = 2
      <4>1. Gives(s(2), c, {k \in Span(lg, c, last, to) : k > mid})
        BY <1>3, <3>3
      <4>. QED
        BY <1>3, <2>2, <3>1, <3>3, <4>1 DEF Gives
    <3>. QED
      BY <2>1, <3>2, <3>3
  <2>3. CASE x[1] # y[1]
    <3>1. x[1] = 1 /\ y[1] # 1
      BY <2>1, <2>3 DEF Before
    <3>. QED
      BY <1>3, <2>1, <3>1
  <2>. QED
    BY <2>2, <2>3
<1>6. Covers(lg, F, c, last, to)
  <2>. SUFFICES ASSUME NEW k \in N
                PROVE  \E x \in Left(F, c) : /\ ItemAt(F, x).kind = "message"
                                             /\ ItemAt(F, x).id = k
    BY DEF Covers, N
  <2>1. \E q \in 1..Len(F.chunks) : \E i \in DOMAIN s(q) :
          s(q)[i].kind = "message" /\ s(q)[i].chan = c /\ s(q)[i].id = k
    <3>1. CASE k <= mid
      <4>1. k \in {j \in N : j <= mid}
        BY <3>1
      <4>. QED
        BY <1>1, <4>1 DEF Gives, N
    <3>2. CASE ~(k <= mid)
      <4>1. k > mid /\ Len(F.chunks) # 1
        BY <1>2, <3>2
      <4>2. k \in {j \in N : j > mid}
        BY <4>1
      <4>3. 2 \in 1..Len(F.chunks)
        BY <1>1, <4>1
      <4>. QED
        BY <4>1, <4>2, <4>3 DEF Gives, N
    <3>. QED
      BY <3>1, <3>2
  <2>a. PICK q \in 1..Len(F.chunks) : \E i \in DOMAIN s(q) :
          s(q)[i].kind = "message" /\ s(q)[i].chan = c /\ s(q)[i].id = k
    BY <2>1
  <2>2. PICK i \in DOMAIN s(q) :
          s(q)[i].kind = "message" /\ s(q)[i].chan = c /\ s(q)[i].id = k
    BY <2>a
  <2>3. About(s(q)[i], c)
    BY <2>2 DEF About
  <2>4. <<q, i>> \in Left(F, c) /\ ItemAt(F, <<q, i>>) = s(q)[i]
    BY <2>3, AnsweredPlaces
  <2>. QED
    BY <2>2, <2>4
<1>7. \A x \in Left(F, c) : /\ ItemAt(F, x).kind = "message"
                            /\ last < IdOf(ItemAt(F, x), c)
                            /\ IdOf(ItemAt(F, x), c) <= to
  BY <1>2, <1>3, <1>4
<1>. QED
  BY <1>5, <1>6, <1>7 DEF Rest

\* An answer to a request that asked for new messages only.
LEMMA RestOfNew ==
  ASSUME NEW F, Answered(F), NEW c \in Chans, NEW lg,
         NEW mid \in Nat, NEW to \in Int, mid <= to,
         Tells(F.chunks[1], c, mid),
         IF Len(F.chunks) = 1 THEN mid = to
         ELSE Gives(F.chunks[2], c, Span(lg, c, mid, to))
  PROVE  Rest(lg, F, c, -1, to)
<1>. DEFINE N == Span(lg, c, mid, to)
            s(q) == F.chunks[q]
            n(x) == s(x[1])[x[2]]
<1>1. /\ Len(F.chunks) \in {1, 2} /\ 1 \in 1..Len(F.chunks)
      /\ Len(F.chunks) = 1 => N = {}
  BY DEF Answered, Span
<1>2. \A k \in N : k \in Int /\ mid < k /\ k <= to
  BY DEF Span
<1>3. PICK i \in DOMAIN s(1) : About(s(1)[i], c)
  BY DEF Tells
<1>. DEFINE t == <<1, i>>
<1>4. /\ t \in Left(F, c) /\ ItemAt(F, t) = s(1)[i]
      /\ ItemAt(F, t).kind = "status" /\ ItemAt(F, t).at[c] = mid
  BY <1>1, <1>3, AnsweredPlaces DEF Tells
<1>5. ASSUME NEW x \in Left(F, c), x # t
      PROVE  /\ x[1] = 2 /\ Len(F.chunks) = 2 /\ x[2] \in DOMAIN s(2)
             /\ About(n(x), c) /\ ItemAt(F, x) = n(x)
             /\ n(x).kind = "message" /\ n(x).id \in N
  <2>1. /\ x[1] \in 1..Len(F.chunks) /\ x[2] \in DOMAIN s(x[1])
        /\ ItemAt(F, x) = n(x) /\ About(n(x), c) /\ x = <<x[1], x[2]>>
    BY AnsweredPlaces
  <2>2. x[1] # 1
    <3>1. ASSUME x[1] = 1 PROVE FALSE
      <4>1. x[2] \in DOMAIN s(1) /\ About(s(1)[x[2]], c)
        BY <2>1, <3>1
      <4>2. x[2] = i
        BY <1>3, <4>1 DEF Tells
      <4>. QED
        BY <1>5, <2>1, <3>1, <4>2
    <3>. QED
      BY <3>1
  <2>3. x[1] = 2 /\ Len(F.chunks) = 2
    BY <1>1, <2>1, <2>2
  <2>. QED
    BY <2>1, <2>3 DEF Gives
<1>. HIDE DEF N
<1>6. ASSUME NEW x \in Left(F, c), x # t
      PROVE  IdOf(ItemAt(F, x), c) = n(x).id
  BY <1>5, <1>6 DEF IdOf
<1>7. IdOf(ItemAt(F, t), c) = mid
  BY <1>4 DEF IdOf
<1>8. \A x \in Left(F, c) \ {t} : Before(t, x) /\ ~Before(x, t)
  <2>1. t[1] = 1
    OBVIOUS
  <2>. HIDE DEF t
  <2>. QED
    BY <1>5, <2>1 DEF Before
<1>9. Climbing(F, c)
  <2>. SUFFICES ASSUME NEW x \in Left(F, c), NEW y \in Left(F, c), Before(x, y)
                PROVE  IdOf(ItemAt(F, x), c) < IdOf(ItemAt(F, y), c)
    BY DEF Climbing
  <2>1. CASE x = t
    <3>1. y # t
      <4>1. t[1] \in Nat /\ t[2] \in Nat
        BY <1>4, LeftIs DEF Answered
      <4>. QED
        BY <2>1, <4>1 DEF Before
    <3>. QED
      BY <1>2, <1>5, <1>6, <1>7, <2>1, <3>1
  <2>2. CASE x # t
    <3>1. y # t
      BY <1>8, <2>2
    <3>2. x[1] = 2 /\ y[1] = 2 /\ x[2] < y[2]
      BY <1>5, <2>2, <3>1 DEF Before
    <3>3. Gives(s(2), c, N)
      BY <1>5, <2>2 DEF N
    <3>. QED
      BY <1>5, <1>6, <2>2, <3>1, <3>2, <3>3 DEF Gives
  <2>. QED
    BY <2>1, <2>2
<1>10. \A x \in Left(F, c) :
         -1 < IdOf(ItemAt(F, x), c) /\ IdOf(ItemAt(F, x), c) <= to
  BY <1>2, <1>5, <1>6, <1>7
<1>11. Covers(lg, F, c, mid, to)
  <2>. SUFFICES ASSUME NEW k \in N
                PROVE  \E x \in Left(F, c) : /\ ItemAt(F, x).kind = "message"
                                             /\ ItemAt(F, x).id = k
    BY DEF Covers, N
  <2>1. Len(F.chunks) = 2 /\ 2 \in 1..Len(F.chunks)
    BY <1>1
  <2>2. PICK k2 \in DOMAIN s(2) :
          s(2)[k2].kind = "message" /\ s(2)[k2].chan = c /\ s(2)[k2].id = k
    BY <2>1 DEF Gives, N
  <2>3. About(s(2)[k2], c)
    BY <2>2 DEF About
  <2>4. <<2, k2>> \in Left(F, c) /\ ItemAt(F, <<2, k2>>) = s(2)[k2]
    BY <2>1, <2>3, AnsweredPlaces
  <2>. QED
    BY <2>2, <2>4
<1>12. \E u \in Left(F, c) :
         /\ ItemAt(F, u).kind = "status"
         /\ \A x \in Left(F, c) \ {u} :
              Before(u, x) /\ ItemAt(F, x).kind = "message"
         /\ Covers(lg, F, c, ItemAt(F, u).at[c], to)
  <2>1. \A x \in Left(F, c) \ {t} :
          Before(t, x) /\ ItemAt(F, x).kind = "message"
    BY <1>5, <1>8
  <2>2. Covers(lg, F, c, ItemAt(F, t).at[c], to)
    BY <1>4, <1>11
  <2>. QED
    BY <1>4, <2>1, <2>2
<1>. QED
  BY <1>9, <1>10, <1>12 DEF Rest

\* The log and the request are what they should be.
Known ==
  /\ page.req \in Request
  /\ log \in Seq(Chans) /\ Len(log) \in Nat /\ Len(log) <= MaxMessages

LEMMA MessagesAre ==
  ASSUME Known, NEW C \in SUBSET Chans, NEW from \in Int, NEW to \in Int
  PROVE  /\ Messages(C, from, to) \in Seq(Item)
         /\ \A c \in C : page.req.want[c] # None =>
              Gives(Messages(C, from, to), c,
                    {n \in DOMAIN log : /\ log[n] = c /\ from < n /\ n <= to
                                        /\ page.req.want[c] < n})
         /\ \A c \in Chans \ C : \A i \in DOMAIN Messages(C, from, to) :
              ~About(Messages(C, from, to)[i], c)
<1>. DEFINE want == page.req.want
            A == Asked(C, from, to)
            m == Cardinality(A)
            ids == Ascending(A)
            ms == Messages(C, from, to)
<1>1. A \in SUBSET (1..Len(log)) /\ DOMAIN log = 1..Len(log)
  BY DEF Known, Asked
<1>2. Len(log) \in Nat
  BY DEF Known
<1>3. /\ m \in Nat /\ ids \in [1..m -> A] /\ ToSet(ids) = A
      /\ \A i, k \in 1..m : i < k => ids[i] < ids[k]
  <2>. HIDE DEF A
  <2>. QED
    BY <1>1, <1>2, AscendingIs
<1>4. ms = [k \in DOMAIN ids |-> [kind |-> "message", chan |-> log[ids[k]],
                                  id |-> ids[k]]]
  BY DEF Messages
<1>5. \A n \in A : /\ n \in DOMAIN log /\ log[n] \in C /\ from < n /\ n <= to
                   /\ want[log[n]] # None /\ want[log[n]] < n
  BY DEF Asked
<1>6. ASSUME NEW n \in DOMAIN log, log[n] \in C, from < n, n <= to,
             want[log[n]] # None, want[log[n]] < n
      PROVE  n \in A
  BY <1>6 DEF Asked
<1>. HIDE DEF A, m, ids, ms, want
<1>7. DOMAIN ms = 1..m
  BY <1>3, <1>4
<1>8. ASSUME NEW k \in 1..m
      PROVE  /\ ms[k].kind = "message" /\ ms[k].chan = log[ids[k]]
             /\ ms[k].id = ids[k] /\ ids[k] \in A
  BY <1>3, <1>4
<1>9. ms \in Seq(Item)
  <2>1. ASSUME NEW k \in 1..m PROVE ms[k] \in Item
    <3>a. ids[k] \in A
      BY <1>8
    <3>b. ids[k] \in DOMAIN log /\ log[ids[k]] \in C
      BY <1>5, <3>a
    <3>c. log[ids[k]] \in Chans
      BY <3>b
    <3>d. ids[k] \in 1..Len(log) /\ Len(log) <= MaxMessages
      BY <1>1, <3>b DEF Known
    <3>e. MaxMessages \in Nat
      BY PageAssumption
    <3>f. ids[k] \in Ids
      BY <1>2, <3>d, <3>e DEF Ids
    <3>1. ids[k] \in Ids /\ log[ids[k]] \in Chans
      BY <3>c, <3>f
    <3>2. ms[k] = [kind |-> "message", chan |-> log[ids[k]], id |-> ids[k]]
      BY <1>3, <1>4
    <3>. QED
      BY <3>1, <3>2 DEF Item, Message
  <2>2. ms = [k \in 1..m |-> ms[k]]
    BY <1>3, <1>4
  <2>. QED
    BY <1>3, <2>1, <2>2, IsASeq
<1>10. \A k \in 1..m : \A c : About(ms[k], c) <=> log[ids[k]] = c
  BY <1>8 DEF About
<1>11. ASSUME NEW c \in C, want[c] # None
       PROVE  Gives(ms, c, {n \in DOMAIN log :
                              /\ log[n] = c /\ from < n /\ n <= to
                              /\ want[c] < n})
  <2>. DEFINE N == {n \in DOMAIN log : /\ log[n] = c /\ from < n /\ n <= to
                                       /\ want[c] < n}
  <2>1. ASSUME NEW i \in DOMAIN ms, About(ms[i], c)
        PROVE  ms[i].kind = "message" /\ ms[i].id \in N
    BY <1>5, <1>7, <1>8, <1>10, <2>1
  <2>2. \A i, k \in DOMAIN ms : i < k => ms[i].id < ms[k].id
    BY <1>3, <1>7, <1>8
  <2>3. ASSUME NEW n \in N
        PROVE  \E i \in DOMAIN ms :
                 ms[i].kind = "message" /\ ms[i].chan = c /\ ms[i].id = n
    <3>1. n \in A
      BY <1>6, <1>11
    <3>2. PICK i \in 1..m : ids[i] = n
      BY <1>3, <3>1 DEF ToSet
    <3>. QED
      BY <1>7, <1>8, <3>2
  <2>. HIDE DEF N
  <2>4. Gives(ms, c, N)
    BY <2>1, <2>2, <2>3 DEF Gives
  <2>. QED
    BY <2>4 DEF N
<1>12. ASSUME NEW c \in Chans \ C, NEW i \in DOMAIN ms
       PROVE  ~About(ms[i], c)
  BY <1>5, <1>7, <1>8, <1>10
<1>. QED
  BY <1>9, <1>11, <1>12 DEF ms, want

LEMMA BacklogIs ==
  ASSUME Known, NEW to \in 0..MaxMessages
  PROVE  /\ Backlog(to) \in Seq(Item)
         /\ \A c \in Chans : page.req.want[c] \in Nat =>
              Gives(Backlog(to), c,
                    {n \in DOMAIN log : /\ log[n] = c /\ n <= to
                                        /\ page.req.want[c] < n})
         /\ \A c \in Chans :
              page.req.want[c] = -1 => Tells(Backlog(to), c, to)
<1>. DEFINE want == page.req.want
            new == {c \in Chans : want[c] = -1}
            told == Messages(Chans \ new, 0, to)
            st == [kind |-> "status",
                   at |-> [c \in Chans |-> IF c \in new THEN to ELSE None]]
            last == IF new = {} THEN <<>> ELSE <<st>>
<1>1. Backlog(to) = told \o last
  BY DEF Backlog
<1>2. to \in Int /\ 0 \in Int /\ to # None /\ None \notin Int
  BY PageAssumption
<1>3. /\ told \in Seq(Item)
      /\ \A c \in Chans \ new : want[c] # None =>
           Gives(told, c, {n \in DOMAIN log : /\ log[n] = c /\ 0 < n /\ n <= to
                                              /\ want[c] < n})
      /\ \A c \in new : \A i \in DOMAIN told : ~About(told[i], c)
  <2>1. /\ Chans \ new \in SUBSET Chans
        /\ \A c \in new : c \in Chans \ (Chans \ new)
    OBVIOUS
  <2>. HIDE DEF new
  <2>. QED
    BY <1>2, <2>1, MessagesAre
<1>4. /\ st \in Item /\ st.kind = "status"
      /\ \A c \in Chans : About(st, c) <=> c \in new
      /\ \A c \in new : st.at[c] = to
  <2>1. st \in Status
    <3>1. [c \in Chans |-> IF c \in new THEN to ELSE None]
            \in [Chans -> {None} \cup 0..MaxMessages]
      BY <1>2
    <3>. QED
      BY <3>1 DEF Status
  <2>. QED
    BY <1>2, <2>1 DEF Item, About
<1>5. last \in Seq(Item)
  BY <1>4
<1>. HIDE DEF told, st
<1>6. /\ Backlog(to) \in Seq(Item)
      /\ Len(Backlog(to)) = Len(told) + Len(last)
      /\ DOMAIN Backlog(to) = 1..Len(told) + Len(last)
      /\ DOMAIN told = 1..Len(told) /\ Len(told) \in Nat
      /\ \A i \in 1..Len(told) : Backlog(to)[i] = told[i]
      /\ Len(last) \in {0, 1}
      /\ new # {} => Len(last) = 1 /\ last[1] = st
      /\ new = {} => Len(last) = 0
      /\ Len(last) = 1 => Backlog(to)[Len(told) + 1] = st
  <2>1. /\ told \o last \in Seq(Item)
        /\ Len(told \o last) = Len(told) + Len(last)
        /\ DOMAIN (told \o last) = 1..Len(told) + Len(last)
        /\ \A i \in 1..Len(told) : (told \o last)[i] = told[i]
        /\ \A i \in Len(told) + 1..Len(told) + Len(last) :
             (told \o last)[i] = last[i - Len(told)]
    BY <1>3, <1>5, ConcatProperties
  <2>2. DOMAIN told = 1..Len(told) /\ Len(told) \in Nat
    BY <1>3, LenProperties
  <2>3. CASE new = {}
    <3>1. Len(last) = 0
      BY <2>3
    <3>. QED
      BY <1>1, <2>1, <2>2, <2>3, <3>1
  <2>4. CASE new # {}
    <3>1. Len(last) = 1 /\ last[1] = st
      BY <2>4
    <3>2. Len(told) + 1 \in Len(told) + 1..Len(told) + 1
      BY <2>2
    <3>3. (told \o last)[Len(told) + 1] = st
      BY <2>1, <2>2, <3>1, <3>2
    <3>. QED
      BY <1>1, <2>1, <2>2, <2>4, <3>1, <3>3
  <2>. QED
    BY <2>3, <2>4
<1>. HIDE DEF last
<1>7. ASSUME NEW i \in DOMAIN Backlog(to)
      PROVE  i \in DOMAIN told \/ Backlog(to)[i] = st
  <2>1. CASE Len(last) = 0
    BY <1>6, <2>1
  <2>2. CASE Len(last) = 1
    <3>1. i \in 1..Len(told) \/ i = Len(told) + 1
      BY <1>6, <2>2
    <3>. QED
      BY <1>6, <2>2, <3>1
  <2>. QED
    BY <1>6, <2>1, <2>2
<1>8. ASSUME NEW c \in Chans, want[c] \in Nat
      PROVE  Gives(Backlog(to), c, {n \in DOMAIN log : /\ log[n] = c /\ n <= to
                                                       /\ want[c] < n})
  <2>. DEFINE N == {n \in DOMAIN log : log[n] = c /\ n <= to /\ want[c] < n}
              N0 == {n \in DOMAIN log : /\ log[n] = c /\ 0 < n /\ n <= to
                                        /\ want[c] < n}
  <2>1. c \notin new /\ want[c] # None
    BY <1>2, <1>8
  <2>2. N = N0
    <3>1. \A n \in DOMAIN log : 0 < n
      BY DEF Known
    <3>. QED
      BY <3>1
  <2>3. Gives(told, c, N)
    BY <1>3, <2>1, <2>2
  <2>. HIDE DEF N, N0
  <2>4. \A i \in DOMAIN Backlog(to) : About(Backlog(to)[i], c) =>
          i \in DOMAIN told /\ Backlog(to)[i] = told[i]
    BY <1>4, <1>6, <1>7, <2>1
  <2>5. \A i \in DOMAIN told : /\ i \in DOMAIN Backlog(to)
                               /\ Backlog(to)[i] = told[i]
    BY <1>6
  <2>6. Gives(Backlog(to), c, N)
    BY <2>3, <2>4, <2>5 DEF Gives
  <2>. QED
    BY <2>6 DEF N
<1>9. ASSUME NEW c \in Chans, want[c] = -1
      PROVE  Tells(Backlog(to), c, to)
  <2>1. c \in new /\ Len(last) = 1
    BY <1>6, <1>9
  <2>2. \A i \in DOMAIN Backlog(to) :
          About(Backlog(to)[i], c) => i = Len(told) + 1
    BY <1>3, <1>6, <2>1
  <2>3. /\ Len(told) + 1 \in DOMAIN Backlog(to)
        /\ Backlog(to)[Len(told) + 1] = st
    BY <1>6, <2>1
  <2>. QED
    BY <1>4, <2>1, <2>2, <2>3 DEF Tells
<1>. QED
  BY <1>6, <1>8, <1>9

-----------------------------------------------------------------------------
(* The invariant of a callback that has its channel to itself.             *)

\* The walk of an answer, if there is one, is the outermost.
Base(s) == s[Len(s)]
Answering(s) == s # <<>> /\ Base(s).of # "resume"

\* A callback of the channel whose message is being walked has been called.
Called(p, F, k) ==
  F.j > 1 /\ Head(F.messages).chan = p.callbacks[k].chan => k < F.j

\* A callback is at the position request r gave, or at a later one that the
\* answer has come to.
Within(r, cb) ==
  /\ r.want[cb.chan] # None /\ r.want[cb.chan] <= cb.last
  /\ cb.last <= r.upto \/ cb.last = r.want[cb.chan]

\* What is left of walk F brings callback k up to position to, from which a
\* request that is still open goes on.
Walked(p, lg, F, k) ==
  LET cb == p.callbacks[k]
      r  == p.req
  IN  /\ Called(p, F, k)
      /\ \E to \in 0..Len(lg) : /\ Rest(lg, F, cb.chan, cb.last, to)
                                /\ r.open => to = r.upto
      /\ r.open => r.chunked /\ r.begun /\ Within(r, cb)

\* An open request goes on from where callback k is.
Idle(p, lg, k) ==
  LET cb == p.callbacks[k]
      r  == p.req
  IN  r.open =>
        IF r.chunked /\ r.begun
        THEN /\ cb.last >= 0 /\ Within(r, cb)
             /\ Span(lg, cb.chan, cb.last, r.upto) = {}
        ELSE r.want[cb.chan] = cb.last

OnlyOf(p, k) ==
  \A i \in DOMAIN p.callbacks :
    p.callbacks[i].chan = p.callbacks[k].chan => i = k

Alone(p, s, lg, k) ==
  p.callbacks[k].alone =>
    /\ OnlyOf(p, k)
    /\ ~p.paused /\ p.later = <<>>
    /\ \A i \in DOMAIN s : s[i].of = "resume" =>
         s[i].messages = <<>> /\ s[i].chunks = <<>>
    /\ IF Answering(s) THEN Walked(p, lg, Base(s), k) ELSE Idle(p, lg, k)

\* A log within its bound; a request knows no more of it than there is.
Types ==
  /\ page \in Pages
  /\ stack \in Seq(Frame)
  /\ log \in Seq(Chans) /\ Len(log) <= MaxMessages
  /\ slips \subseteq {"lost", "again"} \X BOOLEAN
  /\ page.req.open => page.req.upto <= Len(log)

Orderly ==
  /\ \A i \in DOMAIN stack : stack[i].of # "resume" => i = Len(stack)
  /\ \A i \in DOMAIN stack : stack[i].j > 1 =>
       stack[i].messages # <<>> /\ Head(stack[i].messages).kind = "message"
  /\ page.later # <<>> =>
       page.paused \/ \E i \in DOMAIN stack : stack[i].of = "resume"
  /\ page.req.open => page.longPoll
  /\ page.callbacks # <<>> => page.started \/ page.stopped

AllAlone == \A k \in DOMAIN page.callbacks : Alone(page, stack, log, k)

WalkInv == Types /\ Orderly /\ AllAlone /\ AloneMissesNothing

LEMMA CallbacksAre ==
  ASSUME NEW p \in Pages
  PROVE  /\ Len(p.callbacks) \in Nat /\ DOMAIN p.callbacks = 1..Len(p.callbacks)
         /\ \A k \in DOMAIN p.callbacks :
              /\ p.callbacks[k] \in Callback /\ p.callbacks[k].chan \in Chans
              /\ p.callbacks[k].last \in LastIds /\ p.callbacks[k].last \in Int
              /\ p.callbacks[k].alone \in BOOLEAN /\ k \in Int
<1>1. p.callbacks \in Seq(Callback)
  BY DEF Pages
<1>2. Len(p.callbacks) \in Nat /\ DOMAIN p.callbacks = 1..Len(p.callbacks)
  BY <1>1, LenProperties
<1>3. \A k \in DOMAIN p.callbacks : p.callbacks[k] \in Callback
  BY <1>1, <1>2, ElementOfSeq
<1>4. LastIds \subseteq Int
  BY DEF LastIds
<1>5. ASSUME NEW k \in DOMAIN p.callbacks
      PROVE  /\ p.callbacks[k].chan \in Chans
             /\ p.callbacks[k].last \in LastIds
             /\ p.callbacks[k].alone \in BOOLEAN /\ k \in Int
  BY <1>2, <1>3 DEF Callback
<1>. QED
  BY <1>2, <1>3, <1>4, <1>5

LEMMA StackIs ==
  ASSUME stack \in Seq(Frame)
  PROVE  /\ Len(stack) \in Nat /\ DOMAIN stack = 1..Len(stack)
         /\ \A i \in DOMAIN stack : stack[i] \in Frame
         /\ stack # <<>> => 1 \in DOMAIN stack /\ Len(stack) \in DOMAIN stack
         /\ stack = <<>> => Len(stack) = 0
<1>1. Len(stack) \in Nat /\ DOMAIN stack = 1..Len(stack)
  BY LenProperties
<1>2. \A i \in DOMAIN stack : stack[i] \in Frame
  BY <1>1, ElementOfSeq
<1>3. stack # <<>> => Len(stack) # 0
  BY EmptySeq
<1>. QED
  BY <1>1, <1>2, <1>3

\* The request of a client that has not polled in a walk.
Same(p, q, s) ==
  q.req = p.req \/ ~q.req.open \/ (s = <<>> /\ Sent(q, q.req))

LEMMA PolledSame ==
  ASSUME NEW p, NEW q, Polled(p, q)
  PROVE  Same(p, q, <<>>)
<1>1. \A c : Position(q, c) = Position(p, c)
  BY DEF Polled, Position
<1>. QED
  BY <1>1 DEF Polled, Sent, Same

\* A callback stays alone with its position, at the same place or before it.
LEMMA AloneKept ==
  ASSUME NEW p \in Pages, NEW q \in Pages, NEW s \in Seq(Frame), NEW lg,
         NEW k \in DOMAIN p.callbacks, Alone(p, s, lg, k),
         NEW i \in DOMAIN q.callbacks, i <= k,
         q.callbacks[i].alone => p.callbacks[k].alone /\ OnlyOf(q, i),
         q.callbacks[i].chan = p.callbacks[k].chan,
         q.callbacks[i].last = p.callbacks[k].last,
         q.paused = p.paused, q.later = p.later, Same(p, q, s)
  PROVE  Alone(q, s, lg, i)
<1>. SUFFICES ASSUME q.callbacks[i].alone
              PROVE  IF Answering(s) THEN Walked(q, lg, Base(s), i)
                                     ELSE Idle(q, lg, i)
  BY DEF Alone
<1>1. IF Answering(s) THEN Walked(p, lg, Base(s), k) ELSE Idle(p, lg, k)
  BY DEF Alone
<1>2. CASE Answering(s)
  <2>1. q.req = p.req \/ ~q.req.open
    BY <1>2 DEF Same, Answering
  <2>2. Base(s) \in Frame
    <3>1. Len(s) \in 1..Len(s)
      BY <1>2, EmptySeq, LenProperties DEF Answering
    <3>. QED
      BY <3>1, ElementOfSeq DEF Base
  <2>3. Called(q, Base(s), i)
    <3>1. Base(s).j \in Int /\ k \in Int /\ i \in Int
      BY <2>2, CallbacksAre DEF Frame
    <3>. QED
      BY <1>1, <1>2, <3>1 DEF Walked, Called
  <2>. QED
    BY <1>1, <1>2, <2>1, <2>3 DEF Walked, Within
<1>3. CASE ~Answering(s)
  <2>1. CASE q.req = p.req \/ ~q.req.open
    BY <1>1, <1>3, <2>1 DEF Idle, Within
  <2>2. CASE s = <<>> /\ Sent(q, q.req)
    <3>1. Position(q, q.callbacks[i].chan) = q.callbacks[i].last
      <4>1. q.callbacks \in Seq(Callback)
        BY DEF Pages
      <4>. QED
        BY <4>1, PositionIs DEF OnlyOf
    <3>2. q.callbacks[i].chan \in Chans
      BY CallbacksAre
    <3>. QED
      BY <1>3, <2>2, <3>1, <3>2 DEF Idle, Sent
  <2>. QED
    BY <2>1, <2>2 DEF Same
<1>. QED
  BY <1>2, <1>3
LEMMA Sane ==
  ASSUME Types, Orderly
  PROVE  Sound(page) /\ Known /\ Len(log) \in 0..MaxMessages
<1>1. page.req \in Request /\ Len(log) \in Nat
  BY LenProperties DEF Types, Pages
<1>2. MaxMessages \in Nat
  BY PageAssumption
<1>. QED
  BY <1>1, <1>2 DEF Types, Orderly, Sound, Known

\* A client that polls, or ends its request, keeps the invariant.
LEMMA PolledSafe ==
  ASSUME WalkInv, Polled(page, page'), Same(page, page', stack),
         UNCHANGED <<stack, log, slips>>
  PROVE  WalkInv'
<1>1. page' \in Pages /\ (page'.req.open => page'.req.upto <= Len(log))
  BY DEF Polled, Sound
<1>2. Types'
  BY <1>1 DEF WalkInv, Types
<1>3. Orderly'
  BY DEF WalkInv, Orderly, Polled, Sound
<1>4. ASSUME NEW k \in DOMAIN page'.callbacks
      PROVE  Alone(page', stack, log, k)
  <2>1. k \in DOMAIN page.callbacks /\ page'.callbacks = page.callbacks
    BY <1>4 DEF Polled
  <2>2. page'.paused = page.paused /\ page'.later = page.later
    BY DEF Polled
  <2>3. Alone(page, stack, log, k) /\ stack \in Seq(Frame) /\ page \in Pages
    BY <2>1 DEF WalkInv, AllAlone, Types
  <2>4. page'.callbacks[k].alone => OnlyOf(page', k)
    BY <2>1, <2>3 DEF Alone, OnlyOf
  <2>5. k <= k
    BY <1>1, CallbacksAre
  <2>. QED
    BY <1>1, <2>1, <2>2, <2>3, <2>4, <2>5, AloneKept
<1>5. AllAlone'
  BY <1>4 DEF AllAlone
<1>. QED
  BY <1>2, <1>3, <1>5 DEF WalkInv, AloneMissesNothing

\* No callback is alone any more.
LEMMA NoneAlone ==
  ASSUME WalkInv, Sound(page'), UNCHANGED <<stack, log, slips>>,
         \A k \in DOMAIN page'.callbacks : ~page'.callbacks[k].alone,
         page'.later = page.later, page.paused => page'.paused,
         page'.callbacks # <<>> => page'.started \/ page'.stopped
  PROVE  WalkInv'
<1>1. Types'
  BY DEF WalkInv, Types, Sound
<1>2. Orderly'
  BY DEF WalkInv, Orderly, Sound
<1>3. AllAlone'
  BY DEF AllAlone, Alone
<1>. QED
  BY <1>1, <1>2, <1>3 DEF WalkInv, AloneMissesNothing

-----------------------------------------------------------------------------
(* Calls of the page keep it.                                              *)

LEMMA SharedIs ==
  ASSUME NEW p \in Pages, NEW S
  PROVE  LET q == Shared(p, S)
         IN  /\ q \in Pages /\ q.req = p.req /\ q.later = p.later
             /\ q.paused = p.paused /\ q.longPoll = p.longPoll
             /\ q.started = p.started /\ q.stopped = p.stopped
             /\ Len(q.callbacks) = Len(p.callbacks)
             /\ DOMAIN q.callbacks = DOMAIN p.callbacks
             /\ \A k \in DOMAIN p.callbacks :
                  /\ q.callbacks[k].chan = p.callbacks[k].chan
                  /\ q.callbacks[k].last = p.callbacks[k].last
                  /\ q.callbacks[k].alone <=>
                       p.callbacks[k].alone /\ p.callbacks[k].chan \notin S
<1>. DEFINE cbs == p.callbacks
            new == [k \in DOMAIN cbs |->
                      [cbs[k] EXCEPT !.alone = @ /\ cbs[k].chan \notin S]]
            q == [p EXCEPT !.callbacks = new]
<1>1. Shared(p, S) = q
  BY DEF Shared
<1>2. Len(cbs) \in Nat /\ DOMAIN cbs = 1..Len(cbs)
  BY CallbacksAre
<1>3. ASSUME NEW k \in DOMAIN cbs
      PROVE  /\ new[k] \in Callback
             /\ new[k].chan = cbs[k].chan /\ new[k].last = cbs[k].last
             /\ new[k].alone <=> cbs[k].alone /\ cbs[k].chan \notin S
  <2>1. cbs[k] \in Callback
    BY CallbacksAre
  <2>2. new[k] = [cbs[k] EXCEPT !.alone = @ /\ cbs[k].chan \notin S]
    OBVIOUS
  <2>. HIDE DEF new, cbs
  <2>. QED
    BY <2>1, <2>2 DEF Callback
<1>4. DOMAIN new = DOMAIN cbs
  OBVIOUS
<1>5. new = [k \in 1..Len(cbs) |-> new[k]]
  BY <1>2
<1>. HIDE DEF new
<1>6. new \in Seq(Callback) /\ Len(new) = Len(cbs)
  <2>1. \A k \in 1..Len(cbs) : new[k] \in Callback
    BY <1>2, <1>3
  <2>2. new \in Seq(Callback)
    BY <1>2, <1>5, <2>1, IsASeq
  <2>. QED
    BY <1>2, <1>4, <2>2, LenProperties
<1>7. /\ q \in Pages /\ q.callbacks = new /\ q.req = p.req
      /\ q.later = p.later /\ q.paused = p.paused
      /\ q.longPoll = p.longPoll /\ q.started = p.started
      /\ q.stopped = p.stopped
  BY <1>6 DEF Pages
<1>. HIDE DEF q
<1>. QED
  BY <1>1, <1>3, <1>4, <1>6, <1>7

LEMMA StopsKept ==
  ASSUME WalkInv, PageStops
  PROVE  WalkInv'
<1>1. Sound(page)
  BY Sane DEF WalkInv
<1>2. Polled(page, page') /\ ~page'.req.open
  BY <1>1, StopPolled DEF PageStops
<1>3. UNCHANGED <<stack, log, slips>>
  BY DEF PageStops, Call
<1>. QED
  BY <1>2, <1>3, PolledSafe DEF Same

LEMMA StartsKept ==
  ASSUME WalkInv, PageStarts
  PROVE  WalkInv'
<1>1. Sound(page) /\ page \in Pages /\ Len(log) \in 0..MaxMessages
  BY Sane DEF WalkInv, Types
<1>2. UNCHANGED <<stack, log, slips>>
  BY DEF PageStarts, Call
<1>3. PICK wait \in BOOLEAN :
        page' = Start(IF stack = <<>> THEN page ELSE Shared(page, Chans), wait)
  BY DEF PageStarts
<1>4. CASE stack = <<>>
  <2>1. Polled(page, page')
    BY <1>1, <1>3, <1>4, StartPolled
  <2>. QED
    BY <1>2, <1>4, <2>1, PolledSafe, PolledSame
<1>5. CASE stack # <<>>
  <2>. DEFINE q == Shared(page, Chans)
  <2>1. /\ q \in Pages /\ q.req = page.req /\ q.later = page.later
        /\ q.paused = page.paused /\ q.longPoll = page.longPoll
        /\ DOMAIN q.callbacks = DOMAIN page.callbacks
        /\ \A k \in DOMAIN q.callbacks : ~q.callbacks[k].alone
    BY <1>1, SharedIs, CallbacksAre
  <2>2. page' = Start(q, wait)
    BY <1>3, <1>5
  <2>. HIDE DEF q
  <2>3. Sound(q)
    BY <1>1, <2>1 DEF Sound
  <2>4. Polled(q, page') /\ (page'.started \/ page'.stopped)
    BY <1>1, <2>2, <2>3, StartPolled
  <2>5. /\ Sound(page') /\ page'.later = page.later
        /\ page'.paused = page.paused
        /\ \A k \in DOMAIN page'.callbacks : ~page'.callbacks[k].alone
    BY <2>1, <2>4 DEF Polled
  <2>. QED
    BY <1>2, <2>4, <2>5, NoneAlone
<1>. QED
  BY <1>4, <1>5

LEMMA PausesKept ==
  ASSUME WalkInv, PagePauses
  PROVE  WalkInv'
<1>1. Sound(page) /\ page \in Pages
  BY Sane DEF WalkInv, Types
<1>2. UNCHANGED <<stack, log, slips>>
  BY DEF PagePauses, Call
<1>. DEFINE q == Shared(page, Chans)
<1>3. /\ q \in Pages /\ q.req = page.req /\ q.later = page.later
      /\ q.longPoll = page.longPoll
      /\ q.started = page.started /\ q.stopped = page.stopped
      /\ DOMAIN q.callbacks = DOMAIN page.callbacks
      /\ Len(q.callbacks) = Len(page.callbacks)
      /\ \A k \in DOMAIN q.callbacks : ~q.callbacks[k].alone
  BY <1>1, SharedIs, CallbacksAre
<1>4. page' = [q EXCEPT !.paused = TRUE]
  BY DEF PagePauses
<1>. HIDE DEF q
<1>5. /\ page' \in Pages /\ page'.req = q.req /\ page'.later = q.later
      /\ page'.longPoll = q.longPoll /\ page'.paused = TRUE
      /\ page'.started = q.started /\ page'.stopped = q.stopped
      /\ page'.callbacks = q.callbacks
  BY <1>3, <1>4 DEF Pages
<1>6. page.callbacks # <<>> => page.started \/ page.stopped
  BY DEF WalkInv, Orderly
<1>7. page'.callbacks # <<>> => page'.started \/ page'.stopped
  <2>1. page'.callbacks # <<>> => page.callbacks # <<>>
    <3>1. page.callbacks = <<>> => Len(q.callbacks) = 0
      BY <1>3
    <3>2. q.callbacks \in Seq(Callback)
      BY <1>3 DEF Pages
    <3>. QED
      BY <1>5, <3>1, <3>2, EmptySeq
  <2>. QED
    BY <1>3, <1>5, <1>6, <2>1
<1>8. Sound(page')
  BY <1>1, <1>3, <1>5 DEF Sound
<1>. QED
  BY <1>2, <1>3, <1>5, <1>7, <1>8, NoneAlone
\* What subscribe does: a record after the others, and no request is open.
LEMMA SubscribeIs ==
  ASSUME NEW p, Sound(p), Len(log) \in 0..MaxMessages,
         NEW c \in Chans, NEW f \in Funcs, NEW v \in LastIds, NEW wait
  PROVE  LET s == Subscribe(p, c, f, v, wait)
             n == Len(p.callbacks)
         IN  /\ Sound(s) /\ ~s.req.open /\ (s.started \/ s.stopped)
             /\ s.later = p.later /\ s.paused = p.paused
             /\ DOMAIN s.callbacks = 1..n + 1
             /\ \A k \in 1..n :
                  /\ s.callbacks[k].chan = p.callbacks[k].chan
                  /\ s.callbacks[k].last = p.callbacks[k].last
                  /\ s.callbacks[k].alone <=>
                       p.callbacks[k].alone /\ p.callbacks[k].chan # c
             /\ s.callbacks[n + 1].chan = c
             /\ s.callbacks[n + 1].alone <=>
                  Position(p, c) = None /\ stack = <<>> /\ ~p.paused
<1>. DEFINE q == IF ~p.started /\ ~p.stopped THEN Start(p, wait) ELSE p
            r == Shared(q, {c})
            alone == Position(p, c) = None /\ stack = <<>> /\ ~p.paused
            cb == [chan |-> c, func |-> f, last |-> v, alone |-> alone]
            cbs == Append(r.callbacks, cb)
            u == [r EXCEPT !.callbacks = cbs]
            n == Len(p.callbacks)
<1>1. Subscribe(p, c, f, v, wait) = Abort(u)
  BY DEF Subscribe
<1>2. Polled(p, q) /\ (q.started \/ q.stopped)
  <2>1. Polled(p, p)
    BY DEF Polled
  <2>2. Polled(p, Start(p, wait))
    BY StartPolled
  <2>3. Start(p, wait).started \/ Start(p, wait).stopped
    BY StartPolled
  <2>. QED
    BY <2>1, <2>2, <2>3
<1>3. cb \in Callback /\ cb.chan = c /\ cb.alone = alone
  <2>1. alone \in BOOLEAN
    OBVIOUS
  <2>. HIDE DEF alone
  <2>. QED
    BY <2>1 DEF Callback
<1>. HIDE DEF q, cb, alone
<1>4. /\ q \in Pages /\ q.callbacks = p.callbacks /\ q.later = p.later
      /\ q.paused = p.paused
      /\ q.req.open => q.longPoll /\ q.req.upto <= Len(log)
  BY <1>2 DEF Polled, Sound
<1>5. n \in Nat /\ DOMAIN p.callbacks = 1..n
  BY CallbacksAre DEF Sound
<1>6. /\ r \in Pages /\ r.req = q.req /\ r.later = q.later
      /\ r.paused = q.paused /\ r.longPoll = q.longPoll
      /\ r.started = q.started /\ r.stopped = q.stopped
      /\ Len(r.callbacks) = n
      /\ \A k \in 1..n :
           /\ r.callbacks[k].chan = p.callbacks[k].chan
           /\ r.callbacks[k].last = p.callbacks[k].last
           /\ r.callbacks[k].alone <=>
                p.callbacks[k].alone /\ p.callbacks[k].chan # c
  BY <1>4, <1>5, SharedIs
<1>. HIDE DEF r, n
<1>7. /\ cbs \in Seq(Callback) /\ DOMAIN cbs = 1..n + 1
      /\ \A k \in 1..n : cbs[k] = r.callbacks[k]
      /\ cbs[n + 1] = cb
  <2>1. r.callbacks \in Seq(Callback)
    BY <1>6 DEF Pages
  <2>2. /\ cbs \in Seq(Callback) /\ Len(cbs) = n + 1
        /\ \A k \in 1..n : cbs[k] = r.callbacks[k]
        /\ cbs[n + 1] = cb
    BY <1>3, <1>6, <2>1, AppendProperties
  <2>. HIDE DEF cbs
  <2>. QED
    BY <2>2, LenProperties
<1>. HIDE DEF cbs
<1>8. /\ u \in Pages /\ u.callbacks = cbs /\ u.req = r.req
      /\ u.later = r.later /\ u.paused = r.paused /\ u.longPoll = r.longPoll
      /\ u.started = r.started /\ u.stopped = r.stopped
  BY <1>6, <1>7 DEF Pages
<1>. HIDE DEF u
<1>9. Sound(u)
  BY <1>4, <1>6, <1>8 DEF Sound
<1>10. Polled(u, Abort(u)) /\ ~Abort(u).req.open
  BY <1>9, AbortPolled
<1>11. LET s == Abort(u)
       IN  /\ Sound(s) /\ ~s.req.open /\ (s.started \/ s.stopped)
           /\ s.later = p.later /\ s.paused = p.paused /\ s.callbacks = cbs
  BY <1>2, <1>4, <1>6, <1>8, <1>10 DEF Polled
<1>12. Subscribe(p, c, f, v, wait) = Abort(u) /\ n = Len(p.callbacks)
  BY <1>1 DEF n
<1>13. \A k \in 1..n :
         /\ cbs[k].chan = p.callbacks[k].chan
         /\ cbs[k].last = p.callbacks[k].last
         /\ cbs[k].alone <=>
              p.callbacks[k].alone /\ p.callbacks[k].chan # c
  BY <1>6, <1>7
<1>14. DOMAIN cbs = 1..n + 1 /\ cbs[n + 1] = cb
  BY <1>7
<1>. QED
  BY <1>3, <1>11, <1>12, <1>13, <1>14 DEF alone

LEMMA SubscribesKept ==
  ASSUME WalkInv, PageSubscribes
  PROVE  WalkInv'
<1>1. /\ Sound(page) /\ page \in Pages /\ Len(log) \in 0..MaxMessages
      /\ stack \in Seq(Frame)
  BY Sane DEF WalkInv, Types
<1>2. UNCHANGED <<stack, log, slips>>
  BY DEF PageSubscribes, Call
<1>3. PICK c \in Chans, f \in Funcs, v \in InitialLast, wait \in BOOLEAN :
        page' = Subscribe(page, c, f, v, wait)
  BY DEF PageSubscribes
<1>. DEFINE n == Len(page.callbacks)
<1>4. v \in LastIds
  BY PageAssumption DEF LastIds
<1>5. /\ Sound(page') /\ ~page'.req.open /\ (page'.started \/ page'.stopped)
      /\ page'.later = page.later /\ page'.paused = page.paused
      /\ DOMAIN page'.callbacks = 1..n + 1
      /\ \A k \in 1..n :
           /\ page'.callbacks[k].chan = page.callbacks[k].chan
           /\ page'.callbacks[k].last = page.callbacks[k].last
           /\ page'.callbacks[k].alone <=>
                page.callbacks[k].alone /\ page.callbacks[k].chan # c
      /\ page'.callbacks[n + 1].chan = c
      /\ page'.callbacks[n + 1].alone <=>
           Position(page, c) = None /\ stack = <<>> /\ ~page.paused
  BY <1>1, <1>3, <1>4, SubscribeIs
<1>6. n \in Nat /\ DOMAIN page.callbacks = 1..n
  BY <1>1, CallbacksAre
<1>. HIDE DEF n
<1>7. Types'
  BY <1>2, <1>5 DEF WalkInv, Types, Sound
<1>8. Orderly'
  BY <1>2, <1>5 DEF WalkInv, Orderly
<1>9. ASSUME NEW k \in 1..n PROVE Alone(page', stack, log, k)
  <2>1. Alone(page, stack, log, k)
    BY <1>6 DEF WalkInv, AllAlone
  <2>2. page'.callbacks[k].alone => page.callbacks[k].alone /\ OnlyOf(page', k)
    <3>. SUFFICES ASSUME page'.callbacks[k].alone,
                         NEW i \in 1..n + 1,
                         page'.callbacks[i].chan = page'.callbacks[k].chan
                  PROVE  page.callbacks[k].alone /\ i = k
      BY <1>5 DEF OnlyOf
    <3>1. page.callbacks[k].alone /\ page'.callbacks[k].chan # c
      BY <1>5
    <3>2. i # n + 1
      BY <1>5, <3>1
    <3>3. i \in 1..n
      BY <1>6, <3>2
    <3>. QED
      BY <1>5, <1>6, <2>1, <3>1, <3>3 DEF Alone, OnlyOf
  <2>3. /\ k \in DOMAIN page.callbacks /\ k \in DOMAIN page'.callbacks
        /\ k <= k /\ page' \in Pages
    BY <1>5, <1>6 DEF Sound
  <2>4. Same(page, page', stack)
    BY <1>5 DEF Same
  <2>. QED
    BY <1>1, <1>5, <2>1, <2>2, <2>3, <2>4, AloneKept
<1>10. Alone(page', stack, log, n + 1)
  <2>. SUFFICES ASSUME page'.callbacks[n + 1].alone
                PROVE  Alone(page', stack, log, n + 1)
    BY DEF Alone
  <2>1. Position(page, c) = None /\ stack = <<>> /\ ~page.paused
    BY <1>5
  <2>2. \A k \in 1..n : page.callbacks[k].chan # c
    <3>1. page.callbacks \in Seq(Callback)
      BY <1>1 DEF Pages
    <3>. QED
      BY <1>6, <2>1, <3>1, PositionIs
  <2>3. \A k \in 1..n + 1 : page'.callbacks[k].chan = c => k = n + 1
    <3>1. \A k \in 1..n + 1 : k = n + 1 \/ k \in 1..n
      BY <1>6
    <3>. QED
      BY <1>5, <2>2, <3>1
  <2>4. page.later = <<>>
    BY <2>1 DEF WalkInv, Orderly
  <2>. QED
    BY <1>5, <2>1, <2>3, <2>4 DEF Alone, OnlyOf, Answering, Idle
<1>11. AllAlone'
  <2>1. \A k \in DOMAIN page'.callbacks : k = n + 1 \/ k \in 1..n
    BY <1>5, <1>6
  <2>. QED
    BY <1>2, <1>9, <1>10, <2>1 DEF AllAlone
<1>. QED
  BY <1>2, <1>7, <1>8, <1>11 DEF WalkInv, AloneMissesNothing

\* What unsubscribe does: each record that is kept has an index of its own, the
\* one it had or an earlier one.
LEMMA UnsubscribeIs ==
  ASSUME NEW p, Sound(p), NEW S, NEW F,
         Unsubscribe(p, S, F) # p
  PROVE  LET u == Unsubscribe(p, S, F)
         IN  /\ Sound(u) /\ ~u.req.open
             /\ p.started \/ p.stopped => u.started \/ u.stopped
             /\ u.later = p.later /\ u.paused = p.paused
             /\ p.callbacks # <<>>
             /\ \E keep \in [DOMAIN u.callbacks -> DOMAIN p.callbacks] :
                  \A k \in DOMAIN u.callbacks :
                    /\ u.callbacks[k] = p.callbacks[keep[k]]
                    /\ k <= keep[k]
                    /\ \A i \in DOMAIN u.callbacks : keep[i] = keep[k] => i = k
<1>. DEFINE cbs == p.callbacks
            n == Len(cbs)
            gone == {k \in DOMAIN cbs : cbs[k].chan \in S /\ cbs[k].func \in F}
            stay == DOMAIN cbs \ gone
            m == Cardinality(stay)
            keep == Ascending(stay)
            new == [k \in DOMAIN keep |-> cbs[keep[k]]]
            v == [p EXCEPT !.callbacks = new]
<1>1. n \in Nat /\ DOMAIN cbs = 1..n /\ \A k \in 1..n : cbs[k] \in Callback
  BY CallbacksAre DEF Sound
<1>2. Unsubscribe(p, S, F) = Abort(v) /\ gone # {}
  BY DEF Unsubscribe
<1>3. stay \in SUBSET (1..n)
  BY <1>1
<1>4. cbs # <<>>
  BY <1>2
<1>. HIDE DEF gone, stay, n
<1>5. /\ m \in Nat /\ keep \in [1..m -> stay]
      /\ \A i, k \in 1..m : i < k => keep[i] < keep[k]
  BY <1>1, <1>3, AscendingIs
<1>. HIDE DEF m, keep
<1>6. \A k \in 1..m : keep[k] \in 1..n
  BY <1>3, <1>5
<1>7. \A k \in 1..m : k <= keep[k]
  <2>. DEFINE T == {k \in Nat : k \in 1..m /\ ~(k <= keep[k])}
  <2>1. SUFFICES T = {}
    <3>1. \A k \in 1..m : k \in Nat
      BY <1>5
    <3>. QED
      BY <2>1, <3>1
  <2>2. SUFFICES ASSUME T # {} PROVE FALSE
    OBVIOUS
  <2>3. PICK k \in T : \A i \in T : ~(<<i, k>> \in OpToRel(<, Nat))
    <3>1. T \subseteq Nat
      OBVIOUS
    <3>. QED
      BY <2>2, <3>1, WFMin, NatLessThanWellFounded
  <2>4. \A i \in Nat : i < k => i \notin T
    BY <2>3 DEF OpToRel
  <2>5. k \in 1..m /\ keep[k] \in 1..n /\ keep[k] < k
    BY <1>1, <1>5, <1>6
  <2>6. k - 1 \in 1..m /\ k - 1 < k /\ k - 1 \in Nat
    BY <1>1, <1>5, <2>5
  <2>7. k - 1 <= keep[k - 1] /\ keep[k - 1] < keep[k]
    BY <1>5, <2>4, <2>5, <2>6
  <2>8. keep[k - 1] \in 1..n
    BY <1>6, <2>6
  <2>. QED
    BY <1>1, <1>5, <2>5, <2>6, <2>7, <2>8
<1>8. \A i, k \in 1..m : keep[i] = keep[k] => i = k
  <2>. SUFFICES ASSUME NEW i \in 1..m, NEW k \in 1..m, keep[i] = keep[k], i # k
                PROVE  FALSE
    OBVIOUS
  <2>1. i < k \/ k < i
    BY <1>5
  <2>2. keep[i] \in Int /\ keep[k] \in Int
    BY <1>6
  <2>. QED
    BY <1>5, <2>1, <2>2
<1>9. new \in Seq(Callback) /\ DOMAIN new = 1..m
  <2>1. new = [k \in 1..m |-> cbs[keep[k]]]
    BY <1>5
  <2>2. \A k \in 1..m : cbs[keep[k]] \in Callback
    BY <1>1, <1>6
  <2>. QED
    BY <1>5, <2>1, <2>2, IsASeq
<1>10. \A k \in 1..m : new[k] = cbs[keep[k]]
  BY <1>9
<1>. HIDE DEF new
<1>11. /\ v \in Pages /\ v.callbacks = new /\ v.req = p.req
       /\ v.later = p.later /\ v.paused = p.paused /\ v.longPoll = p.longPoll
       /\ v.started = p.started /\ v.stopped = p.stopped
  BY <1>9 DEF Pages, Sound
<1>. HIDE DEF v
<1>12. Sound(v)
  BY <1>11 DEF Sound
<1>13. Polled(v, Abort(v)) /\ ~Abort(v).req.open
  BY <1>12, AbortPolled
<1>14. LET u == Abort(v)
       IN  /\ Sound(u) /\ ~u.req.open
           /\ p.started \/ p.stopped => u.started \/ u.stopped
           /\ u.later = p.later /\ u.paused = p.paused /\ u.callbacks = new
  BY <1>11, <1>13 DEF Polled
<1>. DEFINE u == Abort(v)
<1>15. keep \in [DOMAIN u.callbacks -> DOMAIN p.callbacks]
  BY <1>1, <1>5, <1>6, <1>9, <1>14
<1>16. \A k \in DOMAIN u.callbacks :
         /\ u.callbacks[k] = p.callbacks[keep[k]]
         /\ k <= keep[k]
         /\ \A i \in DOMAIN u.callbacks : keep[i] = keep[k] => i = k
  BY <1>7, <1>8, <1>9, <1>10, <1>14
<1>. HIDE DEF u
<1>17. \E j \in [DOMAIN u.callbacks -> DOMAIN p.callbacks] :
         \A k \in DOMAIN u.callbacks :
           /\ u.callbacks[k] = p.callbacks[j[k]]
           /\ k <= j[k]
           /\ \A i \in DOMAIN u.callbacks : j[i] = j[k] => i = k
  BY <1>15, <1>16
<1>. QED
  BY <1>2, <1>4, <1>14, <1>17 DEF u

LEMMA UnsubscribesKept ==
  ASSUME WalkInv, PageUnsubscribes
  PROVE  WalkInv'
<1>1. /\ Sound(page) /\ page \in Pages /\ stack \in Seq(Frame)
  BY Sane DEF WalkInv, Types
<1>2. UNCHANGED <<stack, log, slips>>
  BY DEF PageUnsubscribes, Call
<1>3. PICK S \in {{c} : c \in Chans} \cup {Chans},
           F \in {{f} : f \in Funcs} \cup {Funcs} :
        page' = Unsubscribe(page, S, F)
  BY DEF PageUnsubscribes
<1>4. CASE page' = page
  BY <1>1, <1>2, <1>4, PolledSafe DEF Polled, Same
<1>5. CASE page' # page
  <2>1. /\ Sound(page') /\ ~page'.req.open
        /\ page.started \/ page.stopped => page'.started \/ page'.stopped
        /\ page'.later = page.later /\ page'.paused = page.paused
        /\ page.callbacks # <<>>
    BY <1>1, <1>3, <1>5, UnsubscribeIs
  <2>2. PICK keep \in [DOMAIN page'.callbacks -> DOMAIN page.callbacks] :
          \A k \in DOMAIN page'.callbacks :
            /\ page'.callbacks[k] = page.callbacks[keep[k]]
            /\ k <= keep[k]
            /\ \A i \in DOMAIN page'.callbacks : keep[i] = keep[k] => i = k
    BY <1>1, <1>3, <1>5, UnsubscribeIs
  <2>3. Types'
    BY <1>2, <2>1 DEF WalkInv, Types, Sound
  <2>4. Orderly'
    BY <1>2, <2>1 DEF WalkInv, Orderly
  <2>5. ASSUME NEW k \in DOMAIN page'.callbacks
        PROVE  Alone(page', stack, log, k)
    <3>1. keep[k] \in DOMAIN page.callbacks
      BY <2>2
    <3>2. Alone(page, stack, log, keep[k])
      BY <3>1 DEF WalkInv, AllAlone
    <3>3. page'.callbacks[k].alone =>
            page.callbacks[keep[k]].alone /\ OnlyOf(page', k)
      <4>. SUFFICES ASSUME page'.callbacks[k].alone,
                           NEW i \in DOMAIN page'.callbacks,
                           page'.callbacks[i].chan = page'.callbacks[k].chan
                    PROVE  page.callbacks[keep[k]].alone /\ i = k
        BY DEF OnlyOf
      <4>1. /\ page.callbacks[keep[k]].alone
            /\ page.callbacks[keep[i]].chan = page.callbacks[keep[k]].chan
            /\ keep[i] \in DOMAIN page.callbacks
        BY <2>2
      <4>2. keep[i] = keep[k]
        BY <3>2, <4>1 DEF Alone, OnlyOf
      <4>. QED
        BY <2>2, <4>1, <4>2
    <3>4. page' \in Pages /\ Same(page, page', stack)
      BY <2>1 DEF Sound, Same
    <3>5. /\ k <= keep[k]
          /\ page'.callbacks[k].chan = page.callbacks[keep[k]].chan
          /\ page'.callbacks[k].last = page.callbacks[keep[k]].last
      BY <2>2
    <3>. QED
      BY <1>1, <2>1, <3>1, <3>2, <3>3, <3>4, <3>5, AloneKept
  <2>6. AllAlone'
    BY <1>2, <2>5 DEF AllAlone
  <2>. QED
    BY <1>2, <2>3, <2>4, <2>6 DEF WalkInv, AloneMissesNothing
<1>. QED
  BY <1>4, <1>5
\* resume walks nothing while a callback is alone.
LEMMA ResumesKept ==
  ASSUME WalkInv, PageResumes
  PROVE  WalkInv'
<1>. DEFINE w == Walk("resume", page.later, <<>>, FALSE)
            n == Len(stack)
<1>1. /\ page' = [page EXCEPT !.paused = FALSE]
      /\ stack' = <<w>> \o stack
      /\ UNCHANGED <<log, slips>>
  BY DEF PageResumes, Call
<1>2. page \in Pages /\ stack \in Seq(Frame) /\ page.later \in Seq(Item)
  BY DEF WalkInv, Types, Pages
<1>3. /\ page' \in Pages /\ page'.callbacks = page.callbacks
      /\ page'.later = page.later /\ page'.req = page.req
      /\ page'.longPoll = page.longPoll
      /\ page'.started = page.started /\ page'.stopped = page.stopped
      /\ page'.paused = FALSE
  BY <1>1, <1>2 DEF Pages
<1>4. /\ w \in Frame /\ w.of = "resume" /\ w.messages = page.later
      /\ w.chunks = <<>> /\ w.j = 1
  <2>1. <<>> \in Seq(Seq(Item))
    OBVIOUS
  <2>. QED
    BY <1>2, <2>1 DEF Walk, Frame
<1>5. /\ n \in Nat /\ DOMAIN stack = 1..n
      /\ \A i \in DOMAIN stack : stack[i] \in Frame
      /\ stack # <<>> => n \in DOMAIN stack
      /\ stack = <<>> => n = 0
  BY <1>2, StackIs
<1>. HIDE DEF w, n
<1>6. /\ stack' \in Seq(Frame) /\ DOMAIN stack' = 1..n + 1
      /\ Len(stack') = n + 1
      /\ stack'[1] = w /\ \A i \in 1..n : stack'[i + 1] = stack[i]
  <2>1. <<w>> \in Seq(Frame) /\ Len(<<w>>) = 1 /\ <<w>>[1] = w
    BY <1>4
  <2>2. /\ stack' \in Seq(Frame) /\ Len(stack') = 1 + n
        /\ \A i \in 1..1 : stack'[i] = <<w>>[i]
        /\ \A i \in 1 + 1..1 + n : stack'[i] = stack[i - 1]
    BY <1>1, <1>2, <2>1, ConcatProperties DEF n
  <2>3. stack'[1] = w
    BY <2>1, <2>2
  <2>4. ASSUME NEW i \in 1..n PROVE stack'[i + 1] = stack[i]
    <3>1. i + 1 \in 1 + 1..1 + n /\ (i + 1) - 1 = i
      BY <1>5
    <3>. QED
      BY <2>2, <3>1
  <2>5. 1 + n = n + 1
    BY <1>5
  <2>. QED
    BY <2>2, <2>3, <2>4, <2>5, LenProperties
<1>7. ASSUME NEW i \in 1..n + 1
      PROVE  i = 1 \/ (i - 1 \in 1..n /\ stack'[i] = stack[i - 1])
  <2>1. CASE i # 1
    <3>1. i - 1 \in 1..n /\ (i - 1) + 1 = i
      BY <1>5, <2>1
    <3>. QED
      BY <1>6, <3>1
  <2>. QED
    BY <2>1
<1>8. Types'
  BY <1>1, <1>3, <1>6 DEF WalkInv, Types
<1>9. Orderly'
  <2>1. ASSUME NEW i \in DOMAIN stack', stack'[i].of # "resume"
        PROVE  i = n + 1
    <3>1. i # 1 /\ i \in 1..n + 1
      BY <1>4, <1>6, <2>1
    <3>2. i - 1 \in 1..n /\ stack'[i] = stack[i - 1]
      BY <1>7, <3>1
    <3>3. i - 1 = n
      BY <1>5, <2>1, <3>2 DEF WalkInv, Orderly, n
    <3>. QED
      BY <1>5, <3>1, <3>3
  <2>2. ASSUME NEW i \in DOMAIN stack', stack'[i].j > 1
        PROVE  /\ stack'[i].messages # <<>>
               /\ Head(stack'[i].messages).kind = "message"
    <3>1. i # 1 /\ i \in 1..n + 1
      BY <1>4, <1>6, <2>2
    <3>2. i - 1 \in 1..n /\ stack'[i] = stack[i - 1]
      BY <1>7, <3>1
    <3>. QED
      BY <1>5, <2>2, <3>2 DEF WalkInv, Orderly
  <2>3. \E i \in DOMAIN stack' : stack'[i].of = "resume"
    <3>1. 1 \in 1..n + 1
      BY <1>5
    <3>. QED
      BY <1>4, <1>6, <3>1
  <2>. QED
    BY <1>3, <1>6, <2>1, <2>2, <2>3 DEF WalkInv, Orderly
<1>10. Answering(stack') = Answering(stack)
       /\ (stack # <<>> => Base(stack') = Base(stack))
  <2>a. stack' # <<>>
    BY <1>5, <1>6, EmptySeq
  <2>1. CASE stack = <<>>
    <3>1. Base(stack') = w
      BY <1>5, <1>6, <2>1 DEF Base
    <3>. QED
      BY <1>4, <2>1, <3>1 DEF Answering
  <2>2. CASE stack # <<>>
    <3>1. n \in 1..n
      BY <1>5, <2>2
    <3>2. stack'[n + 1] = stack[n]
      BY <1>6, <3>1
    <3>3. Base(stack') = Base(stack)
      BY <1>6, <3>2 DEF Base, n
    <3>. QED
      BY <2>a, <2>2, <3>3 DEF Answering
  <2>. QED
    BY <2>1, <2>2
<1>11. ASSUME NEW k \in DOMAIN page'.callbacks
       PROVE  Alone(page', stack', log, k)
  <2>. SUFFICES ASSUME page'.callbacks[k].alone
                PROVE  Alone(page', stack', log, k)
    BY DEF Alone
  <2>1. Alone(page, stack, log, k) /\ page.callbacks[k].alone
    BY <1>3, <1>11 DEF WalkInv, AllAlone
  <2>2. OnlyOf(page', k) /\ ~page'.paused /\ page'.later = <<>>
    BY <1>3, <2>1 DEF Alone, OnlyOf
  <2>3. ASSUME NEW i \in DOMAIN stack', stack'[i].of = "resume"
        PROVE  stack'[i].messages = <<>> /\ stack'[i].chunks = <<>>
    <3>1. CASE i = 1
      BY <1>3, <1>4, <1>6, <2>2, <3>1
    <3>2. CASE i # 1
      <4>1. i - 1 \in 1..n /\ stack'[i] = stack[i - 1]
        BY <1>6, <1>7, <3>2
      <4>. QED
        BY <1>5, <2>1, <2>3, <4>1 DEF Alone
    <3>. QED
      BY <3>1, <3>2
  <2>4. CASE Answering(stack)
    <3>1. Walked(page, log, Base(stack), k) /\ stack # <<>>
      BY <2>1, <2>4 DEF Alone, Answering
    <3>2. Walked(page', log, Base(stack'), k)
      BY <1>3, <1>10, <3>1 DEF Walked, Called
    <3>. QED
      BY <1>10, <2>2, <2>3, <2>4, <3>2 DEF Alone
  <2>5. CASE ~Answering(stack)
    <3>1. Idle(page', log, k)
      BY <1>3, <2>1, <2>5 DEF Alone, Idle
    <3>. QED
      BY <1>10, <2>2, <2>3, <2>5, <3>1 DEF Alone
  <2>. QED
    BY <2>4, <2>5
<1>12. AllAlone'
  BY <1>1, <1>11 DEF AllAlone
<1>. QED
  BY <1>1, <1>8, <1>9, <1>12 DEF WalkInv, AloneMissesNothing

-----------------------------------------------------------------------------
(* Events keep it.                                                         *)

\* Flags are changed, then what the operators above do.
LEMMA EventKept ==
  ASSUME WalkInv, NEW p \in Pages, p.callbacks = page.callbacks,
         p.later = page.later, p.paused = page.paused, p.req = page.req,
         page.started \/ page.stopped => p.started \/ p.stopped,
         p.longPoll = page.longPoll
  PROVE  Sound(p) /\ Polled(page, p)
<1>1. Sound(page)
  BY Sane DEF WalkInv
<1>2. Sound(p)
  BY <1>1 DEF Sound
<1>. QED
  BY <1>2 DEF Polled

LEMMA TimersKept ==
  ASSUME WalkInv, Timers \/ FirstChunkTimer \/ VisibilityChange
  PROVE  WalkInv'
<1>1. page \in Pages /\ Len(log) \in 0..MaxMessages
  BY Sane DEF WalkInv, Types
<1>2. stack = <<>> /\ UNCHANGED <<stack, log, slips>>
  BY DEF Timers, PollTimer, DelayTimer, FirstChunkTimer, VisibilityChange, Event
<1>3. SUFFICES Polled(page, page')
  BY <1>2, PolledSafe, PolledSame
<1>4. CASE PollTimer
  <2>. DEFINE p == [page EXCEPT !.pollTimeout = "none"]
  <2>1. /\ p \in Pages /\ p.callbacks = page.callbacks
        /\ p.later = page.later /\ p.paused = page.paused
        /\ p.req = page.req /\ p.longPoll = page.longPoll
        /\ p.started = page.started /\ p.stopped = page.stopped
    BY <1>1 DEF Pages, Waits
  <2>2. PICK wait \in BOOLEAN : page' = Poll(p, wait)
    BY <1>4 DEF PollTimer
  <2>. HIDE DEF p
  <2>3. Sound(p) /\ Polled(page, p)
    BY <2>1, EventKept
  <2>. QED
    BY <1>1, <2>2, <2>3, PollPolled, PolledTwice
<1>5. CASE DelayTimer
  <2>. DEFINE p == [page EXCEPT !.delayPollTimeout = FALSE]
  <2>1. /\ p \in Pages /\ p.callbacks = page.callbacks
        /\ p.later = page.later /\ p.paused = page.paused
        /\ p.req = page.req /\ p.longPoll = page.longPoll
        /\ p.started = page.started /\ p.stopped = page.stopped
    BY <1>1 DEF Pages
  <2>2. PICK wait \in BOOLEAN : page' = Poll(p, wait)
    BY <1>5 DEF DelayTimer
  <2>. HIDE DEF p
  <2>3. Sound(p) /\ Polled(page, p)
    BY <2>1, EventKept
  <2>. QED
    BY <1>1, <2>2, <2>3, PollPolled, PolledTwice
<1>6. CASE FirstChunkTimer
  <2>. DEFINE p == [page EXCEPT !.chunkedTimeout = FALSE]
              a == Abort(p)
              q == [a EXCEPT !.chunkedBackoff = RetryChunked]
  <2>1. /\ p \in Pages /\ p.callbacks = page.callbacks
        /\ p.later = page.later /\ p.paused = page.paused
        /\ p.req = page.req /\ p.longPoll = page.longPoll
        /\ p.started = page.started /\ p.stopped = page.stopped
    BY <1>1 DEF Pages
  <2>2. page' = IF p.longPoll THEN q ELSE p
    BY <1>6 DEF FirstChunkTimer
  <2>. HIDE DEF p
  <2>3. Sound(p) /\ Polled(page, p)
    BY <2>1, EventKept
  <2>4. Polled(p, a) /\ ~a.req.open
    BY <2>3, AbortPolled
  <2>. HIDE DEF a
  <2>5. RetryChunked \in 0..RetryChunked
    BY PageAssumption
  <2>6. /\ q \in Pages /\ q.callbacks = a.callbacks
        /\ q.later = a.later /\ q.paused = a.paused /\ q.req = a.req
        /\ q.started = a.started /\ q.stopped = a.stopped
    BY <2>4, <2>5 DEF Pages, Polled, Sound
  <2>. HIDE DEF q
  <2>7. Polled(p, q)
    BY <2>4, <2>6 DEF Polled, Sound
  <2>. QED
    BY <2>2, <2>3, <2>7, PolledTwice
<1>7. CASE VisibilityChange
  <2>. DEFINE p == [page EXCEPT !.hidden = ~page.hidden]
              q == [p EXCEPT !.pollTimeout = "none",
                             !.delayPollTimeout = FALSE]
  <2>1. page' = p \/ page' = Poll(q, FALSE)
    BY <1>7 DEF VisibilityChange
  <2>2. /\ p \in Pages /\ p.callbacks = page.callbacks
        /\ p.later = page.later /\ p.paused = page.paused
        /\ p.req = page.req /\ p.longPoll = page.longPoll
        /\ p.started = page.started /\ p.stopped = page.stopped
    BY <1>1 DEF Pages
  <2>. HIDE DEF p
  <2>3. /\ q \in Pages /\ q.callbacks = page.callbacks
        /\ q.later = page.later /\ q.paused = page.paused
        /\ q.req = page.req /\ q.longPoll = page.longPoll
        /\ q.started = page.started /\ q.stopped = page.stopped
    BY <2>2 DEF Pages, Waits
  <2>. HIDE DEF q
  <2>4. Sound(q) /\ Polled(page, q) /\ Polled(page, p)
    BY <2>2, <2>3, EventKept
  <2>5. Polled(page, Poll(q, FALSE))
    BY <1>1, <2>4, PollPolled, PolledTwice
  <2>. QED
    BY <2>1, <2>4, <2>5
<1>. QED
  BY <1>4, <1>5, <1>6, <1>7 DEF Timers

LEMMA FailuresKept ==
  ASSUME WalkInv, RequestFails \/ Finish
  PROVE  WalkInv'
<1>1. page \in Pages /\ Sound(page)
  BY Sane DEF WalkInv, Types
<1>2. stack = <<>> /\ UNCHANGED <<stack, log, slips>>
  BY DEF RequestFails, Finish, Event
<1>3. CASE RequestFails
  <2>1. \E answer : page' = Settle(page, answer)
    BY <1>3 DEF RequestFails
  <2>2. Polled(page, page') /\ ~page'.req.open
    BY <1>1, <2>1, SettlePolled
  <2>. QED
    BY <1>2, <2>2, PolledSafe DEF Same
<1>4. CASE Finish
  <2>1. Polled(page, page') /\ ~page'.req.open
    BY <1>1, <1>4, CompletePolled DEF Finish
  <2>. QED
    BY <1>2, <2>1, PolledSafe DEF Same
<1>. QED
  BY <1>3, <1>4
-----------------------------------------------------------------------------
(* The steps of a walk keep it.                                            *)

\* The innermost walk is replaced by a later state of it.
LEMMA TopReplaced ==
  ASSUME NEW s \in Seq(Frame), s # <<>>, NEW G \in Frame, G.of = s[1].of
  PROVE  LET t == [s EXCEPT ![1] = G]
         IN  /\ t \in Seq(Frame) /\ Len(t) = Len(s) /\ DOMAIN t = DOMAIN s
             /\ 1 \in DOMAIN s /\ t[1] = G
             /\ \A i \in DOMAIN s : i # 1 => t[i] = s[i]
             /\ Answering(t) <=> Answering(s)
             /\ Base(t) = IF Len(s) = 1 THEN G ELSE Base(s)
<1>. DEFINE t == [s EXCEPT ![1] = G]
<1>1. Len(s) \in Nat /\ DOMAIN s = 1..Len(s) /\ Len(s) # 0
  BY EmptySeq, LenProperties
<1>2. 1 \in DOMAIN s /\ Len(s) \in DOMAIN s
  BY <1>1
<1>3. /\ DOMAIN t = DOMAIN s /\ t[1] = G
      /\ \A i \in DOMAIN s : i # 1 => t[i] = s[i]
  BY <1>2
<1>4. t \in Seq(Frame) /\ Len(t) = Len(s)
  BY <1>2, ExceptSeq
<1>. HIDE DEF t
<1>5. t # <<>>
  BY <1>1, <1>4, EmptySeq
<1>6. Base(t) = IF Len(s) = 1 THEN G ELSE Base(s)
  BY <1>2, <1>3, <1>4 DEF Base
<1>7. Answering(t) <=> Answering(s)
  BY <1>5, <1>6 DEF Answering, Base
<1>. QED
  BY <1>2, <1>3, <1>4, <1>6, <1>7 DEF t

\* While a callback is alone, a walk that has something left is an answer's.
LEMMA AtBase ==
  ASSUME WalkInv, stack # <<>>, Top.messages # <<>> \/ Top.chunks # <<>>,
         NEW k \in DOMAIN page.callbacks, page.callbacks[k].alone
  PROVE  /\ Len(stack) = 1 /\ Answering(stack)
         /\ Walked(page, log, Top, k)
         /\ OnlyOf(page, k) /\ ~page.paused /\ page.later = <<>>
<1>1. Alone(page, stack, log, k) /\ stack \in Seq(Frame)
  BY DEF WalkInv, AllAlone, Types
<1>2. 1 \in DOMAIN stack
  BY <1>1, StackIs
<1>3. Top.of # "resume"
  BY <1>1, <1>2 DEF Alone, Top
<1>4. Len(stack) = 1
  BY <1>2, <1>3 DEF WalkInv, Orderly, Top
<1>5. Base(stack) = Top /\ Answering(stack)
  BY <1>3, <1>4 DEF Base, Answering, Top
<1>. QED
  BY <1>1, <1>4, <1>5 DEF Alone

LEMMA TopKept ==
  ASSUME WalkInv, stack # <<>>, NEW G \in Frame, G.of = Top.of,
         G.j > 1 => G.messages # <<>> /\ Head(G.messages).kind = "message",
         stack' = [stack EXCEPT ![1] = G],
         page' \in Pages, page'.req = page.req,
         page'.longPoll = page.longPoll, page'.paused = page.paused,
         page'.started = page.started, page'.stopped = page.stopped,
         page'.later = page.later \/ page.paused,
         DOMAIN page'.callbacks = DOMAIN page.callbacks,
         log' = log, slips' \subseteq {"lost", "again"} \X BOOLEAN
  PROVE  Types' /\ Orderly'
<1>1. stack \in Seq(Frame) /\ page \in Pages
  BY DEF WalkInv, Types
<1>2. /\ stack' \in Seq(Frame) /\ Len(stack') = Len(stack)
      /\ DOMAIN stack' = DOMAIN stack
      /\ 1 \in DOMAIN stack /\ stack'[1] = G
      /\ \A i \in DOMAIN stack : i # 1 => stack'[i] = stack[i]
  BY <1>1, TopReplaced DEF Top
<1>3. Types'
  BY <1>2 DEF WalkInv, Types
<1>4. \A i \in DOMAIN stack' : stack'[i].of = stack[i].of
  BY <1>2 DEF Top
<1>5. \A i \in DOMAIN stack' : stack'[i].j > 1 =>
        stack'[i].messages # <<>> /\ Head(stack'[i].messages).kind = "message"
  BY <1>2 DEF WalkInv, Orderly
<1>6. page'.callbacks # <<>> => page.callbacks # <<>>
  <2>1. page'.callbacks \in Seq(Callback) /\ page.callbacks \in Seq(Callback)
    BY <1>1 DEF Pages
  <2>2. page.callbacks = <<>> => DOMAIN page.callbacks = {}
    OBVIOUS
  <2>3. ASSUME page'.callbacks # <<>> PROVE DOMAIN page'.callbacks # {}
    <3>1. Len(page'.callbacks) \in Nat /\ Len(page'.callbacks) # 0
      BY <2>1, <2>3, EmptySeq, LenProperties
    <3>2. 1 \in 1..Len(page'.callbacks)
      BY <3>1
    <3>. QED
      BY <2>1, <3>2, LenProperties
  <2>. QED
    BY <2>2, <2>3
<1>7. Orderly'
  BY <1>2, <1>4, <1>5, <1>6 DEF WalkInv, Orderly
<1>. QED
  BY <1>3, <1>7

LEMMA AloneWalked ==
  ASSUME WalkInv, stack # <<>>, Top.messages # <<>> \/ Top.chunks # <<>>,
         NEW G \in Frame, G.of = Top.of, stack' = [stack EXCEPT ![1] = G],
         DOMAIN page'.callbacks = DOMAIN page.callbacks,
         \A i \in DOMAIN page.callbacks :
           /\ page'.callbacks[i].chan = page.callbacks[i].chan
           /\ page'.callbacks[i].alone = page.callbacks[i].alone,
         page'.paused = page.paused, page'.later = page.later \/ page.paused,
         NEW k \in DOMAIN page.callbacks,
         page.callbacks[k].alone => Walked(page', log, G, k)
  PROVE  Alone(page', stack', log, k)
<1>. SUFFICES ASSUME page'.callbacks[k].alone
              PROVE  Alone(page', stack', log, k)
  BY DEF Alone
<1>1. page.callbacks[k].alone /\ stack \in Seq(Frame)
  BY DEF WalkInv, Types
<1>2. /\ Len(stack) = 1 /\ Answering(stack) /\ OnlyOf(page, k)
      /\ ~page.paused /\ page.later = <<>>
  BY <1>1, AtBase
<1>a. G.of = stack[1].of
  BY DEF Top
<1>b. /\ DOMAIN stack' = DOMAIN stack
      /\ 1 \in DOMAIN stack /\ stack'[1] = G
      /\ \A i \in DOMAIN stack : i # 1 => stack'[i] = stack[i]
      /\ Answering(stack') <=> Answering(stack)
      /\ Base(stack') = IF Len(stack) = 1 THEN G ELSE Base(stack)
  BY <1>1, <1>a, TopReplaced
<1>3. /\ Answering(stack') /\ Base(stack') = G /\ DOMAIN stack' = DOMAIN stack
      /\ 1 \in DOMAIN stack /\ stack'[1] = G
      /\ \A i \in DOMAIN stack : i # 1 => stack'[i] = stack[i]
  BY <1>2, <1>b
<1>4. \A i \in DOMAIN stack' : i = 1
  BY <1>1, <1>2, <1>3, StackIs
<1>5. \A i \in DOMAIN stack' : stack'[i].of # "resume"
  <2>1. Top.of # "resume"
    BY <1>2 DEF Answering, Base, Top
  <2>. QED
    BY <1>3, <1>4, <2>1
<1>6. OnlyOf(page', k)
  BY <1>2 DEF OnlyOf
<1>. QED
  BY <1>1, <1>2, <1>3, <1>5, <1>6 DEF Alone

\* The next chunk is put off, or takes the place of the messages.
LEMMA ChunkKept ==
  ASSUME WalkInv, TakeChunk
  PROVE  WalkInv'
<1>. DEFINE chunk == Head(Top.chunks)
            later == IF page.paused THEN page.later \o chunk ELSE page.later
            messages == IF page.paused THEN <<>> ELSE chunk
            got == ~page.paused /\ chunk # <<>>
            G == [Top EXCEPT !.chunks = Tail(Top.chunks),
                             !.messages = messages, !.got = got]
<1>1. /\ stack # <<>> /\ Top.messages = <<>> /\ Top.chunks # <<>>
      /\ UNCHANGED <<log, slips>>
      /\ page' = [page EXCEPT !.failCount = 0, !.later = later]
  BY DEF TakeChunk, Walking
<1>2. page \in Pages /\ stack \in Seq(Frame) /\ page.later \in Seq(Item)
  BY DEF WalkInv, Types, Pages
<1>3. Top \in Frame /\ 1 \in DOMAIN stack
  BY <1>1, <1>2, StackIs DEF Top
<1>4. /\ Top.chunks \in Seq(Seq(Item)) /\ chunk \in Seq(Item)
      /\ Tail(Top.chunks) \in Seq(Seq(Item))
  <2>1. Top.chunks \in Seq(Seq(Item))
    BY <1>3 DEF Frame
  <2>. QED
    BY <1>1, <2>1, HeadTailProperties
<1>5. stack' = [stack EXCEPT ![1] = G]
  BY <1>1, <1>2, <1>3 DEF TakeChunk, Top, Frame
<1>6. later \in Seq(Item) /\ messages \in Seq(Item) /\ got \in BOOLEAN
  <2>1. page.later \o chunk \in Seq(Item)
    BY <1>2, <1>4, ConcatProperties
  <2>. QED
    BY <1>2, <1>4, <2>1
<1>7. Top.j = 1
  <2>1. ~(Top.j > 1)
    BY <1>1, <1>3 DEF WalkInv, Orderly, Top
  <2>. QED
    BY <1>3, <2>1 DEF Frame
<1>. DEFINE rest == Tail(Top.chunks)
<1>a. ~page.paused => later = page.later /\ messages = chunk
  OBVIOUS
<1>b. rest \in Seq(Seq(Item)) /\ G = [Top EXCEPT !.chunks = rest,
                                        !.messages = messages, !.got = got]
  BY <1>4
<1>c. stack' = [stack EXCEPT ![1] = G]
  BY <1>5
<1>. HIDE DEF G, rest, got, messages, later
<1>8. /\ G \in Frame /\ G.of = Top.of /\ G.j = 1 /\ G.messages = messages
      /\ G.chunks = rest
  BY <1>3, <1>6, <1>7, <1>b DEF Frame
<1>9. /\ page' \in Pages /\ page'.callbacks = page.callbacks
      /\ page'.later = later /\ page'.paused = page.paused
      /\ page'.req = page.req /\ page'.longPoll = page.longPoll
      /\ page'.started = page.started /\ page'.stopped = page.stopped
  <2>1. 0 \in 0..Patience + 1
    BY PageAssumption
  <2>. QED
    BY <1>1, <1>2, <1>6, <2>1 DEF Pages
<1>10. Types' /\ Orderly'
  <2>1. slips' \subseteq {"lost", "again"} \X BOOLEAN
    BY <1>1 DEF WalkInv, Types
  <2>2. ~(G.j > 1)
    BY <1>8
  <2>3. page'.later = page.later \/ page.paused
    BY <1>a, <1>9
  <2>4. DOMAIN page'.callbacks = DOMAIN page.callbacks
    BY <1>9
  <2>. QED
    BY <1>1, <1>c, <1>8, <1>9, <2>1, <2>2, <2>3, <2>4, TopKept
<1>11. ASSUME NEW k \in DOMAIN page.callbacks
       PROVE  Alone(page', stack', log, k)
  <2>1. ASSUME page.callbacks[k].alone PROVE Walked(page', log, G, k)
    <3>1. Walked(page, log, Top, k) /\ ~page.paused
      BY <1>1, <2>1, AtBase
    <3>. DEFINE c == page.callbacks[k].chan
                last == page.callbacks[k].last
    <3>2. PICK to \in 0..Len(log) : /\ Rest(log, Top, c, last, to)
                                    /\ page.req.open => to = page.req.upto
      BY <3>1 DEF Walked
    <3>3. c \in Chans /\ last \in Int /\ to \in Int
      BY <1>2, CallbacksAre
    <3>4. G.messages = Head(Top.chunks) /\ G.chunks = Tail(Top.chunks)
      BY <1>a, <1>8, <3>1 DEF rest
    <3>5. Rest(log, G, c, last, to)
      BY <1>1, <1>3, <1>7, <1>8, <3>2, <3>3, <3>4, RestTaken
    <3>6. Called(page', G, k)
      BY <1>8 DEF Called
    <3>. QED
      BY <1>9, <3>1, <3>2, <3>5, <3>6 DEF Walked
  <2>. QED
    BY <1>1, <1>a, <1>c, <1>8, <1>9, <2>1, AloneWalked
<1>12. AllAlone'
  BY <1>1, <1>9, <1>11 DEF AllAlone
<1>. QED
  BY <1>1, <1>10, <1>12 DEF WalkInv, AloneMissesNothing

\* A message is done with.
LEMMA MessageKept ==
  ASSUME WalkInv, NextMessage
  PROVE  WalkInv'
<1>. DEFINE rest == Tail(Top.messages)
            first == 1
            G == [Top EXCEPT !.messages = rest, !.j = first]
<1>1. /\ stack # <<>> /\ Top.messages # <<>>
      /\ Head(Top.messages).kind = "message"
      /\ \A k \in DOMAIN page.callbacks : ~Matches(k)
      /\ UNCHANGED <<page, log, slips>>
  BY DEF NextMessage, Walking
<1>2. page \in Pages /\ stack \in Seq(Frame)
  BY DEF WalkInv, Types
<1>3. Top \in Frame /\ 1 \in DOMAIN stack
  BY <1>1, <1>2, StackIs DEF Top
<1>4. Top.messages \in Seq(Item) /\ Tail(Top.messages) \in Seq(Item)
  <2>1. Top.messages \in Seq(Item)
    BY <1>3 DEF Frame
  <2>. QED
    BY <1>1, <2>1, HeadTailProperties
<1>5. stack' = [stack EXCEPT ![1] = G]
  BY <1>1, <1>2, <1>3 DEF NextMessage, Top, Frame
<1>a. rest \in Seq(Item) /\ first \in Nat \ {0}
  BY <1>4
<1>. HIDE DEF rest, first
<1>b. /\ G \in Frame /\ G.of = Top.of /\ G.j = first
      /\ G.messages = rest /\ G.chunks = Top.chunks
  BY <1>3, <1>a DEF Frame
<1>. HIDE DEF G
<1>6. /\ G \in Frame /\ G.of = Top.of /\ G.j = 1 /\ ~(G.j > 1)
      /\ G.messages = Tail(Top.messages) /\ G.chunks = Top.chunks
  BY <1>b DEF rest, first
<1>7. Types' /\ Orderly'
  <2>1. slips' \subseteq {"lost", "again"} \X BOOLEAN
    BY <1>1 DEF WalkInv, Types
  <2>. QED
    BY <1>1, <1>2, <1>5, <1>6, <2>1, TopKept
<1>8. ASSUME NEW k \in DOMAIN page.callbacks
      PROVE  Alone(page', stack', log, k)
  <2>1. ASSUME page.callbacks[k].alone PROVE Walked(page', log, G, k)
    <3>. DEFINE c == page.callbacks[k].chan
                last == page.callbacks[k].last
    <3>1. Walked(page, log, Top, k)
      BY <1>1, <2>1, AtBase
    <3>2. PICK to \in 0..Len(log) : /\ Rest(log, Top, c, last, to)
                                    /\ page.req.open => to = page.req.upto
      BY <3>1 DEF Walked
    <3>3. /\ c \in Chans /\ last \in Int /\ to \in Int
          /\ k \in 1..Len(page.callbacks)
      BY <1>2, CallbacksAre
    <3>4. ~About(Head(Top.messages), c) \/ Top.j > 1
      <4>1. ~(k >= Top.j) \/ Head(Top.messages).chan # c
        BY <1>1 DEF Matches
      <4>2. Top.j \in Nat /\ k >= 1 /\ k \in Int
        BY <1>2, <1>3, <3>3, CallbacksAre DEF Frame
      <4>. QED
        BY <1>1, <4>1, <4>2 DEF About
    <3>5. Rest(log, G, c, last, to)
      BY <1>1, <1>3, <1>6, <3>2, <3>3, <3>4, RestPassed
    <3>6. Called(page', G, k)
      BY <1>6 DEF Called
    <3>. QED
      BY <1>1, <3>1, <3>2, <3>5, <3>6 DEF Walked
  <2>. QED
    BY <1>1, <1>5, <1>6, <2>1, AloneWalked
<1>9. AllAlone'
  BY <1>1, <1>8 DEF AllAlone
<1>. QED
  BY <1>1, <1>7, <1>9 DEF WalkInv, AloneMissesNothing
\* A status moves callbacks that have no position yet.
LEMMA StatusKept ==
  ASSUME WalkInv, TakeStatus
  PROVE  WalkInv'
<1>. DEFINE rest == Tail(Top.messages)
            first == 1
            G == [Top EXCEPT !.messages = rest, !.j = first]
            it == Head(Top.messages)
            cbs == page.callbacks
            named == {k \in DOMAIN cbs : it.at[cbs[k].chan] # None}
            new == [k \in DOMAIN cbs |->
                      IF k \in named
                      THEN [cbs[k] EXCEPT !.last = it.at[cbs[k].chan]]
                      ELSE cbs[k]]
            missed == {k \in named : /\ cbs[k].last >= 0
                                     /\ Between(cbs[k].chan, cbs[k].last,
                                                it.at[cbs[k].chan]) # {}}
            lost == {<<"lost", cbs[k].alone>> : k \in missed}
<1>1. /\ stack # <<>> /\ Top.messages # <<>> /\ it.kind = "status"
      /\ log' = log
      /\ page' = [page EXCEPT !.callbacks = new]
      /\ slips' = slips \cup lost
  BY DEF TakeStatus, Walking
<1>2. page \in Pages /\ stack \in Seq(Frame)
  BY DEF WalkInv, Types
<1>3. Top \in Frame /\ 1 \in DOMAIN stack
  BY <1>1, <1>2, StackIs DEF Top
<1>4. Top.messages \in Seq(Item) /\ rest \in Seq(Item) /\ it \in Item
  <2>1. Top.messages \in Seq(Item)
    BY <1>3 DEF Frame
  <2>. QED
    BY <1>1, <2>1, HeadTailProperties
<1>5. stack' = [stack EXCEPT ![1] = G]
  BY <1>1, <1>2, <1>3 DEF TakeStatus, Top, Frame
<1>a. first \in Nat \ {0}
  OBVIOUS
<1>. HIDE DEF rest, first, it, cbs
<1>b. /\ G \in Frame /\ G.of = Top.of /\ G.j = first
      /\ G.messages = rest /\ G.chunks = Top.chunks
  BY <1>3, <1>4, <1>a DEF Frame
<1>. HIDE DEF G
<1>6. /\ G \in Frame /\ G.of = Top.of /\ G.j = 1 /\ ~(G.j > 1)
      /\ G.messages = Tail(Top.messages) /\ G.chunks = Top.chunks
  BY <1>b DEF rest, first
<1>7. Top.j = 1
  <2>1. ~(Top.j > 1)
    BY <1>1, <1>3 DEF WalkInv, Orderly, Top, it
  <2>. QED
    BY <1>3, <2>1 DEF Frame
<1>8. it.at \in [Chans -> {None} \cup 0..MaxMessages]
  BY <1>1, <1>4 DEF Item, Message, Status
<1>c. \A c \in Chans : About(it, c) <=> it.at[c] # None
  BY <1>1 DEF About
<1>9. ASSUME NEW k \in DOMAIN cbs
      PROVE  /\ new[k] \in Callback /\ new[k].chan = cbs[k].chan
             /\ new[k].alone = cbs[k].alone
             /\ new[k].last = IF About(it, cbs[k].chan)
                              THEN it.at[cbs[k].chan] ELSE cbs[k].last
  <2>1. cbs[k] \in Callback /\ cbs[k].chan \in Chans
    BY <1>2, CallbacksAre DEF cbs
  <2>2. CASE it.at[cbs[k].chan] # None
    <3>1. it.at[cbs[k].chan] \in LastIds
      BY <1>8, <2>1, <2>2 DEF LastIds
    <3>2. new[k] = [cbs[k] EXCEPT !.last = it.at[cbs[k].chan]]
      BY <2>2
    <3>. HIDE DEF new
    <3>. QED
      BY <1>c, <2>1, <2>2, <3>1, <3>2 DEF Callback
  <2>3. CASE it.at[cbs[k].chan] = None
    <3>1. new[k] = cbs[k]
      BY <2>3
    <3>. QED
      BY <1>c, <2>1, <2>3, <3>1
  <2>. QED
    BY <2>2, <2>3
<1>10. new \in Seq(Callback) /\ DOMAIN new = DOMAIN cbs
  <2>1. Len(cbs) \in Nat /\ DOMAIN cbs = 1..Len(cbs)
    BY <1>2, CallbacksAre DEF cbs
  <2>2. DOMAIN new = DOMAIN cbs /\ new = [k \in 1..Len(cbs) |-> new[k]]
    BY <2>1
  <2>. HIDE DEF new
  <2>. QED
    BY <1>9, <2>1, <2>2, IsASeq
<1>. HIDE DEF new
<1>11. /\ page' \in Pages /\ page'.callbacks = new
       /\ page'.later = page.later /\ page'.paused = page.paused
       /\ page'.req = page.req /\ page'.longPoll = page.longPoll
       /\ page'.started = page.started /\ page'.stopped = page.stopped
  BY <1>1, <1>2, <1>10 DEF Pages
<1>12. ASSUME NEW k \in DOMAIN cbs, cbs[k].alone
       PROVE  Walked(page', log, G, k) /\ k \notin missed
  <2>. DEFINE c == cbs[k].chan
              last == cbs[k].last
  <2>1. Walked(page, log, Top, k)
    BY <1>1, <1>12, AtBase DEF cbs
  <2>2. PICK to \in 0..Len(log) : /\ Rest(log, Top, c, last, to)
                                  /\ page.req.open => to = page.req.upto
    BY <2>1 DEF Walked, cbs
  <2>3. c \in Chans /\ last \in Int /\ to \in Int
    BY <1>2, CallbacksAre DEF cbs
  <2>4. Called(page', G, k)
    BY <1>6 DEF Called
  <2>5. CASE About(it, c)
    <3>1. /\ last < 0 /\ it.at[c] \in Nat /\ it.at[c] <= to
          /\ Rest(log, G, c, it.at[c], to)
      BY <1>1, <1>3, <1>6, <1>7, <2>2, <2>3, <2>5, RestTold DEF it
    <3>2. k \notin missed
      BY <2>3, <3>1
    <3>3. new[k].last = it.at[c] /\ new[k].chan = c
      BY <1>9, <2>5
    <3>4. ASSUME page.req.open, Within(page.req, cbs[k])
          PROVE  Within(page.req, new[k])
      <4>1. page.req.want[c] \in Int /\ page.req.want[c] <= last
        <5>1. /\ page.req.want \in [Chans -> {None} \cup LastIds]
              /\ LastIds \subseteq Int
          BY <1>2 DEF Pages, Request, LastIds
        <5>. QED
          BY <2>3, <3>4, <5>1 DEF Within
      <4>2. page.req.want[c] <= it.at[c] /\ page.req.want[c] # None
        BY <2>3, <3>1, <3>4, <4>1 DEF Within
      <4>3. it.at[c] <= page.req.upto
        BY <2>2, <3>1, <3>4
      <4>. QED
        BY <3>3, <4>2, <4>3 DEF Within
    <3>5. page.req.open =>
            page.req.chunked /\ page.req.begun /\ Within(page.req, new[k])
      BY <2>1, <3>4 DEF Walked, cbs
    <3>6. \E u \in 0..Len(log) : /\ Rest(log, G, c, it.at[c], u)
                                 /\ page.req.open => u = page.req.upto
      BY <2>2, <3>1
    <3>7. Walked(page', log, G, k)
      BY <1>11, <2>4, <3>3, <3>5, <3>6 DEF Walked
    <3>. QED
      BY <3>2, <3>7
  <2>6. CASE ~About(it, c)
    <3>1. Rest(log, G, c, last, to)
      BY <1>1, <1>3, <1>6, <2>2, <2>3, <2>6, RestPassed DEF it
    <3>2. k \notin named
      BY <1>c, <2>3, <2>6
    <3>3. new[k].last = last /\ new[k].chan = c
      BY <1>9, <2>6
    <3>4. page.req.open =>
            page.req.chunked /\ page.req.begun /\ Within(page.req, new[k])
      BY <2>1, <3>3 DEF Walked, Within, cbs
    <3>5. Walked(page', log, G, k)
      BY <1>11, <2>2, <2>4, <3>1, <3>3, <3>4 DEF Walked
    <3>. QED
      BY <3>2, <3>5
  <2>. QED
    BY <2>5, <2>6
<1>13. slips' \subseteq {"lost", "again"} \X BOOLEAN /\ AloneMissesNothing'
  <2>1. \A k \in missed : k \in DOMAIN cbs /\ cbs[k].alone \in BOOLEAN
    BY <1>2, CallbacksAre DEF cbs
  <2>2. \A k \in missed : cbs[k].alone = FALSE
    BY <1>12, <2>1
  <2>. HIDE DEF missed
  <2>3. \A s \in lost : s = <<"lost", FALSE>>
    BY <2>2
  <2>. HIDE DEF lost
  <2>a. /\ <<"lost", FALSE>> \in {"lost", "again"} \X BOOLEAN
        /\ ~(<<"lost", FALSE>>[2])
    OBVIOUS
  <2>4. \A s \in lost : s \in {"lost", "again"} \X BOOLEAN /\ ~s[2]
    BY <2>3, <2>a
  <2>5. /\ slips \subseteq {"lost", "again"} \X BOOLEAN
        /\ \A s \in slips : ~s[2]
    BY DEF WalkInv, Types, AloneMissesNothing
  <2>. QED
    BY <1>1, <2>4, <2>5 DEF AloneMissesNothing
<1>. HIDE DEF missed, lost, named
<1>14. Types' /\ Orderly'
  <2>1. DOMAIN page'.callbacks = DOMAIN page.callbacks
    BY <1>10, <1>11 DEF cbs
  <2>. QED
    BY <1>1, <1>5, <1>6, <1>11, <1>13, <2>1, TopKept
<1>15. ASSUME NEW k \in DOMAIN page.callbacks
       PROVE  Alone(page', stack', log, k)
  <2>1. DOMAIN page'.callbacks = DOMAIN page.callbacks
    BY <1>10, <1>11 DEF cbs
  <2>2. \A i \in DOMAIN page.callbacks :
          /\ page'.callbacks[i].chan = page.callbacks[i].chan
          /\ page'.callbacks[i].alone = page.callbacks[i].alone
    BY <1>9, <1>11 DEF cbs
  <2>3. page.callbacks[k].alone => Walked(page', log, G, k)
    BY <1>12 DEF cbs
  <2>. QED
    BY <1>1, <1>5, <1>6, <1>11, <2>1, <2>2, <2>3, AloneWalked
<1>16. AllAlone'
  BY <1>1, <1>10, <1>11, <1>15 DEF AllAlone, cbs
<1>. QED
  BY <1>13, <1>14, <1>16 DEF WalkInv
\* A message is handed to a callback once, and none before it was passed over.
LEMMA HandsKept ==
  ASSUME WalkInv, CallFunc
  PROVE  WalkInv'
<1>. DEFINE it == Head(Top.messages)
            cbs == page.callbacks
<1>1. /\ stack # <<>> /\ Top.messages # <<>> /\ it.kind = "message"
      /\ log' = log
  BY DEF CallFunc, Walking
<1>2. page \in Pages /\ stack \in Seq(Frame)
  BY DEF WalkInv, Types
<1>3. Top \in Frame /\ 1 \in DOMAIN stack
  BY <1>1, <1>2, StackIs DEF Top
<1>4. Top.messages \in Seq(Item) /\ it \in Message
  <2>1. Top.messages \in Seq(Item)
    BY <1>3 DEF Frame
  <2>2. it \in Item
    BY <1>1, <2>1, HeadTailProperties
  <2>. QED
    BY <1>1, <2>1, <2>2 DEF Item, Status
<1>5. PICK m \in DOMAIN cbs :
        /\ Matches(m)
        /\ stack' = [stack EXCEPT ![1].j = m + 1, ![1].calling = TRUE]
        /\ page' = [page EXCEPT !.callbacks[m].last = it.id]
        /\ slips' = slips \cup Slips(cbs[m], it.id)
  BY DEF CallFunc
<1>6. /\ Len(cbs) \in Nat /\ DOMAIN cbs = 1..Len(cbs)
      /\ m \in Nat /\ m + 1 \in Nat \ {0} /\ m + 1 > 1
      /\ \A k \in DOMAIN cbs : cbs[k] \in Callback
  <2>1. Len(cbs) \in Nat /\ DOMAIN cbs = 1..Len(cbs)
    BY <1>2, CallbacksAre
  <2>2. \A k \in DOMAIN cbs : cbs[k] \in Callback
    BY <1>2, CallbacksAre
  <2>3. m \in 1..Len(cbs)
    BY <2>1
  <2>. HIDE DEF cbs
  <2>. QED
    BY <2>1, <2>2, <2>3
<1>. DEFINE next == m + 1
            G == [Top EXCEPT !.j = next, !.calling = TRUE]
            cb == [cbs[m] EXCEPT !.last = it.id]
            new == [cbs EXCEPT ![m] = cb]
<1>7. stack' = [stack EXCEPT ![1] = G]
  BY <1>2, <1>3, <1>5 DEF Top, Frame
<1>8. page' = [page EXCEPT !.callbacks = new]
  BY <1>2, <1>5 DEF Pages
<1>9. /\ m >= Top.j /\ cbs[m].chan = it.chan
  BY <1>5 DEF Matches
<1>10. it.id \in Ids /\ it.id \in LastIds /\ it.chan \in Chans
  <2>1. MaxMessages \in Nat
    BY PageAssumption
  <2>2. it.id \in Ids /\ it.chan \in Chans
    BY <1>4 DEF Message
  <2>. QED
    BY <2>1, <2>2 DEF Ids, LastIds
<1>a. next \in Nat \ {0} /\ next > 1
  BY <1>6
<1>. HIDE DEF it, cbs, next
<1>b. /\ G \in Frame /\ G.of = Top.of /\ G.j = next
      /\ G.messages = Top.messages /\ G.chunks = Top.chunks
  BY <1>3, <1>a DEF Frame
<1>. HIDE DEF G
<1>11. cb \in Callback /\ cb.chan = cbs[m].chan /\ cb.alone = cbs[m].alone
       /\ cb.last = it.id
  BY <1>6, <1>10 DEF Callback
<1>. HIDE DEF cb
<1>12. /\ new \in Seq(Callback) /\ DOMAIN new = DOMAIN cbs /\ new[m] = cb
       /\ \A k \in DOMAIN cbs : k # m => new[k] = cbs[k]
  <2>1. cbs \in Seq(Callback)
    BY <1>2 DEF Pages, cbs
  <2>. QED
    BY <1>11, <2>1, ExceptSeq
<1>. HIDE DEF new
<1>13. /\ page' \in Pages /\ page'.callbacks = new
       /\ page'.later = page.later /\ page'.paused = page.paused
       /\ page'.req = page.req /\ page'.longPoll = page.longPoll
       /\ page'.started = page.started /\ page'.stopped = page.stopped
  BY <1>2, <1>8, <1>12 DEF Pages
<1>14. ASSUME NEW k \in DOMAIN cbs, cbs[k].alone
       PROVE  /\ Walked(page', log, G, k)
              /\ k = m => Slips(cbs[m], it.id) = {}
  <2>. DEFINE c == cbs[k].chan
              last == cbs[k].last
  <2>1. Walked(page, log, Top, k) /\ OnlyOf(page, k)
    BY <1>1, <1>14, AtBase DEF cbs
  <2>2. PICK to \in 0..Len(log) : /\ Rest(log, Top, c, last, to)
                                  /\ page.req.open => to = page.req.upto
    BY <2>1 DEF Walked, cbs
  <2>3. c \in Chans /\ last \in Int /\ to \in Int
    BY <1>2, CallbacksAre DEF cbs
  <2>4. CASE k = m
    <3>1. Top.j = 1
      <4>1. Top.j > 1 => m < Top.j
        BY <1>9, <2>1, <2>4 DEF Walked, Called, cbs, it
      <4>. QED
        BY <1>3, <1>6, <1>9, <4>1 DEF Frame
    <3>2. c = it.chan
      BY <1>9, <2>4
    <3>3. /\ it.id \in Nat /\ 0 <= last /\ last < it.id /\ it.id <= to
          /\ Span(log, c, last, it.id - 1) = {}
          /\ Rest(log, G, c, it.id, to)
      <4>1. G.j > 1
        BY <1>a, <1>b
      <4>. QED
        BY <1>1, <1>3, <1>b, <2>2, <2>3, <3>1, <3>2, <4>1, RestHanded DEF it
    <3>4. Slips(cbs[m], it.id) = {}
      <4>1. Between(c, last, it.id - 1) = {}
        BY <3>3 DEF Between, Span
      <4>2. ~(last >= it.id)
        BY <2>3, <3>3
      <4>. QED
        BY <2>4, <4>1, <4>2 DEF Slips
    <3>5. new[k].last = it.id /\ new[k].chan = c
      BY <1>11, <1>12, <2>4
    <3>6. Called(page', G, k)
      BY <1>6, <1>b, <2>4 DEF Called, next
    <3>7. ASSUME page.req.open
          PROVE  page.req.chunked /\ page.req.begun /\ Within(page.req, new[k])
      <4>1. /\ page.req.chunked /\ page.req.begun /\ Within(page.req, cbs[k])
            /\ to = page.req.upto
        BY <2>1, <2>2, <3>7 DEF Walked, cbs
      <4>2. page.req.want[c] \in Int /\ page.req.want[c] <= last
        <5>1. /\ page.req.want \in [Chans -> {None} \cup LastIds]
              /\ LastIds \subseteq Int
          BY <1>2 DEF Pages, Request, LastIds
        <5>. QED
          BY <2>3, <4>1, <5>1 DEF Within
      <4>3. page.req.want[c] <= it.id /\ page.req.want[c] # None
        BY <2>3, <3>3, <4>1, <4>2 DEF Within
      <4>. QED
        BY <3>3, <3>5, <4>1, <4>3 DEF Within
    <3>8. Walked(page', log, G, k)
      BY <1>13, <2>2, <3>3, <3>5, <3>6, <3>7 DEF Walked
    <3>. QED
      BY <3>4, <3>8
  <2>5. CASE k # m
    <3>1. c # it.chan
      BY <1>9, <2>1, <2>5 DEF OnlyOf, cbs
    <3>2. ~About(Head(Top.messages), c)
      BY <1>1, <3>1 DEF About, it
    <3>3. Rest(log, G, c, last, to)
      BY <1>4, <1>b, <2>2, <3>2, RestSame
    <3>4. new[k] = cbs[k]
      BY <1>12, <2>5
    <3>5. Called(page', G, k)
      BY <1>13, <1>b, <3>1, <3>4 DEF Called, it
    <3>6. Walked(page', log, G, k)
      BY <1>13, <2>1, <2>2, <3>3, <3>4, <3>5 DEF Walked, cbs
    <3>. QED
      BY <2>5, <3>6
  <2>. QED
    BY <2>4, <2>5
<1>15. slips' \subseteq {"lost", "again"} \X BOOLEAN /\ AloneMissesNothing'
  <2>1. cbs[m].alone \in BOOLEAN
    BY <1>6 DEF Callback
  <2>2. \A s \in Slips(cbs[m], it.id) :
          s = <<"lost", cbs[m].alone>> \/ s = <<"again", cbs[m].alone>>
    BY DEF Slips
  <2>3. \A s \in Slips(cbs[m], it.id) :
          s \in {"lost", "again"} \X BOOLEAN /\ s[2] = cbs[m].alone
    BY <2>1, <2>2
  <2>4. \A s \in Slips(cbs[m], it.id) : ~s[2]
    BY <1>14, <2>1, <2>3
  <2>5. /\ slips \subseteq {"lost", "again"} \X BOOLEAN
        /\ \A s \in slips : ~s[2]
    BY DEF WalkInv, Types, AloneMissesNothing
  <2>6. slips' = slips \cup Slips(cbs[m], it.id)
    BY <1>5 DEF it, cbs
  <2>. QED
    BY <2>3, <2>4, <2>5, <2>6 DEF AloneMissesNothing
<1>16. Types' /\ Orderly'
  <2>1. DOMAIN page'.callbacks = DOMAIN page.callbacks
    BY <1>12, <1>13 DEF cbs
  <2>2. G.messages # <<>> /\ Head(G.messages).kind = "message"
    BY <1>1, <1>b DEF it
  <2>. QED
    BY <1>1, <1>7, <1>b, <1>13, <1>15, <2>1, <2>2, TopKept
<1>17. ASSUME NEW k \in DOMAIN page.callbacks
       PROVE  Alone(page', stack', log, k)
  <2>1. DOMAIN page'.callbacks = DOMAIN page.callbacks
    BY <1>12, <1>13 DEF cbs
  <2>2. \A i \in DOMAIN page.callbacks :
          /\ page'.callbacks[i].chan = page.callbacks[i].chan
          /\ page'.callbacks[i].alone = page.callbacks[i].alone
    BY <1>11, <1>12, <1>13 DEF cbs
  <2>3. page.callbacks[k].alone => Walked(page', log, G, k)
    BY <1>14 DEF cbs
  <2>. QED
    BY <1>1, <1>7, <1>b, <1>13, <2>1, <2>2, <2>3, AloneWalked
<1>18. AllAlone'
  BY <1>1, <1>12, <1>13, <1>17 DEF AllAlone, cbs
<1>. QED
  BY <1>15, <1>16, <1>18 DEF WalkInv

\* A function returns: the walk is where it was.
LEMMA ReturnKept ==
  ASSUME WalkInv, FuncReturns
  PROVE  WalkInv'
<1>. DEFINE G == [Top EXCEPT !.calling = FALSE]
<1>1. stack # <<>> /\ UNCHANGED <<page, log, slips>>
  BY DEF FuncReturns
<1>2. page \in Pages /\ stack \in Seq(Frame)
  BY DEF WalkInv, Types
<1>3. Top \in Frame /\ 1 \in DOMAIN stack
  BY <1>1, <1>2, StackIs DEF Top
<1>4. stack' = [stack EXCEPT ![1] = G]
  BY <1>1, <1>2, <1>3 DEF FuncReturns, Top, Frame
<1>5. /\ G \in Frame /\ G.of = Top.of /\ G.j = Top.j
      /\ G.messages = Top.messages /\ G.chunks = Top.chunks
  BY <1>3 DEF Frame
<1>. HIDE DEF G
<1>6. Top.j > 1 => Top.messages # <<>> /\ Head(Top.messages).kind = "message"
  BY <1>3 DEF WalkInv, Orderly, Top
<1>7. Types' /\ Orderly'
  <2>1. slips' \subseteq {"lost", "again"} \X BOOLEAN
    BY <1>1 DEF WalkInv, Types
  <2>. QED
    BY <1>1, <1>2, <1>4, <1>5, <1>6, <2>1, TopKept
<1>a. G.of = stack[1].of
  BY <1>5 DEF Top
<1>8. /\ DOMAIN stack' = DOMAIN stack /\ stack'[1] = G
      /\ \A i \in DOMAIN stack : i # 1 => stack'[i] = stack[i]
      /\ Answering(stack') <=> Answering(stack)
      /\ Base(stack') = IF Len(stack) = 1 THEN G ELSE Base(stack)
  BY <1>1, <1>2, <1>4, <1>5, <1>a, TopReplaced
<1>9. /\ Base(stack').j = Base(stack).j
      /\ Base(stack').messages = Base(stack).messages
      /\ Base(stack').chunks = Base(stack).chunks
  BY <1>5, <1>8 DEF Base, Top
<1>10. \A i \in DOMAIN stack' : /\ stack'[i].of = stack[i].of
                                /\ stack'[i].messages = stack[i].messages
                                /\ stack'[i].chunks = stack[i].chunks
  BY <1>5, <1>8 DEF Top
<1>11. ASSUME NEW k \in DOMAIN page.callbacks
       PROVE  Alone(page, stack', log, k)
  <2>1. Alone(page, stack, log, k)
    BY DEF WalkInv, AllAlone
  <2>2. ASSUME Answering(stack), Walked(page, log, Base(stack), k)
        PROVE  Walked(page, log, Base(stack'), k)
    <3>1. Base(stack).messages \in Seq(Item)
      <4>1. Base(stack) \in Frame
        BY <1>1, <1>2, StackIs DEF Base
      <4>. QED
        BY <4>1 DEF Frame
    <3>2. \A c, last, to : Rest(log, Base(stack), c, last, to) =>
                             Rest(log, Base(stack'), c, last, to)
      BY <1>9, <3>1, RestSame
    <3>3. Called(page, Base(stack'), k)
      BY <1>9, <2>2 DEF Walked, Called
    <3>. QED
      BY <2>2, <3>2, <3>3 DEF Walked
  <2>. QED
    BY <1>8, <1>10, <2>1, <2>2 DEF Alone
<1>12. AllAlone'
  BY <1>1, <1>11 DEF AllAlone
<1>. QED
  BY <1>1, <1>7, <1>12 DEF WalkInv, AloneMissesNothing
\* A walk ends: of a stack of one, what was left of the answer is nothing.
LEMMA EndKept ==
  ASSUME WalkInv, EndWalk
  PROVE  WalkInv'
<1>. DEFINE n == Len(stack)
<1>1. /\ stack # <<>> /\ Top.messages = <<>> /\ Top.chunks = <<>>
      /\ stack' = Tail(stack) /\ UNCHANGED <<log, slips>>
  BY DEF EndWalk, Walking
<1>2. page \in Pages /\ stack \in Seq(Frame) /\ Sound(page)
  BY Sane DEF WalkInv, Types
<1>3. /\ Top \in Frame /\ 1 \in DOMAIN stack /\ n \in Nat \ {0}
      /\ DOMAIN stack = 1..n
  BY <1>1, <1>2, StackIs DEF Top
<1>4. /\ stack' \in Seq(Frame) /\ Len(stack') = n - 1
      /\ DOMAIN stack' = 1..n - 1
      /\ \A i \in 1..n - 1 : stack'[i] = stack[i + 1]
  <2>1. /\ stack' \in Seq(Frame) /\ Len(stack') = n - 1
        /\ \A i \in 1..n - 1 : stack'[i] = stack[i + 1]
    BY <1>1, <1>2, HeadTailProperties
  <2>. QED
    BY <2>1, LenProperties
<1>. HIDE DEF n
<1>5. \A i \in 1..n - 1 : i + 1 \in 1..n
  BY <1>3
<1>6. n = 1 => stack' = <<>>
  BY <1>4, EmptySeq
<1>7. n # 1 => stack' # <<>> /\ Base(stack') = Base(stack)
  <2>. SUFFICES ASSUME n # 1
                PROVE  stack' # <<>> /\ Base(stack') = Base(stack)
    OBVIOUS
  <2>1. n - 1 # 0 /\ n - 1 \in 1..n - 1 /\ (n - 1) + 1 = n
    BY <1>3
  <2>2. stack' # <<>>
    BY <1>4, <2>1, EmptySeq
  <2>3. stack'[n - 1] = stack[n]
    BY <1>4, <2>1
  <2>. QED
    BY <1>4, <2>2, <2>3 DEF Base, n
<1>8. /\ Sound(page') /\ page'.callbacks = page.callbacks
      /\ page'.paused = page.paused
      /\ page'.req = page.req \/ ~page'.req.open
      /\ page'.later = page.later \/ page'.later = <<>>
      /\ page.started \/ page.stopped => page'.started \/ page'.stopped
      /\ Top.of = "resume" => page'.later = <<>>
  <2>1. CASE Top.of = "progress"
    BY <1>2, <2>1 DEF EndWalk
  <2>2. CASE Top.of = "success"
    <3>1. page' = Complete(page, "success", Top.got)
      BY <2>2 DEF EndWalk
    <3>2. Polled(page, page') /\ ~page'.req.open
      BY <1>2, <3>1, CompletePolled
    <3>. QED
      BY <2>2, <3>2 DEF Polled
  <2>3. CASE Top.of = "resume"
    <3>1. page' = [page EXCEPT !.later = <<>>]
      BY <2>3 DEF EndWalk
    <3>2. <<>> \in Seq(Item)
      OBVIOUS
    <3>3. /\ page' \in Pages /\ page'.callbacks = page.callbacks
          /\ page'.later = <<>> /\ page'.paused = page.paused
          /\ page'.req = page.req /\ page'.longPoll = page.longPoll
          /\ page'.started = page.started /\ page'.stopped = page.stopped
      BY <1>2, <3>1, <3>2 DEF Pages
    <3>. QED
      BY <1>2, <3>3 DEF Sound
  <2>. QED
    BY <1>3, <2>1, <2>2, <2>3 DEF Frame
<1>9. Types'
  BY <1>1, <1>4, <1>8 DEF WalkInv, Types, Sound
<1>10. Orderly'
  <2>1. ASSUME NEW i \in DOMAIN stack', stack'[i].of # "resume"
        PROVE  i = Len(stack')
    <3>1. i + 1 \in 1..n /\ stack'[i] = stack[i + 1]
      BY <1>4, <1>5
    <3>2. i + 1 = n
      BY <1>3, <2>1, <3>1 DEF WalkInv, Orderly, n
    <3>3. i \in 1..n - 1
      BY <1>4
    <3>. QED
      BY <1>3, <1>4, <3>2, <3>3
  <2>2. ASSUME NEW i \in DOMAIN stack', stack'[i].j > 1
        PROVE  /\ stack'[i].messages # <<>>
               /\ Head(stack'[i].messages).kind = "message"
    <3>1. i + 1 \in DOMAIN stack /\ stack'[i] = stack[i + 1]
      BY <1>3, <1>4, <1>5
    <3>. QED
      BY <2>2, <3>1 DEF WalkInv, Orderly
  <2>3. ASSUME page'.later # <<>>
        PROVE  page'.paused \/ \E i \in DOMAIN stack' : stack'[i].of = "resume"
    <3>1. Top.of # "resume" /\ page.later # <<>>
      BY <1>8, <2>3
    <3>2. n = 1
      BY <1>3, <3>1 DEF WalkInv, Orderly, Top, n
    <3>3. \A i \in DOMAIN stack : stack[i] = Top
      BY <1>3, <3>2 DEF Top
    <3>. QED
      BY <1>8, <3>1, <3>3 DEF WalkInv, Orderly
  <2>. QED
    BY <1>8, <2>1, <2>2, <2>3 DEF WalkInv, Orderly, Sound
<1>11. ASSUME NEW k \in DOMAIN page'.callbacks
       PROVE  Alone(page', stack', log, k)
  <2>. SUFFICES ASSUME page'.callbacks[k].alone
                PROVE  Alone(page', stack', log, k)
    BY DEF Alone
  <2>1. Alone(page, stack, log, k) /\ page.callbacks[k].alone
    BY <1>8, <1>11 DEF WalkInv, AllAlone
  <2>2. OnlyOf(page', k) /\ ~page'.paused /\ page'.later = <<>>
    BY <1>8, <2>1 DEF Alone, OnlyOf
  <2>3. ASSUME NEW i \in DOMAIN stack', stack'[i].of = "resume"
        PROVE  stack'[i].messages = <<>> /\ stack'[i].chunks = <<>>
    <3>1. i + 1 \in DOMAIN stack /\ stack'[i] = stack[i + 1]
      BY <1>3, <1>4, <1>5
    <3>. QED
      BY <2>1, <2>3, <3>1 DEF Alone
  <2>4. CASE n # 1
    <3>1. Answering(stack') <=> Answering(stack)
      BY <1>1, <1>7, <2>4 DEF Answering
    <3>2. Walked(page, log, Base(stack), k) =>
            Walked(page', log, Base(stack'), k)
      BY <1>7, <1>8, <2>4 DEF Walked, Called
    <3>3. Idle(page, log, k) => Idle(page', log, k)
      BY <1>8 DEF Idle
    <3>. QED
      BY <2>1, <2>2, <2>3, <3>1, <3>2, <3>3 DEF Alone
  <2>5. CASE n = 1
    <3>1. ~Answering(stack') /\ Base(stack) = Top
      BY <1>6, <2>5 DEF Answering, Base, Top, n
    <3>2. CASE Answering(stack)
      <4>. DEFINE c == page.callbacks[k].chan
                  last == page.callbacks[k].last
      <4>1. Walked(page, log, Top, k)
        BY <2>1, <3>1, <3>2 DEF Alone
      <4>2. PICK to \in 0..Len(log) : /\ Rest(log, Top, c, last, to)
                                      /\ page.req.open => to = page.req.upto
        BY <4>1 DEF Walked
      <4>3. c \in Chans /\ last \in Int
        BY <1>2, <1>8, CallbacksAre
      <4>4. last >= 0 /\ Span(log, c, last, to) = {}
        BY <1>1, <1>3, <4>2, <4>3, RestNothing
      <4>5. Idle(page', log, k)
        BY <1>8, <4>1, <4>2, <4>4 DEF Walked, Idle
      <4>. QED
        BY <2>2, <2>3, <3>1, <4>5 DEF Alone
    <3>3. CASE ~Answering(stack)
      <4>1. Idle(page', log, k)
        BY <1>8, <2>1, <3>3 DEF Alone, Idle
      <4>. QED
        BY <2>2, <2>3, <3>1, <4>1 DEF Alone
    <3>. QED
      BY <3>2, <3>3
  <2>. QED
    BY <2>4, <2>5
<1>12. AllAlone'
  BY <1>1, <1>11 DEF AllAlone
<1>. QED
  BY <1>1, <1>9, <1>10, <1>12 DEF WalkInv, AloneMissesNothing

-----------------------------------------------------------------------------
(* Publications and answers keep it.                                       *)

LEMMA PublishKept ==
  ASSUME WalkInv, Publish
  PROVE  WalkInv'
<1>1. /\ stack = <<>> /\ Len(log) < MaxMessages
      /\ UNCHANGED <<page, stack, slips>>
  BY DEF Publish
<1>2. PICK d \in Chans : log' = Append(log, d)
  BY DEF Publish
<1>3. log \in Seq(Chans) /\ page \in Pages
  BY DEF WalkInv, Types
<1>4. /\ log' \in Seq(Chans) /\ Len(log') = Len(log) + 1
      /\ \A i \in 1..Len(log) : log'[i] = log[i]
      /\ DOMAIN log = 1..Len(log) /\ DOMAIN log' = 1..Len(log) + 1
      /\ Len(log) \in Nat
  <2>1. /\ log' \in Seq(Chans) /\ Len(log') = Len(log) + 1
        /\ \A i \in 1..Len(log) : log'[i] = log[i]
    BY <1>2, <1>3, AppendProperties
  <2>. QED
    BY <1>3, <2>1, LenProperties
<1>5. page.req.open => page.req.upto \in Int /\ page.req.upto <= Len(log)
  BY <1>3 DEF WalkInv, Types, Pages, Request
<1>6. Types'
  <2>1. MaxMessages \in Nat
    BY PageAssumption
  <2>2. Len(log') <= MaxMessages
    BY <1>1, <1>4, <2>1
  <2>3. page'.req.open => page'.req.upto <= Len(log')
    BY <1>1, <1>4, <1>5
  <2>. QED
    BY <1>1, <1>4, <2>2, <2>3 DEF WalkInv, Types
<1>7. Orderly'
  BY <1>1 DEF WalkInv, Orderly
<1>8. ASSUME NEW k \in DOMAIN page.callbacks
      PROVE  Alone(page, stack, log', k)
  <2>. DEFINE c == page.callbacks[k].chan
              last == page.callbacks[k].last
  <2>1. Alone(page, stack, log, k)
    BY DEF WalkInv, AllAlone
  <2>2. ~Answering(stack)
    BY <1>1 DEF Answering
  <2>3. ASSUME page.req.open
        PROVE  Span(log', c, last, page.req.upto)
                 = Span(log, c, last, page.req.upto)
    <3>1. last \in Int
      BY <1>3, CallbacksAre
    <3>. HIDE DEF last, c
    <3>2. \A i \in last + 1..page.req.upto :
            /\ i \in DOMAIN log' <=> i \in DOMAIN log
            /\ i \in DOMAIN log => log'[i] = log[i]
      BY <1>4, <1>5, <2>3, <3>1
    <3>. QED
      BY <3>2 DEF Span
  <2>. QED
    BY <2>1, <2>2, <2>3 DEF Alone, Idle
<1>9. AllAlone'
  BY <1>1, <1>8 DEF AllAlone
<1>. QED
  BY <1>1, <1>6, <1>7, <1>9 DEF WalkInv, AloneMissesNothing
LEMMA UnchunkedKept ==
  ASSUME WalkInv, Unchunked
  PROVE  WalkInv'
<1>. DEFINE r == [page.req EXCEPT !.chunked = FALSE, !.begun = TRUE]
<1>1. /\ stack = <<>> /\ UNCHANGED <<stack, log, slips>>
      /\ page.req.open /\ page.req.chunked /\ ~page.req.begun
  BY DEF Unchunked, Event
<1>2. page \in Pages /\ page.req \in Request
  BY DEF WalkInv, Types, Pages
<1>3. page' = [page EXCEPT !.req = r, !.chunkedTimeout = FALSE]
  BY <1>2 DEF Unchunked, Pages, Request
<1>4. /\ r \in Request /\ r.open = page.req.open /\ r.chunked = FALSE
      /\ r.want = page.req.want /\ r.upto = page.req.upto
  BY <1>2 DEF Request
<1>. HIDE DEF r
<1>5. /\ page' \in Pages /\ page'.callbacks = page.callbacks
      /\ page'.later = page.later /\ page'.paused = page.paused
      /\ page'.req = r /\ page'.longPoll = page.longPoll
      /\ page'.started = page.started /\ page'.stopped = page.stopped
  BY <1>2, <1>3, <1>4 DEF Pages
<1>6. Types'
  BY <1>1, <1>4, <1>5 DEF WalkInv, Types
<1>7. Orderly'
  BY <1>1, <1>4, <1>5 DEF WalkInv, Orderly
<1>8. ASSUME NEW k \in DOMAIN page'.callbacks
      PROVE  Alone(page', stack, log, k)
  <2>1. Alone(page, stack, log, k)
    BY <1>5, <1>8 DEF WalkInv, AllAlone
  <2>2. ~Answering(stack)
    BY <1>1 DEF Answering
  <2>3. page.callbacks[k].alone => Idle(page', log, k)
    BY <1>1, <1>4, <1>5, <2>1, <2>2 DEF Alone, Idle
  <2>. QED
    BY <1>5, <2>1, <2>2, <2>3 DEF Alone, OnlyOf
<1>9. AllAlone'
  BY <1>1, <1>8 DEF AllAlone
<1>. QED
  BY <1>1, <1>6, <1>7, <1>9 DEF WalkInv, AloneMissesNothing

\* The walk of an answer.
LEMMA AnswerIs ==
  ASSUME NEW of \in {"progress", "success"}, NEW chunks \in Seq(Seq(Item)),
         Len(chunks) \in {1, 2}
  PROVE  LET w == Walk(of, <<>>, chunks, FALSE)
         IN  /\ w.of = of /\ w.chunks = chunks /\ Answered(w)
             /\ <<w>> \in Seq(Frame) /\ Answering(<<w>>) /\ Base(<<w>>) = w
             /\ DOMAIN <<w>> = {1} /\ <<w>>[1] = w /\ Len(<<w>>) = 1
<1>. DEFINE w == Walk(of, <<>>, chunks, FALSE)
<1>1. /\ w \in Frame /\ w.of = of /\ w.chunks = chunks /\ w.messages = <<>>
      /\ w.j = 1
  <2>1. <<>> \in Seq(Item)
    OBVIOUS
  <2>. QED
    BY <2>1 DEF Walk, Frame
<1>2. Answered(w)
  BY <1>1 DEF Answered
<1>. HIDE DEF w
<1>3. /\ <<w>> \in Seq(Frame) /\ Len(<<w>>) = 1 /\ <<w>>[1] = w
      /\ DOMAIN <<w>> = {1}
  BY <1>1
<1>4. Base(<<w>>) = w /\ Answering(<<w>>)
  BY <1>1, <1>3 DEF Base, Answering
<1>. QED
  BY <1>1, <1>2, <1>3, <1>4 DEF w

\* An answer begins, and what it brings goes on from every callback's position.
LEMMA AnswerKept ==
  ASSUME WalkInv, stack = <<>>, NEW of \in {"progress", "success"},
         NEW chunks \in Seq(Seq(Item)), Len(chunks) \in {1, 2},
         Answer(of, chunks),
         page' \in Pages, page'.callbacks = page.callbacks,
         page'.later = page.later, page'.paused = page.paused,
         page'.started = page.started, page'.stopped = page.stopped,
         page'.longPoll = page.longPoll, page'.req.open => page.req.open,
         NEW to \in 0..Len(log), page'.req.open => page'.req.upto = to,
         \A k \in DOMAIN page.callbacks :
           page.callbacks[k].alone /\ Idle(page, log, k) =>
             /\ \A w : w.chunks = chunks /\ Answered(w) =>
                  Rest(log, w, page.callbacks[k].chan, page.callbacks[k].last,
                       to)
             /\ page'.req.open => /\ page'.req.chunked /\ page'.req.begun
                                  /\ Within(page'.req, page.callbacks[k])
  PROVE  WalkInv'
<1>. DEFINE w == Walk(of, <<>>, chunks, FALSE)
<1>1. stack' = <<w>> /\ UNCHANGED <<log, slips>>
  BY DEF Answer
<1>2. /\ w.of = of /\ w.chunks = chunks /\ Answered(w)
      /\ <<w>> \in Seq(Frame) /\ Answering(<<w>>) /\ Base(<<w>>) = w
      /\ DOMAIN <<w>> = {1} /\ <<w>>[1] = w /\ Len(<<w>>) = 1
  BY AnswerIs
<1>. HIDE DEF w
<1>3. w.messages = <<>> /\ w.j = 1
  BY <1>2 DEF Answered
<1>a. log \in Seq(Chans) /\ Len(log) \in Nat
  BY LenProperties DEF WalkInv, Types
<1>4. Types'
  BY <1>1, <1>2, <1>a DEF WalkInv, Types
<1>5. Orderly'
  <2>1. page.later # <<>> => page.paused
    BY DEF WalkInv, Orderly
  <2>2. \A i \in DOMAIN stack' : i = Len(stack') /\ ~(stack'[i].j > 1)
    BY <1>1, <1>2, <1>3
  <2>. QED
    BY <2>1, <2>2 DEF WalkInv, Orderly
<1>6. ASSUME NEW k \in DOMAIN page'.callbacks
      PROVE  Alone(page', stack', log, k)
  <2>. SUFFICES ASSUME page'.callbacks[k].alone
                PROVE  Alone(page', stack', log, k)
    BY DEF Alone
  <2>1. /\ Alone(page, stack, log, k) /\ page.callbacks[k].alone
        /\ k \in DOMAIN page.callbacks
    BY <1>6 DEF WalkInv, AllAlone
  <2>2. Idle(page, log, k)
    BY <2>1 DEF Alone, Answering
  <2>3. Rest(log, w, page.callbacks[k].chan, page.callbacks[k].last, to)
    BY <1>2, <2>1, <2>2
  <2>4. page'.req.open => /\ page'.req.chunked /\ page'.req.begun
                          /\ Within(page'.req, page.callbacks[k])
    BY <2>1, <2>2
  <2>5. Called(page', w, k)
    BY <1>3 DEF Called
  <2>6. Walked(page', log, w, k)
    BY <2>3, <2>4, <2>5 DEF Walked
  <2>7. OnlyOf(page', k) /\ ~page'.paused /\ page'.later = <<>>
    BY <2>1 DEF Alone, OnlyOf
  <2>8. \A i \in DOMAIN stack' : stack'[i].of # "resume"
    BY <1>1, <1>2
  <2>. QED
    BY <1>1, <1>2, <2>6, <2>7, <2>8 DEF Alone
<1>7. AllAlone'
  BY <1>1, <1>6 DEF AllAlone
<1>. QED
  BY <1>1, <1>4, <1>5, <1>7 DEF WalkInv, AloneMissesNothing

\* The backlog up to position mid, and perhaps what follows up to position to,
\* go on from the position a request gave.
LEMMA BacklogRest ==
  ASSUME Known, NEW w, Answered(w), NEW c \in Chans,
         NEW mid \in 0..MaxMessages, NEW to \in 0..MaxMessages, mid <= to,
         page.req.want[c] \in LastIds,
         w.chunks[1] = Backlog(mid),
         IF Len(w.chunks) = 1 THEN mid = to
         ELSE w.chunks[2] = Messages(Chans, mid, to)
  PROVE  Rest(log, w, c, page.req.want[c], to)
<1>. DEFINE last == page.req.want[c]
<1>1. last # None
  BY PageAssumption DEF LastIds
<1>2. mid \in Nat /\ to \in Int /\ mid \in Int /\ Chans \in SUBSET Chans
  OBVIOUS
<1>3. /\ last \in Nat =>
           Gives(Backlog(mid), c,
                 {n \in DOMAIN log : log[n] = c /\ n <= mid /\ last < n})
      /\ last = -1 => Tells(Backlog(mid), c, mid)
  BY BacklogIs
<1>4. Gives(Messages(Chans, mid, to), c,
            {n \in DOMAIN log : /\ log[n] = c /\ mid < n /\ n <= to
                                /\ last < n})
  <2>1. \A d \in Chans : page.req.want[d] # None =>
          Gives(Messages(Chans, mid, to), d,
                {n \in DOMAIN log : /\ log[n] = d /\ mid < n /\ n <= to
                                    /\ page.req.want[d] < n})
    <3>. HIDE DEF last
    <3>. QED
      BY <1>2, MessagesAre
  <2>. QED
    BY <1>1, <2>1
<1>5. \A n \in DOMAIN log : n \in Nat \ {0}
  BY DEF Known
<1>6. last = -1 \/ last \in Nat
  BY DEF LastIds
<1>. HIDE DEF last
<1>7. CASE last \in Nat
  <2>1. {n \in DOMAIN log : log[n] = c /\ n <= mid /\ last < n}
          = {n \in Span(log, c, last, to) : n <= mid}
    BY <1>2, <1>5, <1>7 DEF Span
  <2>2. {n \in DOMAIN log : /\ log[n] = c /\ mid < n /\ n <= to /\ last < n}
          = {n \in Span(log, c, last, to) : n > mid}
    BY <1>2, <1>5, <1>7 DEF Span
  <2>3. Gives(w.chunks[1], c, {n \in Span(log, c, last, to) : n <= mid})
    BY <1>3, <1>7, <2>1
  <2>4. IF Len(w.chunks) = 1 THEN mid = to
        ELSE Gives(w.chunks[2], c, {n \in Span(log, c, last, to) : n > mid})
    BY <1>4, <2>2
  <2>. QED
    BY <1>2, <1>7, <2>3, <2>4, RestGiven DEF last
<1>8. CASE last = -1
  <2>1. {n \in DOMAIN log : /\ log[n] = c /\ mid < n /\ n <= to /\ last < n}
          = Span(log, c, mid, to)
    BY <1>2, <1>5, <1>8 DEF Span
  <2>2. IF Len(w.chunks) = 1 THEN mid = to
        ELSE Gives(w.chunks[2], c, Span(log, c, mid, to))
    BY <1>4, <2>1
  <2>3. Rest(log, w, c, -1, to)
    BY <1>2, <1>3, <1>8, <2>2, RestOfNew
  <2>. QED
    BY <1>8, <2>3 DEF last
<1>. QED
  BY <1>6, <1>7, <1>8

LEMMA MessagesGive ==
  ASSUME Known, NEW c \in Chans, page.req.want[c] # None,
         NEW from \in Int, NEW to \in Int
  PROVE  Gives(Messages(Chans, from, to), c,
               {n \in DOMAIN log : /\ log[n] = c /\ from < n /\ n <= to
                                   /\ page.req.want[c] < n})
<1>1. Chans \in SUBSET Chans
  OBVIOUS
<1>. QED
  BY <1>1, MessagesAre

\* Chunks that follow go on from a callback that was brought up to the
\* request's position.
LEMMA ChunksRest ==
  ASSUME Known, NEW w, Answered(w), NEW cb \in Callback, cb.last >= 0,
         Within(page.req, cb),
         Span(log, cb.chan, cb.last, page.req.upto) = {},
         NEW mid \in Int, NEW to \in Int, page.req.upto <= mid, mid <= to,
         w.chunks[1] = Messages(Chans, page.req.upto, mid),
         IF Len(w.chunks) = 1 THEN mid = to
         ELSE w.chunks[2] = Messages(Chans, mid, to)
  PROVE  Rest(log, w, cb.chan, cb.last, to)
<1>. DEFINE c == cb.chan
            last == cb.last
            want == page.req.want[c]
            upto == page.req.upto
<1>1. /\ c \in Chans /\ last \in Nat
      /\ upto \in Nat /\ Chans \in SUBSET Chans
  <2>1. cb.last \in Int
    BY DEF Callback, LastIds
  <2>. QED
    BY <2>1 DEF Callback, Known, Request
<1>2. /\ want \in Int /\ want # None /\ want <= last
      /\ last <= upto \/ last = want
  <2>1. /\ page.req.want \in [Chans -> {None} \cup LastIds]
        /\ LastIds \subseteq Int
    BY DEF Known, Request, LastIds
  <2>. QED
    BY <1>1, <2>1 DEF Within
<1>3. /\ Gives(Messages(Chans, upto, mid), c,
               {n \in DOMAIN log : /\ log[n] = c /\ upto < n /\ n <= mid
                                   /\ want < n})
      /\ Gives(Messages(Chans, mid, to), c,
               {n \in DOMAIN log : /\ log[n] = c /\ mid < n /\ n <= to
                                   /\ want < n})
  <2>1. upto \in Int /\ c \in Chans
    BY <1>1
  <2>2. page.req.want[c] # None
    BY <1>2
  <2>. HIDE DEF c, last, upto
  <2>3. Gives(Messages(Chans, upto, mid), c,
              {n \in DOMAIN log : /\ log[n] = c /\ upto < n /\ n <= mid
                                  /\ page.req.want[c] < n})
    BY <2>1, <2>2, MessagesGive
  <2>4. Gives(Messages(Chans, mid, to), c,
              {n \in DOMAIN log : /\ log[n] = c /\ mid < n /\ n <= to
                                  /\ page.req.want[c] < n})
    BY <2>1, <2>2, MessagesGive
  <2>. QED
    BY <2>3, <2>4
<1>4. \A n \in DOMAIN log : n \in Nat \ {0}
  BY DEF Known
<1>5. Span(log, c, last, upto) = {}
  OBVIOUS
<1>. HIDE DEF c, last, want, upto
<1>6. ASSUME NEW n \in DOMAIN log, log[n] = c
      PROVE  last < n <=> upto < n /\ want < n
  <2>1. n \in Nat
    BY <1>4
  <2>2. ASSUME last < n PROVE upto < n /\ want < n
    <3>1. ~(n <= upto)
      <4>1. ASSUME n <= upto PROVE FALSE
        <5>1. n \in last + 1..upto
          BY <1>1, <2>1, <2>2, <4>1
        <5>. QED
          BY <1>5, <1>6, <5>1 DEF Span
      <4>. QED
        BY <4>1
    <3>. QED
      BY <1>1, <1>2, <2>1, <2>2, <3>1
  <2>3. ASSUME upto < n, want < n PROVE last < n
    BY <1>1, <1>2, <2>1, <2>3
  <2>. QED
    BY <2>2, <2>3
<1>7. {n \in DOMAIN log : /\ log[n] = c /\ upto < n /\ n <= mid /\ want < n}
        = {n \in Span(log, c, last, to) : n <= mid}
  <2>1. \A n \in DOMAIN log : last < n /\ n <= to <=> n \in last + 1..to
    BY <1>1, <1>4
  <2>2. \A n \in DOMAIN log : n <= mid => n <= to
    BY <1>4
  <2>. QED
    BY <1>6, <2>1, <2>2 DEF Span
<1>8. {n \in DOMAIN log : /\ log[n] = c /\ mid < n /\ n <= to /\ want < n}
        = {n \in Span(log, c, last, to) : n > mid}
  <2>1. \A n \in DOMAIN log : last < n /\ n <= to <=> n \in last + 1..to
    BY <1>1, <1>4
  <2>2. \A n \in DOMAIN log : (mid < n <=> n > mid) /\ (mid < n => upto < n)
    BY <1>1, <1>4 DEF upto
  <2>. QED
    BY <1>6, <2>1, <2>2 DEF Span
<1>9. Gives(w.chunks[1], c, {n \in Span(log, c, last, to) : n <= mid})
  BY <1>3, <1>7 DEF upto
<1>10. IF Len(w.chunks) = 1 THEN mid = to
       ELSE Gives(w.chunks[2], c, {n \in Span(log, c, last, to) : n > mid})
  BY <1>3, <1>8
<1>11. Rest(log, w, c, last, to)
  BY <1>1, <1>9, <1>10, RestGiven
<1>. QED
  BY <1>11 DEF c, last
LEMMA ReplyKept ==
  ASSUME WalkInv, Reply
  PROVE  WalkInv'
<1>. DEFINE r == [page.req EXCEPT !.open = FALSE]
<1>1. /\ stack = <<>> /\ page.req.open /\ ~page.req.chunked
      /\ page' = [page EXCEPT !.req.open = FALSE]
  BY DEF Reply
<1>2. PICK to \in page.req.upto..Len(log) :
        Answer("success", <<Backlog(to)>>)
  BY DEF Reply
<1>3. page \in Pages /\ page.req \in Request /\ Known
  BY Sane DEF WalkInv, Types, Pages
<1>4. r \in Request /\ r.open = FALSE /\ page' = [page EXCEPT !.req = r]
  BY <1>1, <1>3 DEF Pages, Request
<1>. HIDE DEF r
<1>5. /\ page' \in Pages /\ page'.callbacks = page.callbacks
      /\ page'.later = page.later /\ page'.paused = page.paused
      /\ page'.req = r /\ page'.longPoll = page.longPoll
      /\ page'.started = page.started /\ page'.stopped = page.stopped
  BY <1>3, <1>4 DEF Pages
<1>6. /\ to \in 0..Len(log) /\ to \in 0..MaxMessages /\ to <= to
      /\ Backlog(to) \in Seq(Item)
  <2>1. page.req.upto \in Nat /\ Len(log) \in Nat /\ Len(log) <= MaxMessages
    BY <1>3 DEF Request, Known
  <2>2. MaxMessages \in Nat
    BY PageAssumption
  <2>3. to \in 0..Len(log) /\ to \in 0..MaxMessages /\ to <= to
    BY <2>1, <2>2
  <2>. QED
    BY <1>3, <2>3, BacklogIs
<1>. DEFINE chunks == <<Backlog(to)>>
<1>7. /\ chunks \in Seq(Seq(Item)) /\ Len(chunks) = 1
      /\ chunks[1] = Backlog(to)
  BY <1>6
<1>8. Answer("success", chunks)
  BY <1>2
<1>. HIDE DEF chunks
<1>9. ASSUME NEW k \in DOMAIN page.callbacks, Idle(page, log, k),
             NEW w, w.chunks = chunks, Answered(w)
      PROVE  Rest(log, w, page.callbacks[k].chan, page.callbacks[k].last, to)
  <2>1. page.req.want[page.callbacks[k].chan] = page.callbacks[k].last
    BY <1>1, <1>9 DEF Idle
  <2>2. /\ page.callbacks[k].chan \in Chans
        /\ page.callbacks[k].last \in LastIds
    BY <1>3, CallbacksAre
  <2>. QED
    BY <1>3, <1>6, <1>7, <1>9, <2>1, <2>2, BacklogRest
<1>. QED
  BY <1>1, <1>4, <1>5, <1>6, <1>7, <1>8, <1>9, AnswerKept

\* The chunks of a step of Progress.
Chunk(from, to) ==
  IF page.req.begun THEN Messages(Chans, from, to) ELSE Backlog(to)

LEMMA ProgressKept ==
  ASSUME WalkInv, Progress
  PROVE  WalkInv'
<1>. DEFINE upto == page.req.upto
<1>1. stack = <<>> /\ page.req.open /\ page.req.chunked
  BY DEF Progress
<1>2. PICK to \in upto..Len(log) :
        /\ \/ Answer("progress", <<Chunk(upto, to)>>)
           \/ \E mid \in upto..to - 1 :
                Answer("progress", <<Chunk(upto, mid),
                                     Messages(Chans, mid, to)>>)
        /\ page' = [page EXCEPT !.chunkedTimeout = FALSE,
                                !.req.begun = TRUE, !.req.upto = to]
  BY DEF Progress, Chunk
<1>3. page \in Pages /\ page.req \in Request /\ Known
  BY Sane DEF WalkInv, Types, Pages
<1>4. /\ upto \in Nat /\ Len(log) \in Nat /\ Len(log) <= MaxMessages
      /\ MaxMessages \in Nat
  BY <1>3, PageAssumption DEF Request, Known
<1>5. to \in 0..Len(log) /\ to \in 0..MaxMessages /\ upto <= to
  BY <1>4
<1>. DEFINE r == [page.req EXCEPT !.begun = TRUE, !.upto = to]
<1>6. page' = [page EXCEPT !.req = r, !.chunkedTimeout = FALSE]
  BY <1>2, <1>3 DEF Pages, Request
<1>7. /\ r \in Request /\ r.open = page.req.open
      /\ r.chunked = page.req.chunked /\ r.begun = TRUE
      /\ r.want = page.req.want /\ r.upto = to
  BY <1>3, <1>5 DEF Request
<1>. HIDE DEF r
<1>8. /\ page' \in Pages /\ page'.callbacks = page.callbacks
      /\ page'.later = page.later /\ page'.paused = page.paused
      /\ page'.req = r /\ page'.longPoll = page.longPoll
      /\ page'.started = page.started /\ page'.stopped = page.stopped
  BY <1>3, <1>6, <1>7 DEF Pages
<1>9. PICK mid \in upto..to, chunks \in Seq(Seq(Item)) :
        /\ Answer("progress", chunks) /\ Len(chunks) \in {1, 2}
        /\ chunks[1] = Chunk(upto, mid)
        /\ IF Len(chunks) = 1 THEN mid = to
           ELSE chunks[2] = Messages(Chans, mid, to)
  <2>0. ASSUME NEW m \in 0..MaxMessages
        PROVE  /\ Chunk(upto, m) \in Seq(Item)
               /\ Messages(Chans, m, to) \in Seq(Item)
    <3>1. /\ Chans \in SUBSET Chans /\ upto \in Int /\ to \in Int
          /\ m \in Int
      BY <1>4, <1>5
    <3>. HIDE DEF upto
    <3>2. /\ Messages(Chans, upto, m) \in Seq(Item)
          /\ Messages(Chans, m, to) \in Seq(Item)
      BY <1>3, <3>1, MessagesAre
    <3>3. Backlog(m) \in Seq(Item)
      BY <1>3, BacklogIs
    <3>. QED
      BY <3>2, <3>3 DEF Chunk
  <2>1. CASE Answer("progress", <<Chunk(upto, to)>>)
    <3>. DEFINE x == <<Chunk(upto, to)>>
    <3>1. /\ x \in Seq(Seq(Item)) /\ Len(x) = 1 /\ x[1] = Chunk(upto, to)
          /\ Answer("progress", x)
      BY <1>5, <2>0, <2>1
    <3>2. to \in upto..to
      BY <1>4, <1>5
    <3>. HIDE DEF x
    <3>. QED
      BY <3>1, <3>2
  <2>2. CASE \E mid \in upto..to - 1 :
               Answer("progress", <<Chunk(upto, mid),
                                    Messages(Chans, mid, to)>>)
    <3>1. PICK mid \in upto..to - 1 :
            Answer("progress", <<Chunk(upto, mid), Messages(Chans, mid, to)>>)
      BY <2>2
    <3>. DEFINE x == <<Chunk(upto, mid), Messages(Chans, mid, to)>>
    <3>2. mid \in upto..to /\ mid \in 0..MaxMessages
      BY <1>4, <1>5
    <3>3. /\ x \in Seq(Seq(Item)) /\ Len(x) = 2 /\ x[1] = Chunk(upto, mid)
          /\ x[2] = Messages(Chans, mid, to) /\ Answer("progress", x)
      BY <2>0, <3>1, <3>2
    <3>. HIDE DEF x
    <3>. QED
      BY <3>2, <3>3
  <2>. QED
    BY <1>2, <2>1, <2>2
<1>10. /\ mid \in 0..MaxMessages /\ mid \in Int /\ to \in Int
       /\ upto <= mid /\ mid <= to
  BY <1>4, <1>5
<1>11. ASSUME NEW k \in DOMAIN page.callbacks, Idle(page, log, k)
       PROVE  /\ \A w : w.chunks = chunks /\ Answered(w) =>
                   Rest(log, w, page.callbacks[k].chan, page.callbacks[k].last,
                        to)
              /\ Within(r, page.callbacks[k])
  <2>. DEFINE cb == page.callbacks[k]
  <2>1. /\ cb \in Callback /\ cb.chan \in Chans
        /\ cb.last \in LastIds /\ cb.last \in Int
    BY <1>3, CallbacksAre
  <2>. HIDE DEF cb
  <2>2. CASE page.req.begun
    <3>1. /\ cb.last >= 0 /\ Within(page.req, cb)
          /\ Span(log, cb.chan, cb.last, upto) = {}
      BY <1>1, <1>11, <2>2 DEF Idle, cb
    <3>2. ASSUME NEW w, w.chunks = chunks, Answered(w)
          PROVE  Rest(log, w, cb.chan, cb.last, to)
      BY <1>3, <1>9, <1>10, <2>1, <2>2, <3>1, <3>2, ChunksRest DEF Chunk
    <3>3. Within(r, cb)
      BY <1>4, <1>5, <1>7, <2>1, <3>1 DEF Within
    <3>. QED
      BY <3>2, <3>3 DEF cb
  <2>3. CASE ~page.req.begun
    <3>1. page.req.want[cb.chan] = cb.last
      BY <1>1, <1>11, <2>3 DEF Idle, cb
    <3>2. ASSUME NEW w, w.chunks = chunks, Answered(w)
          PROVE  Rest(log, w, cb.chan, cb.last, to)
      <4>1. page.req.want[cb.chan] \in LastIds
        BY <2>1, <3>1
      <4>2. w.chunks[1] = Backlog(mid)
        BY <1>9, <2>3, <3>2 DEF Chunk
      <4>3. IF Len(w.chunks) = 1 THEN mid = to
            ELSE w.chunks[2] = Messages(Chans, mid, to)
        BY <1>9, <3>2
      <4>4. Rest(log, w, cb.chan, page.req.want[cb.chan], to)
        BY <1>3, <1>5, <1>10, <2>1, <3>2, <4>1, <4>2, <4>3, BacklogRest
      <4>. QED
        BY <3>1, <4>4
    <3>3. Within(r, cb)
      <4>1. cb.last # None /\ cb.last <= cb.last
        BY <2>1, PageAssumption
      <4>. QED
        BY <1>7, <3>1, <4>1 DEF Within
    <3>. QED
      BY <3>2, <3>3 DEF cb
  <2>. QED
    BY <2>2, <2>3
<1>12. \A k \in DOMAIN page.callbacks :
         page.callbacks[k].alone /\ Idle(page, log, k) =>
           /\ \A w : w.chunks = chunks /\ Answered(w) =>
                Rest(log, w, page.callbacks[k].chan, page.callbacks[k].last,
                     to)
           /\ page'.req.open => /\ page'.req.chunked /\ page'.req.begun
                                /\ Within(page'.req, page.callbacks[k])
  BY <1>1, <1>7, <1>8, <1>11
<1>13. /\ page'.req.open => page.req.open
       /\ page'.req.open => page'.req.upto = to
  BY <1>7, <1>8
<1>. QED
  BY <1>1, <1>5, <1>8, <1>9, <1>12, <1>13, AnswerKept

-----------------------------------------------------------------------------
(* What a callback that has its channel to itself is handed.               *)

LEMMA WalkInit == Init => WalkInv
<1>. SUFFICES ASSUME Init PROVE WalkInv
  OBVIOUS
<1>1. stack = <<>> /\ log = <<>> /\ slips = {}
  BY DEF Init
<1>2. PICK a \in Adapters, c \in Chunking :
        page = [callbacks |-> <<>>, later |-> <<>>, req |-> NoRequest,
                started |-> FALSE, stopped |-> FALSE, paused |-> FALSE,
                hidden |-> FALSE, failCount |-> 0, chunkedBackoff |-> 0,
                ajaxInProgress |-> FALSE, longPoll |-> FALSE,
                pollTimeout |-> "none", delayPollTimeout |-> FALSE,
                chunkedTimeout |-> FALSE, adapter |-> a, allowChunked |-> c]
  BY DEF Init
<1>3. /\ 0 \in 0..Patience + 1 /\ 0 \in 0..RetryChunked /\ "none" \in Waits
      /\ c \in BOOLEAN /\ MaxMessages \in Nat
      /\ <<>> \in Seq(Callback) /\ <<>> \in Seq(Item)
      /\ <<>> \in Seq(Frame) /\ <<>> \in Seq(Chans)
  BY PageAssumption DEF Waits
<1>4. /\ page \in Pages /\ page.callbacks = <<>> /\ page.later = <<>>
      /\ page.req = NoRequest
  BY <1>2, <1>3, NoRequestType DEF Pages
<1>5. Types
  BY <1>1, <1>3, <1>4, NoRequestType DEF Types
<1>6. Orderly
  BY <1>1, <1>4, NoRequestType DEF Orderly
<1>7. AllAlone /\ AloneMissesNothing
  BY <1>1, <1>4 DEF AllAlone, AloneMissesNothing
<1>. QED
  BY <1>5, <1>6, <1>7 DEF WalkInv

LEMMA WalkStep == WalkInv /\ [Next]_vars => WalkInv'
<1>. SUFFICES ASSUME WalkInv, [Next]_vars PROVE WalkInv'
  OBVIOUS
<1>1. ASSUME UNCHANGED vars PROVE WalkInv'
  BY <1>1 DEF vars, WalkInv, Types, Orderly, AllAlone, AloneMissesNothing
<1>2. CASE PageSubscribes \/ PageUnsubscribes \/ PageStops \/ PageStarts
  BY <1>2, SubscribesKept, UnsubscribesKept, StopsKept, StartsKept
<1>3. CASE PagePauses \/ PageResumes
  BY <1>3, PausesKept, ResumesKept
<1>4. CASE Walks
  BY <1>4, ChunkKept, HandsKept, ReturnKept, MessageKept, StatusKept, EndKept
     DEF Walks
<1>5. CASE Timers \/ FirstChunkTimer \/ VisibilityChange
  BY <1>5, TimersKept
<1>6. CASE Publish \/ Server
  BY <1>6, PublishKept, ReplyKept, UnchunkedKept, ProgressKept DEF Server
<1>7. CASE Finish \/ RequestFails
  BY <1>7, FailuresKept
<1>8. CASE Quiet
  BY <1>1, <1>8 DEF Quiet
<1>. QED
  BY <1>1, <1>2, <1>3, <1>4, <1>5, <1>6, <1>7, <1>8 DEF Next

LEMMA WalkInvariant == Spec => []WalkInv
  BY WalkInit, WalkStep, PTL DEF Spec

\* Every variable of the client keeps to its values, in any order of calls,
\* events and steps of a walk.
THEOREM TypeCorrect == Spec => []TypeOK
<1>1. WalkInv => TypeOK
  <2>. SUFFICES ASSUME WalkInv PROVE TypeOK
    OBVIOUS
  <2>1. /\ page \in Pages /\ stack \in Seq(Frame) /\ log \in Seq(Chans)
        /\ slips \subseteq {"lost", "again"} \X BOOLEAN
    BY DEF WalkInv, Types
  <2>. QED
    BY <2>1 DEF Pages, TypeOK
<1>. QED
  BY <1>1, WalkInvariant, PTL

\* A callback that has its channel to itself is handed every message after its
\* position, and none twice: whatever is aborted, fails, is stopped, restarted
\* or unsubscribed, also by functions called in the middle of a walk.
THEOREM AloneMissesNothingAlways == Spec => []AloneMissesNothing
<1>1. WalkInv => AloneMissesNothing
  BY DEF WalkInv
<1>. QED
  BY <1>1, WalkInvariant, PTL
=============================================================================

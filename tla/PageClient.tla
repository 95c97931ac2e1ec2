----------------------------- MODULE PageClient -----------------------------
(***************************************************************************)
(* A page's client, src/assets/message-bus.js, with either of its ajax     *)
(* adapters: jQuery.ajax or src/assets/message-bus-ajax.js.                *)
(*                                                                         *)
(* JavaScript runs one event at a time, so a timer, an answer or a call of *)
(* the page is one step; but a callback handed a message may call the      *)
(* client again, so a walk of processMessages is a frame on a stack and    *)
(* takes a step for each callback it calls.  abort completes the request   *)
(* before it returns: error and complete run inside the call.              *)
(*                                                                         *)
(* The server is external.  It keeps one log for all channels; an id is a  *)
(* position in it, of which only the order matters to the page.            *)
(***************************************************************************)
EXTENDS Integers, Sequences, FiniteSets, SequencesExt

CONSTANTS
  Chans, Funcs, None,
  Adapters,        \* a subset of {"jquery", "bare"}
  Chunking,        \* whether chunks are allowed, a subset of {TRUE, FALSE}
  Garbled,         \* bound: what may get an answer that is not JSON: the
                   \* adapters, and "unchunked", a chunked request answered
                   \* as if in JSON
  InitialLast,     \* the last ids the page subscribes with
  Calls,           \* what the page calls: a subset of {"subscribe", ...}
  Patience,        \* failures in a row before the client backs off: 2
  RetryChunked,    \* retryChunkedAfterRequests: 30
  MaxMessages,     \* bound: publications
  MaxCalls,        \* bound: calls of the page, by adapter
  MaxTroubles,     \* bound: failed and refused requests and changes of
                   \* visibility
  MaxLater         \* bound: messages put off while paused

ASSUME PageAssumption ==
  /\ InitialLast \subseteq {-1} \cup Nat /\ None \notin Int
  /\ Adapters \subseteq {"jquery", "bare"}
  /\ Garbled \subseteq Adapters \cup {"unchunked"}
  /\ Chunking \subseteq BOOLEAN
  /\ MaxCalls \in [{"jquery", "bare"} -> Nat]
  /\ {Patience, MaxMessages, MaxTroubles, MaxLater} \subseteq Nat
  /\ RetryChunked \in Nat \ {0}

VARIABLES
  page,            \* the variables of message-bus.js and the request
  stack,           \* the walks of processMessages, the innermost first
  log,             \* the server: log[n] is the channel of message n
  spent,           \* the bounds used up: calls, faults and what is none,
                   \* a 429 or a change of visibility
  slips            \* history: what a callback was not handed, or handed twice

vars == <<page, stack, log, spent, slips>>

Ids == 1..MaxMessages
LastIds == {-1} \cup Nat
Message == [kind : {"message"}, chan : Chans, id : Ids]
Status == [kind : {"status"}, at : [Chans -> {None} \cup 0..MaxMessages]]
Callback == [chan : Chans, func : Funcs, last : LastIds, alone : BOOLEAN]
Request == [open : BOOLEAN, chunked : BOOLEAN, begun : BOOLEAN,
            want : [Chans -> {None} \cup LastIds],
            upto : 0..MaxMessages]
Item == Message \cup Status
Frame == [of : {"progress", "success", "resume"}, messages : Seq(Item),
          chunks : Seq(Seq(Item)), j : Nat \ {0}, calling : BOOLEAN,
          got : BOOLEAN]
Waits == {"none", "min", "backoff", "limited", "interval"}

TypeOK ==
  /\ page.callbacks \in Seq(Callback)
  /\ page.later \in Seq(Item)
  /\ page.req \in Request
  /\ page.pollTimeout \in Waits
  /\ page.failCount \in 0..Patience + 1
  /\ page.chunkedBackoff \in 0..RetryChunked
  /\ page.adapter \in Adapters
  /\ \A f \in {"started", "stopped", "paused", "hidden", "ajaxInProgress",
               "longPoll", "delayPollTimeout", "chunkedTimeout",
               "allowChunked"} : page[f] \in BOOLEAN
  /\ stack \in Seq(Frame)
  /\ log \in Seq(Chans)
  /\ slips \subseteq {"lost", "again"} \X BOOLEAN

NoRequest == [open |-> FALSE, chunked |-> FALSE, begun |-> FALSE,
              want |-> [c \in Chans |-> None], upto |-> 0]

Init ==
  /\ page \in {[callbacks |-> <<>>, later |-> <<>>, req |-> NoRequest,
                started |-> FALSE, stopped |-> FALSE, paused |-> FALSE,
                hidden |-> FALSE, failCount |-> 0, chunkedBackoff |-> 0,
                ajaxInProgress |-> FALSE, longPoll |-> FALSE,
                pollTimeout |-> "none", delayPollTimeout |-> FALSE,
                chunkedTimeout |-> FALSE, adapter |-> a, allowChunked |-> c] :
                  a \in Adapters, c \in Chunking}
  /\ stack = <<>>
  /\ log = <<>>
  /\ spent = [calls |-> 0, faults |-> 0, others |-> 0]
  /\ slips = {}

-----------------------------------------------------------------------------
(* What a call does to page p, the calls it makes included.                *)

\* A set of numbers as a sequence, the lowest first.
Ascending(ids) ==
  CHOOSE s \in [1..Cardinality(ids) -> ids] :
    /\ ToSet(s) = ids
    /\ \A i, k \in DOMAIN s : i < k => s[i] < s[k]

\* data[channel] is the position of the channel's last callback.
Position(p, c) ==
  LET on == {k \in DOMAIN p.callbacks : p.callbacks[k].chan = c}
  IN  IF on = {} THEN None ELSE p.callbacks[Max(on)].last

\* Neither alwaysLongPoll nor shouldLongPollCallback is set.
ShouldLongPoll(p) == ~p.hidden

\* wait: some tab made a request less than minHiddenPollInterval ago.
HiddenTabShouldWait(p, wait) == p.hidden /\ wait

\* Mutant: chunkedBackoff is counted down past 0.
LongPollerUncounted(p) ==
  LET chunked == ShouldLongPoll(p) /\ p.allowChunked /\ p.chunkedBackoff = 0
  IN  [p EXCEPT
         !.ajaxInProgress = TRUE, !.longPoll = TRUE,
         !.chunkedBackoff = @ - 1,
         !.chunkedTimeout = chunked,
         !.req = [open |-> TRUE, chunked |-> chunked, begun |-> FALSE,
                  want |-> [c \in Chans |-> Position(p, c)],
                  upto |-> Len(log)]]

\* longPoller: a request, chunked if the page shows, unless that was given up
\* for a while; never two at a time.
LongPoller(p) ==
  LET chunked == ShouldLongPoll(p) /\ p.allowChunked /\ p.chunkedBackoff = 0
  IN  IF p.ajaxInProgress THEN [p EXCEPT !.longPoll = FALSE]
      ELSE [p EXCEPT
              !.ajaxInProgress = TRUE, !.longPoll = TRUE,
              !.chunkedBackoff = IF @ > 0 THEN @ - 1 ELSE 0,
              !.chunkedTimeout = chunked,
              !.req = [open |-> TRUE, chunked |-> chunked, begun |-> FALSE,
                       want |-> [c \in Chans |-> Position(p, c)],
                       upto |-> Len(log)]]

\* poll, the closure each start makes.
Poll(p, wait) ==
  CASE p.stopped -> p
    [] ~p.stopped /\ (p.callbacks = <<>> \/ HiddenTabShouldWait(p, wait)) ->
         [p EXCEPT !.delayPollTimeout = TRUE]
    [] OTHER -> IF p.longPoll THEN p ELSE LongPoller(p)

\* Mutant: the request is not forgotten.
CompleteKept(p, verdict, gotData) ==
  LET wait == CASE verdict = "limited" -> "limited"
                [] verdict = "abort" -> "min"
                [] verdict \notin {"limited", "abort"} ->
                     IF p.failCount > Patience THEN "backoff"
                     ELSE IF ShouldLongPoll(p) /\ gotData THEN "min"
                     ELSE "interval"
  IN  [p EXCEPT !.ajaxInProgress = FALSE, !.req = NoRequest,
                !.pollTimeout = IF p.started THEN wait ELSE "none"]

\* complete: when to poll next, and the request is forgotten.
Complete(p, verdict, gotData) ==
  LET wait == CASE verdict = "limited" -> "limited"
                [] verdict = "abort" -> "min"
                [] verdict \notin {"limited", "abort"} ->
                     IF p.failCount > Patience THEN "backoff"
                     ELSE IF ShouldLongPoll(p) /\ gotData THEN "min"
                     ELSE "interval"
  IN  [p EXCEPT !.ajaxInProgress = FALSE, !.longPoll = FALSE,
                !.req = NoRequest,
                !.pollTimeout = IF p.started THEN wait ELSE "none"]

\* Mutant: an abort counts as a failure.
FailAborted(p, verdict) ==
  LET q == [p EXCEPT !.chunkedTimeout = FALSE,
                     !.failCount = IF verdict # "limited" /\ @ <= Patience
                                   THEN @ + 1 ELSE @]
  IN  Complete(q, IF verdict = "abort" THEN "fail" ELSE verdict, FALSE)

\* error, then complete.  A failure counts, an abort or a 429 does not.
Fail(p, verdict) ==
  LET q == [p EXCEPT !.chunkedTimeout = FALSE,
                     !.failCount = IF verdict = "fail" /\ @ <= Patience
                                   THEN @ + 1 ELSE @]
  IN  Complete(q, verdict, FALSE)

\* ajaxConvert: text asked for as JSON has to parse; as text, which it is
\* asked for when chunks are allowed, it is left alone.
AjaxConvert(answer, text) == answer # "garbled" \/ text

\* success, given text: what came in chunks is not parsed again, any other text
\* is, and JSON.parse may raise.
Success(answer, chunked) ==
  IF answer = "garbled" /\ ~chunked THEN "raised" ELSE "success"

\* jQuery's done, which acts once for a request: which callback follows an
\* answer without messages, and what error is told.
JQueryDone(answer, text, chunked) ==
  CASE answer = "refused" -> "limited"
    [] answer = "aborted" -> "abort"
    [] answer = "failed" -> "fail"
    [] answer = "garbled" -> IF AjaxConvert(answer, text)
                             THEN Success(answer, chunked) ELSE "fail"

\* The bare adapter, which converts nothing: an aborted request has no status
\* and an empty status text.
BareDone(answer, chunked) ==
  CASE answer = "refused" -> "limited"
    [] answer \in {"aborted", "failed"} -> "fail"
    [] answer = "garbled" -> Success(answer, chunked)

\* A request ends without messages.  It was asked for as text if it allowed
\* chunks, even when its answer declared itself JSON.  When success raises,
\* complete is never called.
Settle(p, answer) ==
  LET chunked == p.req.chunked
      text    == chunked \/ p.req.begun
      verdict == IF p.adapter = "jquery" THEN JQueryDone(answer, text, chunked)
                                         ELSE BareDone(answer, chunked)
  IN  CASE verdict = "success" ->
             Complete([p EXCEPT !.chunkedTimeout = FALSE], "success", FALSE)
        [] verdict = "raised" -> [p EXCEPT !.req.open = FALSE]
        [] OTHER -> Fail(p, verdict)

\* me.longPoll.abort(), which does nothing once the answer is there.
Abort(p) == IF p.longPoll /\ p.req.open THEN Settle(p, "aborted") ELSE p

\* Mutant: the request is aborted before the flags are set.
StopLate(p) ==
  [Abort([p EXCEPT !.pollTimeout = "none", !.delayPollTimeout = FALSE])
     EXCEPT !.stopped = TRUE, !.started = FALSE]

Stop(p) ==
  Abort([p EXCEPT !.stopped = TRUE, !.started = FALSE,
                  !.pollTimeout = "none", !.delayPollTimeout = FALSE])

Start(p, wait) ==
  IF p.started THEN p
  ELSE Poll([p EXCEPT !.started = TRUE, !.stopped = FALSE], wait)

Shared(p, S) ==
  LET cbs == p.callbacks
  IN  [p EXCEPT !.callbacks =
         [k \in DOMAIN cbs |->
            [cbs[k] EXCEPT !.alone = @ /\ cbs[k].chan \notin S]]]

\* Mutant: the request under way is not aborted.
SubscribeOnly(p, c, f, v, wait) ==
  LET q == IF ~p.started /\ ~p.stopped THEN Start(p, wait) ELSE p
      alone == Position(p, c) = None /\ stack = <<>> /\ ~p.paused
  IN  [Shared(q, {c}) EXCEPT !.callbacks =
         Append(@, [chan |-> c, func |-> f, last |-> v, alone |-> alone])]

\* subscribe starts a client that was never started or stopped, and aborts the
\* request under way so that the next one asks for the channel.  History: a
\* callback is alone if it was subscribed outside every walk, has its channel
\* to itself, and the page was not paused since.
Subscribe(p, c, f, v, wait) ==
  LET q == IF ~p.started /\ ~p.stopped THEN Start(p, wait) ELSE p
      alone == Position(p, c) = None /\ stack = <<>> /\ ~p.paused
  IN  Abort([Shared(q, {c}) EXCEPT !.callbacks =
         Append(@, [chan |-> c, func |-> f, last |-> v, alone |-> alone])])

\* unsubscribe: of a channel or, with a trailing *, of several; of one function
\* or of all.
Unsubscribe(p, S, F) ==
  LET cbs  == p.callbacks
      gone == {k \in DOMAIN cbs : cbs[k].chan \in S /\ cbs[k].func \in F}
      kept == Ascending(DOMAIN cbs \ gone)
  IN  IF gone = {} THEN p
      ELSE Abort([p EXCEPT !.callbacks = [k \in DOMAIN kept |-> cbs[kept[k]]]])

-----------------------------------------------------------------------------
(* Calls of the page: between events, or from a callback in a walk.        *)

Calling == stack # <<>> => stack[1].calling

Call(name) ==
  /\ name \in Calls
  /\ Calling
  /\ spent.calls < MaxCalls[page.adapter]
  /\ spent' = [spent EXCEPT !.calls = @ + 1]
  /\ UNCHANGED log

\* The page has its last id from the server: none is ahead of the log.
PageSubscribes ==
  /\ Call("subscribe")
  /\ \E c \in Chans, f \in Funcs, v \in InitialLast, wait \in BOOLEAN :
       /\ v <= Len(log)
       /\ page' = Subscribe(page, c, f, v, wait)
  /\ UNCHANGED <<stack, slips>>

PageUnsubscribes ==
  /\ Call("unsubscribe")
  /\ \E S \in {{c} : c \in Chans} \cup {Chans},
        F \in {{f} : f \in Funcs} \cup {Funcs} :
       page' = Unsubscribe(page, S, F)
  /\ UNCHANGED <<stack, slips>>

PageStops ==
  /\ Call("stop")
  /\ page' = Stop(page)
  /\ UNCHANGED <<stack, slips>>

\* History: started from a walk, the next request is sent with the positions
\* of the moment while the walk goes on.
PageStarts ==
  /\ Call("start")
  /\ \E wait \in BOOLEAN :
       page' = Start(IF stack = <<>> THEN page ELSE Shared(page, Chans), wait)
  /\ UNCHANGED <<stack, slips>>

PagePauses ==
  /\ Call("pause")
  /\ page' = [Shared(page, Chans) EXCEPT !.paused = TRUE]
  /\ UNCHANGED <<stack, slips>>

Walk(of, messages, chunks, got) ==
  [of |-> of, messages |-> messages, chunks |-> chunks, j |-> 1,
   calling |-> FALSE, got |-> got]

\* resume walks what was put off; later is emptied when the walk ends.
PageResumes ==
  /\ Call("resume")
  /\ page' = [page EXCEPT !.paused = FALSE]
  /\ stack' = <<Walk("resume", page.later, <<>>, FALSE)>> \o stack
  /\ UNCHANGED slips

-----------------------------------------------------------------------------
(* A walk: handle_progress, reqSuccess and processMessages.                *)

Top == stack[1]
Walking == stack # <<>> /\ ~stack[1].calling

\* The messages of channel c in the log between two positions, the last
\* included.
Between(c, from, to) == {n \in from + 1..to : n \in DOMAIN log /\ log[n] = c}

\* The next chunk of the payload, or the answer: put off while paused.
TakeChunk ==
  /\ Walking /\ Top.messages = <<>> /\ Top.chunks # <<>>
  /\ LET chunk == Head(Top.chunks)
     IN  /\ page' = [page EXCEPT !.failCount = 0,
                                 !.later = IF page.paused THEN @ \o chunk
                                                          ELSE @]
         /\ stack' = [stack EXCEPT
              ![1].chunks = Tail(@),
              ![1].messages = IF page.paused THEN <<>> ELSE chunk,
              ![1].got = ~page.paused /\ chunk # <<>>]
  /\ UNCHANGED <<log, spent, slips>>

Matches(k) ==
  /\ k >= Top.j
  /\ page.callbacks[k].chan = Head(Top.messages).chan

Slips(cb, id) ==
  (IF cb.last >= 0 /\ Between(cb.chan, cb.last, id - 1) # {}
   THEN {<<"lost", cb.alone>>} ELSE {})
  \cup (IF cb.last >= id THEN {<<"again", cb.alone>>} ELSE {})

\* Mutant: the position is not moved.
CallFuncOnly ==
  /\ Walking /\ Top.messages # <<>> /\ Head(Top.messages).kind = "message"
  /\ \E k \in DOMAIN page.callbacks :
       LET cb == page.callbacks[k]
           id == Head(Top.messages).id
       IN  /\ Matches(k) /\ \A i \in 1..k - 1 : ~Matches(i)
           /\ stack' = [stack EXCEPT ![1].j = k + 1, ![1].calling = TRUE]
           /\ slips' = slips \cup Slips(cb, id)
  /\ UNCHANGED <<page, log, spent>>

\* The next callback of the message's channel: its position moves, then its
\* function is called.
CallFunc ==
  /\ Walking /\ Top.messages # <<>> /\ Head(Top.messages).kind = "message"
  /\ \E k \in DOMAIN page.callbacks :
       LET cb == page.callbacks[k]
           id == Head(Top.messages).id
       IN  /\ Matches(k) /\ \A i \in 1..k - 1 : ~Matches(i)
           /\ stack' = [stack EXCEPT ![1].j = k + 1, ![1].calling = TRUE]
           /\ page' = [page EXCEPT !.callbacks[k].last = id]
           /\ slips' = slips \cup Slips(cb, id)
  /\ UNCHANGED <<log, spent>>

\* It returns, or raises, which is caught.  The array may have changed since:
\* the walk goes on at the next index.
FuncReturns ==
  /\ stack # <<>> /\ Top.calling
  /\ stack' = [stack EXCEPT ![1].calling = FALSE]
  /\ UNCHANGED <<page, log, spent, slips>>

NextMessage ==
  /\ Walking /\ Top.messages # <<>> /\ Head(Top.messages).kind = "message"
  /\ \A k \in DOMAIN page.callbacks : ~Matches(k)
  /\ stack' = [stack EXCEPT ![1].messages = Tail(@), ![1].j = 1]
  /\ UNCHANGED <<page, log, spent, slips>>

\* /__status: the position of every callback it names.
TakeStatus ==
  /\ Walking /\ Top.messages # <<>> /\ Head(Top.messages).kind = "status"
  /\ LET at == Head(Top.messages).at
         cbs == page.callbacks
         named == {k \in DOMAIN cbs : at[cbs[k].chan] # None}
     IN  /\ page' = [page EXCEPT !.callbacks =
                       [k \in DOMAIN cbs |->
                          IF k \in named
                          THEN [cbs[k] EXCEPT !.last = at[cbs[k].chan]]
                          ELSE cbs[k]]]
         /\ slips' = slips \cup
              {<<"lost", cbs[k].alone>> : k \in
                 {i \in named : /\ cbs[i].last >= 0
                                /\ Between(cbs[i].chan, cbs[i].last,
                                           at[cbs[i].chan]) # {}}}
  /\ stack' = [stack EXCEPT ![1].messages = Tail(@), ![1].j = 1]
  /\ UNCHANGED <<log, spent>>

\* success returns and complete follows; resume empties later.
EndWalk ==
  /\ Walking /\ Top.messages = <<>> /\ Top.chunks = <<>>
  /\ stack' = Tail(stack)
  /\ page' = CASE Top.of = "progress" -> page
               [] Top.of = "success" -> Complete(page, "success", Top.got)
               [] Top.of = "resume" -> [page EXCEPT !.later = <<>>]
  /\ UNCHANGED <<log, spent, slips>>

Walks ==
  TakeChunk \/ CallFunc \/ FuncReturns \/ NextMessage \/ TakeStatus \/ EndWalk

-----------------------------------------------------------------------------
(* Timers, and the page's visibility.                                      *)

Event == stack = <<>> /\ UNCHANGED <<stack, slips, log>>

PollTimer ==
  /\ Event
  /\ page.pollTimeout # "none"
  /\ \E wait \in BOOLEAN :
       page' = Poll([page EXCEPT !.pollTimeout = "none"], wait)
  /\ UNCHANGED spent

DelayTimer ==
  /\ Event
  /\ page.delayPollTimeout
  /\ \E wait \in BOOLEAN :
       page' = Poll([page EXCEPT !.delayPollTimeout = FALSE], wait)
  /\ UNCHANGED spent

\* disableChunked: no chunk for firstChunkTimeout, so a proxy may be buffering.
FirstChunkTimer ==
  /\ Event
  /\ page.chunkedTimeout
  /\ page' = LET p == [page EXCEPT !.chunkedTimeout = FALSE]
             IN  IF p.longPoll
                 THEN [Abort(p) EXCEPT !.chunkedBackoff = RetryChunked] ELSE p
  /\ UNCHANGED spent

Untroubled == spent.faults + spent.others < MaxTroubles

\* onVisibilityChange is there from start to stop: a page that shows polls at
\* once instead of when its timer says.
VisibilityChange ==
  /\ Event
  /\ Untroubled
  /\ spent' = [spent EXCEPT !.others = @ + 1]
  /\ page' = LET p == [page EXCEPT !.hidden = ~@]
             IN  IF /\ p.started /\ ~p.hidden /\ ~p.longPoll
                    /\ p.pollTimeout # "none" \/ p.delayPollTimeout
                 THEN Poll([p EXCEPT !.pollTimeout = "none",
                                     !.delayPollTimeout = FALSE], FALSE)
                 ELSE p

-----------------------------------------------------------------------------
(* The server and the network.                                             *)

Publish ==
  /\ stack = <<>>
  /\ Len(log) < MaxMessages
  /\ \E c \in Chans : log' = Append(log, c)
  /\ UNCHANGED <<page, stack, spent, slips>>

\* The messages of channels C from one position of the log to another that the
\* request asked for: of a channel's, those after the position it gave.
Asked(C, from, to) ==
  LET want == page.req.want
  IN  {n \in DOMAIN log : /\ log[n] \in C /\ from < n /\ n <= to
                          /\ want[log[n]] # None /\ want[log[n]] < n}

Messages(C, from, to) ==
  LET ids == Ascending(Asked(C, from, to))
  IN  [k \in DOMAIN ids |-> [kind |-> "message", chan |-> log[ids[k]],
                             id |-> ids[k]]]

\* The backlog of the request as of position to, with a status for the channels
\* that asked for new messages only (Client#backlog).
Backlog(to) ==
  LET want == page.req.want
      new == {c \in Chans : want[c] = -1}
  IN  Messages(Chans \ new, 0, to) \o
      (IF new = {} THEN <<>>
       ELSE <<[kind |-> "status",
               at |-> [c \in Chans |-> IF c \in new THEN to ELSE None]]>>)

Room(chunks) ==
  page.paused => Len(page.later) + Len(FlattenSeq(chunks)) <= MaxLater

Answer(of, chunks) ==
  /\ Room(chunks)
  /\ stack' = <<Walk(of, <<>>, chunks, FALSE)>>
  /\ UNCHANGED <<log, spent, slips>>

\* The whole answer at once: success, and nothing is left to abort.
Reply ==
  /\ stack = <<>> /\ page.req.open /\ ~page.req.chunked
  /\ \E to \in page.req.upto..Len(log) : Answer("success", <<Backlog(to)>>)
  /\ page' = [page EXCEPT !.req.open = FALSE]

\* An answer in JSON to a request that allowed chunks: the first onprogress
\* sees its content type.
Unchunked ==
  /\ Event /\ page.req.open /\ page.req.chunked /\ ~page.req.begun
  /\ page' = [page EXCEPT !.req.chunked = FALSE, !.req.begun = TRUE,
                          !.chunkedTimeout = FALSE]
  /\ UNCHANGED spent

\* onprogress: one chunk, or two that arrived together.  The first chunk of the
\* answer is the backlog.
Progress ==
  /\ stack = <<>> /\ page.req.open /\ page.req.chunked
  /\ LET r == page.req
         chunk(from, to) == IF r.begun THEN Messages(Chans, from, to)
                                       ELSE Backlog(to)
     IN  \E to \in r.upto..Len(log) :
           /\ r.begun => to > r.upto
           /\ \/ Answer("progress", <<chunk(r.upto, to)>>)
              \/ \E mid \in r.upto..to - 1 :
                   /\ r.begun => mid > r.upto
                   /\ Answer("progress", <<chunk(r.upto, mid),
                                           Messages(Chans, mid, to)>>)
           /\ page' = [page EXCEPT !.chunkedTimeout = FALSE,
                                   !.req.begun = TRUE, !.req.upto = to]

\* The server closes a chunked answer: success has nothing to do.
Finish ==
  /\ Event /\ page.req.open /\ page.req.chunked /\ page.req.begun
  /\ page' = Complete(page, "success", FALSE)
  /\ UNCHANGED spent

\* The network or the server fails, the server answers 429, or what answers is
\* not the bus.
RequestFails ==
  /\ Event /\ page.req.open
  /\ Untroubled
  /\ \/ /\ page' = Settle(page, "refused")
        /\ spent' = [spent EXCEPT !.others = @ + 1]
     \/ /\ page' = Settle(page, "failed")
        /\ spent' = [spent EXCEPT !.faults = @ + 1]
     \/ /\ IF page.req.begun THEN "unchunked" \in Garbled /\ ~page.req.chunked
                             ELSE page.adapter \in Garbled
        /\ page' = Settle(page, "garbled")
        /\ spent' = [spent EXCEPT !.faults = @ + 1]

-----------------------------------------------------------------------------
Server == Reply \/ Unchunked \/ Progress
Timers == PollTimer \/ DelayTimer

\* The page has made its calls, and is stopped, was never started, or is paused
\* with MaxLater messages put off.
Quiet ==
  /\ spent.calls = MaxCalls[page.adapter]
  /\ stack = <<>> /\ (page.started => page.paused)
  /\ UNCHANGED vars

Next ==
  \/ PageSubscribes \/ PageUnsubscribes \/ PageStops \/ PageStarts
  \/ PagePauses \/ PageResumes
  \/ Walks
  \/ Timers \/ FirstChunkTimer \/ VisibilityChange
  \/ Publish \/ Server \/ Finish
  \/ RequestFails
  \/ Quiet

Spec == Init /\ [][Next]_vars

\* Callbacks return, timers fire, and the server answers; the page need not
\* call anything.
FairSpec ==
  Spec /\ WF_vars(Walks) /\ WF_vars(PollTimer) /\ WF_vars(DelayTimer)
       /\ WF_vars(Server)

-----------------------------------------------------------------------------
\* A started client never goes quiet: between two events there is a request
\* under way or a timer that will make one; a stopped one has neither.
PollsWhileStarted ==
  stack = <<>> =>
    (page.started <=> \/ page.req.open \/ page.delayPollTimeout
                      \/ page.pollTimeout # "none")

\* me.longPoll and ajaxInProgress, which keep a second request from being sent,
\* stand for a request that will be completed: it is open, or in success.
NeverStuck ==
  /\ page.longPoll = page.ajaxInProgress
  /\ page.longPoll <=> \/ page.req.open
                       \/ \E k \in DOMAIN stack : stack[k].of = "success"

\* Only failures make the client back off: with jQuery no number of subscribe,
\* unsubscribe and stop calls, which abort the request under way, does, and no
\* number of 429 answers.
BackoffOnlyOnFailures ==
  page.adapter = "jquery" /\ page.pollTimeout = "backoff" =>
    spent.faults > Patience

\* A callback that has its channel to itself is handed every message after its
\* position once, through aborts, failures, stops and restarts, chunks and
\* answers put together, and unsubscriptions in the middle of a walk.
AloneMissesNothing == \A s \in slips : ~s[2]

\* Message n is to be handed to a callback that has its channel to itself.
Due(n) ==
  /\ n \in DOMAIN log /\ page.started /\ ~page.hidden
  /\ \E k \in DOMAIN page.callbacks :
       LET cb == page.callbacks[k]
       IN  cb.alone /\ cb.chan = log[n] /\ 0 <= cb.last /\ cb.last < n

\* Again and again nothing is due: what is published reaches its callback,
\* unless the page is stopped, hidden or paused or the callback unsubscribed.
\* No wake-up is lost in the client.
Delivered == []<>(\A n \in Ids : ~Due(n))
=============================================================================

# A verification of message_bus

TLA+ models of [message_bus](../src/README.md), a message bus for Ruby and web
clients: what it keeps in Redis, how a subscriber thread reads it, how messages
wait in memory while Redis is read-only, how they are given to callbacks in the
process, how the bus starts and ends its threads, how messages reach web pages by
long polling, and what the script in the page does with them. Each model is
checked by TLC on small instances, and the safety properties of every one of them
are proved by TLAPS for all values of their constants, a few under conditions
that section 6 names. `PROJECT.json` lists the runs, the lines each definition
models, the findings, the hazards and the theorems.

## 1. The system

A *publisher* calls `MessageBus.publish`. A *backend* (Redis, Postgres or
memory) numbers the message, stores it in bounded backlogs and broadcasts it. In
every process one *subscriber thread* reads the broadcast and hands each message
to local callbacks and, through the *timer thread*, to the *connection manager*,
which writes it to the *long polls* that Rack requests have left open. Browsers
(and a Ruby HTTP client) poll again with the last id they have seen, and are
first given the backlog after it. Nothing is acknowledged: everything depends on
comparing ids.

| Component | State | Operations | Modelled in |
|---|---|---|---|
| Redis store (`backends/redis.rb`) | global id, id and backlog of each channel, global backlog of pointers, expiry of the keys | `publish` (a Lua script), `reset!`, `expire_all_backlogs!`, `get_message`, `global_backlog`, `global_unsubscribe` | `RedisStore` |
| Redis subscriber (`backends/redis.rb`) | `highest_id`, retries, the pub/sub connection, `@subscribed` | `global_subscribe`, its catch-ups, reconnection, UNSUB | `RedisSubscriber`, against `GlobalFeed` |
| In-memory publish queue (`backends/redis.rb`) | `@in_memory_backlog`, `@lock`, `@flush_backlog_thread` | `publish` refused by a replica, `ensure_backlog_flushed` | `PublishQueue` |
| Long polling server (`rack/middleware.rb`, `client.rb`, `connection_manager.rb`) | registered clients, their sets per channel, sockets, clean-up jobs | `handle_request`, `backlog`, `add_client`, `notify_clients`, `remove_client` | `LongPoll` |
| Browser client (`assets/message-bus.js`, `assets/message-bus-ajax.js`) | callbacks with their positions, the poll in flight, timers, what was put off | `start`, `stop`, `pause`, `resume`, `subscribe`, `unsubscribe`, poll, `processMessages` | `PageClient`; its polls in `LongPoll` |
| Timer thread (`timer_thread.rb`) | `@jobs`, `@next`, `@thread`, `@stopped` | `queue`, `stop`, `do_work`, cancel | `TimerThread`, run by `BusLife`; a worker in `LongPoll` |
| Bus facade (`message_bus.rb`) | subscriptions, subscriber thread, `@destroyed` | `publish`, `subscribe` with replay, dispatch, `destroy`, `after_fork`, keepalive | `BusSubscribe`: `subscribe`, dispatch; `BusLife`: the rest |
| jQuery (`assets/jquery-1.8.2.js`), third-party | a request | `ajax`, `abort` | `PageClient`, as far as the client relies on it |
| Distributed cache, Ruby HTTP client, memory and Postgres backends | see section 8 | | not modelled |
| Codecs, Rails and Thin glue, examples | none | | not modelled |

### How they interact, and what is hard

* `publish` is one atomic script, but a subscriber's catch-up is one command per
  pointer, so publications, trims, expiries and resets fall between its reads.
* Pub/sub forgets. A subscriber catches up before SUBSCRIBE and again after it,
  and compares every message with the one before. A lost connection starts this
  over.
* Ids start again: a channel's when its keys expire, all of them after `reset!`.
  An old and a new message may have the same ids.
* While Redis is a read-only replica, publishers share a bounded queue with a
  flush thread that is started on demand and ends on its own.
* `subscribe` replays the backlog before it registers a callback, outside the
  mutex, and the callback replays again; the subscriber thread walks the array of
  callbacks while others change it.
* The subscriber thread is started by whoever finds none alive, with a keepalive
  job that queues itself; `destroy` waits for the thread to end, and a fork
  leaves the state and none of the threads.
* The timer's callers insert a job in its mutex, but look whether its thread is
  alive, and wake it up, outside; the thread measures its sleep before it sleeps.
* A Rack request reads the backlog, takes over its socket and registers the
  client in separate steps, while the timer thread notifies clients and closes
  expired polls, and the page may abort and poll again.
* In the page, callbacks call the client again while it walks their array;
  `abort` completes the request inside the call that aborts it; and the client
  lives on by one of three timers that every call may clear.

What makes each component correct:

* *Store*: ids and pointers never lead to the wrong message; trimming leaves at
  least what each publication asked for; what is retained can be reached.
* *Subscriber*: messages in publication order, none twice, none that is retained
  passed over; catching up ends.
* *Queue*: published in order and at most once, nothing lost unaccounted, one
  flusher, and always a thread for what is queued.
* *Subscribe*: a callback subscribed from an id gets every later message that is
  retained, in order, and none up to that id.
* *Timer*: no job early, late or forgotten.
* *Bus*: one subscriber thread and one keepalive while it serves; `destroy`
  returns and leaves nothing running.
* *Long polls*: no message a page may receive is passed over; the tables agree;
  every connection is closed; nobody deadlocks.
* *Page*: polls while it is started, one request at a time; backs off for
  failures only; hands over every message once.

The hazards, each at its line and with the properties about it, are in
`PROJECT.json`.

## 2. Modules

| Module | What it is |
|---|---|
| `RedisStore` | the keys and the commands that write them; also the store by itself (`StoreSpec`) |
| `GlobalFeed` | what `global_subscribe` promises: a position that moves forward, over nothing but what is no longer retained |
| `RedisSubscriber` | extends `RedisStore` with subscriber threads; implements `GlobalFeed` |
| `PublishQueue` | publishers and flush threads around the in-memory queue |
| `BusSubscribe` | callers of subscribe and unsubscribe, and the subscriber thread's dispatch |
| `TimerThread` | the job queue, its callers and its thread; no specification of its own |
| `BusLife` | extends `TimerThread` with the program's threads, the subscriber threads and the jobs |
| `LongPoll` | pages, request threads, the connection manager and the timer thread |
| `PageClient` | the client script of a page with either ajax adapter, and a server |
| `MC...` | values for the constants, one for each of the above with a specification |
| `RedisStoreProofs`, `RedisSubscriberProofs`, `PublishQueueProofs`, `BusSubscribeProofs`, `TimerThreadProofs`, `BusLifeProofs`, `LongPollProofs`, `PageClientProofs` | theorems |

Definitions whose comment begins "Mutant:" are no part of a specification: each
is a definition changed as a plausible bug would change it, used to see that the
property it is paired with in `PROJECT.json` can fail.

### RedisStore

A message is a record of its ids (`gid` global, `mid` in the channel), its
channel, and a history field `era`, the number of resets before it, which tells
apart messages that have the same ids. A sorted set is a set of messages; a
member of the global backlog, the string `"backlog_id|channel"` scored by the
global id, has the same fields. `Publish` is the whole script, with
`PointerAdded` for what ZADD does to a member already there and `BacklogTrimmed`
and `GlobalTrimmed` for its two conditional trims. A channel's two keys get the
same EXPIRE from the same script, so one `ttl` stands for both; `Tick` is the
clock. `reset!` and `expire_all_backlogs!` list keys and then delete them one by
one: `Reset` and `ExpireAllBacklogs` list, `DelKey` deletes.

### RedisSubscriber and GlobalFeed

`pc` follows the code (see the module's head). `Connect`, `CheckId`,
`ListPointers`, `FetchMessage` and the `Emit` actions are `clear_backlog` and
`process_global_backlog`, one action for each command sent to Redis and one for
each turn of the loop; `EmitOutOfOrder` is the exception that keeps the progress
made and tries again. `Subscribe` is SUBSCRIBE with the callback `on.subscribe`,
the `Receive` actions are `on.message`. `ConnectionLost` may happen at any
command: Redis forgets the connection, the thread goes to `rescue`, then to
`retry`. `delivered` records what was yielded and `from` where the subscriber
started. A connection that is closed loses what was pushed on it and not read.

In `GlobalFeed` a subscriber has a position; it moves forward only, and to a
published message, over none that is retained. It is instantiated with
`published` the global id, `retained` the ids the global backlog leads to,
`position` the last id yielded, or `from`.

### PublishQueue

`Eval`, `Enqueue`, `CheckThread` and `SpawnThread` are the steps of `publish`
between two acquisitions of `@lock`; `CheckThread` reads the thread without the
mutex, as the code does, and `SpawnThread` asks again under it. `Probe`,
`TakeLock`, `FlushOne`, `FlushFails` and `Leave` are `ensure_backlog_flushed`;
the thread holds `@lock` while it calls Redis. Errors other than READONLY
(`EvalFails`, `FlushFails`, `ProbeFails`) happen before or after the script ran.
A failover is a change of `readonly`.

### BusSubscribe

One channel; its messages are numbered from 1 and its backlog retains those from
`first` on, which a publication may move. A callback `k` stands for a block and
for the thread that subscribes it: `Subscribe`, `Replay`, `Lookup`, `Create`,
`AppendCallback`, `EnsureThread` are `subscribe_impl` down the page. `Lookup` and
`Create` are the three `||=`, which are not in the mutex. `currentId` and
`justYield` are the variables of the closure that wraps the block; `CallDirect`,
`CallNext` and `CallReplay` are its branches, and `CallRaises` is the block
raising at any point of them. `Take` fetches the array under `@mutex`; the walk
of it is an index, so that `Unsubscribe` (`Array#delete`) shifts the callbacks
under it, and `skipped` records which callback a walk passed over for that
reason. `UnsubscribeAll` and `Create` put a new array in the table, while a walk
goes on in its own (`walk.own`). What the thread gets from `global_subscribe` is
what `RedisSubscriber` shows: from `Connect` on, each message in order. The lists
for other sites and for every channel are walked after this one in the same way.

### TimerThread and BusLife

A call of `queue` is `Queue` (the time is taken), `Insert` (the critical
section), then a look at the thread, which is started again if it died, and a
wake-up, both outside the mutex; `stop` is a call of its own. The thread takes a
job, runs it, sets `@next` and measures its sleep in one critical section each,
and falls asleep in a step after that, so a wake-up may fall in between. Two
history variables say when it went wrong by design of the code: `unheard` (a
wake-up fell between measuring and sleeping) and `stale` (a thread died in a job,
in a fork, and left an `@next` for the job it had taken).

`BusLife` adds the program's threads. `SubscribeBegins`, `Ensure` and `Spawned`
are `ensure_subscriber_thread` with `new_subscriber_thread`, which holds `@mutex`
across its call of the timer; `DestroyBegins`, `PublishUnsub`, `Mark` and `Join`
are `destroy`; `Fork` and `QueueNop` are `fork` followed by `after_fork`, and the
run follows the child. A subscriber thread is `Begin`, `Listen`, then
`ReadUnsub`, `ReadMessage` or `Breaks`; UNSUB reaches the threads that listen
when it is published. `Keepalive` is the job that publishes and queues itself
again, `KeepaliveRaises` its publication failing. History: `lostUnsub`, that
UNSUB missed a live thread or was lost with its connection; `unpublished`, the
threads whose keepalive failed.

### LongPoll

A connection is `<<id, n>>`, the n-th poll of client `id`. A request is
`CountClients`, `ReadLastIds`, `ReadBacklog`, then `RespondNow`, or `Hijack`,
`AddClient` and `SetTimer`. `NotifyBegin`, `NotifyClient` and `NotifyEnd` are
`notify_clients`, run by the timer thread in the monitor; `TimerFires`,
`CleanUpClose` and `CleanUpRemove` are the clean-up of an expired poll. A write
to a page that has gone may raise: in `NotifyClient` the exception is swallowed
and the client keeps its socket until its clean-up, in `HijackFails` it ends the
request, whose socket is then nobody's. `open` is the connections whose client
has a socket (`@io`); one found dead when it is to be closed is let go of
(client.rb:320-322), which counts as closed.

The page is `Poll`, `Receive`, `Complete`, `Abort`. A message is its id and the
clients that may receive it (users, groups and client ids come to that). `Trim`
takes the oldest message out of the backlog, as a publication's trim or expiry
does; the ids go on. `LongPolls` says whether polls may be long, short (the page
is in the background) or either. There are two histories of what a page was not
given: `missed`, the messages dispatched while a poll was in the window between
its reads and its registration, and `gone`, those a poll asked for that were no
longer retained.

### PageClient

JavaScript runs one event at a time, so a timer, an answer or a call of the page
is one step: the operators `Poll`, `LongPoller`, `Complete`, `Fail`, `Abort`,
`Stop`, `Start`, `Subscribe`, `Unsubscribe` say what a function of the script
does to `page`, the functions it calls included, and `Abort` runs `error` and
`complete` inside the call, as an XMLHttpRequest does. Only the calls of a
callback are seen by other code: a walk of `processMessages` is a frame on
`stack`, advanced by `CallFunc`, `FuncReturns`, `NextMessage` and `TakeStatus`,
and while a callback is running (`calling`) any call of the page may be made,
`resume` with a walk of its own. `TakeChunk` is what `handle_progress` and
`reqSuccess` do with one chunk, `EndWalk` what follows the walk. `JQueryDone` and
`BareDone` are where the adapters differ: what is told for a refusal, an abort, a
failure and an answer that is not JSON. jQuery converts an answer before it calls
`success` (`AjaxConvert`), but not one to a request that allowed chunks, which
asks for text; `success` (`Success`) then parses it if it declared itself JSON.
What gets such an answer is a constant, `Garbled`. A refusal (429) is counted
apart from the failures in `spent`, so that one taken for a failure would show.
The server keeps one log for all channels; it answers from the positions of the
request, whole (`Reply`) or in chunks (`Progress`, `Finish`), and with a status
for channels asked from -1.

History: `slips` are the messages a callback was not handed although its position
was moved past them, or was handed twice. A callback is `alone` if it was
subscribed outside every walk, has its channel to itself and the page was not
paused since; what happens to others is section 5.

## 3. Runs

Every run checks for deadlock; the specifications say when the system has come
to rest (`Exhausted`, `Quiescent`, `Finished`, `Quiet`, `Over`).

| Run | Checks | Instance |
|---|---|---|
| `store_publish` | `LocalNeverAhead`, `PointersResolve`, `OneMessagePerId`, `BacklogWindow`, `RetainedReachable` | 2 channels, sizes 1 to 3, one age of 2 ticks, 7 messages, 5 ticks |
| `subscriber_feed` | `TypeOK`, `Ascending`, `CaughtUp`, `FeedImplemented` | 1 subscriber, 2 channels, 4 messages, trims, a purge, a lost connection, a stop |
| `subscriber_resets` | `ComesBack` under weak fairness | 1 subscriber, a reset, deleted key by key |
| `queue_flush` | `TypeOK`, `OneFlusher`, `AtMostOnce`, `Accounted`, `FlushedInOrder`, `GivenUpWhenFull`, `FlushEnds` | 2 publishers, 2 threads, queue of 2, 3 messages, 3 failovers, 1 error |
| `bus_subscribe` | `TypeOK`, `NoneMissed`, `LiveInOrder` | 2 callbacks, any last ids, 3 messages, 1 raised error |
| `bus_life` | `TypeOK`, `NeverEarly`, `NoOversleep`, `OneSubscriber`, `OneKeepalive`, `QuietAfterDestroy`; `JobsRun`, `DestroyEnds` under weak fairness | 2 callers, 2 subscriber threads, 1 job, 1 trouble (fork, lost connection, error) |
| `poll_long` | `TypeOK`, `BacklogNeverSkips`, `LossOnlyInWindow`, `IndexConsistent` | 1 page, last ids -2, -1, 0 and one ahead of the bus, 2 messages of which one may be trimmed, 2 polls |
| `poll_live` | `NotificationEnds`, `EventuallyClosed` under weak fairness | 1 page, 3 polls, 1 message |
| `page_client` | `TypeOK`, `PollsWhileStarted`, `NeverStuck`, `BackoffOnlyOnFailures`, `AloneMissesNothing`; `Delivered` under weak fairness | both adapters, 2 channels, 1 function, 2 messages, 3 calls of the page (2 with the bare adapter), 2 failures, refusals or changes of visibility |
| `queue_stranded`, `bus_replay`, `poll_loss` | one property each, violated | section 5 |

Why these bounds are enough for the cases to happen:

* *Store*. Backlogs of 1 to 3 with `clear_every` 2 are trimmed on some
  publications and not on others; an age of 2 ticks and two channels let one
  channel expire and start again while the global backlog, kept by the other,
  still has its old pointers. One call of `reset!` and one of
  `expire_all_backlogs!` are taken, the latter anywhere; the properties are
  claimed up to the first reset, and the constraint `UntilReset` ends a behaviour
  there. `RetainedReachable` is claimed when all publications carry the same age:
  the script sets the age of the global backlog to that of the last one
  (redis.rb:115), although the comment above it says that it is not expired, so
  a short age cuts off messages that were published with a longer one.
* *Subscriber*. A global backlog of 2 and 4 messages put holes in front of a
  subscriber; one retry (4 in the code) gives a first and a last attempt; a
  subscriber is one process and shares nothing with another, so one suffices.
* *Queue*. Two publishers are what the race to start a thread takes, and two
  threads what two flushers take. A queue of 2 (1000 in the code) overflows with
  the third message; three failovers let a flush that has begun be refused and
  tried again.
* *Subscribe*. Two callbacks are what a removal under the walk takes. Three
  messages let one be replayed, one come between the replay and the registration
  and one be dispatched.
* *Bus*. Two callers race to start the thread, to destroy the bus, and one to
  fork while the other holds a mutex. Two threads are one and its replacement.
  One block and the keepalives put two jobs with different times in the queue. A
  keepalive interval of 1 (60 s in the code) lets it fall due before, with and
  after the block. One trouble of each kind is covered by different behaviours.
* *Long polls*. Three polls are one registered, one that replaces it and one
  late; one slot makes a second poll fall back on an ordinary response. Two
  messages are the least with which one is passed over, by a loss or, with one
  trimmed, because it is gone. The tables of one page
  are what two of its polls disagree about; another page's entries are untouched
  by them, and the invariants of this run are proved for any number of pages.
* *Page*. Three calls are a subscription, one from its callback and one more.
  `Patience` 1 for the code's 2 failures is reached with two troubles, and
  `RetryChunked` 1 for 30 requests gives up chunks for one request and returns to
  them. Two channels are a channel that is aborted for the other.

The bounds `MaxId`, `MaxTicks`, `MaxTime`, `MaxResets`, `MaxPurges`, `MaxFaults`,
`MaxTroubles`, `MaxMessages`, `MaxTrimmed`, `MaxFlips`, `MaxCalls`, `MaxLater`
and `MaxPolls` are guards of actions that the environment takes; the rest of the
system is not bounded, but for `MaxTime`, which ends every sleep of the timer,
and the number of subscriber threads (`Spare`).

`CaughtUp` and `FeedImplemented` are checked without expiry and resets, where
they hold. With expiry a pointer that was read before a channel's ids started
again is looked up after it, and leads to a newer message. After a reset the new
ids are told from the old ones only while they are below them (redis.rb:366); if
they have caught up by the time the subscriber looks, the messages that took them
are passed over. What is claimed with a reset is `ComesBack`.

What the properties of `bus_life`, `page_client` and the polls leave out, they
leave out by name: `NoOversleep` a wake-up that was not heard, `NeverEarly` a
`stale` `@next`, `OneKeepalive` a thread whose keepalive could not be published,
`DestroyEnds` an UNSUB that was lost, `AloneMissesNothing` and `Delivered`
callbacks that are not alone, `BackoffOnlyOnFailures` the bare adapter,
`EventuallyClosed` a connection whose page had gone when its backlog was written.
Each is a case in which the code does otherwise, told in section 5. The same
holds of the constant `Garbled`: `page_client` has answers that are not JSON
where jQuery converts them, and not where the client parses them itself, since it
then never polls again. `BacklogNeverSkips` and `LossOnlyInWindow` exempt
messages that were no longer retained when they were asked for, which is what a
bounded backlog means.

## 4. Fairness

`FairSpec` assumes weak fairness of what a thread does next and of nothing else:
nobody has to publish, poll, fail over, reset, fork or lose a connection. The
code justifies it: a thread that is not blocked is scheduled, the mutexes are
held for finite critical sections, and `@lock` is held across one call to Redis
that returns or raises. In `LongPoll` a request thread and the timer thread are
each fair as a whole (`WF(Request(c))`, `WF(Work)`); the clean-up jobs have equal
delays, so the queue is in the order they were set. In `BusLife` the timer's
thread, the clock, a caller inside a call and a subscriber thread up to the end
of its work are fair; a message that would let a thread see `@destroyed` need not
come. In `PageClient` callbacks return, the two poll timers fire and the server
answers an open request or goes on with it; the page need not call anything, and
the server need not end a chunked answer.

## 5. Findings

With a run that shows them:

* `queue_stranded`: the flush thread finds the queue empty and clears
  `@flush_backlog_thread` in two critical sections; a message queued in between
  is left without a thread.
* `poll_loss`: a message dispatched between a poll's reads and its registration
  is in neither; the next delivered message moves the page past it.
  `LossOnlyInWindow` shows that in the model no other message is passed over that
  was retained when it was asked for; the model takes notifications in the order
  of publication (section 7).
* `bus_replay`: a callback subscribed with the id of the last message replays
  nothing, and is then given the whole backlog when the next message is
  published.

Met while modelling; the models have them, and a property exempts them:

* The pattern of `expire_all_backlogs!` matches no channel's backlog
  (redis.rb:86, whose comment at redis.rb:83 says that it expires all of them).
* `destroy` joins the subscriber thread after an UNSUB that the thread may not be
  SUBSCRIBEd to read, or may lose with its connection; it then waits for the next
  message of the bus (message_bus.rb:551).
* A keepalive that cannot be published is not queued again: the rescue logs, and
  the chain has ended for as long as that thread lives (message_bus.rb:752).
* `queue` wakes the timer's thread outside the mutex. Between its measuring and
  its sleeping the thread does not hear it (timer_thread.rb:99), and a job due
  soon waits for the end of a sleep that may be of 1000 seconds. The thread that
  replaces one that a fork ended in a job runs the first job at once, since
  `@next` is still that of the job before (timer_thread.rb:114).
* `timer` creates the timer on first use without a lock (message_bus.rb:583), so
  two first callers may have one each. `BusLife` begins with one.
* In the page, a poll asks for a channel from the position of its last callback
  (message-bus.js:446), so another callback of the channel that is behind misses
  what lies between, although the README has each subscription start from its own
  last id (README.md:272).
* A hijacked socket may never be closed. The middleware takes the socket over
  and gives it to the client (middleware.rb:147-149); if the page has gone,
  writing the backlog raises (middleware.rb:152) before `add_client_with_timeout`
  is reached, so no clean-up is queued, the client is in no table, and the rescue
  at middleware.rb:189 closes nothing. What is left is Ruby's garbage collector.
* An answer with status 200 that is not JSON raises in `success` where the client
  parses it itself: with the bare adapter, and with jQuery if it declares itself
  JSON though the request allowed chunks, for which jQuery was asked for text
  (message-bus.js:183). `complete` is then not called and the client never polls
  again.
* With the bare adapter an aborted request counts as a failure, so three calls of
  `subscribe` in a row make the client back off.
* While paused the client polls on with positions that do not move, so each poll
  puts the same messages off once more, and `resume` hands them over as often;
  README.md:315 has `pause` pause all activity. A callback that calls `resume`
  while what was put off is walked has it walked again from the start.
* `stop` and `start` called from a callback send a request with the positions of
  the moment while the walk goes on, so the rest of the walk is handed over
  again.

## 6. Theorems

| Theorem | States | For |
|---|---|---|
| `StoreTypeCorrect` | `StoreTypeOK` | any channels, sizes, ages, with resets |
| `LocalNeverAheadAlways`, `PointersResolveAlways`, `OneMessagePerIdAlways`, `BacklogWindowAlways` | the properties of that name of `RedisStore` | the same, in every state before the first reset |
| `RetainedReachableAlways` | `RetainedReachable` | the same, if all publications carry one age |
| `TypeCorrect` (`RedisSubscriber`), `AscendingAlways`, `OrderAlways` | `TypeOK`, `Ascending` and the invariant it needs | any subscribers, retries and lost connections; the order until the first reset |
| `CaughtUpWhileQuiet`, `FeedImplementedWhileQuiet`, `FeedAlways` | `CaughtUp`, the refinement of `GlobalFeed` and the invariant they need | the same, until a key ages or the bus is reset |
| `TypeCorrect` (`PublishQueue`), `OneFlusherAlways`, `AtMostOnceAlways`, `AccountedAlways`, `FlushedInOrderAlways`, `GivenUpWhenFullAlways` | every invariant of `PublishQueue` that `queue_flush` checks | any publishers, threads, queue size, number of errors and failovers |
| `TypeCorrect` (`BusSubscribe`), `NoneMissedAlways`, `LiveInOrderAlways` | all that `bus_subscribe` checks, the action property included | any callbacks, last ids, messages, trims and errors |
| `BusTypeCorrect`, `NeverEarlyAlways`, `NoOversleepAlways`, `OneSubscriberAlways`, `OneKeepaliveAlways`, `QuietAfterDestroyAlways` | every invariant of `TimerThread` and `BusLife` | any callers, jobs, delays, threads, forks and errors |
| `TypeCorrect` (`LongPoll`), `IndexConsistentAlways`, `BacklogNeverSkipsAlways`, `LossOnlyInWindowAlways` | every invariant of `LongPoll` | any clients, last ids, polls, slots, messages and trims |
| `TypeCorrect` (`PageClient`), `AloneMissesNothingAlways` | `TypeOK`, `AloneMissesNothing` | any channels, functions, calls, answers and failures, with either adapter |
| `PollsWhileStartedAlways`, `NeverStuckAlways`, `BackoffOnlyOnFailuresAlways` | the properties of that name of `PageClient` | the same, if what the client parses itself is JSON: the answers to the bare adapter, and those that declare themselves JSON though chunks were allowed |

The assumptions are the `ASSUME`s of the modules: bounds are natural numbers,
`ClearEvery` and ages are positive, there is a backlog size, and a value that
stands for "none" (`Nobody`, `Nil`, `None`, `Nop`) is none of the values it is
told from. Three theorems assume more, and say so in their statements. Those of
`PageClient` in the last row assume `Garbled \subseteq {"jquery"}`, that answers
which are not JSON come only where jQuery converts them, without which the first
two are false (section 5). `RetainedReachableAlways` assumes `OneAge`,
that all publications carry the same `max_backlog_age`: the last publication's
age becomes that of the global backlog, so with two ages its EXPIRE takes
pointers away from messages that live on. `Quiet` is no assumption about
constants but a condition on states, that no key has aged and no reset was made;
section 3 tells what happens otherwise.

*PublishQueue.* `OneFlusher` is not inductive: a step needs to know that
`@flush_backlog_thread` names every thread that is not off, and that the mutex is
held exactly by the thread that is publishing. `Safe` is the types with these two
(`LockHeld`, `ThreadNamed`). `AtMostOnce` and `Accounted` need where a message
is: with the one publisher that is still working on it, or queued, or published,
or given up, and no queue or stream with a repetition; this is `OnePlace`, and
`Traced` adds it to `Safe`. `FlushedInOrder` needs that the queue is the end of
all that was ever queued, in that order: `Ordered` says this with `EndOf`, a
suffix, which appending to both and dropping the queue's head keep. Each is
proved one action at a time, from lemmas on what appending and dropping do to a
sequence.

*RedisStore.* `PointersResolve` needs that ids in use are at most the counters
(`Numbered`), so that the script's ids are new, that a purge deletes pointers
only (`CountersKept`), and the uniqueness of ids. `Consistent` is their
conjunction; `Inv` asks it of states before the first reset only. Trims, expiry
and purges are one lemma, `ConsistentShrunk`: they take messages and pointers
away, and a channel's id only with its backlog. With a reset the properties do
not hold, since an id may be deleted before the backlog numbered with it.

The lower bound of `BacklogWindow` says of every id above the smallest window
that its message is there (`Window`); a trim keeps it because it keeps the window
of its own publication. The upper bound needs to remember when a trim was last
due: `SinceTrim` says that there is an id `k` such that no later one is a
multiple of `clear_every`, and that all that is in the backlog lies within some
window before `k`. `RetainedReachable` needs that the global backlog outlives
each channel's (`OutlivesBacklogs`), which every publication renews, and that
what is within the global window has its pointer (`Pointed`).

*RedisSubscriber.* `OrderInv` is that the last id yielded is `highest_id`, or the
copy of it that the loop of `process_global_backlog` works on (`Placed`); that
nothing a subscriber has read or been pushed is ahead of the global id
(`Numbers`), so that `highest_id` stays the highest; and that what was yielded
ascends. A command of the store only has to keep the global id from falling.
`FeedInv` adds that nothing retained is left out: a retained message after the
position is among what was read and not yielded, or after all of it and pushed;
one before it was given (`Covered`). The messages and pointers that were read are
in order (`Lined`), and Redis pushes exactly while the connection is SUBSCRIBEd
(`Linked`). `Lined` asks that each pointer a subscriber has listed leads to its
own message or to none. `PointersResolve` says so of pointers in the store; of
those in a subscriber's hands it is no longer true once a channel's ids start
again, hence `Quiet`. The refinement is then a step of `GlobalFeed`, or a
stutter, for each action: only a yield moves the position, and by `Covered` over
nothing retained.

*BusSubscribe.* `BusInv` has three parts. `Structure` says how far the threads
are (`Placed`), that a callback is in one array at most, once, and in none before
its thread has put it there (`Apart`), and that the closure of one not yet called
is as it was made (`Untouched`). `Complete` says what a callback has been given:
every retained message that its replays are past, that was dispatched since, or
that the walk under way has brought to it, but for those in `skipped`. `InOrder`
is about callbacks that are called directly: none was given anything after the
last message taken (`NotAhead`), and those the walk has still to reach were given
nothing as late as its message (`StillToCome`).

*TimerThread and BusLife.* `TimerSafe` is kept by every step of the timer,
whoever takes it: the jobs are sorted by time (`Sorted`); `@next` is no later
than the first job's time, or has passed (`Leads`), and outside a job it is that
time, unless a thread died in one (`Fresh`); a thread about to take a job has
found it due (`Ripe`); and a sleep ends by the first job's time, or whoever has
inserted that job is on the way to wake the thread up, or has done so too early
(`Heard`). The steps of the timer are proved in `TimerThreadProofs`, so
`BusLifeProofs` has only to say which of them an action of the bus takes. There
`BusSafe` adds that the mutex is held by the one caller that is starting a thread
(`Locked`), that every live thread is the bus's or that caller's (`Known`), that
the bus's thread has been started (`Born`), that whoever joins it has marked the
bus destroyed (`Marked`), and that after the join none lives and the timer is
stopped or about to be (`Silenced`).

`OneKeepalive` counts three places: the queue of jobs, a call of `queue` that has
not yet inserted its job, and the hand of the timer's thread. `KeepaliveInv` adds
to `BusSafe` that a living thread's keepalive is in exactly one place of exactly
one of them, and that of a thread not yet started in none (`Chain`); and that the
timer's thread holds a job only while it runs it and calls `queue` only to queue
it again (`Hands`). Inserting, taking and running a job each move it from one
place to the next and leave the others as they are, which is what the lemmas on a
sorted insertion and on the steps of the timer say of one thread's keepalive.

*LongPoll.* `IndexConsistent` needs only the type of the table of clients
(`Tables`): registering, replacing and removing a connection are each shown to
change both tables, whichever connection of the client it is. The other two
follow a message to the page, from the end to the start; a message that was no
longer retained when the page asked for it is none of those to follow (`Mine`).
Everything up to the page's last id was received or missed, and so was what lies
before the start of its poll (`Behind`); nothing written to it passes over a
message that was not received, missed or written before (`Flow`); a registered
connection has been written all that was dispatched (`Informed`); a request
between its reads and its registration has in `missed` what was dispatched since
(`Window`); and its backlog passes over nothing up to what it read (`Backlog`).
What the page has left to itself is that it listens to one connection, its latest
(`Waiting`), and that a registered connection has its socket open but for the
moment between the clean-up's closing and removing it (`Held`).

*PageClient.* The invariant `PageSafe` is about what is true between two events
and inside a walk: the two flags stand for a request that is open or whose answer
is being walked (`Held`), a started client that is not in that walk has something
pending (`Pending`), a stopped one nothing, and with jQuery the failures counted
are at most those that happened (`Calm`). A function of the script is a lemma of
its own (`PollLively`, `CompleteLively`, `AbortLively`, ...), from `Nearly`,
which holds in the middle of an event, to `Lively`, which holds at its end; the
actions then compose them as the code does. The stack of walks needs that the
answer of a request is walked below all others (`StackOK`), so that the walk that
completes the request is the last to end.

`AloneMissesNothing` needs `WalkInv`, which relates a callback's position, the
walk that may be under way and the request that may be open. For a callback that
is alone: it is the only one of its channel, nothing is put off, and walks of
what was put off have nothing left (`Alone`). While an answer is walked, what is
left of it brings the callback from its position up to some position `to`,
message by message, each id of the channel in between once and in order, or first
tells it its position by a status (`Rest`); and a request that is still open goes
on from `to` (`Walked`). When no answer is walked, an open request goes on from
the callback's position (`Idle`). `Rest` speaks of the places left in a walk and
not of its records, so each step of a walk is a lemma (`RestHanded`, ...) about
the place it leaves. That a chunk or a whole answer begins with a `Rest` is
`BacklogRest` and `ChunksRest`, from what the server's answers contain
(`MessagesAre`, `BacklogIs`). `unsubscribe` moves the callbacks behind those it
removes to smaller indexes: `UnsubscribeIs` says that each keeps its record, at
an index of its own that is not later. The messages of an answer and the
callbacks that remain are enumerated by `Ascending`; `AscendingExists` shows by
the well-foundedness of `<` that there is such an enumeration.

Only model-checked: liveness (`FlushEnds`, `ComesBack`, `NotificationEnds`,
`EventuallyClosed`, `JobsRun`, `DestroyEnds`, `Delivered`), which is beyond the
prover, as is ENABLED. Every invariant and action property of a passing run is
stated by a theorem. The three violated properties are counterexamples of TLC.

## 7. What is abstracted

Message data, sites, users and encodings play no part in what is checked and are
left out; a site is one bus. Each Redis command is atomic, as Redis runs them.
Keepalive messages are not delivered, and logging and statistics are left out.
The Thin path of the middleware, message filters, the diagnostics routes and the
broadcast route are not modelled. In `LongPoll` messages are notified in the
order of their publication: jobs that the subscriber thread queues within one
reading of the monotonic clock are inserted in front of each other
(timer_thread.rb:84), and a page that takes no chunks would then be given the
later one, poll again after it and lose the earlier; one that takes chunks would
be given the later one again. Ids that start again when a channel expires are not
in `LongPoll` either, only messages that leave its backlog. The server of
`PageClient` has no messages that a client may not receive, retains them all and
gets no last ids ahead of its own or below -1; what they lead to is in
`LongPoll`. Chunks that do not parse, which the client logs and passes over, are
left out. A fork is modelled for the bus and its timer and not for the publish
queue. A response that is written reaches the page unless the page has given it
up, and is then lost as a whole.

`TimerThread#every` is not modelled by itself: it is a job that queues itself,
which is what the keepalive does. Of the bus facade, `off` and `on` set a flag
that `publish` reads. In the page, `alwaysLongPoll`, `shouldLongPollCallback`,
`headers` and the call-backs of diagnostics keep their defaults, and other tabs
of the browser are what local storage says about them (`wait` in
`HiddenTabShouldWait`). Time in the page is left out: a timer may fire at any
moment after it was set.

## 8. Not modelled

* *The Ruby HTTP client*. It polls by the protocol of the page's client, which is
  modelled, from one thread. `stop` sets a status that the thread reads after its
  poll, so a `start` before that leaves two threads polling.
* *The distributed cache* is a user of the bus and nothing depends on it. Its
  operations are published and then applied locally without a lock, so two
  replicas may apply them in different orders.
* *The Postgres backend*. What it promises rests on the database (sequences,
  order of commits, LISTEN and NOTIFY), none of which is in the repository. *The
  memory backend* is for tests and one process.
* *Backend interface, codecs, message encoding, Thin extension, Rails railtie,
  examples, benchmarks*: abstract methods, pure conversions and glue.
* *jQuery* but for `ajax`, as far as the client relies on it: when `done` acts,
  what an abort does, how an answer is converted. The rest of
  `jquery-1.8.2.js` (selectors, events, animation, the DOM) is third-party code
  for other users. It is most of the repository's JavaScript, and all but these
  functions of it are left unmodelled, since they have no part in the bus.

## 9. Plan

Done: the store and its subscriber with the abstract feed, the publish queue,
long polling, `subscribe` with its dispatch, the timer and the life cycle of the
bus, the page's client; the proofs of section 6.

Next, most important first:

1. Theorems: that an open connection always has its clean-up due, for
   `LongPoll`, which `EventuallyClosed` rests on; what `GlobalFeed` promises once
   keys expire, where a subscriber may be given a newer message in place of one
   that is gone.
2. `DistributedCache`: replicas that apply each other's operations; whether they
   converge.
3. `HttpClient`: start, stop and the polling thread.
4. `PostgresBackend` against `GlobalFeed`: ids taken before commit,
   notifications out of order.

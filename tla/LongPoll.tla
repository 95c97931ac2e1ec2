------------------------------ MODULE LongPoll ------------------------------
(***************************************************************************)
(* How messages reach web clients: the Rack middleware's handle_request,   *)
(* Client#backlog, the ConnectionManager and the timer thread that runs    *)
(* both the notifications and the clean-up of expired long polls           *)
(* (src/lib/message_bus/{rack/middleware,client,connection_manager}.rb),   *)
(* against the browser's last ids (src/assets/message-bus.js).             *)
(*                                                                         *)
(* There is one channel.  A connection is <<id, n>>: the n-th poll of web  *)
(* client id, n being the sequence number it sends.  Each request runs on  *)
(* a thread of its own, so requests interleave between any two reads or    *)
(* critical sections.  The monitor of the ConnectionManager is held by     *)
(* the timer thread during a notification; every other critical section of *)
(* it is one step, taken when the monitor is free.  The mutex of a client  *)
(* is held by its request from "adding" to "added".                        *)
(***************************************************************************)
EXTENDS Integers, Sequences, FiniteSets, SequencesExt

CONSTANTS
  Ids,             \* the web clients
  None,
  InitialLast,     \* the last ids a page may subscribe with
  Encodings,       \* whether a request allows chunked encoding, {TRUE, FALSE}
  MaxActiveClients,
  LongPolls,       \* whether polls may be long (long_polling_enabled?)
                   \* and not the page's dlp=t, a subset of {TRUE, FALSE}
  MaxMessages,     \* bound: publications
  MaxTrimmed,      \* bound: messages the backlog no longer retains
  MaxPolls         \* bound: polls of each web client

ASSUME PollAssumption ==
  /\ InitialLast \subseteq Int
  /\ Encodings \subseteq BOOLEAN
  /\ MaxActiveClients \in Nat /\ LongPolls \subseteq BOOLEAN
  /\ MaxMessages \in Nat /\ MaxTrimmed \in Nat /\ MaxPolls \in Nat

Conns == Ids \X (1..MaxPolls)

ASSUME NoneAssumption == None \notin Conns

VARIABLES
  log,             \* the channel: log[n] is who may receive message n
  trimmed,         \* how many of its oldest messages are no longer retained
  notified,        \* how many messages the timer thread has dispatched
  worker,          \* the job the timer thread is in
  timers,          \* its queue of clean-up jobs, all of the same delay
  clients,         \* @clients
  subs,            \* @subscriptions for the channel: a set of client ids
  at,              \* where each request's thread is
  req,             \* a request: last id, encoding, slot found, ids read
  resp,            \* what Client#backlog returned
  open,            \* connections whose client has a hijacked socket, its @io:
                   \* closed, or let go of when dead, it has none
  out,             \* what each page has been written and has not read
  web,             \* each page: its last id, the poll it waits for, its polls
  got,             \* history: the messages a page was handed
  base,            \* history: the message its subscription starts after
  missed,          \* history: <<id, n>> where n was dispatched between the
                   \* reads and the registration of a poll of id
  gone             \* history: <<id, n>> where a poll of id asked for n and it
                   \* was no longer retained

store == <<log, trimmed>>
vars == <<store, notified, worker, timers, clients, subs, at, req, resp, open,
          out, web, got, base, missed, gone>>
server == <<store, notified, worker, timers, clients, subs, open>>
pages == <<web, got, base>>
history == <<missed, gone>>

Item == [kind : {"message", "status"}, id : Nat]
Idle == [job |-> "idle", conn |-> None, left |-> {}]

TypeOK ==
  /\ log \in Seq(SUBSET Ids)
  /\ trimmed \in 0..Len(log)
  /\ notified \in 0..Len(log)
  /\ worker.job \in {"idle", "notify", "close", "remove"}
  /\ worker.conn \in Conns \cup {None}
  /\ worker.left \subseteq Ids
  /\ timers \in Seq(Conns)
  /\ clients \in [Ids -> Conns \cup {None}]
  /\ subs \subseteq Ids
  /\ at \in [Conns -> {"unborn", "sent", "counted", "ids", "scanned", "adding",
                       "added", "done", "failed"}]
  /\ req \in [Conns -> [last : Int, chunked : BOOLEAN, long : BOOLEAN,
                        busId : Nat, start : Nat, read : Nat]]
  /\ resp \in [Conns -> Seq(Item)]
  /\ open \subseteq Conns
  /\ out \in [Ids -> Seq(Item)]
  /\ web \in [Ids -> [last : Int, conn : Conns \cup {None},
                      polls : 0..MaxPolls]]
  /\ got \in [Ids -> SUBSET Nat]
  /\ base \in [Ids -> Int \cup {None}]
  /\ missed \subseteq Ids \X Nat
  /\ gone \subseteq Ids \X Nat

Init ==
  /\ log = <<>>
  /\ trimmed = 0
  /\ notified = 0
  /\ worker = Idle
  /\ timers = <<>>
  /\ clients = [i \in Ids |-> None]
  /\ subs = {}
  /\ at = [c \in Conns |-> "unborn"]
  /\ req = [c \in Conns |-> [last |-> 0, chunked |-> FALSE, long |-> FALSE,
                             busId |-> 0, start |-> 0, read |-> 0]]
  /\ resp = [c \in Conns |-> <<>>]
  /\ open = {}
  /\ out = [i \in Ids |-> <<>>]
  /\ web \in [Ids -> {[last |-> l, conn |-> None, polls |-> 0] :
                        l \in InitialLast}]
  /\ got = [i \in Ids |-> {}]
  /\ base = [i \in Ids |-> None]
  /\ missed = {}
  /\ gone = {}

-----------------------------------------------------------------------------
(* The page: message-bus.js.                                               *)

\* poll: never two ajax requests at a time; __seq grows with each.
Poll(i, chunked, long) ==
  LET c == <<i, web[i].polls + 1>>
  IN  /\ web[i].conn = None
      /\ web[i].polls < MaxPolls
      /\ web' = [web EXCEPT ![i].conn = c, ![i].polls = @ + 1]
      /\ at' = [at EXCEPT ![c] = "sent"]
      /\ req' = [req EXCEPT ![c].last = web[i].last, ![c].chunked = chunked,
                            ![c].long = long]
      /\ UNCHANGED <<server, resp, out, got, base, history>>

\* processMessages: last_id follows every message and every status handed over.
Receive(i) ==
  LET item == Head(out[i])
  IN  /\ out[i] # <<>>
      /\ out' = [out EXCEPT ![i] = Tail(@)]
      /\ web' = [web EXCEPT ![i].last = item.id]
      /\ got' = [got EXCEPT ![i] =
                   IF item.kind = "message" THEN @ \cup {item.id} ELSE @]
      /\ base' = [base EXCEPT ![i] =
                    IF @ = None THEN req[web[i].conn].start ELSE @]
      /\ UNCHANGED <<server, at, req, resp, history>>

\* The response is complete; the next poll may start.
Complete(i) ==
  LET c == web[i].conn
  IN  /\ c # None
      /\ at[c] \in {"done", "failed"} /\ c \notin open /\ out[i] = <<>>
      /\ web' = [web EXCEPT ![i].conn = None]
      /\ UNCHANGED <<server, at, req, resp, out, got, base, history>>

\* abort, or the network gives up: the server is not told, and what it has
\* written or writes from now on is lost.
Abort(i) ==
  /\ web[i].conn # None
  /\ web' = [web EXCEPT ![i].conn = None]
  /\ out' = [out EXCEPT ![i] = <<>>]
  /\ UNCHANGED <<server, at, req, resp, got, base, history>>

Reading(c) == web[c[1]].conn = c

Written(c, items) ==
  [out EXCEPT ![c[1]] = IF Reading(c) THEN @ \o items ELSE @]

-----------------------------------------------------------------------------
(* The request's thread: Rack::Middleware#handle_request.                  *)

ReqGoto(c, label) == at' = [at EXCEPT ![c] = label]

Registered == {i \in Ids : clients[i] # None}

\* client_count < max_active_clients, some time before the client is added.
CountClients(c) ==
  /\ at[c] = "sent"
  /\ req[c].long => worker.job # "notify"
  /\ req' = [req EXCEPT ![c].long =
               @ /\ Cardinality(Registered) < MaxActiveClients]
  /\ ReqGoto(c, "counted")
  /\ UNCHANGED <<server, resp, out, pages, history>>

\* Client#backlog asks for the last id of every channel first.
ReadLastIds(c) ==
  /\ at[c] = "counted"
  /\ req' = [req EXCEPT ![c].busId = Len(log)]
  /\ ReqGoto(c, "ids")
  /\ UNCHANGED <<server, resp, out, pages, history>>

\* Mutant: a position before the first message is not brought back to it.
StartUnbounded(v, busId) == IF v >= -1 THEN v ELSE busId + v + 1

\* Where the backlog is read from: an id below -1 counts back from the bus's.
Start(v, busId) ==
  IF v >= -1 THEN v
  ELSE IF busId + v + 1 < 0 THEN 0 ELSE busId + v + 1

\* Mutant: a client that is one message behind is taken for up to date.
WantsLongBacklog(v, busId) == v < -1 \/ (v >= 0 /\ v + 1 < busId)

\* -1, an id the client is up to date with and one ahead of the bus read none.
WantsBacklog(v, busId) == v < -1 \/ (v >= 0 /\ v < busId)

After(n) == {k \in DOMAIN log : k > n}

\* A set of ids as the store returns them, the lowest first.
Ascending(ids) ==
  CHOOSE s \in [1..Cardinality(ids) -> ids] :
    /\ ToSet(s) = ids
    /\ \A j, k \in DOMAIN s : j < k => s[j] < s[k]

AsItems(ids) == [k \in DOMAIN ids |-> [kind |-> "message", id |-> ids[k]]]

\* Mutant: the backlog is read as of the ids, and the status's ids after it.
ReadBacklogFirst(c) ==
  LET v      == req[c].last
      busId  == req[c].busId
      start  == Start(v, busId)
      asked  == IF WantsBacklog(v, busId)
                THEN {k \in After(start) : k <= busId} ELSE {}
      ids    == asked \ (1..trimmed)
      mine   == {n \in ids : c[1] \in log[n]}
      denied == mine # ids
      status == v = -1 \/ v > busId \/ denied
  IN  /\ at[c] = "ids"
      /\ resp' = [resp EXCEPT ![c] =
                    AsItems(Ascending(mine)) \o
                    (IF status THEN <<[kind |-> "status", id |-> Len(log)]>>
                               ELSE <<>>)]
      /\ req' = [req EXCEPT ![c].read = busId,
                            ![c].start = IF v = -1 \/ v > busId THEN busId
                                                                ELSE start]
      /\ gone' = gone \cup ({c[1]} \X (asked \cap 1..trimmed))
      /\ ReqGoto(c, "scanned")
      /\ UNCHANGED <<server, out, pages, missed>>

\* The rest of Client#backlog: the messages that are retained and the client may
\* have, and a status with the bus's id if it subscribed to none, was ahead, or
\* was denied some.
ReadBacklog(c) ==
  LET v      == req[c].last
      busId  == req[c].busId
      start  == Start(v, busId)
      asked  == IF WantsBacklog(v, busId) THEN After(start) ELSE {}
      ids    == asked \ (1..trimmed)
      mine   == {n \in ids : c[1] \in log[n]}
      denied == mine # ids
      status == v = -1 \/ v > busId \/ denied
  IN  /\ at[c] = "ids"
      /\ resp' = [resp EXCEPT ![c] =
                    AsItems(Ascending(mine)) \o
                    (IF status THEN <<[kind |-> "status", id |-> busId]>>
                               ELSE <<>>)]
      /\ req' = [req EXCEPT ![c].read = IF WantsBacklog(v, busId) THEN Len(log)
                                                                 ELSE busId,
                            ![c].start = IF v = -1 \/ v > busId THEN busId
                                                                ELSE start]
      /\ gone' = gone \cup ({c[1]} \X (asked \cap 1..trimmed))
      /\ ReqGoto(c, "scanned")
      /\ UNCHANGED <<server, out, pages, missed>>

\* A backlog for a client that does not take chunks, or no long poll for it:
\* an ordinary response with what there is.
RespondNow(c) ==
  /\ at[c] = "scanned"
  /\ (resp[c] # <<>> /\ ~req[c].chunked) \/ ~req[c].long
  /\ out' = Written(c, resp[c])
  /\ resp' = [resp EXCEPT ![c] = <<>>]
  /\ ReqGoto(c, "done")
  /\ UNCHANGED <<server, req, pages, history>>

\* rack.hijack: the socket is kept and the backlog written as the first chunk.
Hijack(c) ==
  /\ at[c] = "scanned"
  /\ (resp[c] = <<>> \/ req[c].chunked) /\ req[c].long
  /\ open' = open \cup {c}
  /\ out' = Written(c, resp[c])
  /\ resp' = [resp EXCEPT ![c] = <<>>]
  /\ ReqGoto(c, "adding")
  /\ UNCHANGED <<store, notified, worker, timers, clients, subs, req, pages,
                 history>>

\* That write raises if the page has gone: the request ends with an error, and
\* its client, which nobody knows, keeps the socket it has taken over.
HijackFails(c) ==
  /\ at[c] = "scanned"
  /\ resp[c] # <<>> /\ req[c].chunked /\ req[c].long
  /\ ~Reading(c)
  /\ open' = open \cup {c}
  /\ resp' = [resp EXCEPT ![c] = <<>>]
  /\ ReqGoto(c, "failed")
  /\ UNCHANGED <<store, notified, worker, timers, clients, subs, req, out,
                 pages, history>>

\* ConnectionManager#add_client.  An older poll than the one registered is
\* closed; a newer one takes its place, and the old one's clean-up is cancelled.
Superseded(c) ==
  LET existing == clients[c[1]]
  IN  existing # None /\ existing[2] > c[2]

\* A connection's clean-up is in the queue at most once.
Without(queue, c) ==
  IF c \in ToSet(queue)
  THEN RemoveAt(queue, CHOOSE k \in DOMAIN queue : queue[k] = c)
  ELSE queue

\* Mutant: the connection that is replaced is not closed.
AddClientOnly(c) ==
  LET i == c[1]
  IN  /\ at[c] = "adding"
      /\ worker.job # "notify"
      /\ \/ /\ Superseded(c)
            /\ open' = open \ {c}
            /\ UNCHANGED <<clients, subs, timers>>
         \/ /\ ~Superseded(c)
            /\ timers' = Without(timers, clients[i])
            /\ clients' = [clients EXCEPT ![i] = c]
            /\ subs' = subs \cup {i}
            /\ UNCHANGED open
      /\ ReqGoto(c, "added")
      /\ UNCHANGED <<store, notified, worker, req, resp, out, pages, history>>

AddClient(c) ==
  LET i == c[1]
  IN  /\ at[c] = "adding"
      /\ worker.job # "notify"
      /\ \/ /\ Superseded(c)
            /\ open' = open \ {c}
            /\ UNCHANGED <<clients, subs, timers>>
         \/ /\ ~Superseded(c)
            /\ open' = open \ {clients[i]}
            /\ timers' = Without(timers, clients[i])
            /\ clients' = [clients EXCEPT ![i] = c]
            /\ subs' = subs \cup {i}
      /\ ReqGoto(c, "added")
      /\ UNCHANGED <<store, notified, worker, req, resp, out, pages, history>>

\* Mutant: the clean-up is queued in the ConnectionManager's monitor.
SetTimerInMonitor(c) ==
  /\ at[c] = "added"
  /\ worker.job # "notify"
  /\ timers' = Append(timers, c)
  /\ ReqGoto(c, "done")
  /\ UNCHANGED <<store, notified, worker, clients, subs, req, resp, open, out,
                 pages, history>>

\* cleanup_timer = timer.queue(long_polling_interval), whatever add_client did;
\* then the first chunk, and the client's mutex is released.
SetTimer(c) ==
  /\ at[c] = "added"
  /\ timers' = Append(timers, c)
  /\ ReqGoto(c, "done")
  /\ UNCHANGED <<store, notified, worker, clients, subs, req, resp, open, out,
                 pages, history>>

-----------------------------------------------------------------------------
(* The bus and its timer thread, which runs one job at a time.             *)

Publish(audience) ==
  /\ Len(log) < MaxMessages
  /\ log' = Append(log, audience)
  /\ UNCHANGED <<trimmed, notified, worker, timers, clients, subs, at, req,
                 resp, open, out, pages, history>>

\* The oldest message leaves the backlog, trimmed by a publication or by age.
Trim ==
  /\ trimmed < Len(log) /\ trimmed < MaxTrimmed
  /\ trimmed' = trimmed + 1
  /\ UNCHANGED <<log, notified, worker, timers, clients, subs, at, req, resp,
                 open, out, pages, history>>

\* A long poll has made up its response without message n, and is not yet
\* registered to be notified of it.
InWindow(c, n) ==
  /\ req[c].long
  /\ \/ /\ at[c] = "ids"
        /\ ~WantsBacklog(req[c].last, req[c].busId) /\ req[c].busId < n
     \/ /\ at[c] \in {"scanned", "adding"}
        /\ req[c].read < n

\* notify_clients enters the monitor and walks the channel's set.
NotifyBegin ==
  /\ worker = Idle
  /\ notified < Len(log)
  /\ worker' = [Idle EXCEPT !.job = "notify", !.left = subs]
  /\ missed' = missed \cup
       {<<c[1], notified + 1>> :
          c \in {d \in Conns : InWindow(d, notified + 1)}}
  /\ UNCHANGED <<store, notified, timers, clients, subs, at, req, resp, open,
                 out, pages, gone>>

\* Mutant: the channel's set keeps the id.
RemoveFromClients(c) ==
  /\ clients' = [clients EXCEPT ![c[1]] = None]
  /\ timers' = Without(timers, c)
  /\ UNCHANGED subs

\* remove_client deletes by client id, whichever connection it is called with,
\* and cancels that connection's clean-up.
RemoveClient(c) ==
  /\ clients' = [clients EXCEPT ![c[1]] = None]
  /\ subs' = subs \ {c[1]}
  /\ timers' = Without(timers, c)

\* One client of the set, under its mutex: written to if it may receive the
\* message and its socket is open, and removed if that leaves it closed.  An
\* ordinary response closes it, unless the page has gone and the write raises.
NotifyClient(i) ==
  LET c == clients[i]
      n == notified + 1
  IN  /\ worker.job = "notify"
      /\ i \in worker.left
      /\ worker' = [worker EXCEPT !.left = @ \ {i}]
      /\ IF c # None /\ i \in log[n]
         THEN /\ at[c] # "added"
              /\ out' = IF c \in open THEN Written(c, AsItems(<<n>>)) ELSE out
              /\ \/ open' = IF req[c].chunked THEN open ELSE open \ {c}
                 \/ ~Reading(c) /\ UNCHANGED open
              /\ IF c \in open' THEN UNCHANGED <<clients, subs, timers>>
                                ELSE RemoveClient(c)
         ELSE UNCHANGED <<out, open, clients, subs, timers>>
      /\ UNCHANGED <<store, notified, at, req, resp, pages, history>>

NotifyEnd ==
  /\ worker.job = "notify"
  /\ worker.left = {}
  /\ worker' = Idle
  /\ notified' = notified + 1
  /\ UNCHANGED <<store, timers, clients, subs, at, req, resp, open, out, pages,
                 history>>

\* The long poll has lasted long_polling_interval: its job leaves the queue, ...
TimerFires ==
  /\ worker = Idle
  /\ timers # <<>>
  /\ worker' = [Idle EXCEPT !.job = "close", !.conn = Head(timers)]
  /\ timers' = Tail(timers)
  /\ UNCHANGED <<store, notified, clients, subs, at, req, resp, open, out,
                 pages, history>>

\* ... closes the client, without its mutex, ...
CleanUpClose ==
  /\ worker.job = "close"
  /\ open' = open \ {worker.conn}
  /\ worker' = [worker EXCEPT !.job = "remove"]
  /\ UNCHANGED <<store, notified, timers, clients, subs, at, req, resp, out,
                 pages, history>>

\* ... and removes it.
CleanUpRemove ==
  /\ worker.job = "remove"
  /\ RemoveClient(worker.conn)
  /\ worker' = Idle
  /\ UNCHANGED <<store, notified, at, req, resp, open, out, pages, history>>

-----------------------------------------------------------------------------
Request(c) ==
  \/ CountClients(c) \/ ReadLastIds(c) \/ ReadBacklog(c) \/ RespondNow(c)
  \/ Hijack(c) \/ AddClient(c) \/ SetTimer(c)

Page(i) ==
  \/ \E chunked \in Encodings, long \in LongPolls : Poll(i, chunked, long)
  \/ Receive(i) \/ Complete(i)

Work ==
  \/ NotifyBegin \/ (\E i \in Ids : NotifyClient(i)) \/ NotifyEnd
  \/ TimerFires \/ CleanUpClose \/ CleanUpRemove

\* Every bound is used up and nobody has anything left to do.
Finished ==
  /\ Len(log) = MaxMessages
  /\ \A i \in Ids : web[i].polls = MaxPolls /\ web[i].conn = None
  /\ \A c \in Conns : at[c] \in {"done", "failed"}
  /\ worker = Idle /\ timers = <<>> /\ notified = Len(log)
  /\ UNCHANGED vars

Next ==
  \/ \E c \in Conns : Request(c) \/ HijackFails(c)
  \/ \E i \in Ids : Page(i) \/ Abort(i)
  \/ (\E audience \in SUBSET Ids : Publish(audience)) \/ Trim
  \/ Work
  \/ Finished

Spec == Init /\ [][Next]_vars

\* Threads that can go on do, and the timer thread runs its jobs; nobody has to
\* publish, to poll again or to give up.
FairSpec == Spec /\ WF_vars(Work) /\ \A c \in Conns : WF_vars(Request(c))

-----------------------------------------------------------------------------
\* Client#backlog reads the bus's ids before the backlog, so what it returns
\* moves no page past a message it may receive and is not given, unless the
\* backlog no longer retained it: up to the furthest id of the response, every
\* such message after the start is in it.
BacklogNeverSkips ==
  \A c \in Conns : at[c] = "scanned" =>
    \A k \in DOMAIN resp[c] : \A n \in 1..resp[c][k].id :
      n > req[c].start /\ c[1] \in log[n] /\ <<c[1], n>> \notin gone =>
        [kind |-> "message", id |-> n] \in ToSet(resp[c])

\* "all messages AFTER message id 7 AND all new messages": a page has been
\* handed every message it may receive between its start and its last id that
\* was retained when it asked.
NoLoss ==
  \A i \in Ids : base[i] # None =>
    \A n \in DOMAIN log :
      base[i] < n /\ n <= web[i].last /\ i \in log[n] =>
        n \in got[i] \/ <<i, n>> \in gone

\* A message is passed over only if it was no longer retained when a poll of the
\* page asked for it, or was dispatched while a long poll of the page had done
\* its reads and was not yet registered; polls that are answered at once lose
\* none that is retained.
LossOnlyInWindow ==
  \A i \in Ids : base[i] # None =>
    \A n \in DOMAIN log :
      base[i] < n /\ n <= web[i].last /\ i \in log[n] =>
        n \in got[i] \/ <<i, n>> \in missed \cup gone

\* A client is in the channel's set exactly when it is registered, and nobody
\* else's connection is registered under its id.
IndexConsistent ==
  /\ subs = Registered
  /\ \A i \in Registered : clients[i][1] = i

\* A notification ends: the timer thread, in the monitor, waits for a client's
\* mutex only while its request needs nothing more than to set its timer.
NotificationEnds == (worker.job = "notify") ~> (worker.job # "notify")

\* Every hijacked connection is closed in the end (let go of, if its socket is
\* dead), even when other polls of the same page cancel clean-up jobs or take
\* the registration away; but not one whose page had gone when its backlog was
\* written.
EventuallyClosed ==
  \A c \in Conns : (c \in open) ~> (c \notin open \/ at[c] = "failed")
=============================================================================

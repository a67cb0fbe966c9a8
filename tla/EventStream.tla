----------------------------- MODULE EventStream -----------------------------
(***************************************************************************)
(* The progress page of one selected run, from the recorded row to the     *)
(* timeline on the screen.                                                 *)
(*                                                                         *)
(*   recorder   commits a job_step_events row, then publishes it           *)
(*   bus        a bounded queue per subscriber; a full one drops           *)
(*   stream     subscribe, then the stored rows, then the queue (SSE)      *)
(*   page       REST events + live events, merged by fingerprint           *)
(*                                                                         *)
(* The fingerprint holds a time stamp.  The row's is the database's now(), *)
(* a published event's is taken after the commit, so the same event may    *)
(* have two fingerprints.  An item is <<event, stamp, state>>: stamp "row" *)
(* or "own", state "asis" or "closed" (rewritten by the reconciliation).   *)
(***************************************************************************)
EXTENDS Integers, Sequences

CONSTANTS
  NumEvents,  \* rows the run may record
  Opening,    \* the events that report a step as running
  QueueMax,   \* _QUEUE_MAXSIZE
  MaxConns,   \* bound: connections of the page
  MaxOthers,  \* bound: published events of other runs
  MaxFails    \* bound: REST requests that fail while the backend is up

ASSUME StreamAssumption ==
  /\ NumEvents \in Nat /\ QueueMax \in Nat /\ MaxConns \in Nat
  /\ MaxOthers \in Nat /\ MaxFails \in Nat
  /\ Opening \subseteq 1 .. NumEvents

VARIABLES
  up,       \* the backend serves
  run,      \* job_history.status of the selected run
  rows,     \* its events 1 .. rows are committed
  pub,      \* 1 .. pub of them are published (or were lost with the process)
  closed,   \* the reconciliation has failed the open events
  stage,    \* per connection: the generator of /jobs/stream
  queue,    \* per connection: the subscriber's queue
  out,      \* per connection: stored rows still to be sent
  dropped,  \* per connection: the queue was full once
  cur,      \* the connection the page reads from, 0 for none
  status,   \* the run's status as the page knows it
  snap,     \* eventsQuery.data
  ready,    \* eventsQuery.isSuccess
  ask,      \* the events request: "none", "sent", "answered", "failed"
  tries,    \* failed attempts of this request
  answer,   \* rows on their way to the page
  live,     \* liveEvents
  others, fails

store == <<run, rows, pub, closed>>
streams == <<stage, queue, out, dropped>>
query == <<snap, ready, ask, tries, answer>>
page == <<cur, status, live>>
vars == <<up, store, streams, query, page, others, fails>>

Conns == 1 .. MaxConns
Foreign == <<0, "own", "asis">>
StateOf(e) == IF closed /\ e \in Opening THEN "closed" ELSE "asis"
StoredRow(e) == <<e, "row", StateOf(e)>>
Stored == {StoredRow(e) : e \in 1 .. rows}
Items == (0 .. NumEvents) \X {"row", "own"} \X {"asis", "closed"}

Init ==
  /\ up = TRUE
  /\ run = "running" /\ rows = 0 /\ pub = 0 /\ closed = FALSE
  /\ stage = [c \in Conns |-> "unused"]
  /\ queue = [c \in Conns |-> <<>>]
  /\ out = [c \in Conns |-> <<>>]
  /\ dropped = [c \in Conns |-> FALSE]
  /\ cur = 0 /\ status = "unknown" /\ live = {}
  /\ snap = {} /\ ready = FALSE /\ ask = "sent" /\ tries = 0 /\ answer = {}
  /\ others = 0 /\ fails = 0

-----------------------------------------------------------------------------
(* The recorder and the bus *)

\* Mutant: the queue is registered after the stored rows have been sent.
LateSubscribed == {c \in Conns : stage[c] = "streaming" /\ out[c] = <<>>}

Subscribed == {c \in Conns : stage[c] \in {"subscribed", "streaming"}}
Full(c) == Len(queue[c]) = QueueMax

\* publish: put_nowait to every subscriber, a full queue is skipped.
FanOut(item) ==
  /\ queue' = [c \in Conns |-> IF c \in Subscribed /\ ~Full(c) THEN Append(queue[c], item)
                                                                ELSE queue[c]]
  /\ dropped' = [c \in Conns |-> dropped[c] \/ (c \in Subscribed /\ Full(c))]
  /\ UNCHANGED <<stage, out>>

\* JobProgressRecorder.record, first half: a transaction of its own.  One that
\* fails is logged and leaves nothing.
CommitRow ==
  /\ up /\ run = "running" /\ pub = rows /\ rows < NumEvents
  /\ rows' = rows + 1
  /\ UNCHANGED <<up, run, pub, closed, streams, query, page, others, fails>>

\* Second half: the event gets a time stamp of its own, which may or may not
\* fall into the millisecond of the row's.
Publish ==
  /\ up /\ pub < rows
  /\ pub' = rows
  /\ \E stamp \in {"row", "own"} : FanOut(<<rows, stamp, "asis">>)
  /\ UNCHANGED <<up, run, rows, closed, query, page, others, fails>>

\* The bus is one for all runs.
PublishOther ==
  /\ up /\ others < MaxOthers
  /\ others' = others + 1
  /\ FanOut(Foreign)
  /\ UNCHANGED <<up, store, query, page, fails>>

\* finalize, after the last record.
EndRun ==
  /\ up /\ run = "running" /\ pub = rows
  /\ run' = "ended"
  /\ UNCHANGED <<up, rows, pub, closed, streams, query, page, others, fails>>

\* The process stops: the bus and every stream go with it.
Stop ==
  /\ up /\ up' = FALSE
  /\ pub' = rows
  /\ stage' = [c \in Conns |-> IF stage[c] = "unused" THEN "unused" ELSE "gone"]
  /\ queue' = [c \in Conns |-> <<>>] /\ out' = [c \in Conns |-> <<>>]
  /\ cur' = 0
  /\ UNCHANGED <<run, rows, closed, dropped, status, live, query, others, fails>>

\* reconcile_orphaned_runs: a running run has failed, and so have its open steps.
Restart ==
  /\ ~up /\ up' = TRUE
  /\ run' = "ended"
  /\ closed' = (closed \/ run = "running")
  /\ UNCHANGED <<rows, pub, streams, query, page, others, fails>>

-----------------------------------------------------------------------------
(* The page: queries and effects of JobsPageInner *)

\* The subscription effect: no stream for a run that is known to have ended,
\* and none before the REST events are there.
WantsStream == status # "ended" /\ ready

\* GET /jobs/stream of a run that exists: the generator registers its queue
\* before anything else.
Accept(c) == stage' = [stage EXCEPT ![c] = "subscribed"]

\* subscribeJobs connects, again and again after its backoff.
Connect ==
  /\ up /\ WantsStream /\ cur = 0
  /\ \E c \in Conns :
       /\ stage[c] = "unused" /\ \A d \in Conns : d < c => stage[d] # "unused"
       /\ cur' = c
       /\ Accept(c)
  /\ UNCHANGED <<up, store, queue, out, dropped, status, live, query, others, fails>>

\* _load_step_snapshot, in the order the rows were created.
LoadSnapshot(c) ==
  /\ up /\ stage[c] = "subscribed"
  /\ stage' = [stage EXCEPT ![c] = "streaming"]
  /\ out' = [out EXCEPT ![c] = [e \in 1 .. rows |-> StoredRow(e)]]
  /\ UNCHANGED <<up, store, queue, dropped, query, page, others, fails>>

\* Mutant: the live events restart with each frame.
ReceiveLatest(item) == live' = IF item \in snap THEN live ELSE {item}

\* The callback of subscribeJobs: what the snapshot or the live events have
\* already, by fingerprint, is ignored.
Receive(item) == live' = IF item \in snap THEN live ELSE live \cup {item}

SendRow(c) ==
  /\ up /\ c = cur /\ stage[c] = "streaming" /\ out[c] # <<>>
  /\ Receive(Head(out[c]))
  /\ out' = [out EXCEPT ![c] = Tail(@)]
  /\ UNCHANGED <<up, store, stage, queue, dropped, cur, status, query, others, fails>>

\* An event of another run is taken from the queue and not sent.
SendLive(c) ==
  /\ up /\ c = cur /\ stage[c] = "streaming" /\ out[c] = <<>> /\ queue[c] # <<>>
  /\ IF Head(queue[c]) = Foreign THEN UNCHANGED live ELSE Receive(Head(queue[c]))
  /\ queue' = [queue EXCEPT ![c] = Tail(@)]
  /\ UNCHANGED <<up, store, stage, out, dropped, cur, status, query, others, fails>>

\* The connection breaks; what is under way is lost.
Cut ==
  /\ cur # 0 /\ cur' = 0
  /\ UNCHANGED <<up, store, streams, status, live, query, others, fails>>

\* The generator of a connection nobody reads is closed and unsubscribes.
Unsubscribe(c) ==
  /\ up /\ c # cur /\ stage[c] \in {"subscribed", "streaming"}
  /\ stage' = [stage EXCEPT ![c] = "gone"]
  /\ queue' = [queue EXCEPT ![c] = <<>>] /\ out' = [out EXCEPT ![c] = <<>>]
  /\ UNCHANGED <<up, store, dropped, query, page, others, fails>>

\* Mutant: the end of the run does not invalidate the events.
PollNoRefetch ==
  /\ up /\ status' = run
  /\ cur' = IF run = "ended" THEN 0 ELSE cur
  /\ UNCHANGED <<up, store, streams, live, query, others, fails>>

\* The list of runs is read every 15 seconds.  When the page sees the run end
\* (shouldRefetchEventsOnTerminal) it forgets the live events and asks for the
\* stored ones again, which cancels a request under way.
PollRuns ==
  /\ up /\ status' = run
  /\ cur' = IF run = "ended" THEN 0 ELSE cur
  /\ IF status = "running" /\ run = "ended"
       THEN live' = {} /\ ask' = "sent" /\ tries' = 0 /\ answer' = {}
       ELSE UNCHANGED <<live, ask, tries, answer>>
  /\ UNCHANGED <<up, store, streams, snap, ready, others, fails>>

\* GET /jobs/runs/{id}/events: read by the backend, then received by the page.
ReadEvents ==
  /\ up /\ ask = "sent"
  /\ ask' = "answered" /\ answer' = Stored
  /\ UNCHANGED <<up, store, streams, snap, ready, tries, page, others, fails>>

ReceiveEvents ==
  /\ ask = "answered"
  /\ ask' = "none" /\ tries' = 0 /\ answer' = {}
  /\ snap' = answer /\ ready' = TRUE
  /\ UNCHANGED <<up, store, streams, page, others, fails>>

\* A failed request is retried once (query-provider.tsx), then the page shows
\* an error; a stopped backend fails every request.
EventsFail ==
  /\ ask \in {"sent", "answered"}
  /\ \/ ~up /\ UNCHANGED fails
     \/ up /\ fails < MaxFails /\ fails' = fails + 1
  /\ answer' = {}
  /\ IF tries = 0 THEN ask' = "sent" /\ tries' = 1 /\ UNCHANGED <<ready, cur>>
                  ELSE ask' = "failed" /\ ready' = FALSE /\ cur' = 0 /\ UNCHANGED tries
  /\ UNCHANGED <<up, store, streams, snap, status, live, others>>

-----------------------------------------------------------------------------
Server == CommitRow \/ Publish \/ PublishOther \/ EndRun \/ Stop \/ Restart
Stream(c) == LoadSnapshot(c) \/ SendRow(c) \/ SendLive(c) \/ Unsubscribe(c)
Query == PollRuns \/ ReadEvents \/ ReceiveEvents \/ EventsFail

Next == Server \/ (\E c \in Conns : Stream(c)) \/ Connect \/ Cut \/ Query

Spec == Init /\ [][Next]_vars

\* The page polls for ever, a request is answered or fails, and systemd starts
\* the backend again.  Nothing is assumed of the stream.
FairSpec ==
  /\ Spec
  /\ WF_vars(Restart)
  /\ SF_vars(PollRuns)
  /\ SF_vars(ReadEvents) /\ WF_vars(ReceiveEvents)

-----------------------------------------------------------------------------
(* Properties *)

\* timelineEvents: the stored items and the live ones that are not among them.
Timeline == snap \cup (live \ snap)
Shown == {item[1] : item \in Timeline}

TypeOK ==
  /\ up \in BOOLEAN /\ closed \in BOOLEAN /\ ready \in BOOLEAN
  /\ run \in {"running", "ended"} /\ status \in {"unknown", "running", "ended"}
  /\ rows \in 0 .. NumEvents /\ pub \in 0 .. NumEvents
  /\ stage \in [Conns -> {"unused", "subscribed", "streaming", "gone"}]
  /\ queue \in [Conns -> Seq(Items)] /\ out \in [Conns -> Seq(Items)]
  /\ dropped \in [Conns -> BOOLEAN]
  /\ cur \in 0 .. MaxConns
  /\ snap \subseteq Items /\ answer \subseteq Items /\ live \subseteq Items
  /\ ask \in {"none", "sent", "answered", "failed"} /\ tries \in 0 .. 1
  /\ others \in 0 .. MaxOthers /\ fails \in 0 .. MaxFails

EventsOf(seq) == {seq[i][1] : i \in DOMAIN seq}

\* event_bus.py:148: because the queue is registered before the rows are read,
\* no published event falls between the two.  On the connection the page reads
\* each one is on the screen, still to be sent, or waits in the queue, unless
\* the queue was full.
NothingMissed ==
  cur # 0 => \/ stage[cur] # "streaming" \/ dropped[cur]
             \/ 1 .. pub \subseteq Shown \cup EventsOf(out[cur]) \cup EventsOf(queue[cur])

\* An event that is on the screen stays there through broken connections,
\* restarts and reloads, except for the moment the end of the run is seen, when
\* the live events give way to the stored ones.
ShownStays == [][status' = status => Shown \subseteq Shown']_vars

\* A page that has seen the run running ends with exactly the stored rows,
\* including those the reconciliation rewrote, whatever the stream dropped,
\* doubled or lost; or it says that they could not be read.
TimelineSettles ==
  status = "running" /\ run = "ended" ~> Timeline = Stored \/ ask = "failed"

=============================================================================

-------------------------------- MODULE GpuJobs --------------------------------
(***************************************************************************)
(* Generation jobs between the backend and the GPU worker.                 *)
(*                                                                         *)
(* The backend asks for one output file at a time and track: it posts a    *)
(* job, posts it again when the answer does not come, and polls the job    *)
(* whose acceptance it received.  The worker is a process of its own whose *)
(* jobs live in memory: an endpoint, run in a thread of the server, files  *)
(* a record and puts it into an asyncio.Queue, from which one consumer     *)
(* task takes the jobs in turn.  A job writes the file named by its        *)
(* request, the same for every attempt and every regeneration of a track.  *)
(*                                                                         *)
(* asyncio.Queue is not thread-safe: between its check for an empty queue  *)
(* and the registration of the waiting consumer a thread may put a job and *)
(* find nobody to wake.  The images of a post go the same way with a path  *)
(* and a timeout of their own.                                             *)
(***************************************************************************)
EXTENDS Naturals, Sequences, FiniteSets

CONSTANTS Tracks,       \* output files asked for, each by one caller
          NoJob,        \* the consumer runs nothing, nobody wrote the file
          MaxCalls,     \* bound on calls: one for a track and its regenerations
          MaxAttempts,  \* tries of an HTTP request
          MaxStops      \* bound on stops of the worker process

Job == Tracks \X (1 .. MaxCalls) \X (1 .. MaxAttempts)

ASSUME NoJobAssumption == NoJob \notin Job
ASSUME BoundAssumption ==
  MaxCalls \in Nat /\ MaxAttempts \in Nat \ {0} /\ MaxStops \in Nat

VARIABLES
  up,     \* the worker process is running
  rec,    \* status of each job in the worker's memory, "none" if unknown
  queue,  \* the asyncio.Queue
  cons,   \* control point of the consumer task
  cur,    \* the job it runs
  file,   \* the job that last wrote the track's file
  sent,   \* jobs whose POST is on its way to the worker
  pc,     \* control point of the caller of each track
  call,   \* number of its call
  att,    \* number of the attempt to post
  row,    \* gpu_jobs.status of the call
  late,   \* a job of the track came in after its caller had given it up
  calls,  \* calls left
  stops   \* stops of the worker left

caller == <<pc, call, att, row, calls>>
store == <<rec, queue>>
consumer == <<cons, cur>>
vars == <<up, store, consumer, file, sent, caller, late, stops>>

RecState == {"none", "queued", "running", "succeeded", "failed"}
RowState == {"none", "queued", "running", "succeeded", "failed"}

Init ==
  /\ up = TRUE
  /\ rec = [j \in Job |-> "none"]
  /\ queue = <<>>
  /\ cons = "checking"
  /\ cur = NoJob
  /\ file = [t \in Tracks |-> NoJob]
  /\ sent = {}
  /\ pc = [t \in Tracks |-> "idle"]
  /\ call = [t \in Tracks |-> 0]
  /\ att = [t \in Tracks |-> 1]
  /\ row = [t \in Tracks |-> "none"]
  /\ late = [t \in Tracks |-> FALSE]
  /\ calls = MaxCalls
  /\ stops = MaxStops

-----------------------------------------------------------------------------
(* Helpers *)

JobOf(t) == <<t, call[t], att[t]>>
Awaited(j) == pc[j[1]] = "posting" /\ JobOf(j[1]) = j
Post(j) == IF up THEN {j} ELSE {}
Ends(t, label, status) ==
  /\ pc' = [pc EXCEPT ![t] = label]
  /\ row' = [row EXCEPT ![t] = status]
Written(j) == [file EXCEPT ![j[1]] = j]

-----------------------------------------------------------------------------
(* The backend: submit_and_wait and regenerate_track for one track *)

\* A gpu_jobs row, then the POST.  A track is regenerated only after the call
\* before succeeded.
Submit(t) ==
  /\ pc[t] \in {"idle", "ok"} /\ calls > 0
  /\ calls' = calls - 1
  /\ call' = [call EXCEPT ![t] = @ + 1]
  /\ att' = [att EXCEPT ![t] = 1]
  /\ Ends(t, "posting", "queued")
  /\ sent' = sent \cup Post(<<t, call'[t], 1>>)
  /\ UNCHANGED <<up, store, consumer, file, late, stops>>

Accepted(t) ==
  /\ pc[t] = "posting" /\ rec[JobOf(t)] # "none"
  /\ Ends(t, "polling", "running")
  /\ UNCHANGED <<up, store, consumer, file, sent, call, att, calls, late, stops>>

\* No connection, a timeout or a 5xx answer.  The request may be gone or still
\* under way, and the worker may have taken it.
PostFails(t) ==
  /\ pc[t] = "posting"
  /\ \E left \in {sent, sent \ {JobOf(t)}} :
       \/ /\ att[t] < MaxAttempts
          /\ att' = [att EXCEPT ![t] = @ + 1]
          /\ sent' = left \cup Post(<<t, call[t], att[t] + 1>>)
          /\ UNCHANGED <<pc, row>>
       \/ /\ att[t] = MaxAttempts
          /\ Ends(t, "failed", row[t])
          /\ sent' = left
          /\ UNCHANGED att
  /\ UNCHANGED <<up, store, consumer, file, call, calls, late, stops>>

\* A 4xx answer is not tried again.
PostRejected(t) ==
  /\ up /\ pc[t] = "posting" /\ JobOf(t) \in sent
  /\ Ends(t, "failed", row[t])
  /\ sent' = sent \ {JobOf(t)}
  /\ UNCHANGED <<up, store, consumer, file, call, att, calls, late, stops>>

\* An answer that ends the polling.  A worker that was restarted does not know
\* the job and answers 404, which leaves the row as it is.
Poll(t) ==
  /\ up /\ pc[t] = "polling"
  /\ \/ rec[JobOf(t)] = "none" /\ Ends(t, "failed", row[t])
     \/ rec[JobOf(t)] = "succeeded" /\ Ends(t, "ok", "succeeded")
     \/ rec[JobOf(t)] = "failed" /\ Ends(t, "failed", "failed")
  /\ UNCHANGED <<up, store, consumer, file, sent, call, att, calls, late, stops>>

\* The job takes longer than the timeout, or a GET fails MaxAttempts times, or
\* the caller is cancelled: the row is left as it is.
GiveUpUnreachable(t) ==
  /\ ~up /\ pc[t] = "polling"
  /\ Ends(t, "failed", row[t])
  /\ UNCHANGED <<up, store, consumer, file, sent, call, att, calls, late, stops>>
GiveUp(t) ==
  /\ pc[t] = "polling"
  /\ Ends(t, "failed", row[t])
  /\ UNCHANGED <<up, store, consumer, file, sent, call, att, calls, late, stops>>

-----------------------------------------------------------------------------
(* The worker: the endpoint and the consumer *)

PutFront(j) == queue' = <<j>> \o queue
PutBounded(j) == queue' = IF Len(queue) < 1 THEN Append(queue, j) ELSE queue
Put(j) == queue' = Append(queue, j)

\* JobQueue.submit, in a thread: put_nowait wakes the consumer only if it is
\* registered as waiting.
Accept(j) ==
  /\ up /\ j \in sent
  /\ sent' = sent \ {j}
  /\ rec' = [rec EXCEPT ![j] = "queued"]
  /\ Put(j)
  /\ cons' = IF cons = "waiting" THEN "checking" ELSE cons
  /\ late' = [late EXCEPT ![j[1]] = @ \/ ~Awaited(j)]
  /\ UNCHANGED <<up, cur, file, caller, stops>>

\* asyncio.Queue.get: the queue is found empty, ...
ConsEmpty ==
  /\ up /\ cons = "checking" /\ queue = <<>>
  /\ cons' = "arming"
  /\ UNCHANGED <<up, store, cur, file, sent, caller, late, stops>>

\* ... and the consumer is registered as waiting.
ConsArm ==
  /\ up /\ cons = "arming"
  /\ cons' = "waiting"
  /\ UNCHANGED <<up, store, cur, file, sent, caller, late, stops>>

ConsTake ==
  /\ up /\ cons = "checking" /\ queue # <<>>
  /\ cur' = Head(queue)
  /\ queue' = Tail(queue)
  /\ rec' = [rec EXCEPT ![cur'] = "running"]
  /\ cons' = "running"
  /\ UNCHANGED <<up, file, sent, caller, late, stops>>

ConsEnds(status) ==
  /\ rec' = [rec EXCEPT ![cur] = status]
  /\ cur' = NoJob
  /\ cons' = "checking"

ConsSucceeds ==
  /\ up /\ cons = "running"
  /\ file' = Written(cur)
  /\ ConsEnds("succeeded")
  /\ UNCHANGED <<up, queue, sent, caller, late, stops>>

\* The runner raises, perhaps after it wrote the file.
ConsFails ==
  /\ up /\ cons = "running"
  /\ file' \in {file, Written(cur)}
  /\ ConsEnds("failed")
  /\ UNCHANGED <<up, queue, sent, caller, late, stops>>

\* The records and the queue are lost.  The thread that generates is not
\* cancelled with the consumer: the file may still be written.
Reset == cons' = "checking" /\ cur' = NoJob
Stop ==
  /\ up /\ stops > 0
  /\ up' = FALSE
  /\ stops' = stops - 1
  /\ rec' = [j \in Job |-> "none"]
  /\ queue' = <<>>
  /\ Reset
  /\ file' \in {file} \cup {Written(j) : j \in {cur} \ {NoJob}}
  /\ sent' = {}
  /\ UNCHANGED <<caller, late>>

Start ==
  /\ ~up
  /\ up' = TRUE
  /\ UNCHANGED <<store, consumer, file, sent, caller, late, stops>>

Caller(t) == \/ Submit(t) \/ Accepted(t) \/ PostFails(t) \/ PostRejected(t)
             \/ Poll(t) \/ GiveUp(t)
Consumer == ConsEmpty \/ ConsArm \/ ConsTake \/ ConsSucceeds \/ ConsFails

Next == \/ \E t \in Tracks : Caller(t)
        \/ \E j \in Job : Accept(j)
        \/ Consumer \/ Stop \/ Start

Spec == Init /\ [][Next]_vars

\* A caller that has begun goes on: every request has a timeout, and so has
\* the polling.  Nothing is assumed of the worker.
FairSpec ==
  /\ Spec
  /\ \A t \in Tracks : /\ WF_vars(Accepted(t) \/ PostFails(t))
                       /\ WF_vars(Poll(t) \/ GiveUp(t))

-----------------------------------------------------------------------------
(* Properties *)

PC == {"idle", "posting", "polling", "ok", "failed"}
Unfinished == {"queued", "running"}

\* Every variable keeps its type; the consumer has a job exactly while it runs
\* one.
TypeOK ==
  /\ up \in BOOLEAN
  /\ rec \in [Job -> RecState]
  /\ queue \in Seq(Job)
  /\ cons \in {"checking", "arming", "waiting", "running"}
  /\ cur \in Job \cup {NoJob}
  /\ file \in [Tracks -> Job \cup {NoJob}]
  /\ sent \subseteq Job
  /\ pc \in [Tracks -> PC]
  /\ call \in [Tracks -> 0 .. MaxCalls]
  /\ att \in [Tracks -> 1 .. MaxAttempts]
  /\ row \in [Tracks -> RowState]
  /\ late \in [Tracks -> BOOLEAN]
  /\ calls \in 0 .. MaxCalls
  /\ stops \in 0 .. MaxStops
  /\ (cons = "running") = (cur # NoJob)

\* The records and the queue tell the same story: a job reported as queued
\* is in the queue, once, and only the job that runs is reported as running.
RecordsMatchQueue ==
  /\ \A j \in Job : /\ (rec[j] = "queued") =
                         (Cardinality({i \in DOMAIN queue : queue[i] = j}) = 1)
                    /\ (rec[j] = "running") = (cur = j)
  /\ \A i, k \in DOMAIN queue : queue[i] = queue[k] => i = k

\* What a call returned stays: the file is the one of the job it polled, and
\* no attempt that was given up on, of this call or an earlier one, is left in
\* the worker to write over the track that is checked and rendered next.  It
\* is the order of the queue that makes it so, as long as no request overtakes
\* the one that was sent after it.
ResultIsStable ==
  \A t \in Tracks : pc[t] = "ok" /\ ~late[t] =>
    /\ file[t] = JobOf(t)
    /\ \A j \in Job : j[1] = t => rec[j] \notin Unfinished

\* A call ends, whatever the worker does.
CallsEnd == \A t \in Tracks : (pc[t] \in {"posting", "polling"}) ~> (pc[t] \in {"ok", "failed"})

-----------------------------------------------------------------------------
(* What the repository says and the code does not do *)

\* The consumer takes the jobs one after the other and executes them: it
\* never waits while there is one in the queue.
NeverIdleWithWork == cons = "waiting" => queue = <<>>
=============================================================================

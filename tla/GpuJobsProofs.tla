----------------------------- MODULE GpuJobsProofs -----------------------------
(***************************************************************************)
(* The records of the worker agree with its queue, and a returned track is *)
(* not written over, for every set of tracks and every number of calls,    *)
(* attempts and stops.                                                     *)
(***************************************************************************)
EXTENDS GpuJobs, FiniteSetTheorems, TLAPS

Before(i, j) == i[2] < j[2] \/ (i[2] = j[2] /\ i[3] < j[3])
AtMost(j, t) == j[2] < call[t] \/ (j[2] = call[t] /\ j[3] <= att[t])
Finished == {"succeeded", "failed"}

\* A caller that has begun has made a call, and no more than it may.
Counted == \A t \in Tracks : /\ call[t] + calls <= MaxCalls
                             /\ pc[t] # "idle" => call[t] >= 1

\* A job is sent once: what is under way is not known to the worker, and
\* nothing newer than the caller's present attempt exists.
Posted == \A j \in Job : /\ j \in sent => rec[j] = "none"
                         /\ j \in sent \/ rec[j] # "none" => AtMost(j, j[1])

InQueue(j) == \E i \in DOMAIN queue : queue[i] = j
Distinct == \A i, k \in DOMAIN queue : queue[i] = queue[k] => i = k
Matched == \A j \in Job : /\ (rec[j] = "queued") <=> InQueue(j)
                          /\ (rec[j] = "running") <=> (cur = j)

\* The jobs of a track that got no late job stand in the queue, behind the one
\* that runs, in the order in which they were sent.
Ordered ==
  /\ \A i, k \in DOMAIN queue :
       i < k /\ queue[i][1] = queue[k][1] /\ ~late[queue[i][1]] => Before(queue[i], queue[k])
  /\ \A k \in DOMAIN queue :
       cur # NoJob /\ cur[1] = queue[k][1] /\ ~late[cur[1]] => Before(cur, queue[k])

Quiet(t) == \A j \in Job : j[1] = t => rec[j] \notin Unfinished

\* The newest job of such a track ends last, and the file is its own.
NewestLast ==
  \A t \in Tracks : pc[t] # "idle" /\ ~late[t] =>
    /\ rec[JobOf(t)] \in Finished => Quiet(t)
    /\ rec[JobOf(t)] = "succeeded" => file[t] = JobOf(t)

IInv == /\ TypeOK /\ Counted /\ Posted /\ Distinct /\ Matched
        /\ Ordered /\ NewestLast /\ ResultIsStable

-----------------------------------------------------------------------------
(* Jobs and queues *)

LEMMA JobIs ==
  /\ \A j \in Job : /\ j = <<j[1], j[2], j[3]>>
                    /\ j[1] \in Tracks /\ j[2] \in 1 .. MaxCalls /\ j[3] \in 1 .. MaxAttempts
  /\ \A t \in Tracks, n \in 1 .. MaxCalls, a \in 1 .. MaxAttempts : <<t, n, a>> \in Job
BY DEF Job

\* The present job of a caller that has begun.
LEMMA PresentJob ==
  ASSUME TypeOK, Counted, NEW t \in Tracks, pc[t] # "idle"
  PROVE  JobOf(t) \in Job /\ JobOf(t)[1] = t /\ JobOf(t)[2] = call[t] /\ JobOf(t)[3] = att[t]
BY BoundAssumption, JobIs DEF TypeOK, Counted, JobOf

LEMMA Appended ==
  ASSUME NEW s \in Seq(Job), NEW j \in Job
  PROVE  /\ Append(s, j) \in Seq(Job)
         /\ DOMAIN s = 1 .. Len(s) /\ Len(s) \in Nat
         /\ DOMAIN Append(s, j) = 1 .. Len(s) + 1
         /\ Append(s, j)[Len(s) + 1] = j
         /\ \A i \in 1 .. Len(s) : Append(s, j)[i] = s[i]
OBVIOUS

LEMMA HeadAndTail ==
  ASSUME NEW s \in Seq(Job), s # <<>>
  PROVE  /\ Tail(s) \in Seq(Job) /\ Head(s) \in Job /\ Head(s) = s[1]
         /\ Len(s) \in Nat \ {0} /\ DOMAIN s = 1 .. Len(s)
         /\ DOMAIN Tail(s) = 1 .. Len(s) - 1
         /\ \A i \in 1 .. Len(s) - 1 : Tail(s)[i] = s[i + 1]
OBVIOUS

-----------------------------------------------------------------------------
(* The callers *)

\* A step of a caller leaves its job as it is, or puts it behind a newer one
\* that was never sent before.
LEMMA CallerEffect ==
  ASSUME IInv, NEW t \in Tracks, Caller(t)
  PROVE  /\ UNCHANGED <<up, store, consumer, file, late, stops>>
         /\ TypeOK' /\ Counted'
         /\ \A u \in Tracks \ {t} : pc'[u] = pc[u] /\ call'[u] = call[u] /\ att'[u] = att[u]
         /\ pc'[t] # "idle"
         /\ \/ /\ pc[t] # "idle" /\ call' = call /\ att' = att /\ sent' \subseteq sent
               /\ pc'[t] = "ok" => rec[JobOf(t)] = "succeeded"
            \/ /\ pc'[t] = "posting"
               /\ <<t, call'[t], att'[t]>> \in Job
               /\ ~ AtMost(<<t, call'[t], att'[t]>>, t)
               /\ \A j \in Job : AtMost(j, t) => j[2] < call'[t] \/ (j[2] = call'[t] /\ j[3] <= att'[t])
               /\ sent' \subseteq sent \cup {<<t, call'[t], att'[t]>>}
<1> USE BoundAssumption
<1>1. CASE Submit(t)
  <2>1. /\ call[t] \in Nat /\ att[t] \in 1 .. MaxAttempts /\ calls \in Nat \ {0}
        /\ call[t] + calls <= MaxCalls
    BY <1>1 DEF IInv, TypeOK, Counted, Submit
  <2>2. /\ calls' = calls - 1
        /\ call' = [call EXCEPT ![t] = call[t] + 1] /\ att' = [att EXCEPT ![t] = 1]
        /\ pc' = [pc EXCEPT ![t] = "posting"] /\ row' = [row EXCEPT ![t] = "queued"]
        /\ sent' \subseteq sent \cup {<<t, call'[t], 1>>}
        /\ UNCHANGED <<up, store, consumer, file, late, stops>>
    BY <1>1 DEF Submit, Ends, Post
  <2>3. /\ call'[t] = call[t] + 1 /\ att'[t] = 1 /\ pc'[t] = "posting"
        /\ \A u \in Tracks \ {t} : pc'[u] = pc[u] /\ call'[u] = call[u] /\ att'[u] = att[u]
    BY <2>2 DEF IInv, TypeOK
  <2>4. call[t] + 1 \in 1 .. MaxCalls /\ <<t, call'[t], 1>> \in Job
    BY <2>1, <2>3, JobIs
  <2>5. TypeOK'
    <3>1. /\ call' \in [Tracks -> 0 .. MaxCalls] /\ att' \in [Tracks -> 1 .. MaxAttempts]
          /\ pc' \in [Tracks -> PC] /\ row' \in [Tracks -> RowState]
      <4>1. call[t] + 1 \in 0 .. MaxCalls /\ 1 \in 1 .. MaxAttempts
        BY <2>4
      <4> QED BY <2>2, <4>1 DEF IInv, TypeOK, PC, RowState
    <3>2. sent' \subseteq Job
      BY <2>2, <2>4 DEF IInv, TypeOK
    <3>3. calls' \in 0 .. MaxCalls
      BY <2>1, <2>2 DEF IInv, TypeOK
    <3> QED BY <2>2, <3>1, <3>2, <3>3 DEF IInv, TypeOK, store, consumer
  <2>6. Counted'
    BY <2>1, <2>2, <2>3 DEF IInv, TypeOK, Counted
  <2>7. \A j \in Job : j[2] \in Nat /\ j[3] \in 1 .. MaxAttempts
    BY JobIs
  <2>8. ~ AtMost(<<t, call'[t], att'[t]>>, t)
    BY <2>1, <2>3 DEF AtMost
  <2>9. \A j \in Job : AtMost(j, t) => j[2] < call'[t]
    BY <2>1, <2>3, <2>7 DEF AtMost
  <2> QED BY <2>2, <2>3, <2>4, <2>5, <2>6, <2>8, <2>9
<1>2. CASE Accepted(t) \/ PostRejected(t) \/ Poll(t) \/ GiveUp(t)
  <2>1. PICK label \in {"polling", "failed", "ok"}, status \in RowState :
          /\ Ends(t, label, status)
          /\ label = "ok" => rec[JobOf(t)] = "succeeded"
    BY <1>2 DEF Accepted, PostRejected, Poll, GiveUp, IInv, TypeOK, RowState
  <2>2. /\ pc[t] # "idle" /\ sent' \subseteq sent
        /\ UNCHANGED <<up, store, consumer, file, call, att, calls, late, stops>>
    BY <1>2 DEF Accepted, PostRejected, Poll, GiveUp
  <2>3. /\ pc' = [pc EXCEPT ![t] = label] /\ row' = [row EXCEPT ![t] = status]
    BY <2>1 DEF Ends
  <2>4. pc'[t] = label /\ \A u \in Tracks \ {t} : pc'[u] = pc[u]
    BY <2>3 DEF IInv, TypeOK
  <2>5. TypeOK'
    BY <2>2, <2>3 DEF IInv, TypeOK, store, consumer, PC
  <2>6. Counted'
    BY <2>2, <2>4 DEF IInv, Counted
  <2> QED BY <2>1, <2>2, <2>4, <2>5, <2>6
<1>3. CASE PostFails(t)
  <2>1. PICK left \in {sent, sent \ {JobOf(t)}} :
       \/ /\ att[t] < MaxAttempts
          /\ att' = [att EXCEPT ![t] = @ + 1]
          /\ sent' = left \cup Post(<<t, call[t], att[t] + 1>>)
          /\ UNCHANGED <<pc, row>>
       \/ /\ att[t] = MaxAttempts
          /\ Ends(t, "failed", row[t])
          /\ sent' = left
          /\ UNCHANGED att
    BY <1>3 DEF PostFails
  <2>2. /\ pc[t] = "posting" /\ left \subseteq sent
        /\ UNCHANGED <<up, store, consumer, file, call, calls, late, stops>>
    BY <1>3 DEF PostFails
  <2>3. /\ call[t] \in 1 .. MaxCalls /\ att[t] \in 1 .. MaxAttempts
    BY <2>2 DEF IInv, TypeOK, Counted
  <2>4. CASE att[t] < MaxAttempts /\ att' = [att EXCEPT ![t] = @ + 1]
             /\ sent' = left \cup Post(<<t, call[t], att[t] + 1>>) /\ UNCHANGED <<pc, row>>
    <3>1. att[t] + 1 \in 1 .. MaxAttempts
      BY <2>3, <2>4
    <3>2. <<t, call[t], att[t] + 1>> \in Job
      BY <2>3, <3>1, JobIs
    <3>3. /\ att'[t] = att[t] + 1 /\ call'[t] = call[t]
          /\ \A u \in Tracks \ {t} : att'[u] = att[u]
      BY <2>2, <2>4 DEF IInv, TypeOK
    <3>4. sent' \subseteq sent \cup {<<t, call[t], att[t] + 1>>}
      BY <2>2, <2>4 DEF Post
    <3>5. TypeOK'
      BY <2>2, <2>4, <3>1, <3>2, <3>4 DEF IInv, TypeOK, store, consumer
    <3>6. Counted'
      BY <2>2, <2>4 DEF IInv, Counted
    <3>7. \A j \in Job : j[2] \in Nat /\ j[3] \in Nat
      BY JobIs
    <3>8. ~ AtMost(<<t, call[t], att[t] + 1>>, t)
      BY <2>3 DEF AtMost
    <3>9. \A j \in Job : AtMost(j, t) => j[2] < call[t] \/ (j[2] = call[t] /\ j[3] <= att[t] + 1)
      BY <2>3, <3>7 DEF AtMost
    <3> QED BY <2>2, <2>4, <3>2, <3>3, <3>4, <3>5, <3>6, <3>8, <3>9
  <2>5. CASE att[t] = MaxAttempts /\ Ends(t, "failed", row[t]) /\ sent' = left /\ UNCHANGED att
    <3>1. /\ pc' = [pc EXCEPT ![t] = "failed"] /\ row' = [row EXCEPT ![t] = row[t]]
          /\ sent' \subseteq sent
      BY <2>2, <2>5 DEF Ends
    <3>2. pc'[t] = "failed" /\ \A u \in Tracks \ {t} : pc'[u] = pc[u]
      BY <3>1 DEF IInv, TypeOK
    <3>3. TypeOK'
      BY <2>2, <2>5, <3>1 DEF IInv, TypeOK, store, consumer, PC
    <3>4. Counted'
      BY <2>2, <2>5, <3>2 DEF IInv, Counted
    <3> QED BY <2>2, <2>5, <3>1, <3>2, <3>3, <3>4
  <2> QED BY <2>1, <2>4, <2>5
<1> QED BY <1>1, <1>2, <1>3 DEF Caller

LEMMA CallerStep ==
  ASSUME IInv, NEW t \in Tracks, Caller(t)
  PROVE  IInv'
<1> DEFINE n == <<t, call'[t], att'[t]>>
<1>1. /\ UNCHANGED <<rec, queue, cur, file, late>>
      /\ TypeOK' /\ Counted' /\ pc'[t] # "idle"
      /\ \A u \in Tracks \ {t} : pc'[u] = pc[u] /\ call'[u] = call[u] /\ att'[u] = att[u]
  BY CallerEffect DEF store, consumer
<1>2. Distinct' /\ Matched' /\ Ordered'
  BY <1>1 DEF IInv, Distinct, Matched, Ordered, InQueue, Before
<1>3. \A u \in Tracks \ {t} : JobOf(u)' = JobOf(u)
  BY <1>1 DEF JobOf
<1>4. \A j \in Job : j[1] # t => (AtMost(j, j[1])' <=> AtMost(j, j[1]))
  BY <1>1, JobIs DEF AtMost
<1>5. CASE /\ pc[t] # "idle" /\ call' = call /\ att' = att /\ sent' \subseteq sent
           /\ pc'[t] = "ok" => rec[JobOf(t)] = "succeeded"
  <2>1. JobOf(t)' = JobOf(t)
    BY <1>5 DEF JobOf
  <2>2. Posted'
    BY <1>1, <1>5 DEF IInv, Posted, AtMost
  <2>3. NewestLast'
    BY <1>1, <1>3, <1>5, <2>1 DEF IInv, NewestLast, Quiet
  <2>4. ResultIsStable'
    <3> SUFFICES ASSUME NEW u \in Tracks, pc'[u] = "ok", ~ late[u]
                 PROVE  file[u] = JobOf(u)' /\ Quiet(u)
      BY <1>1 DEF ResultIsStable, Quiet
    <3>1. CASE u = t
      BY <1>5, <2>1, <3>1 DEF IInv, NewestLast, Finished
    <3>2. CASE u # t
      BY <1>1, <1>3, <3>2 DEF IInv, ResultIsStable, Quiet
    <3> QED BY <3>1, <3>2
  <2> QED BY <1>1, <1>2, <2>2, <2>3, <2>4 DEF IInv
<1>6. CASE /\ pc'[t] = "posting" /\ n \in Job /\ ~ AtMost(n, t)
           /\ \A j \in Job : AtMost(j, t) => j[2] < call'[t] \/ (j[2] = call'[t] /\ j[3] <= att'[t])
           /\ sent' \subseteq sent \cup {n}
  <2>1. JobOf(t)' = n /\ n[1] = t
    BY DEF JobOf
  <2>2. rec[n] = "none" /\ n \notin sent
    BY <1>6, <2>1 DEF IInv, Posted
  <2>3. \A j \in Job : AtMost(j, j[1]) => AtMost(j, j[1])'
    BY <1>4, <1>6 DEF AtMost
  <2>4. ASSUME NEW j \in Job, j = n PROVE AtMost(j, j[1])'
    <3>1. j[1] = t /\ j[2] = call'[t] /\ j[3] = att'[t]
      BY <2>4
    <3>2. att'[t] \in Nat
      BY <1>1 DEF TypeOK
    <3> QED BY <3>1, <3>2 DEF AtMost
  <2>5. Posted'
    BY <1>1, <1>6, <2>1, <2>2, <2>3, <2>4 DEF IInv, Posted
  <2>6. NewestLast'
    BY <1>1, <1>3, <2>1, <2>2 DEF IInv, NewestLast, Quiet, Finished
  <2>7. ResultIsStable'
    BY <1>1, <1>3, <1>6 DEF IInv, ResultIsStable
  <2> QED BY <1>1, <1>2, <2>5, <2>6, <2>7 DEF IInv
<1> QED BY CallerEffect, <1>5, <1>6

-----------------------------------------------------------------------------
(* The worker *)

LEMMA Unmoved ==
  ASSUME UNCHANGED caller
  PROVE  /\ \A t \in Tracks : JobOf(t)' = JobOf(t)
         /\ \A j \in Job : AtMost(j, j[1])' <=> AtMost(j, j[1])
         /\ Counted' <=> Counted
BY DEF caller, JobOf, AtMost, Counted

LEMMA AcceptStep ==
  ASSUME IInv, NEW j \in Job, Accept(j)
  PROVE  IInv'
<1>1. /\ j \in sent /\ sent' = sent \ {j}
      /\ rec' = [rec EXCEPT ![j] = "queued"] /\ queue' = Append(queue, j)
      /\ late' = [late EXCEPT ![j[1]] = late[j[1]] \/ ~ Awaited(j)]
      /\ cons' \in {cons, "checking"} /\ (cons' # cons => cons = "waiting")
      /\ UNCHANGED <<up, cur, file, caller, stops>>
  BY DEF Accept, Put
<1>2. rec[j] = "none" /\ AtMost(j, j[1]) /\ ~ InQueue(j) /\ cur # j
  BY <1>1 DEF IInv, Posted, Matched
<1>3. j[1] \in Tracks /\ queue \in Seq(Job)
  BY JobIs DEF IInv, TypeOK
<1>4. /\ queue' \in Seq(Job) /\ DOMAIN queue = 1 .. Len(queue) /\ Len(queue) \in Nat
      /\ DOMAIN queue' = 1 .. Len(queue) + 1 /\ queue'[Len(queue) + 1] = j
      /\ \A i \in 1 .. Len(queue) : queue'[i] = queue[i]
  BY <1>1, <1>3, Appended
<1>5. rec'[j] = "queued" /\ \A k \in Job \ {j} : rec'[k] = rec[k]
  BY <1>1 DEF IInv, TypeOK
<1>6. /\ \A t \in Tracks : late'[t] = FALSE => late[t] = FALSE
      /\ late'[j[1]] = FALSE => Awaited(j)
      /\ late' \in [Tracks -> BOOLEAN]
  BY <1>1, <1>3 DEF IInv, TypeOK
<1>7. TypeOK'
  <2>1. rec' \in [Job -> RecState] /\ sent' \subseteq Job
    BY <1>1 DEF IInv, TypeOK, RecState
  <2>2. /\ cons' \in {"checking", "arming", "waiting", "running"}
        /\ (cons' = "running") = (cur' # NoJob)
    BY <1>1 DEF IInv, TypeOK
  <2> QED BY <1>1, <1>4, <1>6, <2>1, <2>2 DEF IInv, TypeOK, caller
<1>8. Posted' /\ Counted'
  BY <1>1, <1>2, <1>5, Unmoved DEF IInv, Posted
<1>9. Distinct'
  BY <1>2, <1>4 DEF IInv, Distinct, InQueue
<1>10. Matched'
  <2>1. \A k \in Job : InQueue(k)' <=> InQueue(k) \/ k = j
    BY <1>4 DEF InQueue
  <2> QED BY <1>1, <1>2, <1>5, <2>1 DEF IInv, Matched
<1>11. ASSUME Awaited(j), NEW k \in Job, k[1] = j[1], k # j, rec[k] # "none"
       PROVE  Before(k, j)
  <2>1. JobOf(j[1]) = j /\ AtMost(k, j[1])
    BY <1>11 DEF Awaited, IInv, Posted
  <2>2. j[2] = call[j[1]] /\ j[3] = att[j[1]] /\ (k[3] # j[3] \/ k[2] # j[2])
    BY <1>11, <2>1, JobIs DEF JobOf
  <2>3. k[3] \in Nat /\ att[j[1]] \in Nat /\ j[2] = call[j[1]] /\ j[3] = att[j[1]]
    BY <1>3, <2>1, JobIs DEF IInv, TypeOK, JobOf
  <2> QED BY <2>1, <2>2, <2>3 DEF AtMost, Before
<1>12. \A i \in 1 .. Len(queue) : queue[i] \in Job /\ queue[i] # j /\ rec[queue[i]] = "queued"
  BY <1>2, <1>3, <1>4 DEF IInv, Matched, InQueue
<1>13. Ordered'
  <2>1. ASSUME NEW i \in DOMAIN queue', NEW k \in DOMAIN queue', i < k,
               queue'[i][1] = queue'[k][1], ~ late'[queue'[i][1]]
        PROVE  Before(queue'[i], queue'[k])
    <3>1. i \in 1 .. Len(queue) /\ queue'[i] = queue[i] /\ queue[i][1] \in Tracks
      <4>1. i \in 1 .. Len(queue)
        BY <1>4, <2>1
      <4>2. queue'[i] = queue[i]
        BY <1>4, <4>1
      <4>3. queue[i][1] \in Tracks
        BY <1>12, <4>1, JobIs
      <4> QED BY <4>1, <4>2, <4>3
    <3>2. CASE k \in 1 .. Len(queue)
      BY <1>4, <1>6, <2>1, <3>1, <3>2 DEF IInv, Ordered, TypeOK
    <3>3. CASE k = Len(queue) + 1
      <4>1. queue'[k] = j /\ Awaited(j)
        BY <1>4, <1>6, <2>1, <3>1, <3>3 DEF IInv, TypeOK
      <4> QED BY <1>11, <1>12, <2>1, <3>1, <4>1
    <3> QED BY <1>4, <3>2, <3>3
  <2>2. ASSUME NEW k \in DOMAIN queue', cur # NoJob, cur[1] = queue'[k][1], ~ late'[cur[1]]
        PROVE  Before(cur, queue'[k])
    <3>1. cur \in Job /\ rec[cur] = "running" /\ cur[1] \in Tracks
      BY <2>2, JobIs DEF IInv, TypeOK, Matched
    <3>2. CASE k \in 1 .. Len(queue)
      BY <1>4, <1>6, <2>2, <3>1, <3>2 DEF IInv, Ordered, TypeOK
    <3>3. CASE k = Len(queue) + 1
      <4>1. queue'[k] = j /\ Awaited(j)
        BY <1>4, <1>6, <2>2, <3>1, <3>3 DEF IInv, TypeOK
      <4> QED BY <1>2, <1>11, <2>2, <3>1, <4>1
    <3> QED BY <1>4, <3>2, <3>3
  <2> QED BY <1>1, <2>1, <2>2 DEF Ordered
<1>14. \A t \in Tracks : pc[t] # "idle" => JobOf(t) \in Job /\ JobOf(t)[1] = t
  BY PresentJob DEF IInv
<1>15. ASSUME NEW t \in Tracks, t # j[1]
       PROVE  /\ Quiet(t) => Quiet(t)'
              /\ late'[t] = late[t]
              /\ pc[t] # "idle" => rec'[JobOf(t)] = rec[JobOf(t)]
  BY <1>1, <1>5, <1>14, <1>15 DEF Quiet, IInv, TypeOK
<1>16. NewestLast'
  <2> SUFFICES ASSUME NEW t \in Tracks, pc[t] # "idle", ~ late'[t]
               PROVE  /\ rec'[JobOf(t)] \in Finished => Quiet(t)'
                      /\ rec'[JobOf(t)] = "succeeded" => file[t] = JobOf(t)
    BY <1>1, Unmoved DEF NewestLast, caller
  <2>1. CASE t = j[1]
    BY <1>5, <1>6, <2>1 DEF Awaited, Finished
  <2>2. CASE t # j[1]
    BY <1>15, <2>2 DEF IInv, NewestLast
  <2> QED BY <2>1, <2>2
<1>17. ResultIsStable'
  <2> SUFFICES ASSUME NEW t \in Tracks, pc[t] = "ok", ~ late'[t]
               PROVE  file[t] = JobOf(t) /\ Quiet(t)'
    BY <1>1, Unmoved DEF ResultIsStable, Quiet, caller
  <2>1. t # j[1]
    BY <1>6 DEF Awaited
  <2> QED BY <1>15, <2>1 DEF IInv, ResultIsStable, Quiet
<1> QED BY <1>7, <1>8, <1>9, <1>10, <1>13, <1>16, <1>17 DEF IInv

LEMMA TakeStep ==
  ASSUME IInv, ConsTake
  PROVE  IInv'
<1> DEFINE h == Head(queue)
<1>1. /\ queue # <<>> /\ cons = "checking" /\ cons' = "running" /\ cur' = h
      /\ queue' = Tail(queue) /\ rec' = [rec EXCEPT ![h] = "running"]
      /\ UNCHANGED <<up, file, sent, caller, late, stops>>
  BY DEF ConsTake
<1>2. cur = NoJob /\ queue \in Seq(Job)
  BY <1>1 DEF IInv, TypeOK
<1>3. /\ queue' \in Seq(Job) /\ h \in Job /\ h = queue[1]
      /\ Len(queue) \in Nat \ {0} /\ DOMAIN queue = 1 .. Len(queue)
      /\ DOMAIN queue' = 1 .. Len(queue) - 1
      /\ \A i \in 1 .. Len(queue) - 1 : queue'[i] = queue[i + 1]
  BY <1>1, <1>2, HeadAndTail
<1>4. rec[h] = "queued" /\ h # NoJob
  BY <1>3, NoJobAssumption DEF IInv, Matched, InQueue
<1> HIDE DEF h
<1>5. rec'[h] = "running" /\ \A k \in Job \ {h} : rec'[k] = rec[k]
  BY <1>1, <1>3 DEF IInv, TypeOK
<1>6. \A i \in DOMAIN queue' : i + 1 \in DOMAIN queue /\ queue'[i] = queue[i + 1]
                               /\ 1 < i + 1 /\ 1 \in DOMAIN queue
  BY <1>3
<1>7. TypeOK'
  <2>1. rec' \in [Job -> RecState]
    BY <1>1 DEF IInv, TypeOK, RecState
  <2> QED BY <1>1, <1>3, <1>4, <2>1 DEF IInv, TypeOK, caller
<1>8. Posted' /\ Counted'
  BY <1>1, <1>4, <1>5, Unmoved DEF IInv, Posted
<1>9. Distinct'
  <2> SUFFICES ASSUME NEW i \in DOMAIN queue', NEW k \in DOMAIN queue', queue'[i] = queue'[k]
               PROVE  i = k
    BY DEF Distinct
  <2>1. i + 1 = k + 1
    BY <1>6 DEF IInv, Distinct
  <2> QED BY <1>3, <2>1
<1>10. Matched'
  <2>1. ASSUME NEW k \in Job PROVE InQueue(k)' <=> InQueue(k) /\ k # h
    <3>1. ASSUME InQueue(k)' PROVE InQueue(k) /\ k # h
      <4>1. PICK i \in DOMAIN queue' : queue'[i] = k
        BY <3>1 DEF InQueue
      <4>2. queue[i + 1] = k /\ i + 1 \in DOMAIN queue /\ 1 \in DOMAIN queue /\ i + 1 # 1
        BY <1>3, <1>6, <4>1
      <4> QED BY <1>3, <4>2 DEF InQueue, IInv, Distinct
    <3>2. ASSUME InQueue(k), k # h PROVE InQueue(k)'
      <4>1. PICK i \in DOMAIN queue : queue[i] = k
        BY <3>2 DEF InQueue
      <4>2. i - 1 \in DOMAIN queue' /\ queue'[i - 1] = queue[i]
        BY <1>3, <3>2, <4>1
      <4> QED BY <4>1, <4>2 DEF InQueue
    <3> QED BY <3>1, <3>2
  <2> QED BY <1>1, <1>2, <1>4, <1>5, <2>1, NoJobAssumption DEF IInv, Matched
<1>11. Ordered'
  <2>1. ASSUME NEW i \in DOMAIN queue', NEW k \in DOMAIN queue', i < k,
               queue'[i][1] = queue'[k][1], ~ late[queue'[i][1]]
        PROVE  Before(queue'[i], queue'[k])
    <3>1. i + 1 < k + 1
      BY <1>3, <2>1
    <3> QED BY <1>6, <2>1, <3>1 DEF IInv, Ordered
  <2>2. ASSUME NEW k \in DOMAIN queue', h[1] = queue'[k][1], ~ late[h[1]]
        PROVE  Before(h, queue'[k])
    BY <1>3, <1>6, <2>2 DEF IInv, Ordered
  <2> QED BY <1>1, <2>1, <2>2 DEF Ordered
<1>12. \A t \in Tracks : Quiet(t) => Quiet(t)'
  BY <1>4, <1>5, <1>3 DEF Quiet, Unfinished
<1>13. \A t \in Tracks : pc[t] # "idle" => JobOf(t) \in Job
  BY PresentJob DEF IInv
<1>14. NewestLast'
  <2> SUFFICES ASSUME NEW t \in Tracks, pc[t] # "idle", ~ late[t]
               PROVE  /\ rec'[JobOf(t)] \in Finished => Quiet(t)'
                      /\ rec'[JobOf(t)] = "succeeded" => file[t] = JobOf(t)
    BY <1>1, Unmoved DEF NewestLast, caller
  <2>1. rec'[JobOf(t)] \in Finished => rec[JobOf(t)] = rec'[JobOf(t)]
    BY <1>5, <1>13 DEF Finished
  <2> QED BY <1>12, <2>1 DEF IInv, NewestLast, Finished
<1>15. ResultIsStable'
  BY <1>1, <1>12, Unmoved DEF IInv, ResultIsStable, Quiet, caller
<1> QED BY <1>7, <1>8, <1>9, <1>10, <1>11, <1>14, <1>15 DEF IInv

LEMMA EndStep ==
  ASSUME IInv, ConsSucceeds \/ ConsFails
  PROVE  IInv'
<1>1. PICK status \in Finished :
        /\ cons = "running" /\ ConsEnds(status)
        /\ file' \in {file, Written(cur)}
        /\ status = "succeeded" => file' = Written(cur)
        /\ UNCHANGED <<up, queue, sent, caller, late, stops>>
  BY DEF ConsSucceeds, ConsFails, Finished
<1>2. rec' = [rec EXCEPT ![cur] = status] /\ cur' = NoJob /\ cons' = "checking"
  BY <1>1 DEF ConsEnds
<1>3. cur \in Job /\ cur # NoJob /\ rec[cur] = "running" /\ cur[1] \in Tracks
  BY <1>1, JobIs DEF IInv, TypeOK, Matched
<1>4. rec'[cur] = status /\ \A k \in Job \ {cur} : rec'[k] = rec[k]
  BY <1>2, <1>3 DEF IInv, TypeOK
<1>5. /\ file' \in [Tracks -> Job \cup {NoJob}]
      /\ \A t \in Tracks \ {cur[1]} : file'[t] = file[t]
      /\ status = "succeeded" => file'[cur[1]] = cur
  BY <1>1, <1>3 DEF IInv, TypeOK, Written
<1>6. TypeOK'
  <2>1. rec' \in [Job -> RecState]
    BY <1>2 DEF IInv, TypeOK, RecState, Finished
  <2> QED BY <1>1, <1>2, <1>5, <2>1 DEF IInv, TypeOK, caller
<1>7. Posted' /\ Counted' /\ Distinct' /\ Ordered'
  BY <1>1, <1>2, <1>3, <1>4, Unmoved DEF IInv, Posted, Distinct, Ordered, Finished
<1>8. Matched'
  <2>1. \A k \in Job : InQueue(k)' <=> InQueue(k)
    BY <1>1 DEF InQueue
  <2>2. ~ InQueue(cur)
    BY <1>3 DEF IInv, Matched
  <2> QED BY <1>2, <1>3, <1>4, <2>1, <2>2, NoJobAssumption DEF IInv, Matched, Finished
<1>9. \A t \in Tracks : Quiet(t) => Quiet(t)' /\ t # cur[1]
  BY <1>3, <1>4 DEF Quiet, Unfinished, Finished
<1>10. \A t \in Tracks : pc[t] # "idle" => JobOf(t) \in Job /\ JobOf(t)[1] = t
  BY PresentJob DEF IInv
<1>11. ASSUME NEW t \in Tracks, pc[t] # "idle", ~ late[t], JobOf(t) = cur
       PROVE  Quiet(t)'
  <2> SUFFICES ASSUME NEW j \in Job, j[1] = t PROVE rec'[j] \notin Unfinished
    BY DEF Quiet
  <2>1. CASE j = cur
    BY <1>4, <2>1 DEF Unfinished, Finished
  <2>2. CASE j # cur /\ rec[j] = "queued"
    <3>1. PICK k \in DOMAIN queue : queue[k] = j
      BY <2>2 DEF IInv, Matched, InQueue
    <3>2. Before(cur, j)
      BY <1>3, <1>10, <1>11, <3>1 DEF IInv, Ordered
    <3>3. AtMost(j, t)
      BY <2>2 DEF IInv, Posted
    <3>4. cur[2] = call[t] /\ cur[3] = att[t]
      BY <1>11 DEF JobOf
    <3>5. call[t] \in 0 .. MaxCalls /\ att[t] \in 1 .. MaxAttempts
      BY DEF IInv, TypeOK
    <3>6. j[2] \in 1 .. MaxCalls /\ j[3] \in 1 .. MaxAttempts
      BY JobIs
    <3> QED BY <3>2, <3>3, <3>4, <3>5, <3>6, BoundAssumption DEF Before, AtMost
  <2>3. CASE j # cur /\ rec[j] # "queued"
    BY <1>4, <2>3 DEF IInv, Matched, Unfinished
  <2> QED BY <2>1, <2>2, <2>3
<1>12. NewestLast'
  <2> SUFFICES ASSUME NEW t \in Tracks, pc[t] # "idle", ~ late[t]
               PROVE  /\ rec'[JobOf(t)] \in Finished => Quiet(t)'
                      /\ rec'[JobOf(t)] = "succeeded" => file'[t] = JobOf(t)
    BY <1>1, Unmoved DEF NewestLast, caller
  <2>1. CASE JobOf(t) = cur
    <3>1. cur[1] = t
      BY <1>10, <2>1
    <3> QED BY <1>4, <1>5, <1>11, <2>1, <3>1
  <2>2. CASE JobOf(t) # cur
    <3>1. rec'[JobOf(t)] = rec[JobOf(t)]
      BY <1>4, <1>10, <2>2
    <3> QED BY <1>5, <1>9, <3>1 DEF IInv, NewestLast, Finished
  <2> QED BY <2>1, <2>2
<1>13. ResultIsStable'
  <2> SUFFICES ASSUME NEW t \in Tracks, pc[t] = "ok", ~ late[t]
               PROVE  file'[t] = JobOf(t) /\ Quiet(t)'
    BY <1>1, Unmoved DEF ResultIsStable, Quiet, caller
  <2>1. file[t] = JobOf(t) /\ Quiet(t)
    BY DEF IInv, ResultIsStable, Quiet
  <2> QED BY <1>5, <1>9, <2>1
<1> QED BY <1>6, <1>7, <1>8, <1>12, <1>13 DEF IInv

LEMMA StopStep ==
  ASSUME IInv, Stop
  PROVE  IInv'
<1>1. /\ up' = FALSE /\ stops > 0 /\ stops' = stops - 1
      /\ rec' = [j \in Job |-> "none"] /\ queue' = <<>> /\ sent' = {}
      /\ cur' = NoJob /\ cons' = "checking"
      /\ file' \in {file} \cup {Written(j) : j \in {cur} \ {NoJob}}
      /\ UNCHANGED <<caller, late>>
  BY DEF Stop, Reset
<1>2. /\ file' \in [Tracks -> Job \cup {NoJob}]
      /\ \A t \in Tracks : cur \in Job => t = cur[1] \/ file'[t] = file[t]
      /\ cur = NoJob => file' = file
  <2>1. file \in [Tracks -> Job \cup {NoJob}] /\ cur \in Job \cup {NoJob}
    BY DEF IInv, TypeOK
  <2>2. CASE file' = file
    BY <2>1, <2>2
  <2>3. CASE cur # NoJob /\ file' = Written(cur)
    <3>1. cur \in Job /\ cur[1] \in Tracks
      BY <2>1, <2>3, JobIs
    <3> QED BY <2>1, <2>3, <3>1 DEF Written
  <2> QED BY <1>1, <2>2, <2>3
<1>3. TypeOK'
  <2>1. queue' \in Seq(Job) /\ rec' \in [Job -> RecState]
    BY <1>1 DEF RecState
  <2>2. stops' \in 0 .. MaxStops
    BY <1>1, BoundAssumption DEF IInv, TypeOK
  <2> QED BY <1>1, <1>2, <2>1, <2>2 DEF IInv, TypeOK, caller
<1>4. DOMAIN queue' = {}
  BY <1>1
<1>5. Posted' /\ Counted'
  BY <1>1, Unmoved DEF IInv, Posted
<1>6. Distinct' /\ Ordered'
  BY <1>4 DEF Distinct, Ordered
<1>7. Matched'
  BY <1>1, <1>4, NoJobAssumption DEF Matched, InQueue
<1>8. \A t \in Tracks : Quiet(t)'
  BY <1>1 DEF Quiet, Unfinished
<1>9. NewestLast'
  <2>1. \A t \in Tracks : pc[t] # "idle" => JobOf(t) \in Job
    BY PresentJob DEF IInv
  <2>2. \A t \in Tracks : pc[t] # "idle" => rec'[JobOf(t)] = "none"
    BY <1>1, <2>1
  <2> QED BY <1>1, <2>2, Unmoved DEF NewestLast, Finished, caller
<1>10. ResultIsStable'
  <2> SUFFICES ASSUME NEW t \in Tracks, pc[t] = "ok", ~ late[t]
               PROVE  file'[t] = JobOf(t)
    BY <1>1, <1>8, Unmoved DEF ResultIsStable, Quiet, caller
  <2>1. file[t] = JobOf(t) /\ Quiet(t)
    BY DEF IInv, ResultIsStable, Quiet
  <2>2. cur \in Job => cur[1] # t
    BY <2>1 DEF IInv, Matched, Quiet, Unfinished
  <2>3. cur \in Job \/ cur = NoJob
    BY DEF IInv, TypeOK
  <2> QED BY <1>2, <2>1, <2>2, <2>3
<1> QED BY <1>3, <1>5, <1>6, <1>7, <1>9, <1>10 DEF IInv

LEMMA WaitStep ==
  ASSUME IInv, ConsEmpty \/ ConsArm \/ Start \/ UNCHANGED vars
  PROVE  IInv'
<1>1. UNCHANGED <<rec, queue, cur, file, sent, caller, late, stops>>
  BY DEF ConsEmpty, ConsArm, Start, vars, store, consumer
<1>2. TypeOK'
  BY <1>1 DEF IInv, TypeOK, ConsEmpty, ConsArm, Start, vars, consumer, caller
<1>3. Posted' /\ Counted'
  BY <1>1, Unmoved DEF IInv, Posted
<1>4. Distinct' /\ Matched' /\ Ordered'
  BY <1>1 DEF IInv, Distinct, Matched, Ordered, InQueue
<1>5. NewestLast' /\ ResultIsStable'
  BY <1>1, Unmoved DEF IInv, NewestLast, ResultIsStable, Quiet, caller
<1> QED BY <1>2, <1>3, <1>4, <1>5 DEF IInv

LEMMA InitInv == Init => IInv
<1> SUFFICES ASSUME Init PROVE IInv
  OBVIOUS
<1>1. TypeOK
  BY BoundAssumption DEF Init, TypeOK, RecState, RowState, PC
<1>2. DOMAIN queue = {}
  BY DEF Init
<1>3. Counted /\ Posted
  BY BoundAssumption DEF Init, Counted, Posted
<1>4. Distinct /\ Matched /\ Ordered
  BY <1>2, NoJobAssumption DEF Init, Distinct, Matched, Ordered, InQueue
<1>5. NewestLast /\ ResultIsStable
  BY DEF Init, NewestLast, ResultIsStable
<1> QED BY <1>1, <1>3, <1>4, <1>5 DEF IInv

-----------------------------------------------------------------------------
(* Theorems *)

\* The inductive invariant: a job is sent once, the records mirror the queue,
\* and the newest job of a track without a late one ends last.
THEOREM Inductive == Spec => []IInv
<1>1. IInv /\ [Next]_vars => IInv'
  BY CallerStep, AcceptStep, TakeStep, EndStep, StopStep, WaitStep DEF Next, Consumer
<1> QED BY <1>1, InitInv, PTL DEF Spec

\* Every variable keeps its type, and the consumer has a job exactly while it
\* runs one.
THEOREM TypeCorrect == Spec => []TypeOK
<1>1. IInv => TypeOK
  BY DEF IInv
<1> QED BY <1>1, Inductive, PTL

\* A job reported as queued is in the queue, once, and only the job that runs
\* is reported as running (JobQueue.submit and _consume of the GPU worker).
THEOREM RecordsAgree == Spec => []RecordsMatchQueue
<1>1. ASSUME IInv PROVE RecordsMatchQueue
  <2> DEFINE at(j) == {i \in DOMAIN queue : queue[i] = j}
  <2>1. ASSUME NEW j \in Job PROVE InQueue(j) <=> Cardinality(at(j)) = 1
    <3>1. CASE InQueue(j)
      <4>1. PICK i \in DOMAIN queue : queue[i] = j
        BY <3>1 DEF InQueue
      <4>2. at(j) = {i}
        BY <1>1, <4>1 DEF IInv, Distinct
      <4> QED BY <3>1, <4>2, FS_Singleton
    <3>2. CASE ~ InQueue(j)
      <4>1. at(j) = {}
        BY <3>2 DEF InQueue
      <4> QED BY <3>2, <4>1, FS_EmptySet
    <3> QED BY <3>1, <3>2
  <2>2. \A j \in Job : (rec[j] = "queued") = (Cardinality(at(j)) = 1)
    BY <1>1, <2>1 DEF IInv, Matched
  <2> QED BY <1>1, <2>2 DEF IInv, Matched, Distinct, RecordsMatchQueue
<1> QED BY <1>1, Inductive, PTL

\* What a call of submit_and_wait returned is not written over by an attempt
\* that was given up on, unless a request came in late.
THEOREM ResultKept == Spec => []ResultIsStable
<1>1. IInv => ResultIsStable
  BY DEF IInv
<1> QED BY <1>1, Inductive, PTL

=============================================================================

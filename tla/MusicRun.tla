------------------------------ MODULE MusicRun ------------------------------
(***************************************************************************)
(* The music-generation run of the backend: approval of a daily plan,      *)
(* reservation of the single running slot by the cron slots and by         *)
(* POST /scheduler/run-now, execution of the plan post by post,            *)
(* finalisation of the job_history row, and the reconciliation done when   *)
(* the process starts again after a stop.                                  *)
(*                                                                         *)
(* Every action is what the code does between two awaits that matter to    *)
(* another actor: one database transaction, with the in-memory steps       *)
(* around it.  Coroutines of one asyncio process interleave at those       *)
(* points.  A database fault is charged to the budget MaxFaults; a commit  *)
(* that reports an error may nevertheless have been applied (a lost        *)
(* acknowledgement).                                                       *)
(***************************************************************************)
EXTENDS Naturals, FiniteSets

CONSTANTS Plans,       \* daily plans of one target date
          NoPlan,      \* no plan chosen
          Runs,        \* attempts to run a plan; a run_id is used once
          Approvals,   \* concurrent POST /plans/{id}/approve requests
          NumPosts,    \* posts per plan
          MaxFaults,   \* bound on database faults
          MaxCrashes   \* bound on stops of the process

ASSUME NoPlanAssumption == NoPlan \notin Plans
ASSUME NumPostsAssumption == NumPosts \in Nat \ {0}
ASSUME BudgetAssumption == MaxFaults \in Nat /\ MaxCrashes \in Nat

Positions == 0 .. NumPosts - 1
Cycle == <<"cycle", 0>>
PostStep(i) == <<"post", i>>
MusicStep(i) == <<"music", i>>
StepKeys == {Cycle} \cup {PostStep(i) : i \in Positions}
                    \cup {MusicStep(i) : i \in Positions}

PlanStatus == {"generated", "approved", "executing", "music_generated", "failed"}
JobStatus == {"none", "running", "succeeded", "failed", "skipped"}
PostStatus == {"none", "pending", "generating", "music_generated", "failed"}
StepStatus == {"none", "running", "succeeded", "failed"}
Verdict == {"none", "succeeded", "failed"}

\* Where the coroutine of a run stands; "ended" is a coroutine that is gone.
PC == {"idle", "checked_now", "checked_cron", "audit", "reserved", "looping",
       "created", "generating", "finalizing", "refinalizing", "ended"}

VARIABLES
  up,        \* the backend process is running
  plan,      \* plans.status
  job,       \* job_history.status of the row of each run
  post,      \* posts.status by plan and position
  step,      \* last job_step_events status by run and step
  pc,        \* control point of each run
  target,    \* plan_id the run was given
  pos,       \* position of the post being processed
  anyFailed, \* failed_count > 0 or had_fatal, in the orchestrator's frame
  verdict,   \* status the run will be finalised with
  expired,   \* runs whose session was rolled back under its loaded rows
  approving, \* plan each approve request has read as generated
  faults,    \* database faults left
  crashes    \* process stops left

db == <<plan, job, post, step>>
mem == <<pc, target, pos, anyFailed, verdict, expired>>
vars == <<up, db, mem, approving, faults, crashes>>

Terminal == {"succeeded", "failed", "skipped"}

Init ==
  /\ up = TRUE
  /\ plan = [p \in Plans |-> "generated"]
  /\ job = [r \in Runs |-> "none"]
  /\ post = [p \in Plans |-> [i \in Positions |-> "none"]]
  /\ step = [r \in Runs |-> [k \in StepKeys |-> "none"]]
  /\ pc = [r \in Runs |-> "idle"]
  /\ target = [r \in Runs |-> NoPlan]
  /\ pos = [r \in Runs |-> 0]
  /\ anyFailed = [r \in Runs |-> FALSE]
  /\ verdict = [r \in Runs |-> "none"]
  /\ expired = {}
  /\ approving = [a \in Approvals |-> NoPlan]
  /\ faults = MaxFaults
  /\ crashes = MaxCrashes

-----------------------------------------------------------------------------
(* Helpers *)

NoFault == UNCHANGED faults
Fault == faults > 0 /\ faults' = faults - 1

Goto(r, label) == pc' = [pc EXCEPT ![r] = label]

\* JobProgressRecorder.record: each event is its own short transaction, and
\* one that fails is logged and forgotten.
Record(r, keys, status) ==
  \E lost \in SUBSET keys :
    /\ Cardinality(lost) <= faults
    /\ faults' = faults - Cardinality(lost)
    /\ step' = [step EXCEPT ![r] =
                  [k \in StepKeys |-> IF k \in keys \ lost THEN status ELSE step[r][k]]]

SetPost(r, status) == post' = [post EXCEPT ![target[r]][pos[r]] = status]
SetPlan(r, status) == plan' = [plan EXCEPT ![target[r]] = status]

\* An SQLAlchemyError rolls the orchestrator's session back, which expires its
\* loaded rows: the next attribute the failure handlers read (post.genre,
\* post.status, plan_row.status) raises again, out of _record_post_failure and
\* out of _terminalize_aborted_run, so that nothing more is written and execute
\* goes straight to finalize.
Abort(r) ==
  /\ expired' = expired \cup {r}
  /\ verdict' = [verdict EXCEPT ![r] = "failed"]
  /\ Goto(r, "refinalizing")
  /\ UNCHANGED <<up, job, step, target, pos, anyFailed, approving, crashes>>

-----------------------------------------------------------------------------
(* Approval: POST /plans/{id}/approve reads, then writes without a lock *)

ApproveCheck(a) ==
  /\ up /\ approving[a] = NoPlan
  /\ \E p \in Plans : /\ plan[p] = "generated"
                      /\ approving' = [approving EXCEPT ![a] = p]
  /\ UNCHANGED <<up, db, mem, faults, crashes>>

ApproveCommit(a) ==
  /\ up /\ approving[a] # NoPlan
  /\ \/ NoFault /\ plan' = [plan EXCEPT ![approving[a]] = "approved"]
     \/ Fault /\ plan' \in {plan, [plan EXCEPT ![approving[a]] = "approved"]}
  /\ approving' = [approving EXCEPT ![a] = NoPlan]
  /\ UNCHANGED <<up, job, post, step, mem, crashes>>

\* POST /posts/{id}/retry: back to pending; the wired launcher only logs.
RetryPost(p, i) ==
  /\ up /\ post[p][i] = "failed"
  /\ post' = [post EXCEPT ![p][i] = "pending"]
  /\ UNCHANGED <<up, plan, job, step, mem, approving, faults, crashes>>

-----------------------------------------------------------------------------
(* Reservation *)

\* reserve_run_now: the plan is read and must be an approved daily plan.
ReserveRunNow(r) ==
  /\ up /\ pc[r] = "idle"
  /\ \E p \in Plans : /\ plan[p] = "approved"
                      /\ target' = [target EXCEPT ![r] = p]
  /\ Goto(r, "checked_now")
  /\ UNCHANGED <<up, db, pos, anyFailed, verdict, expired, approving, faults, crashes>>

\* reserve_cron: an approved daily plan of the date is looked up.
ReserveCron(r) ==
  /\ up /\ pc[r] = "idle"
  /\ \E p \in Plans : /\ plan[p] = "approved"
                      /\ target' = [target EXCEPT ![r] = p]
  /\ Goto(r, "checked_cron")
  /\ UNCHANGED <<up, db, pos, anyFailed, verdict, expired, approving, faults, crashes>>

\* reserve_cron without an approved plan leaves a skipped row.
SkipCron(r) ==
  /\ up /\ pc[r] = "idle"
  /\ \A p \in Plans : plan[p] # "approved"
  /\ job' = [job EXCEPT ![r] = "skipped"]
  /\ Goto(r, "ended")
  /\ UNCHANGED <<up, plan, post, step, target, pos, anyFailed, verdict, expired,
                 approving, faults, crashes>>

\* Mutant: no unique index.
NoUniqueIndex == TRUE

\* The partial unique index on running music_generation rows.
SlotFree == \A q \in Runs : job[q] # "running"

\* _insert_running: the commit is accepted when the slot is free.
InsertRunning(r) ==
  /\ up /\ pc[r] \in {"checked_now", "checked_cron"}
  /\ \/ /\ NoFault /\ SlotFree
        /\ job' = [job EXCEPT ![r] = "running"]
        /\ Goto(r, IF pc[r] = "checked_now" THEN "audit" ELSE "reserved")
     \/ NoFault /\ ~SlotFree /\ Goto(r, "ended") /\ UNCHANGED job
     \/ /\ Fault /\ Goto(r, "ended")
        /\ \/ UNCHANGED job
           \/ SlotFree /\ job' = [job EXCEPT ![r] = "running"]
  /\ UNCHANGED <<up, plan, post, step, target, pos, anyFailed, verdict, expired,
                 approving, crashes>>

\* run_scheduler_now: audit row, then the background task; a failing audit
\* finalises the reserved run.
WriteAudit(r) ==
  /\ up /\ pc[r] = "audit"
  /\ \/ NoFault /\ Goto(r, "reserved") /\ UNCHANGED verdict
     \/ /\ Fault /\ Goto(r, "refinalizing")
        /\ verdict' = [verdict EXCEPT ![r] = "failed"]
  /\ UNCHANGED <<up, db, target, pos, anyFailed, expired, approving, crashes>>

-----------------------------------------------------------------------------
(* MusicGenerationOrchestrator.run *)

\* The payload no longer validates (a genre was disabled since): FatalError
\* before anything is written.
RejectPayload(r) ==
  /\ up /\ pc[r] = "reserved"
  /\ verdict' = [verdict EXCEPT ![r] = "failed"]
  /\ Goto(r, "refinalizing")
  /\ UNCHANGED <<up, db, target, pos, anyFailed, expired, approving, faults, crashes>>

\* plan.status = executing is committed, then the cycle step is recorded.  The
\* status the plan has by now is not looked at again.
OpenPlan(r) ==
  /\ up /\ pc[r] = "reserved"
  /\ SetPlan(r, "executing")
  /\ Record(r, {Cycle}, "running")
  /\ Goto(r, "looping")
  /\ UNCHANGED <<up, job, post, target, pos, anyFailed, verdict, expired, approving, crashes>>

OpenPlanFault(r) ==
  /\ up /\ pc[r] = "reserved" /\ Fault
  /\ UNCHANGED plan \/ SetPlan(r, "executing")
  /\ UNCHANGED post
  /\ Abort(r)

\* Mutant: no unique constraint on (plan_id, position).
NoPositionConstraint(r) == FALSE

\* _create_post: (plan_id, position) is unique.
PostExists(r) == post[target[r]][pos[r]] # "none"

CreatePost(r) ==
  /\ up /\ pc[r] = "looping" /\ pos[r] \in Positions /\ ~PostExists(r)
  /\ SetPost(r, "pending")
  /\ Goto(r, "created")
  /\ UNCHANGED <<up, plan, job, step, target, pos, anyFailed, verdict, expired,
                 approving, faults, crashes>>

CreatePostError(r) ==
  /\ up /\ pc[r] = "looping" /\ pos[r] \in Positions
  /\ \/ PostExists(r) /\ NoFault /\ UNCHANGED post
     \/ Fault /\ UNCHANGED post
     \/ Fault /\ ~PostExists(r) /\ SetPost(r, "pending")
  /\ UNCHANGED plan
  /\ Abort(r)

\* _process_post up to the GPU jobs: generating, steps post and music running.
StartPost(r) ==
  /\ up /\ pc[r] = "created"
  /\ SetPost(r, "generating")
  /\ Record(r, {PostStep(pos[r]), MusicStep(pos[r])}, "running")
  /\ Goto(r, "generating")
  /\ UNCHANGED <<up, plan, job, target, pos, anyFailed, verdict, expired, approving, crashes>>

StartPostFault(r) ==
  /\ up /\ pc[r] = "created" /\ Fault
  /\ UNCHANGED post \/ SetPost(r, "generating")
  /\ UNCHANGED plan
  /\ Abort(r)

\* All tracks arrived.
PostSucceeds(r) ==
  /\ up /\ pc[r] = "generating"
  /\ SetPost(r, "music_generated")
  /\ Record(r, {PostStep(pos[r]), MusicStep(pos[r])}, "succeeded")
  /\ pos' = [pos EXCEPT ![r] = @ + 1]
  /\ Goto(r, "looping")
  /\ UNCHANGED <<up, plan, job, target, anyFailed, verdict, expired, approving, crashes>>

\* Mutants: the failure is not counted, the music step stays open.
PostFailsUncounted(r) ==
  /\ up /\ pc[r] = "generating"
  /\ SetPost(r, "failed")
  /\ Record(r, {PostStep(pos[r]), MusicStep(pos[r])}, "failed")
  /\ pos' = [pos EXCEPT ![r] = @ + 1]
  /\ Goto(r, "looping")
  /\ UNCHANGED <<up, plan, job, target, anyFailed, verdict, expired, approving, crashes>>

PostFailsHalfRecorded(r) ==
  /\ up /\ pc[r] = "generating"
  /\ SetPost(r, "failed")
  /\ Record(r, {PostStep(pos[r])}, "failed")
  /\ anyFailed' = [anyFailed EXCEPT ![r] = TRUE]
  /\ pos' = [pos EXCEPT ![r] = @ + 1]
  /\ Goto(r, "looping")
  /\ UNCHANGED <<up, plan, job, target, verdict, expired, approving, crashes>>

\* _record_post_failure; a FatalError also breaks out of the loop.
PostFails(r) ==
  /\ up /\ pc[r] = "generating"
  /\ SetPost(r, "failed")
  /\ Record(r, {PostStep(pos[r]), MusicStep(pos[r])}, "failed")
  /\ anyFailed' = [anyFailed EXCEPT ![r] = TRUE]
  /\ pos' \in {[pos EXCEPT ![r] = @ + 1], [pos EXCEPT ![r] = NumPosts]}
  /\ Goto(r, "looping")
  /\ UNCHANGED <<up, plan, job, target, verdict, expired, approving, crashes>>

\* The session fails under a GPU-job row or under either commit above.
PostFault(r) ==
  /\ up /\ pc[r] = "generating" /\ Fault
  /\ UNCHANGED post \/ SetPost(r, "music_generated") \/ SetPost(r, "failed")
  /\ UNCHANGED plan
  /\ Abort(r)

\* After the loop: plan status, cycle step, result handed to execute.
ClosePlan(r) ==
  /\ up /\ pc[r] = "looping" /\ pos[r] = NumPosts
  /\ SetPlan(r, IF anyFailed[r] THEN "failed" ELSE "music_generated")
  /\ Record(r, {Cycle}, IF anyFailed[r] THEN "failed" ELSE "succeeded")
  /\ verdict' = [verdict EXCEPT ![r] = IF anyFailed[r] THEN "failed" ELSE "succeeded"]
  /\ Goto(r, "finalizing")
  /\ UNCHANGED <<up, job, post, target, pos, anyFailed, expired, approving, crashes>>

ClosePlanFault(r) ==
  /\ up /\ pc[r] = "looping" /\ pos[r] = NumPosts /\ Fault
  /\ UNCHANGED plan \/ SetPlan(r, IF anyFailed[r] THEN "failed" ELSE "music_generated")
  /\ UNCHANGED post
  /\ Abort(r)

-----------------------------------------------------------------------------
(* MusicRunService.finalize *)

\* Mutant: the present status of the row is not looked at.
FinalizedAgain(r) == [job EXCEPT ![r] = verdict[r]]

\* A row that is no longer running is left alone.
Finalized(r) == IF job[r] = "running" THEN [job EXCEPT ![r] = verdict[r]] ELSE job

Finalize(r) ==
  /\ up /\ pc[r] \in {"finalizing", "refinalizing"}
  /\ job' = Finalized(r)
  /\ Goto(r, "ended")
  /\ UNCHANGED <<up, plan, post, step, target, pos, anyFailed, verdict, expired,
                 approving, faults, crashes>>

\* A fault inside execute's try block reaches its handler, which finalises once
\* more as failed; a fault in the handler leaves the row as it is.
FinalizeFault(r) ==
  /\ up /\ pc[r] \in {"finalizing", "refinalizing"} /\ Fault
  /\ job' \in {job, Finalized(r)}
  /\ Goto(r, IF pc[r] = "finalizing" THEN "refinalizing" ELSE "ended")
  /\ verdict' = [verdict EXCEPT ![r] = "failed"]
  /\ UNCHANGED <<up, plan, post, step, target, pos, anyFailed, expired, approving, crashes>>

-----------------------------------------------------------------------------
(* Process stop and start *)

\* Every coroutine and request of the process is gone.
DropMemory ==
  /\ up' = FALSE
  /\ crashes > 0 /\ crashes' = crashes - 1
  /\ pc' = [r \in Runs |-> IF pc[r] = "idle" THEN "idle" ELSE "ended"]
  /\ approving' = [a \in Approvals |-> NoPlan]
  /\ UNCHANGED <<target, pos, anyFailed, verdict, expired>>

Crash == up /\ DropMemory /\ UNCHANGED <<db, faults>>

\* An orderly shutdown cancels the task that waits for the GPU worker:
\* _terminalize_aborted_run closes the post, the plan and the cycle, and the
\* CancelledError passes execute without a finalize.
Shutdown(r) ==
  /\ up /\ pc[r] = "generating"
  /\ SetPost(r, "failed")
  /\ SetPlan(r, "failed")
  /\ Record(r, {Cycle, PostStep(pos[r]), MusicStep(pos[r])}, "failed")
  /\ DropMemory
  /\ UNCHANGED job

\* Mutants: a table that the reconciliation leaves as it is, and one where it
\* closes rows that are not running.
KeepJobs == job
KeepPosts == post
CloseAllJobs == [r \in Runs |-> IF job[r] = "succeeded" THEN job[r] ELSE "failed"]

\* reconcile_orphaned_runs, table by table.
ClosedJobs == [r \in Runs |-> IF job[r] = "running" THEN "failed" ELSE job[r]]
ClosedSteps == [r \in Runs |-> [k \in StepKeys |->
                 IF job[r] = "running" /\ step[r][k] = "running" THEN "failed" ELSE step[r][k]]]
ClosedPlans == [p \in Plans |-> IF plan[p] = "executing" THEN "failed" ELSE plan[p]]
ClosedPosts == [p \in Plans |-> [i \in Positions |->
                 IF post[p][i] = "generating" THEN "failed" ELSE post[p][i]]]

\* lifespan: the reconciliation commits before the process serves.
Reconcile ==
  /\ ~up /\ up' = TRUE
  /\ job' = ClosedJobs /\ step' = ClosedSteps /\ plan' = ClosedPlans /\ post' = ClosedPosts
  /\ UNCHANGED <<mem, approving, faults, crashes>>

-----------------------------------------------------------------------------
Executor(r) ==
  \/ InsertRunning(r) \/ WriteAudit(r) \/ RejectPayload(r)
  \/ OpenPlan(r) \/ OpenPlanFault(r)
  \/ CreatePost(r) \/ CreatePostError(r)
  \/ StartPost(r) \/ StartPostFault(r)
  \/ PostSucceeds(r) \/ PostFails(r) \/ PostFault(r)
  \/ ClosePlan(r) \/ ClosePlanFault(r)
  \/ Finalize(r) \/ FinalizeFault(r)

Next ==
  \/ \E a \in Approvals : ApproveCheck(a) \/ ApproveCommit(a)
  \/ \E p \in Plans, i \in Positions : RetryPost(p, i)
  \/ \E r \in Runs : \/ ReserveRunNow(r) \/ ReserveCron(r) \/ SkipCron(r)
                     \/ Executor(r) \/ Shutdown(r)
  \/ Crash
  \/ Reconcile

Spec == Init /\ [][Next]_vars

\* A started coroutine is scheduled until it ends (polling of the GPU worker is
\* bounded by its timeout), and the service manager starts the process again.
FairSpec ==
  /\ Spec
  /\ \A r \in Runs : WF_vars(Executor(r))
  /\ WF_vars(Reconcile)

-----------------------------------------------------------------------------
(* Properties *)

TypeOK ==
  /\ up \in BOOLEAN
  /\ plan \in [Plans -> PlanStatus]
  /\ job \in [Runs -> JobStatus]
  /\ post \in [Plans -> [Positions -> PostStatus]]
  /\ step \in [Runs -> [StepKeys -> StepStatus]]
  /\ pc \in [Runs -> PC]
  /\ target \in [Runs -> Plans \cup {NoPlan}]
  /\ pos \in [Runs -> 0 .. NumPosts]
  /\ anyFailed \in [Runs -> BOOLEAN]
  /\ verdict \in [Runs -> Verdict]
  /\ expired \subseteq Runs
  /\ approving \in [Approvals -> Plans \cup {NoPlan}]
  /\ faults \in 0 .. MaxFaults
  /\ crashes \in 0 .. MaxCrashes

\* Control points from the reservation to the end of the orchestrator.
Working == {"audit", "reserved", "looping", "created", "generating", "finalizing"}

\* At most one coroutine is between its reservation and the end of its
\* generation, whatever cron slots, run-now requests, faults and restarts
\* interleave (the single-flight promise of ADR-0011).
OneGenerator ==
  \A r, q \in Runs : pc[r] \in Working /\ pc[q] \in Working => r = q

\* A coroutine that generates still owns its running job_history row: nobody
\* else finalises or reconciles it under a live run.
GeneratorHoldsSlot ==
  \A r \in Runs : pc[r] \in Working => up /\ job[r] = "running"

\* While the process serves and no database call has failed, a running row has
\* a coroutine that will release it: the slot is never leaked.
SlotNotLeaked ==
  \A r \in Runs : up /\ faults = MaxFaults /\ job[r] = "running"
                    => pc[r] \in Working \cup {"refinalizing"}

\* A run reported as succeeded has produced the music of every post of its
\* plan, even if commits were lost or the plan was started again since.
SucceededRunIsComplete ==
  \A r \in Runs : job[r] = "succeeded" =>
    \A i \in Positions : post[target[r]][i] = "music_generated"

\* A plan shown as music_generated has no post that is missing, failed or back
\* in pending.
GeneratedPlanIsComplete ==
  \A p \in Plans : plan[p] = "music_generated" =>
    \A i \in Positions : post[p][i] = "music_generated"

\* What is reported as music is there: of the runs (/jobs) and of the plans
\* (/plans) alike.
ReportedMusicExists == SucceededRunIsComplete /\ GeneratedPlanIsComplete

\* A post in generating is the one some coroutine works on, or was left by a
\* run whose session failed; a restart leaves none.
GeneratingPostHasRun ==
  \A p \in Plans, i \in Positions : up /\ post[p][i] = "generating" =>
    \E r \in Runs : target[r] = p /\ pos[r] = i
                     /\ (pc[r] = "generating" \/ r \in expired)

\* An executing plan belongs to a run that works through its posts, or to one
\* that lost its session.
ExecutingPlanHasRun ==
  \A p \in Plans : up /\ plan[p] = "executing" =>
    \E r \in Runs : target[r] = p
                     /\ (pc[r] \in {"looping", "created", "generating"} \/ r \in expired)

\* Nothing is left open that no coroutine works on, neither a post nor a plan:
\* the reconciliation at start and the failure handlers leave no orphan.
OpenWorkHasRun == GeneratingPostHasRun /\ ExecutingPlanHasRun

\* A finished run shows no step as running: progress views always close
\* (music_generation.py:392), unless the database failed under the run.
FinishedRunHasNoOpenStep ==
  \A r \in Runs : up /\ faults = MaxFaults /\ r \notin expired /\ job[r] \in Terminal =>
    \A k \in StepKeys : step[r][k] # "running"

\* The status a run was finalised with never changes again: neither a second
\* finalize nor a reconciliation rewrites history.
TerminalIsFinal ==
  [][\A r \in Runs : job[r] \in Terminal => job'[r] = job[r]]_vars

\* Music that was generated is never marked otherwise by a failure, a retry
\* request, a second run or a reconciliation.
GeneratedPostIsKept ==
  [][\A p \in Plans, i \in Positions :
       post[p][i] = "music_generated" => post'[p][i] = "music_generated"]_vars

\* The run occupies an abstract slot that is acquired once and released once.
Life == [r \in Runs |-> CASE job[r] = "none" -> "new"
                          [] job[r] = "running" -> "active"
                          [] OTHER -> "ended"]
Slot == INSTANCE RunSlot WITH life <- Life
ImplementsRunSlot == Slot!Spec

\* Every run that took the slot gives it back, across stops of the process,
\* unless a database call fails.
RunEnds ==
  \A r \in Runs : job[r] = "running" ~> job[r] \in Terminal \/ faults < MaxFaults

-----------------------------------------------------------------------------
(* The inductive invariant of the proofs in MusicRunProofs *)

\* While a post is in the making its position is one of the plan's: without
\* this, the next position would leave its type.
InPosition == \A r \in Runs : pc[r] \in {"created", "generating"} => pos[r] \in Positions

\* What makes single flight inductive: the unique index keeps one running row,
\* a working coroutine owns it, a run that has not been inserted has no row,
\* and a run is finalised with a terminal status.
SlotInv ==
  /\ GeneratorHoldsSlot
  /\ \A r, q \in Runs : job[r] = "running" /\ job[q] = "running" => r = q
  /\ \A r \in Runs : pc[r] \in {"idle", "checked_now", "checked_cron"} => job[r] = "none"
  /\ \A r \in Runs : pc[r] \in {"finalizing", "refinalizing"} =>
                        verdict[r] \in {"succeeded", "failed"}

AllGenerated(p) == \A i \in Positions : post[p][i] = "music_generated"

\* What makes the completeness of a succeeded run inductive: how far the loop
\* has come, what its frame says of the posts behind it, and what the verdict
\* then means.
PostInv ==
  /\ InPosition
  /\ \A r \in Runs : pc[r] = "created" => post[target[r]][pos[r]] = "pending"
  /\ \A r \in Runs : pc[r] = "generating" => post[target[r]][pos[r]] = "generating"
  /\ \A r \in Runs : pc[r] \in {"looping", "created", "generating"} /\ ~anyFailed[r] =>
       \A i \in Positions : i < pos[r] => post[target[r]][i] = "music_generated"
  /\ \A r \in Runs : pc[r] \in {"idle", "checked_now", "checked_cron", "audit", "reserved"} =>
       pos[r] = 0 /\ verdict[r] = "none"
  /\ \A r \in Runs : pc[r] \notin {"idle", "ended"} => target[r] \in Plans
  /\ \A r \in Runs : verdict[r] = "succeeded" => target[r] \in Plans /\ AllGenerated(target[r])
  /\ \A r \in Runs : job[r] = "succeeded" => target[r] \in Plans /\ AllGenerated(target[r])
  /\ \A p \in Plans : plan[p] = "music_generated" => AllGenerated(p)

\* Together they are preserved by every step and imply single flight, the
\* completeness of succeeded runs and of music_generated plans.
IInv == TypeOK /\ SlotInv /\ PostInv
=============================================================================

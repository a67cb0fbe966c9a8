--------------------------- MODULE MusicRunProofs ---------------------------
(***************************************************************************)
(* Proofs about MusicRun for every set of plans, runs and approve          *)
(* requests, every number of posts and every budget of faults and stops.   *)
(***************************************************************************)
EXTENDS MusicRun, FiniteSetTheorems, TLAPS

\* A set of three is finite.
LEMMA TripleFinite ==
  ASSUME NEW x, NEW y, NEW z
  PROVE  IsFiniteSet({x, y, z})
<1>1. IsFiniteSet({} \cup {x})
  BY FS_EmptySet, FS_AddElement
<1>2. IsFiniteSet(({} \cup {x}) \cup {y})
  BY <1>1, FS_AddElement
<1>3. IsFiniteSet((({} \cup {x}) \cup {y}) \cup {z})
  BY <1>2, FS_AddElement
<1>4. (({} \cup {x}) \cup {y}) \cup {z} = {x, y, z}
  OBVIOUS
<1> QED BY <1>3, <1>4

\* The keys one call of Record may write.
LEMMA KeysFinite ==
  ASSUME NEW r \in Runs
  PROVE  /\ IsFiniteSet({Cycle})
         /\ IsFiniteSet({PostStep(pos[r]), MusicStep(pos[r])})
         /\ IsFiniteSet({Cycle, PostStep(pos[r]), MusicStep(pos[r])})
<1>1. IsFiniteSet({Cycle, Cycle, Cycle})
  BY TripleFinite
<1>2. IsFiniteSet({PostStep(pos[r]), MusicStep(pos[r]), MusicStep(pos[r])})
  BY TripleFinite
<1>3. IsFiniteSet({Cycle, PostStep(pos[r]), MusicStep(pos[r])})
  BY TripleFinite
<1>4. {Cycle, Cycle, Cycle} = {Cycle}
  OBVIOUS
<1>5. {PostStep(pos[r]), MusicStep(pos[r]), MusicStep(pos[r])} = {PostStep(pos[r]), MusicStep(pos[r])}
  OBVIOUS
<1> QED BY <1>1, <1>2, <1>3, <1>4, <1>5

\* Recording steps keeps the step table and the fault budget well typed, and
\* writes only rows of the recording run.
LEMMA RecordType ==
  ASSUME TypeOK, NEW r \in Runs, NEW keys, IsFiniteSet(keys),
         NEW status \in StepStatus, Record(r, keys, status)
  PROVE  /\ step' \in [Runs -> [StepKeys -> StepStatus]]
         /\ faults' \in 0 .. MaxFaults
<1>1. PICK lost \in SUBSET keys :
        /\ Cardinality(lost) <= faults
        /\ faults' = faults - Cardinality(lost)
        /\ step' = [step EXCEPT ![r] =
             [k \in StepKeys |-> IF k \in keys \ lost THEN status ELSE step[r][k]]]
  BY DEF Record
<1>2. Cardinality(lost) \in Nat
  BY FS_Subset, FS_CardinalityType
<1>3. [k \in StepKeys |-> IF k \in keys \ lost THEN status ELSE step[r][k]]
         \in [StepKeys -> StepStatus]
  BY DEF TypeOK
<1>4. step' \in [Runs -> [StepKeys -> StepStatus]]
  BY <1>1, <1>3 DEF TypeOK
<1>5. faults' \in 0 .. MaxFaults
  BY <1>1, <1>2, BudgetAssumption DEF TypeOK
<1> QED BY <1>4, <1>5

\* The helpers that write one field keep its type.
LEMMA SetTypes ==
  ASSUME TypeOK, NEW r \in Runs
  PROVE  /\ \A s \in PostStatus : SetPost(r, s) => post' \in [Plans -> [Positions -> PostStatus]]
         /\ \A s \in PlanStatus : SetPlan(r, s) => plan' \in [Plans -> PlanStatus]
         /\ \A l \in PC : Goto(r, l) => pc' \in [Runs -> PC]
         /\ Fault => faults' \in 0 .. MaxFaults
         /\ NoFault => faults' \in 0 .. MaxFaults
<1>1. ASSUME NEW s \in PostStatus, SetPost(r, s)
      PROVE  post' \in [Plans -> [Positions -> PostStatus]]
  BY <1>1 DEF SetPost, TypeOK
<1>2. ASSUME NEW s \in PlanStatus, SetPlan(r, s)
      PROVE  plan' \in [Plans -> PlanStatus]
  BY <1>2 DEF SetPlan, TypeOK
<1>3. ASSUME NEW l \in PC, Goto(r, l)
      PROVE  pc' \in [Runs -> PC]
  BY <1>3 DEF Goto, TypeOK
<1>4. Fault => faults' \in 0 .. MaxFaults
  BY BudgetAssumption DEF Fault, TypeOK
<1>5. NoFault => faults' \in 0 .. MaxFaults
  BY DEF NoFault, TypeOK
<1> QED BY <1>1, <1>2, <1>3, <1>4, <1>5

\* The part of the type that an aborting run leaves alone or rewrites.
LEMMA AbortType ==
  ASSUME TypeOK, NEW r \in Runs, Abort(r),
         plan' \in [Plans -> PlanStatus],
         post' \in [Plans -> [Positions -> PostStatus]],
         faults' \in 0 .. MaxFaults
  PROVE  TypeOK'
<1>1. pc' \in [Runs -> PC]
  BY SetTypes DEF Abort, PC
<1>2. verdict' \in [Runs -> Verdict]
  BY DEF Abort, TypeOK, Verdict
<1> QED BY <1>1, <1>2 DEF Abort, TypeOK

\* The types hold initially.
LEMMA TypeInit == Init => TypeOK
BY NumPostsAssumption, BudgetAssumption
   DEF Init, TypeOK, PlanStatus, JobStatus, PostStatus, StepStatus, PC, Verdict

\* The approve requests keep the types.
LEMMA TypeApproval ==
  ASSUME TypeOK, NEW a \in Approvals, ApproveCheck(a) \/ ApproveCommit(a)
  PROVE  TypeOK'
<1>1. CASE ApproveCheck(a)
  BY <1>1 DEF ApproveCheck, TypeOK, db, mem
<1>2. CASE ApproveCommit(a)
  <2>1. plan' \in [Plans -> PlanStatus]
    BY <1>2 DEF ApproveCommit, TypeOK, PlanStatus
  <2>2. faults' \in 0 .. MaxFaults
    BY <1>2, BudgetAssumption DEF ApproveCommit, TypeOK, Fault, NoFault
  <2> QED BY <1>2, <2>1, <2>2, NoPlanAssumption DEF ApproveCommit, TypeOK, mem
<1> QED BY <1>1, <1>2

\* The reservation steps keep the types.
LEMMA TypeReservation ==
  ASSUME TypeOK, NEW r \in Runs,
         ReserveRunNow(r) \/ ReserveCron(r) \/ SkipCron(r) \/ InsertRunning(r) \/ WriteAudit(r)
  PROVE  TypeOK'
<1>1. CASE ReserveRunNow(r)
  BY <1>1 DEF ReserveRunNow, Goto, TypeOK, db, PC
<1>2. CASE ReserveCron(r)
  BY <1>2 DEF ReserveCron, Goto, TypeOK, db, PC
<1>3. CASE SkipCron(r)
  BY <1>3 DEF SkipCron, Goto, TypeOK, JobStatus, PC
<1>4. CASE InsertRunning(r)
  <2>1. pc' \in [Runs -> PC]
    BY <1>4 DEF InsertRunning, Goto, TypeOK, PC
  <2>2. job' \in [Runs -> JobStatus]
    BY <1>4 DEF InsertRunning, TypeOK, JobStatus
  <2>3. faults' \in 0 .. MaxFaults
    BY <1>4, SetTypes DEF InsertRunning
  <2> QED BY <1>4, <2>1, <2>2, <2>3 DEF InsertRunning, TypeOK
<1>5. CASE WriteAudit(r)
  <2>1. pc' \in [Runs -> PC] /\ verdict' \in [Runs -> Verdict]
    BY <1>5 DEF WriteAudit, Goto, TypeOK, PC, Verdict
  <2>2. faults' \in 0 .. MaxFaults
    BY <1>5, SetTypes DEF WriteAudit
  <2> QED BY <1>5, <2>1, <2>2 DEF WriteAudit, TypeOK, db
<1> QED BY <1>1, <1>2, <1>3, <1>4, <1>5

\* The steps of the orchestrator keep the types.
LEMMA TypeExecution ==
  ASSUME TypeOK, InPosition, NEW r \in Runs,
         RejectPayload(r) \/ OpenPlan(r) \/ CreatePost(r) \/ StartPost(r)
           \/ PostSucceeds(r) \/ PostFails(r) \/ ClosePlan(r)
  PROVE  TypeOK'
<1> USE DEF PC, PlanStatus, PostStatus, StepStatus, Verdict
<1>1. CASE RejectPayload(r)
  BY <1>1 DEF RejectPayload, Goto, TypeOK, db
<1>2. CASE OpenPlan(r)
  <2>1. /\ step' \in [Runs -> [StepKeys -> StepStatus]] /\ faults' \in 0 .. MaxFaults
    BY <1>2, RecordType, KeysFinite DEF OpenPlan
  <2>2. plan' \in [Plans -> PlanStatus] /\ pc' \in [Runs -> PC]
    BY <1>2, SetTypes DEF OpenPlan
  <2> QED BY <1>2, <2>1, <2>2 DEF OpenPlan, TypeOK
<1>3. CASE CreatePost(r)
  <2>1. post' \in [Plans -> [Positions -> PostStatus]] /\ pc' \in [Runs -> PC]
    BY <1>3, SetTypes DEF CreatePost
  <2> QED BY <1>3, <2>1 DEF CreatePost, TypeOK
<1>4. CASE StartPost(r)
  <2>1. step' \in [Runs -> [StepKeys -> StepStatus]] /\ faults' \in 0 .. MaxFaults
    BY <1>4, RecordType, KeysFinite DEF StartPost
  <2>2. post' \in [Plans -> [Positions -> PostStatus]] /\ pc' \in [Runs -> PC]
    BY <1>4, SetTypes DEF StartPost
  <2> QED BY <1>4, <2>1, <2>2 DEF StartPost, TypeOK
<1>5. CASE PostSucceeds(r)
  <2>1. step' \in [Runs -> [StepKeys -> StepStatus]] /\ faults' \in 0 .. MaxFaults
    BY <1>5, RecordType, KeysFinite DEF PostSucceeds
  <2>2. post' \in [Plans -> [Positions -> PostStatus]] /\ pc' \in [Runs -> PC]
    BY <1>5, SetTypes DEF PostSucceeds
  <2>3. pos' \in [Runs -> 0 .. NumPosts]
    BY <1>5, NumPostsAssumption DEF PostSucceeds, InPosition, Positions, TypeOK
  <2> QED BY <1>5, <2>1, <2>2, <2>3 DEF PostSucceeds, TypeOK
<1>6. CASE PostFails(r)
  <2>1. step' \in [Runs -> [StepKeys -> StepStatus]] /\ faults' \in 0 .. MaxFaults
    BY <1>6, RecordType, KeysFinite DEF PostFails
  <2>2. post' \in [Plans -> [Positions -> PostStatus]] /\ pc' \in [Runs -> PC]
    BY <1>6, SetTypes DEF PostFails
  <2>3. pos[r] + 1 \in 0 .. NumPosts /\ NumPosts \in 0 .. NumPosts
    BY <1>6, NumPostsAssumption DEF PostFails, InPosition, Positions, TypeOK
  <2>4. pos' \in [Runs -> 0 .. NumPosts]
    <3>1. CASE pos' = [pos EXCEPT ![r] = @ + 1]
      BY <2>3, <3>1 DEF TypeOK
    <3>2. CASE pos' = [pos EXCEPT ![r] = NumPosts]
      BY <2>3, <3>2 DEF TypeOK
    <3> QED BY <1>6, <3>1, <3>2 DEF PostFails
  <2> QED BY <1>6, <2>1, <2>2, <2>4 DEF PostFails, TypeOK
<1>7. CASE ClosePlan(r)
  <2>1. step' \in [Runs -> [StepKeys -> StepStatus]] /\ faults' \in 0 .. MaxFaults
    <3>1. (IF anyFailed[r] THEN "failed" ELSE "succeeded") \in StepStatus
      OBVIOUS
    <3> QED BY <1>7, <3>1, RecordType, KeysFinite DEF ClosePlan
  <2>2. plan' \in [Plans -> PlanStatus]
    <3>1. (IF anyFailed[r] THEN "failed" ELSE "music_generated") \in PlanStatus
      OBVIOUS
    <3> QED BY <1>7, <3>1, SetTypes DEF ClosePlan
  <2>3. pc' \in [Runs -> PC]
    BY <1>7, SetTypes DEF ClosePlan
  <2> QED BY <1>7, <2>1, <2>2, <2>3 DEF ClosePlan, TypeOK
<1> QED BY <1>1, <1>2, <1>3, <1>4, <1>5, <1>6, <1>7

\* A session that fails under the orchestrator keeps the types.
LEMMA TypeFaults ==
  ASSUME TypeOK, NEW r \in Runs,
         OpenPlanFault(r) \/ CreatePostError(r) \/ StartPostFault(r) \/ PostFault(r)
           \/ ClosePlanFault(r)
  PROVE  TypeOK'
<1>1. Abort(r)
  BY DEF OpenPlanFault, CreatePostError, StartPostFault, PostFault, ClosePlanFault
<1>2. faults' \in 0 .. MaxFaults
  BY SetTypes DEF OpenPlanFault, CreatePostError, StartPostFault, PostFault, ClosePlanFault
<1>3. plan' \in [Plans -> PlanStatus]
  BY SetTypes DEF OpenPlanFault, CreatePostError, StartPostFault, PostFault, ClosePlanFault,
     PlanStatus, TypeOK
<1>4. post' \in [Plans -> [Positions -> PostStatus]]
  BY SetTypes DEF OpenPlanFault, CreatePostError, StartPostFault, PostFault, ClosePlanFault,
     PostStatus, TypeOK
<1> QED BY <1>1, <1>2, <1>3, <1>4, AbortType

\* Finalising keeps the types.
LEMMA TypeFinalize ==
  ASSUME TypeOK, NEW r \in Runs, Finalize(r) \/ FinalizeFault(r)
  PROVE  TypeOK'
<1>1. Finalized(r) \in [Runs -> JobStatus]
  BY DEF Finalized, TypeOK, Verdict, JobStatus
<1>2. CASE Finalize(r)
  BY <1>1, <1>2 DEF Finalize, Goto, TypeOK, PC
<1>3. CASE FinalizeFault(r)
  <2>1. faults' \in 0 .. MaxFaults
    BY <1>3, SetTypes DEF FinalizeFault
  <2>2. pc' \in [Runs -> PC] /\ verdict' \in [Runs -> Verdict]
    BY <1>3 DEF FinalizeFault, Goto, TypeOK, PC, Verdict
  <2> QED BY <1>1, <1>3, <2>1, <2>2 DEF FinalizeFault, TypeOK
<1> QED BY <1>2, <1>3

\* Stops and restarts of the process keep the types.
LEMMA TypeProcess ==
  ASSUME TypeOK, Crash \/ Reconcile \/ (\E r \in Runs : Shutdown(r))
  PROVE  TypeOK'
<1>1. ASSUME DropMemory
      PROVE  /\ up' \in BOOLEAN /\ crashes' \in 0 .. MaxCrashes
             /\ pc' \in [Runs -> PC]
             /\ approving' \in [Approvals -> Plans \cup {NoPlan}]
  <2>1. up' \in BOOLEAN
    BY <1>1 DEF DropMemory
  <2>2. crashes' \in 0 .. MaxCrashes
    BY <1>1, BudgetAssumption DEF DropMemory, TypeOK
  <2>3. pc' \in [Runs -> PC]
    BY <1>1 DEF DropMemory, TypeOK, PC
  <2>4. approving' \in [Approvals -> Plans \cup {NoPlan}]
    BY <1>1 DEF DropMemory
  <2> QED BY <2>1, <2>2, <2>3, <2>4
<1>2. CASE Crash
  BY <1>1, <1>2 DEF Crash, DropMemory, TypeOK, db
<1>3. CASE Reconcile
  <2>1. /\ job' \in [Runs -> JobStatus]
        /\ step' \in [Runs -> [StepKeys -> StepStatus]]
        /\ plan' \in [Plans -> PlanStatus]
        /\ post' \in [Plans -> [Positions -> PostStatus]]
    BY <1>3 DEF Reconcile, ClosedJobs, ClosedSteps, ClosedPlans, ClosedPosts, TypeOK,
       JobStatus, StepStatus, PlanStatus, PostStatus
  <2> QED BY <1>3, <2>1 DEF Reconcile, TypeOK, mem
<1>4. ASSUME NEW r \in Runs, Shutdown(r)
      PROVE  TypeOK'
  <2>1. step' \in [Runs -> [StepKeys -> StepStatus]] /\ faults' \in 0 .. MaxFaults
    BY <1>4, RecordType, KeysFinite DEF Shutdown, StepStatus
  <2>2. plan' \in [Plans -> PlanStatus] /\ post' \in [Plans -> [Positions -> PostStatus]]
    BY <1>4, SetTypes DEF Shutdown, PlanStatus, PostStatus
  <2> QED BY <1>1, <1>4, <2>1, <2>2 DEF Shutdown, DropMemory, TypeOK
<1> QED BY <1>2, <1>3, <1>4

\* A retry request keeps the types.
LEMMA TypeRetry ==
  ASSUME TypeOK, NEW p \in Plans, NEW i \in Positions, RetryPost(p, i)
  PROVE  TypeOK'
BY DEF RetryPost, TypeOK, PostStatus, mem

-----------------------------------------------------------------------------
(* The slot *)

\* SlotInv holds initially.
LEMMA SlotInit == Init => SlotInv
BY DEF Init, SlotInv, GeneratorHoldsSlot, Working

\* The reservation steps keep SlotInv: a row is inserted only into a free slot.
LEMMA SlotReservation ==
  ASSUME TypeOK, SlotInv, NEW r \in Runs,
         ReserveRunNow(r) \/ ReserveCron(r) \/ SkipCron(r) \/ InsertRunning(r) \/ WriteAudit(r)
  PROVE  SlotInv'
<1> USE DEF SlotInv, GeneratorHoldsSlot, Working, Goto, TypeOK, db
<1>1. CASE ReserveRunNow(r)
  BY <1>1 DEF ReserveRunNow
<1>2. CASE ReserveCron(r)
  BY <1>2 DEF ReserveCron
<1>3. CASE SkipCron(r)
  BY <1>3 DEF SkipCron
<1>4. CASE InsertRunning(r)
  BY <1>4 DEF InsertRunning, SlotFree
<1>5. CASE WriteAudit(r)
  BY <1>5 DEF WriteAudit
<1> QED BY <1>1, <1>2, <1>3, <1>4, <1>5

\* The steps of the orchestrator keep SlotInv.
LEMMA SlotExecution ==
  ASSUME TypeOK, SlotInv, NEW r \in Runs,
         RejectPayload(r) \/ OpenPlan(r) \/ CreatePost(r) \/ StartPost(r)
           \/ PostSucceeds(r) \/ PostFails(r) \/ ClosePlan(r)
  PROVE  SlotInv'
<1> USE DEF SlotInv, GeneratorHoldsSlot, Working, Goto, TypeOK, db
<1>1. CASE RejectPayload(r)
  BY <1>1 DEF RejectPayload
<1>2. CASE OpenPlan(r)
  BY <1>2 DEF OpenPlan
<1>3. CASE CreatePost(r)
  BY <1>3 DEF CreatePost
<1>4. CASE StartPost(r)
  BY <1>4 DEF StartPost
<1>5. CASE PostSucceeds(r)
  BY <1>5 DEF PostSucceeds
<1>6. CASE PostFails(r)
  BY <1>6 DEF PostFails
<1>7. CASE ClosePlan(r)
  BY <1>7 DEF ClosePlan
<1> QED BY <1>1, <1>2, <1>3, <1>4, <1>5, <1>6, <1>7

\* A session that fails under the orchestrator keeps SlotInv.
LEMMA SlotFaults ==
  ASSUME TypeOK, SlotInv, NEW r \in Runs,
         OpenPlanFault(r) \/ CreatePostError(r) \/ StartPostFault(r) \/ PostFault(r)
           \/ ClosePlanFault(r)
  PROVE  SlotInv'
<1>1. Abort(r)
  BY DEF OpenPlanFault, CreatePostError, StartPostFault, PostFault, ClosePlanFault
<1> QED BY <1>1 DEF Abort, SlotInv, GeneratorHoldsSlot, Working, Goto, TypeOK

\* Finalising keeps SlotInv: it ends the row of a run that no longer works.
LEMMA SlotFinalize ==
  ASSUME TypeOK, SlotInv, NEW r \in Runs, Finalize(r) \/ FinalizeFault(r)
  PROVE  SlotInv'
<1>1. \A q \in Runs : q # r => Finalized(r)[q] = job[q]
  BY DEF Finalized, TypeOK
<1>2. Finalized(r)[r] # "running"
  BY DEF Finalized, TypeOK, SlotInv, Finalize, FinalizeFault
<1> USE DEF SlotInv, GeneratorHoldsSlot, Working, Goto, TypeOK
<1>3. CASE Finalize(r)
  BY <1>1, <1>2, <1>3 DEF Finalize
<1>4. CASE FinalizeFault(r)
  BY <1>1, <1>2, <1>4 DEF FinalizeFault
<1> QED BY <1>3, <1>4

\* Requests, stops and restarts keep SlotInv.
LEMMA SlotOthers ==
  ASSUME TypeOK, SlotInv,
         \/ \E a \in Approvals : ApproveCheck(a) \/ ApproveCommit(a)
         \/ \E p \in Plans, i \in Positions : RetryPost(p, i)
         \/ Crash \/ Reconcile \/ (\E r \in Runs : Shutdown(r))
         \/ UNCHANGED vars
  PROVE  SlotInv'
<1> USE DEF SlotInv, GeneratorHoldsSlot, Working, TypeOK, db, mem
<1>1. ASSUME NEW a \in Approvals, ApproveCheck(a) \/ ApproveCommit(a) PROVE SlotInv'
  BY <1>1 DEF ApproveCheck, ApproveCommit
<1>2. ASSUME NEW p \in Plans, NEW i \in Positions, RetryPost(p, i) PROVE SlotInv'
  BY <1>2 DEF RetryPost
<1>3. CASE Crash
  BY <1>3 DEF Crash, DropMemory
<1>4. CASE Reconcile
  BY <1>4 DEF Reconcile, ClosedJobs
<1>5. ASSUME NEW r \in Runs, Shutdown(r) PROVE SlotInv'
  BY <1>5 DEF Shutdown, DropMemory
<1>6. CASE UNCHANGED vars
  BY <1>6 DEF vars
<1> QED BY <1>1, <1>2, <1>3, <1>4, <1>5, <1>6

\* Every step of the specification keeps SlotInv.
LEMMA SlotStep ==
  ASSUME TypeOK, SlotInv, [Next]_vars
  PROVE  SlotInv'
<1>1. ASSUME NEW r \in Runs, ReserveRunNow(r) \/ ReserveCron(r) \/ SkipCron(r)
             \/ Executor(r) \/ Shutdown(r)
      PROVE  SlotInv'
  BY <1>1, SlotReservation, SlotExecution, SlotFaults, SlotFinalize, SlotOthers DEF Executor
<1>2. CASE Crash \/ Reconcile \/ UNCHANGED vars
  BY <1>2, SlotOthers
<1>3. CASE \E a \in Approvals : ApproveCheck(a) \/ ApproveCommit(a)
  BY <1>3, SlotOthers
<1>4. CASE \E p \in Plans, i \in Positions : RetryPost(p, i)
  BY <1>4, SlotOthers
<1> QED BY <1>1, <1>2, <1>3, <1>4 DEF Next

\* Every step of the specification keeps the types.
LEMMA TypeStep ==
  ASSUME TypeOK, InPosition, [Next]_vars
  PROVE  TypeOK'
<1>1. ASSUME NEW r \in Runs, ReserveRunNow(r) \/ ReserveCron(r) \/ SkipCron(r)
             \/ Executor(r) \/ Shutdown(r)
      PROVE  TypeOK'
  BY <1>1, TypeReservation, TypeExecution, TypeFaults, TypeFinalize, TypeProcess DEF Executor
<1>2. CASE Crash \/ Reconcile
  BY <1>2, TypeProcess
<1>3. CASE \E a \in Approvals : ApproveCheck(a) \/ ApproveCommit(a)
  BY <1>3, TypeApproval
<1>4. CASE \E p \in Plans, i \in Positions : RetryPost(p, i)
  BY <1>4, TypeRetry
<1>5. CASE UNCHANGED vars
  BY <1>5 DEF vars, db, mem, TypeOK
<1> QED BY <1>1, <1>2, <1>3, <1>4, <1>5 DEF Next

-----------------------------------------------------------------------------
(* The job_history row of a run *)

\* What one step may do to the rows: nothing, insert one running row into the
\* free slot, leave one skipped row, or end the one running row.
Inserted(r) == job[r] = "none" /\ SlotFree /\ job' = [job EXCEPT ![r] = "running"]
Skipped(r) == job[r] = "none" /\ job' = [job EXCEPT ![r] = "skipped"]
Ended(r) == job[r] = "running" /\ \E s \in {"succeeded", "failed"} : job' = [job EXCEPT ![r] = s]

\* Every step changes at most one job_history row, in one of these ways.
LEMMA JobStep ==
  ASSUME TypeOK, SlotInv, [Next]_vars
  PROVE  job' = job \/ \E r \in Runs : Inserted(r) \/ Skipped(r) \/ Ended(r)
<1>1. ASSUME NEW r \in Runs, ReserveRunNow(r) \/ ReserveCron(r) \/ SkipCron(r)
      PROVE  job' = job \/ Skipped(r)
  BY <1>1 DEF ReserveRunNow, ReserveCron, SkipCron, Skipped, SlotInv, db
<1>2. ASSUME NEW r \in Runs, InsertRunning(r)
      PROVE  job' = job \/ Inserted(r)
  BY <1>2 DEF InsertRunning, Inserted, SlotInv
<1>3. ASSUME NEW r \in Runs, Finalize(r) \/ FinalizeFault(r)
      PROVE  job' = job \/ Ended(r)
  BY <1>3 DEF Finalize, FinalizeFault, Finalized, Ended, SlotInv
<1>4. ASSUME NEW r \in Runs, Executor(r)
      PROVE  job' = job \/ Inserted(r) \/ Ended(r)
  <2>1. CASE InsertRunning(r) \/ Finalize(r) \/ FinalizeFault(r)
    BY <2>1, <1>2, <1>3
  <2>2. CASE WriteAudit(r) \/ RejectPayload(r) \/ OpenPlan(r) \/ CreatePost(r)
             \/ StartPost(r) \/ PostSucceeds(r) \/ PostFails(r) \/ ClosePlan(r)
    BY <2>2 DEF WriteAudit, RejectPayload, OpenPlan, CreatePost, StartPost, PostSucceeds,
       PostFails, ClosePlan, db
  <2>3. CASE OpenPlanFault(r) \/ CreatePostError(r) \/ StartPostFault(r) \/ PostFault(r)
             \/ ClosePlanFault(r)
    BY <2>3 DEF OpenPlanFault, CreatePostError, StartPostFault, PostFault, ClosePlanFault, Abort
  <2> QED BY <1>4, <2>1, <2>2, <2>3 DEF Executor
<1>5. CASE Reconcile
  <2>1. CASE \E r \in Runs : job[r] = "running"
    <3>1. PICK r \in Runs : job[r] = "running"
      BY <2>1
    <3>2. \A q \in Runs : q # r => job[q] # "running"
      BY <3>1 DEF SlotInv
    <3>3. job' = [job EXCEPT ![r] = "failed"]
      BY <1>5, <3>1, <3>2 DEF Reconcile, ClosedJobs, TypeOK
    <3> QED BY <3>1, <3>3 DEF Ended
  <2>2. CASE \A r \in Runs : job[r] # "running"
    BY <1>5, <2>2 DEF Reconcile, ClosedJobs, TypeOK
  <2> QED BY <2>1, <2>2
<1>6. CASE Crash \/ \E r \in Runs : Shutdown(r)
  BY <1>6 DEF Crash, Shutdown, db
<1>7. CASE \E a \in Approvals : ApproveCheck(a) \/ ApproveCommit(a)
  BY <1>7 DEF ApproveCheck, ApproveCommit, db
<1>8. CASE \E p \in Plans, i \in Positions : RetryPost(p, i)
  BY <1>8 DEF RetryPost
<1>9. CASE UNCHANGED vars
  BY <1>9 DEF vars, db
<1> QED BY <1>1, <1>4, <1>5, <1>6, <1>7, <1>8, <1>9 DEF Next

-----------------------------------------------------------------------------
(* The posts *)

\* A step that writes one post of the run's plan leaves the others alone.
LEMMA SetPostEffect ==
  ASSUME TypeOK, NEW r \in Runs, target[r] \in Plans, pos[r] \in Positions,
         NEW s \in PostStatus, SetPost(r, s)
  PROVE  /\ post'[target[r]][pos[r]] = s
         /\ \A p \in Plans, i \in Positions :
              p # target[r] \/ i # pos[r] => post'[p][i] = post[p][i]
BY DEF SetPost, TypeOK

\* A run's steps write at most the post it stands on, and only when that post
\* is not music_generated.
LEMMA WritesOwnPost ==
  ASSUME TypeOK, PostInv, NEW r \in Runs, Executor(r) \/ Shutdown(r)
  PROVE  \/ post' = post
         \/ /\ target[r] \in Plans /\ pos[r] \in Positions
            /\ post[target[r]][pos[r]] \in {"none", "pending", "generating"}
            /\ \E s \in PostStatus : SetPost(r, s)
<1> USE DEF PostStatus
<1>1. CASE CreatePost(r) \/ CreatePostError(r)
  BY <1>1 DEF CreatePost, CreatePostError, PostExists, PostInv
<1>2. CASE StartPost(r) \/ StartPostFault(r)
  BY <1>2 DEF StartPost, StartPostFault, PostInv, InPosition
<1>3. CASE PostSucceeds(r) \/ PostFails(r) \/ PostFault(r) \/ Shutdown(r)
  BY <1>3 DEF PostSucceeds, PostFails, PostFault, Shutdown, PostInv, InPosition
<1>4. CASE InsertRunning(r) \/ WriteAudit(r) \/ RejectPayload(r) \/ OpenPlan(r) \/ OpenPlanFault(r)
           \/ ClosePlan(r) \/ ClosePlanFault(r) \/ Finalize(r) \/ FinalizeFault(r)
  BY <1>4 DEF InsertRunning, WriteAudit, RejectPayload, OpenPlan, OpenPlanFault, ClosePlan,
     ClosePlanFault, Finalize, FinalizeFault, db
<1> QED BY <1>1, <1>2, <1>3, <1>4 DEF Executor

\* Generated music is kept by every step.
LEMMA KeptStep ==
  ASSUME TypeOK, PostInv, [Next]_vars,
         NEW p \in Plans, NEW i \in Positions, post[p][i] = "music_generated"
  PROVE  post'[p][i] = "music_generated"
<1>1. ASSUME NEW r \in Runs, Executor(r) \/ Shutdown(r)
      PROVE  post'[p][i] = "music_generated"
  BY <1>1, WritesOwnPost, SetPostEffect
<1>2. ASSUME NEW r \in Runs, ReserveRunNow(r) \/ ReserveCron(r) \/ SkipCron(r)
      PROVE  post' = post
  BY <1>2 DEF ReserveRunNow, ReserveCron, SkipCron, db
<1>3. ASSUME NEW q \in Plans, NEW j \in Positions, RetryPost(q, j)
      PROVE  post'[p][i] = "music_generated"
  BY <1>3 DEF RetryPost, TypeOK
<1>4. CASE Reconcile
  BY <1>4 DEF Reconcile, ClosedPosts
<1>5. CASE Crash \/ UNCHANGED vars
  BY <1>5 DEF Crash, vars, db
<1>6. CASE \E a \in Approvals : ApproveCheck(a) \/ ApproveCommit(a)
  BY <1>6 DEF ApproveCheck, ApproveCommit, db
<1> QED BY <1>1, <1>2, <1>3, <1>4, <1>5, <1>6 DEF Next

\* A plan whose posts are all generated stays so.
LEMMA AllGeneratedKept ==
  ASSUME TypeOK, PostInv, [Next]_vars, NEW p \in Plans, AllGenerated(p)
  PROVE  AllGenerated(p)'
BY KeptStep DEF AllGenerated

\* PostInv holds initially.
LEMMA PostInit == Init => PostInv
BY NumPostsAssumption DEF Init, PostInv, InPosition, AllGenerated

\* The parts of PostInv: the frame of a run, the post it stands on and the
\* posts behind it, and what verdicts, rows and plans say of them.
FrameInv ==
  /\ InPosition
  /\ \A r \in Runs : pc[r] \in {"idle", "checked_now", "checked_cron", "audit", "reserved"} =>
       pos[r] = 0 /\ verdict[r] = "none"
  /\ \A r \in Runs : pc[r] \notin {"idle", "ended"} => target[r] \in Plans

OwnInv(r) ==
  /\ pc[r] = "created" => post[target[r]][pos[r]] = "pending"
  /\ pc[r] = "generating" => post[target[r]][pos[r]] = "generating"
  /\ pc[r] \in {"looping", "created", "generating"} /\ ~anyFailed[r] =>
       \A i \in Positions : i < pos[r] => post[target[r]][i] = "music_generated"

VerdictInv ==
  /\ \A r \in Runs : verdict[r] = "succeeded" => target[r] \in Plans /\ AllGenerated(target[r])
  /\ \A r \in Runs : job[r] = "succeeded" => target[r] \in Plans /\ AllGenerated(target[r])
  /\ \A p \in Plans : plan[p] = "music_generated" => AllGenerated(p)

\* The parts make up PostInv.
LEMMA PostInvParts == PostInv <=> FrameInv /\ (\A r \in Runs : OwnInv(r)) /\ VerdictInv
BY DEF PostInv, FrameInv, OwnInv, VerdictInv

\* What an aborting run does to its frame.
LEMMA FaultAborts ==
  ASSUME NEW r \in Runs,
         OpenPlanFault(r) \/ CreatePostError(r) \/ StartPostFault(r) \/ PostFault(r)
           \/ ClosePlanFault(r)
  PROVE  /\ Abort(r)
         /\ pc[r] \in {"reserved", "looping", "created", "generating"}
         /\ \/ plan' = plan
            \/ SetPlan(r, "executing")
            \/ pc[r] = "looping" /\ pos[r] = NumPosts
                 /\ SetPlan(r, IF anyFailed[r] THEN "failed" ELSE "music_generated")
BY DEF OpenPlanFault, CreatePostError, StartPostFault, PostFault, ClosePlanFault

\* Every step keeps the frames.
LEMMA FrameStep ==
  ASSUME TypeOK, FrameInv, [Next]_vars
  PROVE  FrameInv'
<1> USE DEF FrameInv, InPosition, TypeOK, Goto, db, mem
<1>1. ASSUME NEW r \in Runs, ReserveRunNow(r) \/ ReserveCron(r) \/ SkipCron(r)
      PROVE  FrameInv'
  BY <1>1 DEF ReserveRunNow, ReserveCron, SkipCron
<1>2. ASSUME NEW r \in Runs, InsertRunning(r) \/ WriteAudit(r) \/ RejectPayload(r) \/ OpenPlan(r)
      PROVE  FrameInv'
  <2>1. CASE InsertRunning(r)
    BY <2>1 DEF InsertRunning
  <2>2. CASE WriteAudit(r)
    BY <2>2 DEF WriteAudit
  <2>3. CASE RejectPayload(r)
    BY <2>3 DEF RejectPayload
  <2>4. CASE OpenPlan(r)
    BY <2>4 DEF OpenPlan
  <2> QED BY <1>2, <2>1, <2>2, <2>3, <2>4
<1>3. ASSUME NEW r \in Runs, CreatePost(r) \/ StartPost(r)
      PROVE  FrameInv'
  BY <1>3 DEF CreatePost, StartPost
<1>4. ASSUME NEW r \in Runs, PostSucceeds(r) \/ PostFails(r)
      PROVE  FrameInv'
  <2>1. CASE PostSucceeds(r)
    BY <2>1 DEF PostSucceeds
  <2>2. CASE PostFails(r)
    BY <2>2 DEF PostFails
  <2> QED BY <1>4, <2>1, <2>2
<1>5. ASSUME NEW r \in Runs, ClosePlan(r) \/ Finalize(r) \/ FinalizeFault(r)
      PROVE  FrameInv'
  BY <1>5 DEF ClosePlan, Finalize, FinalizeFault
<1>6. ASSUME NEW r \in Runs, OpenPlanFault(r) \/ CreatePostError(r) \/ StartPostFault(r)
             \/ PostFault(r) \/ ClosePlanFault(r)
      PROVE  FrameInv'
  <2>1. Abort(r) /\ pc[r] \in {"reserved", "looping", "created", "generating"}
    BY <1>6, FaultAborts
  <2> QED BY <2>1 DEF Abort
<1>7. ASSUME NEW r \in Runs, Shutdown(r)
      PROVE  FrameInv'
  BY <1>7 DEF Shutdown, DropMemory
<1>8. CASE Crash \/ Reconcile \/ UNCHANGED vars
  BY <1>8 DEF Crash, DropMemory, Reconcile, vars
<1>9. CASE \E a \in Approvals : ApproveCheck(a) \/ ApproveCommit(a)
  BY <1>9 DEF ApproveCheck, ApproveCommit
<1>10. CASE \E p \in Plans, i \in Positions : RetryPost(p, i)
  BY <1>10 DEF RetryPost
<1> QED BY <1>1, <1>2, <1>3, <1>4, <1>5, <1>6, <1>7, <1>8, <1>9, <1>10 DEF Next, Executor

\* Only a working coroutine writes posts.
LEMMA WriterWorks ==
  ASSUME NEW q \in Runs, Executor(q) \/ Shutdown(q), post' # post
  PROVE  pc[q] \in Working
BY DEF Executor, InsertRunning, WriteAudit, RejectPayload, OpenPlan, OpenPlanFault, CreatePost,
   CreatePostError, StartPost, StartPostFault, PostSucceeds, PostFails, PostFault, ClosePlan,
   ClosePlanFault, Finalize, FinalizeFault, Shutdown, Working, db

\* A run's step leaves the frames of the other runs alone, unless it stops the
\* process, which leaves no frame.
LEMMA OtherFrames ==
  ASSUME TypeOK, NEW q \in Runs, NEW r \in Runs, q # r,
         Executor(q) \/ ReserveRunNow(q) \/ ReserveCron(q) \/ SkipCron(q) \/ Shutdown(q)
  PROVE  /\ pc'[r] = pc[r] \/ pc'[r] \in {"idle", "ended"}
         /\ target'[r] = target[r] /\ pos'[r] = pos[r]
         /\ anyFailed'[r] = anyFailed[r] /\ verdict'[r] = verdict[r]
<1> USE DEF TypeOK, Goto, db
<1>1. CASE InsertRunning(q) \/ WriteAudit(q) \/ RejectPayload(q) \/ OpenPlan(q)
  BY <1>1 DEF InsertRunning, WriteAudit, RejectPayload, OpenPlan
<1>2. CASE CreatePost(q) \/ StartPost(q) \/ PostSucceeds(q) \/ PostFails(q)
  BY <1>2 DEF CreatePost, StartPost, PostSucceeds, PostFails
<1>3. CASE ClosePlan(q) \/ Finalize(q) \/ FinalizeFault(q)
  BY <1>3 DEF ClosePlan, Finalize, FinalizeFault
<1>4. CASE OpenPlanFault(q) \/ CreatePostError(q) \/ StartPostFault(q)
           \/ PostFault(q) \/ ClosePlanFault(q)
  BY <1>4, FaultAborts DEF Abort
<1>5. CASE ReserveRunNow(q) \/ ReserveCron(q) \/ SkipCron(q)
  BY <1>5 DEF ReserveRunNow, ReserveCron, SkipCron
<1>6. CASE Shutdown(q)
  BY <1>6 DEF Shutdown, DropMemory
<1> QED BY <1>1, <1>2, <1>3, <1>4, <1>5, <1>6 DEF Executor

\* The run's own step keeps what it knows of its posts.
LEMMA OwnStepSelf ==
  ASSUME TypeOK, SlotInv, PostInv, NEW r \in Runs,
         Executor(r) \/ ReserveRunNow(r) \/ ReserveCron(r) \/ SkipCron(r) \/ Shutdown(r)
  PROVE  OwnInv(r)'
<1> USE DEF Goto
<1>1. CASE OpenPlan(r)
  BY <1>1 DEF OpenPlan, OwnInv, PostInv, TypeOK, Positions
<1>2. CASE CreatePost(r)
  <2>1. target[r] \in Plans /\ pos[r] \in Positions /\ SetPost(r, "pending")
    BY <1>2 DEF CreatePost, PostInv
  <2>2. post' = [post EXCEPT ![target[r]][pos[r]] = "pending"]
    BY <2>1 DEF SetPost
  <2>3. /\ pc'[r] = "created" /\ pos'[r] = pos[r]
        /\ target'[r] = target[r] /\ anyFailed'[r] = anyFailed[r]
    BY <1>2 DEF CreatePost, TypeOK
  <2>4. ~anyFailed[r] => \A i \in Positions : i < pos[r] => post[target[r]][i] = "music_generated"
    BY <1>2 DEF CreatePost, PostInv
  <2>5. post'[target[r]][pos[r]] = "pending"
    BY <2>1, <2>2 DEF TypeOK
  <2>6. \A i \in Positions : i # pos[r] => post'[target[r]][i] = post[target[r]][i]
    BY <2>1, <2>2 DEF TypeOK
  <2>7. ~(pos[r] < pos[r])
    BY <2>1, NumPostsAssumption DEF Positions
  <2> QED BY <2>3, <2>4, <2>5, <2>6, <2>7 DEF OwnInv
<1>3. CASE StartPost(r)
  <2>1. target[r] \in Plans /\ pos[r] \in Positions
    BY <1>3 DEF StartPost, PostInv, InPosition
  <2>2. post' = [post EXCEPT ![target[r]][pos[r]] = "generating"]
    BY <1>3 DEF StartPost, SetPost
  <2>3. /\ pc'[r] = "generating" /\ pos'[r] = pos[r]
        /\ target'[r] = target[r] /\ anyFailed'[r] = anyFailed[r]
    BY <1>3 DEF StartPost, TypeOK
  <2>4. ~anyFailed[r] => \A i \in Positions : i < pos[r] => post[target[r]][i] = "music_generated"
    BY <1>3 DEF StartPost, PostInv
  <2>5. post'[target[r]][pos[r]] = "generating"
    BY <2>1, <2>2 DEF TypeOK
  <2>6. \A i \in Positions : i # pos[r] => post'[target[r]][i] = post[target[r]][i]
    BY <2>1, <2>2 DEF TypeOK
  <2>7. ~(pos[r] < pos[r])
    BY <2>1, NumPostsAssumption DEF Positions
  <2> QED BY <2>3, <2>4, <2>5, <2>6, <2>7 DEF OwnInv
<1>4. CASE PostSucceeds(r)
  <2>1. target[r] \in Plans /\ pos[r] \in Positions
    BY <1>4 DEF PostSucceeds, PostInv, InPosition
  <2>2. post' = [post EXCEPT ![target[r]][pos[r]] = "music_generated"]
    BY <1>4 DEF PostSucceeds, SetPost
  <2>3. /\ pc'[r] = "looping" /\ pos'[r] = pos[r] + 1
        /\ target'[r] = target[r] /\ anyFailed'[r] = anyFailed[r]
    BY <1>4 DEF PostSucceeds, TypeOK
  <2>4. \A i \in Positions : i < pos[r] + 1 => i = pos[r] \/ i < pos[r]
    BY <2>1, NumPostsAssumption DEF Positions
  <2>5. ~anyFailed[r] => \A i \in Positions : i < pos[r] => post[target[r]][i] = "music_generated"
    BY <1>4 DEF PostSucceeds, PostInv
  <2>6. post'[target[r]][pos[r]] = "music_generated"
    BY <2>1, <2>2 DEF TypeOK
  <2>7. \A i \in Positions : i # pos[r] => post'[target[r]][i] = post[target[r]][i]
    BY <2>1, <2>2 DEF TypeOK
  <2> QED BY <2>3, <2>4, <2>5, <2>6, <2>7 DEF OwnInv
<1>5. CASE PostFails(r)
  BY <1>5 DEF PostFails, OwnInv, TypeOK
<1>6. CASE OpenPlanFault(r) \/ CreatePostError(r) \/ StartPostFault(r)
           \/ PostFault(r) \/ ClosePlanFault(r)
  BY <1>6, FaultAborts DEF Abort, OwnInv, TypeOK
<1>7. CASE InsertRunning(r) \/ WriteAudit(r) \/ RejectPayload(r)
  BY <1>7 DEF InsertRunning, WriteAudit, RejectPayload, OwnInv, TypeOK
<1>8. CASE ClosePlan(r) \/ Finalize(r) \/ FinalizeFault(r)
  BY <1>8 DEF ClosePlan, Finalize, FinalizeFault, OwnInv, TypeOK
<1>9. CASE ReserveRunNow(r) \/ ReserveCron(r) \/ SkipCron(r)
  BY <1>9 DEF ReserveRunNow, ReserveCron, SkipCron, OwnInv, TypeOK
<1>10. CASE Shutdown(r)
  BY <1>10 DEF Shutdown, DropMemory, OwnInv, TypeOK
<1> QED BY <1>1, <1>2, <1>3, <1>4, <1>5, <1>6, <1>7, <1>8, <1>9, <1>10 DEF Executor

\* Another run's step does too, because only one coroutine works at a time.
LEMMA OwnStepOther ==
  ASSUME TypeOK, SlotInv, PostInv, NEW q \in Runs, NEW r \in Runs, q # r,
         Executor(q) \/ ReserveRunNow(q) \/ ReserveCron(q) \/ SkipCron(q) \/ Shutdown(q)
  PROVE  OwnInv(r)'
<1>1. CASE pc[r] \in {"looping", "created", "generating"}
  <2>1. pc[q] \notin Working
    BY <1>1 DEF SlotInv, GeneratorHoldsSlot, Working
  <2>2. post' = post
    <3>1. CASE Executor(q) \/ Shutdown(q)
      BY <3>1, <2>1, WriterWorks
    <3>2. CASE ReserveRunNow(q) \/ ReserveCron(q) \/ SkipCron(q)
      BY <3>2 DEF ReserveRunNow, ReserveCron, SkipCron, db
    <3> QED BY <3>1, <3>2
  <2> QED BY <2>2, OtherFrames DEF OwnInv, PostInv
<1>2. CASE pc[r] \notin {"looping", "created", "generating"}
  BY <1>2, OtherFrames DEF OwnInv
<1> QED BY <1>1, <1>2

\* Every step keeps what a run knows of its posts.
LEMMA OwnStep ==
  ASSUME TypeOK, SlotInv, PostInv, [Next]_vars, NEW r \in Runs
  PROVE  OwnInv(r)'
<1>1. ASSUME NEW q \in Runs, ReserveRunNow(q) \/ ReserveCron(q) \/ SkipCron(q)
             \/ Executor(q) \/ Shutdown(q)
      PROVE  OwnInv(r)'
  BY <1>1, OwnStepSelf, OwnStepOther
<1>2. CASE \E a \in Approvals : ApproveCheck(a) \/ ApproveCommit(a)
  BY <1>2 DEF ApproveCheck, ApproveCommit, db, mem, PostInv, OwnInv
<1>3. ASSUME NEW p \in Plans, NEW i \in Positions, RetryPost(p, i)
      PROVE  OwnInv(r)'
  <2>1. \A q \in Plans, j \in Positions :
          post[q][j] # "failed" => post'[q][j] = post[q][j]
    BY <1>3 DEF RetryPost, TypeOK
  <2>2. UNCHANGED mem
    BY <1>3 DEF RetryPost
  <2>3. pc[r] \in {"looping", "created", "generating"} => target[r] \in Plans
    BY DEF PostInv
  <2>4. pc[r] \in {"created", "generating"} => pos[r] \in Positions
    BY DEF PostInv, InPosition
  <2> QED BY <2>1, <2>2, <2>3, <2>4 DEF mem, PostInv, OwnInv
<1>4. CASE Reconcile
  BY <1>4 DEF Reconcile, SlotInv, GeneratorHoldsSlot, Working, OwnInv, mem
<1>5. CASE Crash
  BY <1>5 DEF Crash, DropMemory, OwnInv
<1>6. CASE UNCHANGED vars
  BY <1>6 DEF vars, db, mem, PostInv, OwnInv
<1> QED BY <1>1, <1>2, <1>3, <1>4, <1>5, <1>6 DEF Next

\* A verdict of success is given only by closing a plan without a failure, when
\* every post is behind the loop.
LEMMA VerdictGiven ==
  ASSUME TypeOK, SlotInv, PostInv, [Next]_vars, NEW r \in Runs, verdict'[r] = "succeeded"
  PROVE  target'[r] = target[r] /\ target[r] \in Plans /\ AllGenerated(target[r])
<1>1. ASSUME verdict[r] = "succeeded", target'[r] = target[r]
      PROVE  target'[r] = target[r] /\ target[r] \in Plans /\ AllGenerated(target[r])
  BY <1>1 DEF PostInv
<1>2. ASSUME NEW q \in Runs, q # r, Executor(q) \/ ReserveRunNow(q) \/ ReserveCron(q)
             \/ SkipCron(q) \/ Shutdown(q)
      PROVE  verdict[r] = "succeeded" /\ target'[r] = target[r]
  BY <1>2, OtherFrames
<1>3. CASE ReserveRunNow(r) \/ ReserveCron(r)
  BY <1>3 DEF ReserveRunNow, ReserveCron, PostInv
<1>4. CASE SkipCron(r) \/ InsertRunning(r) \/ OpenPlan(r) \/ CreatePost(r) \/ StartPost(r)
           \/ PostSucceeds(r) \/ PostFails(r) \/ Finalize(r)
  BY <1>1, <1>4 DEF SkipCron, InsertRunning, OpenPlan, CreatePost, StartPost, PostSucceeds,
     PostFails, Finalize
<1>5. CASE WriteAudit(r) \/ RejectPayload(r) \/ FinalizeFault(r)
  BY <1>1, <1>5 DEF WriteAudit, RejectPayload, FinalizeFault, TypeOK
<1>6. CASE OpenPlanFault(r) \/ CreatePostError(r) \/ StartPostFault(r) \/ PostFault(r)
           \/ ClosePlanFault(r)
  BY <1>6, FaultAborts DEF Abort, TypeOK
<1>7. CASE ClosePlan(r)
  <2>1. ~anyFailed[r] /\ pos[r] = NumPosts /\ pc[r] = "looping" /\ target'[r] = target[r]
    BY <1>7 DEF ClosePlan, TypeOK
  <2>2. \A i \in Positions : i < pos[r]
    BY <2>1, NumPostsAssumption DEF Positions
  <2>3. AllGenerated(target[r]) /\ target[r] \in Plans
    BY <2>1, <2>2 DEF PostInv, AllGenerated
  <2> QED BY <2>1, <2>3
<1>8. CASE Shutdown(r) \/ Crash \/ Reconcile \/ UNCHANGED vars
  BY <1>1, <1>8 DEF Shutdown, Crash, DropMemory, Reconcile, vars, mem
<1>9. CASE \E a \in Approvals : ApproveCheck(a) \/ ApproveCommit(a)
  BY <1>1, <1>9 DEF ApproveCheck, ApproveCommit, mem
<1>10. CASE \E p \in Plans, i \in Positions : RetryPost(p, i)
  BY <1>1, <1>10 DEF RetryPost, mem
<1> QED BY <1>1, <1>2, <1>3, <1>4, <1>5, <1>6, <1>7, <1>8, <1>9, <1>10 DEF Next, Executor

\* A row becomes succeeded only by a finalisation with that verdict.
LEMMA RowGiven ==
  ASSUME TypeOK, SlotInv, PostInv, [Next]_vars, NEW r \in Runs, job'[r] = "succeeded"
  PROVE  target'[r] = target[r] /\ (job[r] = "succeeded" \/ verdict[r] = "succeeded")
<1>1. ASSUME NEW q \in Runs, q # r, Executor(q) \/ ReserveRunNow(q) \/ ReserveCron(q)
             \/ SkipCron(q) \/ Shutdown(q)
      PROVE  target'[r] = target[r]
  BY <1>1, OtherFrames
<1>2. ASSUME NEW q \in Runs, Finalize(q) \/ FinalizeFault(q)
      PROVE  target'[r] = target[r] /\ (job[r] = "succeeded" \/ verdict[r] = "succeeded")
  BY <1>2 DEF Finalize, FinalizeFault, Finalized, TypeOK
<1>3. ASSUME NEW q \in Runs, ReserveRunNow(q) \/ ReserveCron(q)
      PROVE  job' = job /\ (q = r => job[r] = "none")
  BY <1>3 DEF ReserveRunNow, ReserveCron, db, SlotInv
<1>4. ASSUME NEW q \in Runs, SkipCron(q) \/ InsertRunning(q)
      PROVE  target' = target /\ job[r] = "succeeded"
  BY <1>4 DEF SkipCron, InsertRunning, TypeOK
<1>5. ASSUME NEW q \in Runs, WriteAudit(q) \/ RejectPayload(q) \/ OpenPlan(q) \/ CreatePost(q)
             \/ StartPost(q) \/ PostSucceeds(q) \/ PostFails(q) \/ ClosePlan(q)
      PROVE  target' = target /\ job' = job
  BY <1>5 DEF WriteAudit, RejectPayload, OpenPlan, CreatePost, StartPost, PostSucceeds,
     PostFails, ClosePlan, db
<1>6. ASSUME NEW q \in Runs, OpenPlanFault(q) \/ CreatePostError(q) \/ StartPostFault(q)
             \/ PostFault(q) \/ ClosePlanFault(q)
      PROVE  target' = target /\ job' = job
  BY <1>6, FaultAborts DEF Abort
<1>7. CASE Reconcile
  BY <1>7 DEF Reconcile, ClosedJobs, mem
<1>8. CASE Crash \/ (\E q \in Runs : Shutdown(q)) \/ UNCHANGED vars
  BY <1>8 DEF Crash, Shutdown, DropMemory, vars, db, mem
<1>9. CASE \E a \in Approvals : ApproveCheck(a) \/ ApproveCommit(a)
  BY <1>9 DEF ApproveCheck, ApproveCommit, db, mem
<1>10. CASE \E p \in Plans, i \in Positions : RetryPost(p, i)
  BY <1>10 DEF RetryPost, mem
<1> QED BY <1>1, <1>2, <1>3, <1>4, <1>5, <1>6, <1>7, <1>8, <1>9, <1>10 DEF Next, Executor

\* A plan becomes music_generated only by closing it without a failure.
LEMMA PlanGiven ==
  ASSUME TypeOK, SlotInv, PostInv, [Next]_vars, NEW p \in Plans, plan'[p] = "music_generated"
  PROVE  AllGenerated(p)
<1>1. ASSUME plan[p] = "music_generated"
      PROVE  AllGenerated(p)
  BY <1>1 DEF PostInv
<1>2. ASSUME NEW r \in Runs, pc[r] = "looping", pos[r] = NumPosts,
             SetPlan(r, IF anyFailed[r] THEN "failed" ELSE "music_generated")
      PROVE  AllGenerated(p)
  <2>1. CASE p # target[r]
    BY <1>1, <1>2, <2>1 DEF SetPlan, TypeOK
  <2>2. CASE p = target[r]
    <3>1. ~anyFailed[r]
      BY <1>2, <2>2 DEF SetPlan, TypeOK
    <3>2. \A i \in Positions : i < pos[r]
      BY <1>2, NumPostsAssumption DEF Positions
    <3> QED BY <1>2, <2>2, <3>1, <3>2 DEF PostInv, AllGenerated
  <2> QED BY <2>1, <2>2
<1>3. ASSUME NEW r \in Runs, NEW s \in {"executing", "failed"}, SetPlan(r, s)
      PROVE  AllGenerated(p)
  BY <1>1, <1>3 DEF SetPlan, TypeOK
<1>4. ASSUME NEW r \in Runs, Executor(r) \/ Shutdown(r)
      PROVE  AllGenerated(p)
  <2>1. CASE InsertRunning(r) \/ WriteAudit(r) \/ RejectPayload(r) \/ CreatePost(r)
             \/ StartPost(r) \/ PostSucceeds(r) \/ PostFails(r) \/ Finalize(r) \/ FinalizeFault(r)
    BY <1>1, <2>1 DEF InsertRunning, WriteAudit, RejectPayload, CreatePost, StartPost,
       PostSucceeds, PostFails, Finalize, FinalizeFault, db
  <2>2. CASE OpenPlanFault(r) \/ CreatePostError(r) \/ StartPostFault(r) \/ PostFault(r)
             \/ ClosePlanFault(r)
    BY <1>1, <1>2, <1>3, <2>2, FaultAborts
  <2>3. CASE OpenPlan(r) \/ Shutdown(r)
    BY <1>3, <2>3 DEF OpenPlan, Shutdown
  <2>4. CASE ClosePlan(r)
    BY <1>2, <2>4 DEF ClosePlan
  <2> QED BY <1>4, <2>1, <2>2, <2>3, <2>4 DEF Executor
<1>5. CASE \E r \in Runs : ReserveRunNow(r) \/ ReserveCron(r) \/ SkipCron(r)
  BY <1>1, <1>5 DEF ReserveRunNow, ReserveCron, SkipCron, db
<1>6. CASE \E a \in Approvals : ApproveCheck(a) \/ ApproveCommit(a)
  BY <1>1, <1>6 DEF ApproveCheck, ApproveCommit, db, TypeOK
<1>7. CASE \E q \in Plans, i \in Positions : RetryPost(q, i)
  BY <1>1, <1>7 DEF RetryPost
<1>8. CASE Crash \/ Reconcile \/ UNCHANGED vars
  BY <1>1, <1>8 DEF Crash, Reconcile, ClosedPlans, vars, db
<1> QED BY <1>4, <1>5, <1>6, <1>7, <1>8 DEF Next

\* Every step of the specification keeps PostInv.
LEMMA PostStepKept ==
  ASSUME TypeOK, SlotInv, PostInv, [Next]_vars
  PROVE  PostInv'
<1>1. FrameInv'
  BY FrameStep, PostInvParts
<1>2. \A r \in Runs : OwnInv(r)'
  BY OwnStep
<1>3. VerdictInv'
  <2>1. ASSUME NEW r \in Runs, verdict'[r] = "succeeded"
        PROVE  (target[r] \in Plans /\ AllGenerated(target[r]))'
    BY <2>1, VerdictGiven, KeptStep DEF AllGenerated
  <2>2. ASSUME NEW r \in Runs, job'[r] = "succeeded"
        PROVE  (target[r] \in Plans /\ AllGenerated(target[r]))'
    <3>1. target'[r] = target[r] /\ target[r] \in Plans /\ AllGenerated(target[r])
      BY <2>2, RowGiven DEF PostInv
    <3> QED BY <3>1, KeptStep DEF AllGenerated
  <2>3. ASSUME NEW p \in Plans, plan'[p] = "music_generated"
        PROVE  AllGenerated(p)'
    BY <2>3, PlanGiven, AllGeneratedKept
  <2> QED BY <2>1, <2>2, <2>3 DEF VerdictInv
<1>4. (FrameInv /\ (\A r \in Runs : OwnInv(r)) /\ VerdictInv)'
  BY <1>1, <1>2, <1>3
<1> QED BY <1>4, PostInvParts, PTL

-----------------------------------------------------------------------------
(* What is left open *)

\* A session that failed ends its run.
ExpiredInv == \A r \in expired : pc[r] \in {"refinalizing", "ended"}

\* The steps of run r that may be running: the cycle's and the present post's.
OpenFor(r, k) ==
  \/ pc[r] \in {"looping", "created"} /\ k = Cycle
  \/ pc[r] = "generating" /\ k \in {Cycle, PostStep(pos[r]), MusicStep(pos[r])}
  \/ pc[r] = "ended" /\ job[r] = "running"

StepsInv ==
  \A r \in Runs : faults = MaxFaults /\ r \notin expired =>
    \A k \in StepKeys : step[r][k] = "running" => OpenFor(r, k)

OpenInv == ExpiredInv /\ SlotNotLeaked /\ OpenWorkHasRun /\ StepsInv

\* Recording writes the rows of its own run, and all of them if nothing is lost.
LEMMA RecordEffect ==
  ASSUME TypeOK, NEW r \in Runs, NEW keys, IsFiniteSet(keys),
         NEW status \in StepStatus, Record(r, keys, status)
  PROVE  /\ \A q \in Runs \ {r} : step'[q] = step[q]
         /\ faults' = MaxFaults =>
              /\ faults = MaxFaults
              /\ \A k \in StepKeys : step'[r][k] = IF k \in keys THEN status ELSE step[r][k]
<1>1. PICK lost \in SUBSET keys :
        /\ Cardinality(lost) <= faults
        /\ faults' = faults - Cardinality(lost)
        /\ step' = [step EXCEPT ![r] =
             [k \in StepKeys |-> IF k \in keys \ lost THEN status ELSE step[r][k]]]
  BY DEF Record
<1>2. IsFiniteSet(lost) /\ Cardinality(lost) \in Nat
  BY FS_Subset, FS_CardinalityType
<1>3. \A q \in Runs \ {r} : step'[q] = step[q]
  BY <1>1 DEF TypeOK
<1>4. step'[r] = [k \in StepKeys |-> IF k \in keys \ lost THEN status ELSE step[r][k]]
  BY <1>1 DEF TypeOK
<1>5. ASSUME faults' = MaxFaults PROVE faults = MaxFaults /\ lost = {}
  <2>1. faults \in 0 .. MaxFaults /\ MaxFaults \in Nat
    BY BudgetAssumption DEF TypeOK
  <2>2. faults = MaxFaults /\ Cardinality(lost) = 0
    BY <1>1, <1>2, <1>5, <2>1
  <2> QED BY <1>2, <2>2, FS_EmptySet
<1> QED BY <1>3, <1>4, <1>5

\* Every step keeps ExpiredInv.
LEMMA ExpiredStep ==
  ASSUME TypeOK, ExpiredInv, [Next]_vars
  PROVE  ExpiredInv'
<1> USE DEF ExpiredInv, TypeOK, Goto, db, mem
<1>1. ASSUME NEW r \in Runs, ReserveRunNow(r) \/ ReserveCron(r) \/ SkipCron(r)
      PROVE  ExpiredInv'
  BY <1>1 DEF ReserveRunNow, ReserveCron, SkipCron
<1>2. ASSUME NEW r \in Runs, InsertRunning(r) \/ WriteAudit(r) \/ RejectPayload(r) \/ OpenPlan(r)
      PROVE  ExpiredInv'
  BY <1>2 DEF InsertRunning, WriteAudit, RejectPayload, OpenPlan
<1>3. ASSUME NEW r \in Runs, CreatePost(r) \/ StartPost(r) \/ PostSucceeds(r) \/ PostFails(r)
             \/ ClosePlan(r)
      PROVE  ExpiredInv'
  BY <1>3 DEF CreatePost, StartPost, PostSucceeds, PostFails, ClosePlan
<1>4. ASSUME NEW r \in Runs, Finalize(r) \/ FinalizeFault(r)
      PROVE  ExpiredInv'
  BY <1>4 DEF Finalize, FinalizeFault
<1>5. ASSUME NEW r \in Runs, OpenPlanFault(r) \/ CreatePostError(r) \/ StartPostFault(r)
             \/ PostFault(r) \/ ClosePlanFault(r)
      PROVE  ExpiredInv'
  BY <1>5, FaultAborts DEF Abort
<1>6. CASE Crash \/ Reconcile \/ (\E r \in Runs : Shutdown(r)) \/ UNCHANGED vars
  BY <1>6 DEF Crash, Shutdown, DropMemory, Reconcile, vars
<1>7. CASE \E a \in Approvals : ApproveCheck(a) \/ ApproveCommit(a)
  BY <1>7 DEF ApproveCheck, ApproveCommit
<1>8. CASE \E p \in Plans, i \in Positions : RetryPost(p, i)
  BY <1>8 DEF RetryPost
<1> QED BY <1>1, <1>2, <1>3, <1>4, <1>5, <1>6, <1>7, <1>8 DEF Next, Executor

\* Recording never adds to the budget of faults.
LEMMA RecordBudget ==
  ASSUME TypeOK, NEW r \in Runs,
         OpenPlan(r) \/ StartPost(r) \/ PostSucceeds(r) \/ PostFails(r) \/ ClosePlan(r)
  PROVE  faults' = MaxFaults => faults = MaxFaults
<1>1. (IF anyFailed[r] THEN "failed" ELSE "succeeded") \in StepStatus
  BY DEF StepStatus
<1> QED BY <1>1, RecordEffect, KeysFinite
        DEF OpenPlan, StartPost, PostSucceeds, PostFails, ClosePlan, StepStatus

\* Every step keeps the slot with a coroutine that will release it.
LEMMA LeakStep ==
  ASSUME TypeOK, SlotInv, SlotNotLeaked, [Next]_vars
  PROVE  SlotNotLeaked'
<1> USE DEF SlotNotLeaked, Working, TypeOK, Goto, db, mem
<1>1. ASSUME NEW r \in Runs, ReserveRunNow(r) \/ ReserveCron(r) \/ SkipCron(r)
      PROVE  SlotNotLeaked'
  BY <1>1 DEF ReserveRunNow, ReserveCron, SkipCron, SlotInv
<1>2. ASSUME Fault PROVE faults' # MaxFaults
  BY <1>2, BudgetAssumption DEF Fault
<1>3. ASSUME NEW r \in Runs, InsertRunning(r) \/ WriteAudit(r) \/ RejectPayload(r)
      PROVE  SlotNotLeaked'
  BY <1>2, <1>3 DEF InsertRunning, WriteAudit, RejectPayload, NoFault, SlotInv
<1>4. ASSUME NEW r \in Runs, OpenPlan(r) \/ StartPost(r) \/ PostSucceeds(r) \/ PostFails(r)
             \/ ClosePlan(r)
      PROVE  SlotNotLeaked'
  BY <1>4, RecordBudget DEF OpenPlan, StartPost, PostSucceeds, PostFails, ClosePlan
<1>5. ASSUME NEW r \in Runs, CreatePost(r)
      PROVE  SlotNotLeaked'
  BY <1>5 DEF CreatePost
<1>6. ASSUME NEW r \in Runs, Finalize(r) \/ FinalizeFault(r)
      PROVE  SlotNotLeaked'
  <2>1. CASE Finalize(r)
    <3>1. /\ \A q \in Runs : q # r => job'[q] = job[q] /\ pc'[q] = pc[q]
          /\ job'[r] # "running" /\ up' = up /\ faults' = faults
      BY <2>1 DEF Finalize, Finalized, SlotInv
    <3> QED BY <3>1
  <2>2. CASE FinalizeFault(r)
    BY <1>2, <2>2 DEF FinalizeFault
  <2> QED BY <1>6, <2>1, <2>2
<1>7. ASSUME NEW r \in Runs, OpenPlanFault(r) \/ CreatePostError(r) \/ StartPostFault(r)
             \/ PostFault(r) \/ ClosePlanFault(r)
      PROVE  SlotNotLeaked'
  <2>1. Abort(r) /\ (faults' = faults \/ Fault)
    BY <1>7 DEF OpenPlanFault, CreatePostError, StartPostFault, PostFault, ClosePlanFault, NoFault
  <2> QED BY <1>2, <2>1 DEF Abort
<1>8. CASE Crash \/ (\E r \in Runs : Shutdown(r))
  BY <1>8 DEF Crash, Shutdown, DropMemory
<1>9. CASE Reconcile
  BY <1>9 DEF Reconcile, ClosedJobs
<1>10. CASE \E a \in Approvals : ApproveCheck(a) \/ ApproveCommit(a)
  BY <1>2, <1>10 DEF ApproveCheck, ApproveCommit, NoFault
<1>11. CASE (\E p \in Plans, i \in Positions : RetryPost(p, i)) \/ UNCHANGED vars
  BY <1>11 DEF RetryPost, vars
<1> QED BY <1>1, <1>3, <1>4, <1>5, <1>6, <1>7, <1>8, <1>9, <1>10, <1>11 DEF Next, Executor

\* Every step keeps a run with each post in the making and each open plan.
LEMMA WorkStep ==
  ASSUME TypeOK, PostInv, ExpiredInv, OpenWorkHasRun, [Next]_vars
  PROVE  OpenWorkHasRun'
<1> DEFINE PostOf(r, p, i) == target[r] = p /\ pos[r] = i /\ (pc[r] = "generating" \/ r \in expired)
           PlanOf(r, p) == target[r] = p /\ (pc[r] \in {"looping", "created", "generating"} \/ r \in expired)
<1> USE DEF OpenWorkHasRun, GeneratingPostHasRun, ExecutingPlanHasRun
<1>1. ASSUME NEW r \in Runs, ReserveRunNow(r) \/ ReserveCron(r) \/ SkipCron(r) \/ InsertRunning(r)
             \/ WriteAudit(r) \/ RejectPayload(r) \/ Finalize(r) \/ FinalizeFault(r)
      PROVE  OpenWorkHasRun'
  <2>1. UNCHANGED <<up, plan, post, expired, pos>>
    BY <1>1 DEF ReserveRunNow, ReserveCron, SkipCron, InsertRunning, WriteAudit, RejectPayload,
       Finalize, FinalizeFault, db
  <2>2. /\ pc[r] \notin {"looping", "created", "generating"}
        /\ \A q \in Runs \ {r} : pc'[q] = pc[q] /\ target'[q] = target[q]
        /\ pc[r] # "idle" => target' = target
    BY <1>1 DEF ReserveRunNow, ReserveCron, SkipCron, InsertRunning, WriteAudit, RejectPayload,
       Finalize, FinalizeFault, Goto, TypeOK, db
  <2>3. pc[r] = "idle" => r \notin expired
    BY DEF ExpiredInv
  <2>4. \A q \in Runs, p \in Plans : PlanOf(q, p) => PlanOf(q, p)'
    BY <2>1, <2>2, <2>3
  <2>5. \A q \in Runs, p \in Plans, i \in Positions : PostOf(q, p, i) => PostOf(q, p, i)'
    BY <2>1, <2>2, <2>3
  <2> QED BY <2>1, <2>4, <2>5
<1>2. ASSUME NEW r \in Runs, OpenPlan(r) \/ CreatePost(r) \/ StartPost(r) \/ PostSucceeds(r)
             \/ PostFails(r) \/ ClosePlan(r)
      PROVE  OpenWorkHasRun'
  <2>1. /\ UNCHANGED <<up, target, expired>> /\ up
        /\ \A q \in Runs \ {r} : pc'[q] = pc[q] /\ pos'[q] = pos[q]
        /\ r \notin expired /\ target[r] \in Plans
    <3>1. UNCHANGED <<up, target, expired>> /\ up
      BY <1>2 DEF OpenPlan, CreatePost, StartPost, PostSucceeds, PostFails, ClosePlan, db
    <3>2. \A q \in Runs \ {r} : pc'[q] = pc[q] /\ pos'[q] = pos[q]
      BY <1>2 DEF OpenPlan, CreatePost, StartPost, PostSucceeds, PostFails, ClosePlan, Goto,
         TypeOK
    <3>3. pc[r] \in {"reserved", "looping", "created", "generating"}
      BY <1>2 DEF OpenPlan, CreatePost, StartPost, PostSucceeds, PostFails, ClosePlan
    <3>4. r \notin expired /\ target[r] \in Plans
      BY <3>3 DEF ExpiredInv, PostInv
    <3> QED BY <3>1, <3>2, <3>4
  <2>2. ExecutingPlanHasRun'
    <3>1. CASE ClosePlan(r)
      <4>1. plan'[target[r]] # "executing" /\ \A p \in Plans : p # target[r] => plan'[p] = plan[p]
        BY <2>1, <3>1 DEF ClosePlan, SetPlan, TypeOK
      <4>2. \A q \in Runs, p \in Plans : p # target[r] /\ PlanOf(q, p) => PlanOf(q, p)'
        BY <2>1
      <4> QED BY <2>1, <4>1, <4>2
    <3>2. CASE OpenPlan(r) \/ CreatePost(r) \/ StartPost(r) \/ PostSucceeds(r) \/ PostFails(r)
      <4>1. /\ pc'[r] \in {"looping", "created", "generating"}
            /\ \A p \in Plans : p # target[r] => plan'[p] = plan[p]
        BY <2>1, <3>2 DEF OpenPlan, CreatePost, StartPost, PostSucceeds, PostFails, SetPlan, Goto, TypeOK
      <4>2. \A q \in Runs, p \in Plans : PlanOf(q, p) => PlanOf(q, p)'
        BY <2>1, <4>1
      <4>3. PlanOf(r, target[r])'
        BY <2>1, <4>1
      <4> QED BY <2>1, <4>1, <4>2, <4>3
    <3> QED BY <1>2, <3>1, <3>2
  <2>3. GeneratingPostHasRun'
    <3>1. CASE OpenPlan(r) \/ ClosePlan(r)
      <4>1. pc[r] # "generating" /\ UNCHANGED <<post, pos>>
        BY <3>1 DEF OpenPlan, ClosePlan
      <4>2. \A q \in Runs, p \in Plans, i \in Positions : PostOf(q, p, i) => PostOf(q, p, i)'
        BY <2>1, <4>1
      <4> QED BY <2>1, <4>1, <4>2
    <3>2. CASE CreatePost(r)
      <4>1. /\ pc[r] # "generating" /\ UNCHANGED pos
            /\ \A p \in Plans, i \in Positions : post'[p][i] = "generating" => post[p][i] = "generating"
        BY <2>1, <3>2 DEF CreatePost, SetPost, TypeOK
      <4>2. \A q \in Runs, p \in Plans, i \in Positions : PostOf(q, p, i) => PostOf(q, p, i)'
        BY <2>1, <4>1
      <4> QED BY <2>1, <4>1, <4>2
    <3>3. CASE StartPost(r)
      <4>1. /\ pc[r] # "generating" /\ pc'[r] = "generating" /\ UNCHANGED pos
            /\ \A p \in Plans, i \in Positions :
                 p # target[r] \/ i # pos[r] => post'[p][i] = post[p][i]
        BY <2>1, <3>3 DEF StartPost, SetPost, Goto, TypeOK
      <4>2. \A q \in Runs, p \in Plans, i \in Positions : PostOf(q, p, i) => PostOf(q, p, i)'
        BY <2>1, <4>1
      <4>3. PostOf(r, target[r], pos[r])'
        BY <2>1, <4>1
      <4> QED BY <2>1, <4>1, <4>2, <4>3
    <3>4. CASE PostSucceeds(r) \/ PostFails(r)
      <4>1. \A p \in Plans, i \in Positions : post'[p][i] = "generating" =>
               post[p][i] = "generating" /\ (p # target[r] \/ i # pos[r])
        BY <2>1, <3>4 DEF PostSucceeds, PostFails, SetPost, TypeOK
      <4>2. \A q \in Runs, p \in Plans, i \in Positions :
               (p # target[r] \/ i # pos[r]) /\ PostOf(q, p, i) => PostOf(q, p, i)'
        BY <2>1
      <4> QED BY <2>1, <4>1, <4>2
    <3> QED BY <1>2, <3>1, <3>2, <3>3, <3>4
  <2> QED BY <2>2, <2>3
<1>3. ASSUME NEW r \in Runs, OpenPlanFault(r) \/ CreatePostError(r) \/ StartPostFault(r)
             \/ PostFault(r) \/ ClosePlanFault(r)
      PROVE  OpenWorkHasRun'
  <2>1. /\ UNCHANGED <<up, target, pos>> /\ expired' = expired \cup {r}
        /\ \A q \in Runs \ {r} : pc'[q] = pc[q]
        /\ target[r] \in Plans
    BY <1>3, FaultAborts DEF Abort, Goto, TypeOK, PostInv
  <2>2. up
    BY <1>3 DEF OpenPlanFault, CreatePostError, StartPostFault, PostFault, ClosePlanFault
  <2>3. \A p \in Plans : p # target[r] => plan'[p] = plan[p]
    BY <1>3, <2>1, FaultAborts DEF SetPlan, TypeOK
  <2>4. \A p \in Plans, i \in Positions : p # target[r] \/ i # pos[r] => post'[p][i] = post[p][i]
    BY <1>3, <2>1 DEF OpenPlanFault, CreatePostError, StartPostFault, PostFault, ClosePlanFault,
       SetPost, TypeOK
  <2>5. \A q \in Runs, p \in Plans : PlanOf(q, p) => PlanOf(q, p)'
    BY <2>1
  <2>6. \A q \in Runs, p \in Plans, i \in Positions : PostOf(q, p, i) => PostOf(q, p, i)'
    BY <2>1
  <2>7. PlanOf(r, target[r])' /\ PostOf(r, target[r], pos[r])'
    BY <2>1
  <2> QED BY <2>1, <2>2, <2>3, <2>4, <2>5, <2>6, <2>7
<1>4. CASE Crash \/ (\E r \in Runs : Shutdown(r))
  BY <1>4 DEF Crash, Shutdown, DropMemory
<1>5. CASE Reconcile
  BY <1>5 DEF Reconcile, ClosedPlans, ClosedPosts
<1>6. CASE \E a \in Approvals : ApproveCheck(a) \/ ApproveCommit(a)
  <2>1. UNCHANGED <<up, post, mem>>
    BY <1>6 DEF ApproveCheck, ApproveCommit, db
  <2>2. \A p \in Plans : plan'[p] = "executing" => plan[p] = "executing"
    BY <1>6 DEF ApproveCheck, ApproveCommit, db, TypeOK
  <2> QED BY <2>1, <2>2 DEF mem
<1>7. CASE \E p \in Plans, i \in Positions : RetryPost(p, i)
  <2>1. UNCHANGED <<up, plan, mem>>
    BY <1>7 DEF RetryPost
  <2>2. \A p \in Plans, i \in Positions : post'[p][i] = "generating" => post[p][i] = "generating"
    BY <1>7 DEF RetryPost, TypeOK
  <2> QED BY <2>1, <2>2 DEF mem
<1>8. CASE UNCHANGED vars
  BY <1>8 DEF vars, db, mem
<1> QED BY <1>1, <1>2, <1>3, <1>4, <1>5, <1>6, <1>7, <1>8 DEF Next, Executor

\* Every step keeps the open steps within what the run works on.
LEMMA StepsStep ==
  ASSUME TypeOK, SlotInv, StepsInv, [Next]_vars
  PROVE  StepsInv'
<1> DEFINE Fits(r) == \A k \in StepKeys : step[r][k] = "running" => OpenFor(r, k)
<1>1. ASSUME Fault PROVE faults' # MaxFaults
  BY <1>1, BudgetAssumption DEF Fault, TypeOK
<1>2. ASSUME NEW r \in Runs, ReserveRunNow(r) \/ ReserveCron(r) \/ SkipCron(r) \/ InsertRunning(r)
             \/ WriteAudit(r) \/ RejectPayload(r) \/ CreatePost(r) \/ Finalize(r) \/ FinalizeFault(r)
      PROVE  StepsInv'
  <2>1. /\ UNCHANGED <<step, expired, pos>> /\ (UNCHANGED faults \/ Fault)
        /\ \A q \in Runs \ {r} : pc'[q] = pc[q] /\ job'[q] = job[q]
    BY <1>2 DEF ReserveRunNow, ReserveCron, SkipCron, InsertRunning, WriteAudit, RejectPayload,
       CreatePost, Finalize, FinalizeFault, Finalized, NoFault, Goto, TypeOK, db
  <2>2. \A q \in Runs \ {r}, k \in StepKeys : OpenFor(q, k) => OpenFor(q, k)'
    BY <2>1 DEF OpenFor
  <2>3. CASE CreatePost(r)
    <3>1. pc[r] = "looping" /\ pc'[r] = "created"
      BY <2>3 DEF CreatePost, Goto, TypeOK
    <3>2. \A k \in StepKeys : OpenFor(r, k) => OpenFor(r, k)'
      BY <3>1 DEF OpenFor
    <3> QED BY <1>1, <2>1, <2>2, <3>2 DEF StepsInv
  <2>4. CASE ~ CreatePost(r)
    <3>1. pc[r] \notin {"looping", "created", "generating", "ended"}
      BY <1>2, <2>4 DEF ReserveRunNow, ReserveCron, SkipCron, InsertRunning, WriteAudit,
         RejectPayload, Finalize, FinalizeFault
    <3>2. \A k \in StepKeys : ~ OpenFor(r, k)
      BY <3>1 DEF OpenFor
    <3> QED BY <1>1, <2>1, <2>2, <3>2 DEF StepsInv
  <2> QED BY <2>3, <2>4
<1>3. ASSUME NEW r \in Runs, NEW keys, IsFiniteSet(keys), NEW status \in StepStatus,
             Record(r, keys, status), UNCHANGED expired,
             \A q \in Runs \ {r} : pc'[q] = pc[q] /\ job'[q] = job[q] /\ pos'[q] = pos[q],
             r \notin expired /\ Fits(r) =>
               \A k \in StepKeys : (k \in keys /\ status = "running") \/ (k \notin keys /\ OpenFor(r, k))
                                     => OpenFor(r, k)'
      PROVE  StepsInv'
  <2>1. /\ \A q \in Runs \ {r} : step'[q] = step[q]
        /\ faults' = MaxFaults =>
             /\ faults = MaxFaults
             /\ \A k \in StepKeys : step'[r][k] = IF k \in keys THEN status ELSE step[r][k]
    BY <1>3, RecordEffect
  <2>2. \A q \in Runs \ {r}, k \in StepKeys : OpenFor(q, k) => OpenFor(q, k)'
    BY <1>3 DEF OpenFor
  <2>3. ASSUME faults' = MaxFaults, NEW q \in Runs, q \notin expired
        PROVE  Fits(q)'
    <3>1. Fits(q)
      BY <2>1, <2>3 DEF StepsInv
    <3>2. CASE q # r
      BY <2>1, <2>2, <3>1, <3>2
    <3>3. CASE q = r
      BY <1>3, <2>1, <2>3, <3>1, <3>3
    <3> QED BY <3>2, <3>3
  <2> QED BY <1>3, <2>3 DEF StepsInv
<1>4. ASSUME NEW r \in Runs, OpenPlan(r) \/ StartPost(r) \/ PostSucceeds(r) \/ PostFails(r)
             \/ ClosePlan(r)
      PROVE  StepsInv'
  <2>1. /\ UNCHANGED <<expired, job>>
        /\ \A q \in Runs \ {r} : pc'[q] = pc[q] /\ pos'[q] = pos[q]
    BY <1>4 DEF OpenPlan, StartPost, PostSucceeds, PostFails, ClosePlan, Goto, TypeOK
  <2>2. CASE OpenPlan(r)
    <3>1. Record(r, {Cycle}, "running") /\ pc[r] = "reserved" /\ pc'[r] = "looping"
      BY <2>2 DEF OpenPlan, Goto, TypeOK
    <3>2. \A k \in StepKeys : k \in {Cycle} \/ OpenFor(r, k) => OpenFor(r, k)'
      BY <3>1 DEF OpenFor
    <3> QED BY <1>3, <2>1, <3>1, <3>2, KeysFinite DEF StepStatus
  <2>3. CASE StartPost(r)
    <3>1. /\ Record(r, {PostStep(pos[r]), MusicStep(pos[r])}, "running")
          /\ pc[r] = "created" /\ pc'[r] = "generating" /\ pos' = pos
      BY <2>3 DEF StartPost, Goto, TypeOK
    <3>2. \A k \in StepKeys : k \in {PostStep(pos[r]), MusicStep(pos[r])} \/ OpenFor(r, k)
            => OpenFor(r, k)'
      BY <3>1 DEF OpenFor
    <3> QED BY <1>3, <2>1, <3>1, <3>2, KeysFinite DEF StepStatus
  <2>4. CASE PostSucceeds(r) \/ PostFails(r)
    <3>1. /\ \E s \in {"succeeded", "failed"} :
               Record(r, {PostStep(pos[r]), MusicStep(pos[r])}, s)
          /\ pc[r] = "generating" /\ pc'[r] = "looping"
      BY <2>4 DEF PostSucceeds, PostFails, Goto, TypeOK
    <3>2. \A k \in StepKeys : k \notin {PostStep(pos[r]), MusicStep(pos[r])} /\ OpenFor(r, k)
            => OpenFor(r, k)'
      BY <3>1 DEF OpenFor
    <3> QED BY <1>3, <2>1, <3>1, <3>2, KeysFinite DEF StepStatus
  <2>5. CASE ClosePlan(r)
    <3>1. /\ \E s \in {"succeeded", "failed"} : Record(r, {Cycle}, s)
          /\ pc[r] = "looping"
      BY <2>5 DEF ClosePlan
    <3>2. \A k \in StepKeys : k \notin {Cycle} => ~ OpenFor(r, k)
      BY <3>1 DEF OpenFor
    <3> QED BY <1>3, <2>1, <3>1, <3>2, KeysFinite DEF StepStatus
  <2> QED BY <1>4, <2>2, <2>3, <2>4, <2>5
<1>5. ASSUME NEW r \in Runs, OpenPlanFault(r) \/ CreatePostError(r) \/ StartPostFault(r)
             \/ PostFault(r) \/ ClosePlanFault(r)
      PROVE  StepsInv'
  <2>1. /\ UNCHANGED <<step, pos, job>> /\ expired' = expired \cup {r}
        /\ \A q \in Runs \ {r} : pc'[q] = pc[q]
    BY <1>5, FaultAborts DEF Abort, Goto, TypeOK
  <2>2. UNCHANGED faults \/ Fault
    BY <1>5 DEF OpenPlanFault, CreatePostError, StartPostFault, PostFault, ClosePlanFault, NoFault
  <2>3. \A q \in Runs \ {r}, k \in StepKeys : OpenFor(q, k) => OpenFor(q, k)'
    BY <2>1 DEF OpenFor
  <2> QED BY <1>1, <2>1, <2>2, <2>3 DEF StepsInv
<1>6. ASSUME DropMemory, UNCHANGED job, NEW q \in Runs, NEW k \in StepKeys, OpenFor(q, k)
      PROVE  OpenFor(q, k)'
  <2>1. pc[q] \in Working \/ pc[q] = "ended"
    BY <1>6 DEF OpenFor, Working
  <2>2. pc'[q] = "ended"
    BY <1>6, <2>1 DEF DropMemory, Working
  <2>3. job[q] = "running"
    BY <1>6, <2>1 DEF SlotInv, GeneratorHoldsSlot, OpenFor, Working
  <2> QED BY <1>6, <2>2, <2>3 DEF OpenFor
<1>7. CASE Crash
  BY <1>6, <1>7 DEF Crash, DropMemory, StepsInv, db
<1>8. ASSUME NEW r \in Runs, Shutdown(r)
      PROVE  StepsInv'
  <2>1. /\ DropMemory /\ UNCHANGED <<job, expired>>
        /\ Record(r, {Cycle, PostStep(pos[r]), MusicStep(pos[r])}, "failed")
    BY <1>8 DEF Shutdown, DropMemory
  <2> DEFINE all == {Cycle, PostStep(pos[r]), MusicStep(pos[r])}
  <2>2. IsFiniteSet(all) /\ "failed" \in StepStatus
    BY KeysFinite DEF StepStatus
  <2> HIDE DEF all
  <2>3. Record(r, all, "failed")
    BY <2>1 DEF all
  <2>4. /\ \A q \in Runs \ {r} : step'[q] = step[q]
        /\ faults' = MaxFaults =>
             /\ faults = MaxFaults
             /\ \A k \in StepKeys : step'[r][k] = IF k \in all THEN "failed" ELSE step[r][k]
    BY <2>2, <2>3, RecordEffect
  <2> QED BY <1>6, <2>1, <2>4 DEF StepsInv
<1>9. CASE Reconcile
  <2>1. UNCHANGED <<pc, pos, expired, faults>> /\ ~ up
    BY <1>9 DEF Reconcile, mem
  <2>2. ASSUME NEW q \in Runs, NEW k \in StepKeys, faults = MaxFaults, q \notin expired,
               step'[q][k] = "running"
        PROVE  OpenFor(q, k)'
    <3>1. step[q][k] = "running" /\ job[q] # "running"
      BY <1>9, <2>2 DEF Reconcile, ClosedSteps, TypeOK
    <3>2. OpenFor(q, k)
      BY <2>2, <3>1 DEF StepsInv
    <3> QED BY <2>1, <3>1, <3>2 DEF OpenFor
  <2> QED BY <2>1, <2>2 DEF StepsInv
<1>10. CASE \/ \E a \in Approvals : ApproveCheck(a) \/ ApproveCommit(a)
            \/ \E p \in Plans, i \in Positions : RetryPost(p, i)
            \/ UNCHANGED vars
  <2>1. UNCHANGED <<job, step, mem>> /\ (UNCHANGED faults \/ Fault)
    BY <1>10 DEF ApproveCheck, ApproveCommit, RetryPost, NoFault, vars, db
  <2>2. \A q \in Runs, k \in StepKeys : OpenFor(q, k) => OpenFor(q, k)'
    BY <2>1 DEF OpenFor, mem
  <2> QED BY <1>1, <2>1, <2>2 DEF StepsInv, mem
<1> QED BY <1>2, <1>4, <1>5, <1>7, <1>8, <1>9, <1>10 DEF Next, Executor

\* OpenInv holds initially.
LEMMA OpenInit == Init => OpenInv
BY DEF Init, OpenInv, ExpiredInv, SlotNotLeaked, OpenWorkHasRun, GeneratingPostHasRun,
   ExecutingPlanHasRun, StepsInv

-----------------------------------------------------------------------------
(* Theorems *)

\* The inductive invariant: types, the slot and the posts hold in every
\* reachable state of the run, whatever requests, faults and stops interleave.
THEOREM Inductive == Spec => []IInv
<1>1. Init => IInv
  BY TypeInit, SlotInit, PostInit DEF IInv
<1>2. IInv /\ [Next]_vars => IInv'
  BY TypeStep, SlotStep, PostStepKept DEF IInv, PostInv
<1> QED BY <1>1, <1>2, PTL DEF Spec

\* Every variable keeps its type: in particular no post position runs past the
\* plan's posts.
THEOREM TypeCorrect == Spec => []TypeOK
BY Inductive, PTL DEF IInv

\* Single flight (ADR-0011): at most one coroutine is between its reservation
\* and the end of its generation.
THEOREM SingleFlight == Spec => []OneGenerator
<1>1. IInv => OneGenerator
  BY DEF IInv, SlotInv, GeneratorHoldsSlot, OneGenerator
<1> QED BY <1>1, Inductive, PTL

\* A generating coroutine owns its running row: neither a finalisation by
\* another run nor the reconciliation takes it away.
THEOREM HoldsSlot == Spec => []GeneratorHoldsSlot
<1>1. IInv => GeneratorHoldsSlot
  BY DEF IInv, SlotInv
<1> QED BY <1>1, Inductive, PTL

\* A run reported as succeeded has produced the music of all posts of its plan.
THEOREM SucceededComplete == Spec => []SucceededRunIsComplete
<1>1. IInv => SucceededRunIsComplete
  BY DEF IInv, PostInv, AllGenerated, SucceededRunIsComplete
<1> QED BY <1>1, Inductive, PTL

\* A plan shown as music_generated has all its posts.
THEOREM GeneratedComplete == Spec => []GeneratedPlanIsComplete
<1>1. IInv => GeneratedPlanIsComplete
  BY DEF IInv, PostInv, AllGenerated, GeneratedPlanIsComplete
<1> QED BY <1>1, Inductive, PTL

\* What is reported as music, of runs and of plans, exists.
THEOREM ReportedExists == Spec => []ReportedMusicExists
<1>1. SucceededRunIsComplete /\ GeneratedPlanIsComplete => ReportedMusicExists
  BY DEF ReportedMusicExists
<1> QED BY <1>1, SucceededComplete, GeneratedComplete, PTL

\* The final status of a run is never rewritten.
THEOREM TerminalKept == Spec => TerminalIsFinal
<1>1. IInv /\ [Next]_vars => [\A r \in Runs : job[r] \in Terminal => job'[r] = job[r]]_vars
  BY JobStep DEF IInv, Inserted, Skipped, Ended, Terminal, TypeOK
<1> QED BY <1>1, Inductive, PTL DEF Spec, TerminalIsFinal

\* Generated music is kept.
THEOREM GeneratedKept == Spec => GeneratedPostIsKept
<1>1. IInv /\ [Next]_vars =>
        [\A p \in Plans, i \in Positions :
           post[p][i] = "music_generated" => post'[p][i] = "music_generated"]_vars
  BY KeptStep DEF IInv
<1> QED BY <1>1, Inductive, PTL DEF Spec, GeneratedPostIsKept

\* The service implements the abstract slot: a step inserts a running row
\* (Acquire), ends it (Release), leaves a skipped row (Skip) or none of these.
THEOREM SlotRefinement == Spec => ImplementsRunSlot
<1>1. Init => Slot!Init
  BY DEF Init, Slot!Init, Life
<1>2. IInv /\ [Next]_vars => [Slot!Next]_Life
  <2> SUFFICES ASSUME IInv, [Next]_vars
               PROVE  [Slot!Next]_Life
    OBVIOUS
  <2> USE DEF IInv, TypeOK, JobStatus
  <2>1. ASSUME NEW r \in Runs, Inserted(r)
        PROVE  Slot!Acquire(r)
    <3>1. Life[r] = "new" /\ \A q \in Runs : Life[q] # "active"
      BY <2>1 DEF Inserted, SlotFree, Life
    <3>2. Life' = [Life EXCEPT ![r] = "active"]
      BY <2>1 DEF Inserted, Life
    <3> QED BY <3>1, <3>2 DEF Slot!Acquire
  <2>2. ASSUME NEW r \in Runs, Ended(r)
        PROVE  Slot!Release(r)
    <3>1. Life[r] = "active" /\ Life' = [Life EXCEPT ![r] = "ended"]
      BY <2>2 DEF Ended, Life
    <3> QED BY <3>1 DEF Slot!Release
  <2>3. ASSUME NEW r \in Runs, Skipped(r)
        PROVE  Slot!Skip(r)
    <3>1. Life[r] = "new" /\ Life' = [Life EXCEPT ![r] = "ended"]
      BY <2>3 DEF Skipped, Life
    <3> QED BY <3>1 DEF Slot!Skip
  <2>4. ASSUME job' = job
        PROVE  Life' = Life
    BY <2>4 DEF Life
  <2> QED BY <2>1, <2>2, <2>3, <2>4, JobStep DEF Slot!Next
<1> QED BY <1>1, <1>2, Inductive, PTL DEF Spec, ImplementsRunSlot, Slot!Spec

\* Nothing stays open that nobody works on: each step keeps it, given the
\* inductive invariant.
THEOREM OpenKept == Spec => []OpenInv
<1>1. IInv /\ OpenInv /\ [Next]_vars => OpenInv'
  BY ExpiredStep, LeakStep, WorkStep, StepsStep DEF IInv, OpenInv
<1> QED BY <1>1, OpenInit, Inductive, PTL DEF Spec

\* While no database call has failed, a running row has a coroutine that will
\* release the slot.
THEOREM NotLeaked == Spec => []SlotNotLeaked
<1>1. OpenInv => SlotNotLeaked
  BY DEF OpenInv
<1> QED BY <1>1, OpenKept, PTL

\* Every post in generating and every executing plan has its run
\* (reconcile_orphaned_runs, _terminalize_aborted_run).
THEOREM WorkHasRun == Spec => []OpenWorkHasRun
<1>1. OpenInv => OpenWorkHasRun
  BY DEF OpenInv
<1> QED BY <1>1, OpenKept, PTL

\* A finished run shows no step as running.
THEOREM StepsClosed == Spec => []FinishedRunHasNoOpenStep
<1>1. ASSUME IInv, OpenInv PROVE FinishedRunHasNoOpenStep
  <2> SUFFICES ASSUME NEW r \in Runs, faults = MaxFaults, r \notin expired, job[r] \in Terminal,
                      NEW k \in StepKeys, step[r][k] = "running"
               PROVE  FALSE
    BY DEF FinishedRunHasNoOpenStep
  <2>1. OpenFor(r, k)
    BY <1>1 DEF OpenInv, StepsInv
  <2>2. pc[r] \in Working => job[r] = "running"
    BY <1>1 DEF IInv, SlotInv, GeneratorHoldsSlot
  <2> QED BY <2>1, <2>2 DEF OpenFor, Working, Terminal
<1> QED BY <1>1, Inductive, OpenKept, PTL
=============================================================================

---------------------------- MODULE DryrunReview ----------------------------
(***************************************************************************)
(* The review of dry-run outputs: approval, which uploads the video to     *)
(* YouTube, rejection, which deletes it, and the daily retention job,      *)
(* which expires what was pending for seven days.                          *)
(*                                                                         *)
(* A request loads the row, checks that it is pending and does its side    *)
(* effect, on YouTube or in the storage, before it commits; the UPDATE     *)
(* names the row only by its key.  The row lock that this UPDATE takes     *)
(* delays another one and refuses nothing, so it is left out.  The state   *)
(* "approved" is never committed: the transaction goes on to "posted".     *)
(***************************************************************************)
EXTENDS Naturals, FiniteSets

CONSTANTS Outputs,     \* dryrun_outputs rows, one per post
          Reviews,     \* POST .../approve and .../reject requests
          NoOutput,    \* a request that has not begun
          MaxFaults,   \* bound on failures after a side effect was begun
          MaxCrashes   \* bound on stops of the process

ASSUME NoOutputAssumption == NoOutput \notin Outputs
ASSUME ReviewsAssumption == IsFiniteSet(Reviews)
ASSUME BoundAssumption == MaxFaults \in Nat /\ MaxCrashes \in Nat

VARIABLES
  up,       \* the backend process is running
  state,    \* committed dryrun_outputs.state
  file,     \* the preview video exists in the storage
  old,      \* created more than seven days ago
  uploads,  \* videos on YouTube made from the output
  linked,   \* posts.youtube_video_id is set
  pc,       \* control point of each review
  on,       \* the output it reviews
  batch,    \* rows the retention job has selected, and not yet handled
  swept,    \* rows it has handled in its open transaction
  sweeping, \* the retention job is running
  calm,     \* nothing overlapped or failed after a side effect on the output
  faults,   \* failures left
  crashes   \* process stops left

rows == <<state, linked>>
outside == <<file, uploads>>
reviews == <<pc, on>>
sweep == <<batch, swept, sweeping>>
vars == <<up, rows, outside, old, reviews, sweep, calm, faults, crashes>>

State == {"absent", "pending", "posted", "rejected", "auto_expired"}
Discarded == {"rejected", "auto_expired"}

Init ==
  /\ up = TRUE
  /\ state = [o \in Outputs |-> "absent"]
  /\ file = [o \in Outputs |-> FALSE]
  /\ old = [o \in Outputs |-> FALSE]
  /\ uploads = [o \in Outputs |-> 0]
  /\ linked = [o \in Outputs |-> FALSE]
  /\ pc = [r \in Reviews |-> "idle"]
  /\ on = [r \in Reviews |-> NoOutput]
  /\ batch = {}
  /\ swept = {}
  /\ sweeping = FALSE
  /\ calm = [o \in Outputs |-> TRUE]
  /\ faults = MaxFaults
  /\ crashes = MaxCrashes

-----------------------------------------------------------------------------
(* Helpers *)

Goto(r, label) == pc' = [pc EXCEPT ![r] = label]
Reviewing(o) == {r \in Reviews : on[r] = o /\ pc[r] \notin {"idle", "done"}}
Busy(o) == Reviewing(o) # {} \/ o \in batch \cup swept
Disturb(S) == calm' = [o \in Outputs |-> calm[o] /\ o \notin S]
Fault == faults > 0 /\ faults' = faults - 1

\* _load and _ensure_pending: a request for a row that is not pending is
\* refused with 409.
LoadAny(r, o) ==
  /\ up /\ pc[r] = "idle" /\ state[o] # "absent"
  /\ on' = [on EXCEPT ![r] = o]
  /\ Disturb(IF Busy(o) THEN {o} ELSE {})
LoadPending(r, o) ==
  /\ up /\ pc[r] = "idle" /\ state[o] = "pending"
  /\ on' = [on EXCEPT ![r] = o]
  /\ Disturb(IF Busy(o) THEN {o} ELSE {})

Refuse(r, o) ==
  /\ up /\ pc[r] = "idle" /\ state[o] \notin {"absent", "pending"}
  /\ on' = [on EXCEPT ![r] = o]
  /\ Goto(r, "done")
  /\ UNCHANGED <<up, rows, outside, old, sweep, calm, faults, crashes>>

Upload(o) == uploads' = [uploads EXCEPT ![o] = @ + 1]
DeletePreview(o) == file' = [file EXCEPT ![o] = FALSE]

-----------------------------------------------------------------------------
(* The rows appear and grow old *)

\* The daily cycle in dry-run mode stores the composed video and its output.
Create(o) ==
  /\ up /\ state[o] = "absent"
  /\ state' = [state EXCEPT ![o] = "pending"]
  /\ file' = [file EXCEPT ![o] = TRUE]
  /\ UNCHANGED <<up, linked, old, uploads, reviews, sweep, calm, faults, crashes>>

Age(o) ==
  /\ state[o] # "absent" /\ ~old[o]
  /\ old' = [old EXCEPT ![o] = TRUE]
  /\ UNCHANGED <<up, rows, outside, reviews, sweep, calm, faults, crashes>>

-----------------------------------------------------------------------------
(* Approval *)

ApproveLoad(r, o) ==
  /\ LoadPending(r, o)
  /\ Goto(r, "approving")
  /\ UNCHANGED <<up, rows, outside, old, sweep, faults, crashes>>

\* After the access token has come, the video is read from the storage.
ApproveRead(r) ==
  /\ pc[r] = "approving" /\ file[on[r]]
  /\ Goto(r, "inserting")
  /\ UNCHANGED <<up, rows, outside, old, on, sweep, calm, faults, crashes>>

\* A missing field or file, no token, a refused videos.insert: nothing was
\* uploaded, and the transaction is rolled back.
ApproveRefused(r) ==
  /\ pc[r] \in {"approving", "inserting"}
  /\ Goto(r, "done")
  /\ UNCHANGED <<up, rows, outside, old, on, sweep, calm, faults, crashes>>

\* videos.insert succeeds in its thread.
ApproveInsert(r) ==
  /\ pc[r] = "inserting"
  /\ Upload(on[r])
  /\ Goto(r, "inserted")
  /\ UNCHANGED <<up, rows, file, old, on, sweep, calm, faults, crashes>>

\* videos.insert succeeds and its answer is lost or has no id.
ApproveLost(r) ==
  /\ pc[r] = "inserting" /\ Fault
  /\ Upload(on[r])
  /\ Disturb({on[r]})
  /\ Goto(r, "done")
  /\ UNCHANGED <<up, rows, file, old, on, sweep, crashes>>

\* Reading or sending the thumbnail raises something other than HttpError, or
\* the database fails: rolled back, the video stays on YouTube.
ApproveFails(r) ==
  /\ pc[r] = "inserted" /\ Fault
  /\ Disturb({on[r]})
  /\ Goto(r, "done")
  /\ UNCHANGED <<up, rows, outside, old, on, sweep, crashes>>

Post(r) ==
  /\ state' = [state EXCEPT ![on[r]] = "posted"]
  /\ linked' = [linked EXCEPT ![on[r]] = TRUE]
ApproveCommit(r) ==
  /\ pc[r] = "inserted"
  /\ Post(r)
  /\ Goto(r, "done")
  /\ UNCHANGED <<up, outside, old, on, sweep, calm, faults, crashes>>

-----------------------------------------------------------------------------
(* Rejection *)

\* The preview is deleted as soon as the row is found pending.
RejectKeepsFile(r, o) ==
  /\ LoadPending(r, o)
  /\ Goto(r, "rejecting")
  /\ UNCHANGED <<up, rows, outside, old, sweep, faults, crashes>>
RejectLoad(r, o) ==
  /\ LoadPending(r, o)
  /\ DeletePreview(o)
  /\ Goto(r, "rejecting")
  /\ UNCHANGED <<up, rows, uploads, old, sweep, faults, crashes>>

\* The storage refuses the deletion: nothing happened.
RejectRefused(r, o) ==
  /\ LoadPending(r, o)
  /\ Goto(r, "done")
  /\ UNCHANGED <<up, rows, outside, old, sweep, faults, crashes>>

RejectFails(r) ==
  /\ pc[r] = "rejecting" /\ Fault
  /\ Disturb({on[r]})
  /\ Goto(r, "done")
  /\ UNCHANGED <<up, rows, outside, old, on, sweep, crashes>>

RejectCommit(r) ==
  /\ pc[r] = "rejecting"
  /\ state' = [state EXCEPT ![on[r]] = "rejected"]
  /\ Goto(r, "done")
  /\ UNCHANGED <<up, linked, outside, old, on, sweep, calm, faults, crashes>>

-----------------------------------------------------------------------------
(* The retention job: one transaction over all rows it selects *)

Recent == {o \in Outputs : state[o] = "pending" /\ ~old[o]}
Expirable == {o \in Outputs : state[o] = "pending" /\ old[o]}

SweepSelect ==
  /\ up /\ ~sweeping
  /\ sweeping' = TRUE
  /\ batch' = Expirable
  /\ Disturb({o \in batch' : Busy(o)})
  /\ UNCHANGED <<up, rows, outside, old, reviews, swept, faults, crashes>>

\* One row after the other: the preview is deleted, the audit row flushed.
SweepOne(o) ==
  /\ o \in batch
  /\ DeletePreview(o)
  /\ batch' = batch \ {o}
  /\ swept' = swept \cup {o}
  /\ UNCHANGED <<up, rows, uploads, old, reviews, sweeping, calm, faults, crashes>>

SweepCommit ==
  /\ sweeping /\ batch = {}
  /\ state' = [o \in Outputs |-> IF o \in swept THEN "auto_expired" ELSE state[o]]
  /\ sweeping' = FALSE
  /\ swept' = {}
  /\ UNCHANGED <<up, linked, outside, old, reviews, batch, calm, faults, crashes>>

SweepEnds ==
  /\ sweeping' = FALSE
  /\ batch' = {} /\ swept' = {}
  /\ Disturb(swept)

\* One failing row rolls the whole transaction back; the previews are gone.
SweepFails ==
  /\ sweeping /\ Fault
  /\ SweepEnds
  /\ UNCHANGED <<up, rows, outside, old, reviews, crashes>>

-----------------------------------------------------------------------------
(* The process *)

\* Open transactions are rolled back; the uploads that are done are complete,
\* although no request is left that knows of them.
InStep(S) == {r \in Reviews : pc[r] \in S}
RollBack(done) ==
  /\ uploads' = [o \in Outputs |-> uploads[o] + Cardinality({r \in done : on[r] = o})]
  /\ Disturb({on[r] : r \in done \cup InStep({"inserted", "rejecting"})} \cup swept)
  /\ pc' = [r \in Reviews |-> IF pc[r] = "idle" THEN "idle" ELSE "done"]
  /\ sweeping' = FALSE /\ batch' = {} /\ swept' = {}

Crash ==
  /\ up /\ crashes > 0
  /\ up' = FALSE
  /\ crashes' = crashes - 1
  /\ \E done \in SUBSET InStep({"inserting"}) : RollBack(done)
  /\ UNCHANGED <<rows, file, old, on, faults>>

Restart ==
  /\ ~up
  /\ up' = TRUE
  /\ UNCHANGED <<rows, outside, old, reviews, sweep, calm, faults, crashes>>

Review(r) ==
  \/ \E o \in Outputs : \/ Refuse(r, o) \/ ApproveLoad(r, o)
                        \/ RejectLoad(r, o) \/ RejectRefused(r, o)
  \/ ApproveRead(r) \/ ApproveRefused(r) \/ ApproveInsert(r) \/ ApproveLost(r)
  \/ ApproveFails(r) \/ ApproveCommit(r)
  \/ RejectFails(r) \/ RejectCommit(r)
Sweep == \/ SweepSelect \/ SweepCommit \/ SweepFails
         \/ \E o \in Outputs : SweepOne(o)

Next == \/ \E o \in Outputs : Create(o) \/ Age(o)
        \/ \E r \in Reviews : Review(r)
        \/ Sweep \/ Crash \/ Restart

Spec == Init /\ [][Next]_vars

\* The cron slot of the retention job comes back every day, a job that has
\* begun goes on, and the service manager restarts a stopped process.
FairSpec ==
  /\ Spec
  /\ WF_vars(SweepSelect)
  /\ WF_vars(SweepCommit \/ \E o \in Outputs : SweepOne(o))
  /\ WF_vars(Restart)

-----------------------------------------------------------------------------
(* Properties *)

PC == {"idle", "approving", "inserting", "inserted", "rejecting", "done"}

\* Every variable keeps its type; the retention job works on rows only while
\* it is running.
TypeOK ==
  /\ up \in BOOLEAN /\ sweeping \in BOOLEAN
  /\ state \in [Outputs -> State]
  /\ file \in [Outputs -> BOOLEAN] /\ old \in [Outputs -> BOOLEAN]
  /\ linked \in [Outputs -> BOOLEAN] /\ calm \in [Outputs -> BOOLEAN]
  /\ uploads \in [Outputs -> Nat]
  /\ pc \in [Reviews -> PC]
  /\ on \in [Reviews -> Outputs \cup {NoOutput}]
  /\ batch \subseteq Outputs /\ swept \subseteq Outputs
  /\ batch \cup swept # {} => sweeping
  /\ faults \in 0 .. MaxFaults
  /\ crashes \in 0 .. MaxCrashes

\* A row that says posted has a video on YouTube and its post has the link,
\* whatever failed or overlapped: the commit comes after the upload.
PostedIsUploaded ==
  \A o \in Outputs : state[o] = "posted" => uploads[o] > 0 /\ linked[o]

\* A rejected or expired output has no preview left in the storage: it is
\* deleted before the row is committed and nothing brings it back.
DiscardedHasNoPreview ==
  \A o \in Outputs : state[o] \in Discarded => ~file[o]

\* What a decided row says has happened outside the database.
DecisionHasEffect == PostedIsUploaded /\ DiscardedHasNoPreview

\* An output on which requests and the retention job came one after the other,
\* and none failed after its side effect, is consistent: uploaded once and
\* linked exactly when posted, its preview there exactly while pending or
\* posted.
CalmOutputAgrees ==
  \A o \in Outputs : calm[o] /\ ~Busy(o) =>
    /\ uploads[o] = (IF state[o] = "posted" THEN 1 ELSE 0)
    /\ linked[o] <=> state[o] = "posted"
    /\ file[o] <=> state[o] \in {"pending", "posted"}

\* A pending output that has grown old does not stay pending: the retention
\* job takes it up again after failures and restarts.
OldIsDecided ==
  \A o \in Outputs : (state[o] = "pending" /\ old[o]) ~> state[o] # "pending"

-----------------------------------------------------------------------------
(* What the repository says and the code does not do *)

\* _ensure_pending protects against a double operation: an output is uploaded
\* at most once.
UploadedOnce == \A o \in Outputs : uploads[o] <= 1
=============================================================================

------------------------------ MODULE DailyCycle ------------------------------
(***************************************************************************)
(* The full daily cycle: plan, then post by post music, AcoustID precheck  *)
(* with regeneration of the tracks that hit, image, render, and a dry-run  *)
(* output or an upload.                                                    *)
(*                                                                         *)
(* One step is the code between two commits or two waits for a service;    *)
(* what a service answers is a free choice.  The tracks of a post are      *)
(* looked up concurrently on one AsyncSession: a flush that begins while   *)
(* another one waits for the database raises InvalidRequestError, an       *)
(* SQLAlchemyError, for which run() halts the scheduler.  An ended cycle   *)
(* is followed by another one: the next slot, after an operator switched a *)
(* halted scheduler on again.  A post is addressed by its cycle and its    *)
(* position.  Left out: a plan passed in by id, which no caller does, the  *)
(* events, and lookups that go on in the background after one has raised.  *)
(***************************************************************************)
EXTENDS Naturals, FiniteSets

CONSTANTS Genres,
          NoGenre,    \* the post does not exist
          Tracks,     \* positions of the tracks of a post, numbers
          MaxCycles,  \* bound on cycles
          MaxPosts,   \* posts in a plan, 1 to MaxPosts
          HitLimit,   \* ACOUSTID_CONSECUTIVE_HIT_LIMIT
          MaxLoops,   \* _MAX_ACOUSTID_LOOPS
          MaxRegen,   \* _MAX_REGENERATION
          MaxFaults   \* bound on failing database operations and on stops of
                      \* the process, taken together

ASSUME NoGenreAssumption == NoGenre \notin Genres
ASSUME TracksAssumption == Tracks \subseteq Nat /\ Tracks # {}
ASSUME LimitAssumption ==
  /\ HitLimit \in Nat /\ MaxLoops \in Nat /\ MaxRegen \in Nat
  /\ HitLimit < MaxLoops /\ HitLimit <= MaxRegen
ASSUME BoundAssumption ==
  {MaxCycles, MaxPosts, MaxFaults} \subseteq Nat

Cycles == 1 .. MaxCycles
Posts == Cycles \X (1 .. MaxPosts)

VARIABLES
  up,        \* the process is running
  enabled,   \* genres.enabled
  hits,      \* app_state acoustid_consecutive_hits of each genre
  plan,      \* plans.status of each cycle
  genre,     \* posts.genre
  status,    \* posts.status
  dryout,    \* the post has a dryrun_outputs row
  uploads,   \* videos on YouTube made from the post
  dry,       \* settings.dryrun_default
  cyc,       \* the last cycle that was fired
  pc,        \* its control point
  pos,       \* position of its current post
  count,     \* number of posts in its plan
  tally,     \* its counts of posted, dry-run and failed posts, and had_fatal
  ac,        \* acoustid_status of the tracks of the current post
  regen,     \* their regenerated_count
  loops,     \* rounds of the AcoustID loop begun
  todo,      \* tracks whose lookup, or regeneration, is due
  flushing,  \* tracks whose flush waits for the database
  abrupt,    \* cycles that ended by an exception of run(), since the start
  faults     \* failing database operations and stops left

db == <<enabled, hits, plan, genre, status, dryout>>
run == <<cyc, pos, count, tally>>
check == <<ac, regen, loops, todo, flushing>>
vars == <<up, db, uploads, dry, run, pc, check, abrupt, faults>>

PlanState == {"none", "generated", "executing", "completed", "failed"}
PostState ==
  {"none", "pending", "generating", "generated", "posting", "posted", "failed"}
AcoustidStatus == {"not_checked", "clear", "hit", "api_error"}
Passed == {"clear", "api_error"}
Ended == {"idle", "done", "halted", "raised"}
Tally == [posted : Nat, dryrun : Nat, failed : Nat, fatal : BOOLEAN]
NoTally == [posted |-> 0, dryrun |-> 0, failed |-> 0, fatal |-> FALSE]

Init ==
  /\ up = TRUE
  /\ enabled = [g \in Genres |-> TRUE]
  /\ hits = [g \in Genres |-> 0]
  /\ plan = [c \in Cycles |-> "none"]
  /\ genre = [q \in Posts |-> NoGenre]
  /\ status = [q \in Posts |-> "none"]
  /\ dryout = [q \in Posts |-> FALSE]
  /\ uploads = [q \in Posts |-> 0]
  /\ dry \in BOOLEAN
  /\ cyc = 0 /\ pos = 0 /\ count = 0 /\ tally = NoTally
  /\ pc = "idle"
  /\ ac = [t \in Tracks |-> "not_checked"]
  /\ regen = [t \in Tracks |-> 0]
  /\ loops = 0 /\ todo = {} /\ flushing = {}
  /\ abrupt = {}
  /\ faults = MaxFaults

-----------------------------------------------------------------------------
(* Helpers *)

Post == <<cyc, pos>>
Genre == genre[Post]
Created == {q \in Posts : q[1] = cyc /\ status[q] # "none"}
SetPost(s) == status' = [status EXCEPT ![Post] = s]
SetPlan(s) == plan' = [plan EXCEPT ![cyc] = s]
Hits == {t \in Tracks : ac[t] = "hit"}
Count(field) == tally' = [tally EXCEPT ![field] = @ + 1]
Fault == faults > 0 /\ faults' = faults - 1
NoCheck == /\ ac' = [t \in Tracks |-> "not_checked"]
           /\ regen' = [t \in Tracks |-> 0]
           /\ loops' = 0 /\ todo' = {} /\ flushing' = {}

\* run() ends with an exception: SchedulerHaltError, or what a statement
\* outside the try block raised.
Leave(label) ==
  /\ pc' = label
  /\ abrupt' = abrupt \cup {cyc}
  /\ NoCheck
  /\ UNCHANGED <<up, db, uploads, dry, run>>

\* _record_post_failure and the handler that called it: the cycle goes on with
\* the next post, or is aborted by a FatalError.
Stay(fatal) == pc' = IF fatal THEN "end" ELSE "create"
Fail(fatal) ==
  /\ SetPost("failed")
  /\ tally' = [tally EXCEPT !.failed = @ + 1, !.fatal = fatal]
  /\ Stay(fatal)
  /\ NoCheck
  /\ UNCHANGED <<up, enabled, hits, plan, genre, dryout, dry, cyc, pos, count,
                 abrupt, faults>>

-----------------------------------------------------------------------------
(* The cycle *)

\* _load_enabled_genres and _resolve_plan: the planner's plan is validated
\* against the enabled genres, and against none if there is none.
Fire ==
  /\ up /\ pc \in Ended /\ cyc < MaxCycles
  /\ cyc' = cyc + 1
  /\ \E n \in 1 .. MaxPosts :
       \E f \in [1 .. n -> Genres] :
         LET allowed == {g \in Genres : enabled[g]}
         IN /\ allowed = {} \/ \A p \in 1 .. n : f[p] \in allowed
            /\ count' = n
            /\ genre' = [q \in Posts |-> IF q[1] = cyc' /\ q[2] <= n
                                         THEN f[q[2]] ELSE genre[q]]
  /\ plan' = [plan EXCEPT ![cyc'] = "generated"]
  /\ pos' = 0 /\ tally' = NoTally
  /\ pc' = "planned"
  /\ UNCHANGED <<up, enabled, hits, status, dryout, uploads, dry, check, abrupt,
                 faults>>

\* The planner or its validation raises: no post of the plan is begun.
PlanFails ==
  /\ pc = "planned"
  /\ Leave("raised")
  /\ UNCHANGED faults

Execute ==
  /\ pc = "planned"
  /\ SetPlan("executing")
  /\ pc' = "create"
  /\ UNCHANGED <<up, enabled, hits, genre, status, dryout, uploads, dry, run,
                 check, abrupt, faults>>

CreatePost ==
  /\ pc = "create" /\ pos < count
  /\ pos' = pos + 1
  /\ status' = [status EXCEPT ![<<cyc, pos'>>] = "pending"]
  /\ pc' = "begin"
  /\ UNCHANGED <<up, enabled, hits, plan, genre, dryout, uploads, dry, cyc, count,
                 tally, check, abrupt, faults>>

Begin ==
  /\ pc = "begin"
  /\ SetPost("generating")
  /\ pc' = "music"
  /\ UNCHANGED <<up, enabled, hits, plan, genre, dryout, uploads, dry, run, check,
                 abrupt, faults>>

\* submit_and_wait creates the AudioTrack rows.
Music ==
  /\ pc = "music"
  /\ NoCheck
  /\ pc' = "loop"
  /\ UNCHANGED <<up, db, uploads, dry, run, abrupt, faults>>

-----------------------------------------------------------------------------
(* The AcoustID loop *)

CheckTracks ==
  /\ pc = "loop" /\ loops < MaxLoops
  /\ loops' = loops + 1
  /\ todo' = Tracks
  /\ pc' = "checking"
  /\ UNCHANGED <<up, db, uploads, dry, run, ac, regen, flushing, abrupt, faults>>

\* A lookup answers; a failing service is an api_error, never an exception.
\* The flush of the track begins.
Answer(t) ==
  /\ pc = "checking" /\ t \in todo /\ flushing = {}
  /\ \E s \in {"clear", "hit", "api_error"} : ac' = [ac EXCEPT ![t] = s]
  /\ todo' = todo \ {t}
  /\ flushing' = {t}
  /\ UNCHANGED <<up, db, uploads, dry, run, pc, regen, loops, abrupt, faults>>

Flushed(t) ==
  /\ t \in flushing
  /\ flushing' = flushing \ {t}
  /\ UNCHANGED <<up, db, uploads, dry, run, pc, ac, regen, loops, todo, abrupt, faults>>

\* Session.flush refuses to begin while another flush is under way.
FlushRefused ==
  /\ pc = "checking" /\ todo # {} /\ flushing # {}
  /\ Leave("halted")
  /\ UNCHANGED faults

NextHitsClearFirst ==
  CASE \E t \in Tracks : ac[t] = "clear" -> 0
    [] OTHER -> IF Hits # {} THEN hits[Genre] + 1 ELSE hits[Genre]
NextHits ==
  CASE Hits # {} -> hits[Genre] + 1
    [] Hits = {} /\ \E t \in Tracks : ac[t] = "clear" -> 0
    [] OTHER -> hits[Genre]

\* check_post_tracks aggregates, the count is stored, all in one commit.
Verdict ==
  /\ pc = "checking" /\ todo = {} /\ flushing = {}
  /\ hits' = [hits EXCEPT ![Genre] = NextHits]
  /\ LET suspend == Hits # {} /\ NextHits >= HitLimit
     IN /\ enabled' = IF suspend THEN [enabled EXCEPT ![Genre] = FALSE] ELSE enabled
        /\ pc' = CASE suspend -> "suspending"
                   [] ~suspend /\ Hits = {} -> "image"
                   [] OTHER -> "regenerating"
        /\ todo' = IF suspend THEN {} ELSE Hits
  /\ UNCHANGED <<up, plan, genre, status, dryout, uploads, dry, run, ac, regen,
                 loops, flushing, abrupt, faults>>

SuspendUncounted ==
  /\ pc = "suspending"
  /\ SetPost("failed")
  /\ NoCheck
  /\ pc' = "create"
  /\ UNCHANGED <<up, enabled, hits, plan, genre, dryout, uploads, dry, run, abrupt,
                 faults>>
Suspend ==
  /\ pc = "suspending"
  /\ SetPost("failed")
  /\ Count("failed")
  /\ NoCheck
  /\ pc' = "create"
  /\ UNCHANGED <<up, enabled, hits, plan, genre, dryout, uploads, dry, cyc, pos,
                 count, abrupt, faults>>

\* regenerate_track, in the order of the positions.
Regenerate(t) ==
  /\ pc = "regenerating" /\ t \in todo /\ \A u \in todo : t <= u
  /\ regen[t] < MaxRegen
  /\ ac' = [ac EXCEPT ![t] = "not_checked"]
  /\ regen' = [regen EXCEPT ![t] = @ + 1]
  /\ todo' = todo \ {t}
  /\ UNCHANGED <<up, db, uploads, dry, run, pc, loops, flushing, abrupt, faults>>

RegeneratedGoOn ==
  /\ pc = "regenerating" /\ todo = {}
  /\ pc' = "image"
  /\ UNCHANGED <<up, db, uploads, dry, run, check, abrupt, faults>>
Regenerated ==
  /\ pc = "regenerating" /\ todo = {}
  /\ pc' = "loop"
  /\ UNCHANGED <<up, db, uploads, dry, run, check, abrupt, faults>>

\* The loop or the regenerations of a track are used up.
UsedUp ==
  \/ pc = "loop" /\ loops = MaxLoops
  \/ pc = "regenerating" /\ \E t \in todo : regen[t] >= MaxRegen

-----------------------------------------------------------------------------
(* Artifacts and publication *)

Image ==
  /\ pc = "image"
  /\ pc' = "render"
  /\ UNCHANGED <<up, db, uploads, dry, run, check, abrupt, faults>>

Render ==
  /\ pc = "render"
  /\ SetPost("generated")
  /\ pc' = "publish"
  /\ UNCHANGED <<up, enabled, hits, plan, genre, dryout, uploads, dry, run, check,
                 abrupt, faults>>

Dryrun ==
  /\ pc = "publish" /\ dry
  /\ dryout' = [dryout EXCEPT ![Post] = TRUE]
  /\ Count("dryrun")
  /\ NoCheck
  /\ pc' = "create"
  /\ UNCHANGED <<up, enabled, hits, plan, genre, status, uploads, dry, cyc, pos,
                 count, abrupt, faults>>

\* The compliance gate has passed; "posting" is committed before the upload.
PublishQuietly ==
  /\ pc = "publish" /\ ~dry
  /\ pc' = "uploading"
  /\ UNCHANGED <<up, db, uploads, dry, run, check, abrupt, faults>>
Publish ==
  /\ pc = "publish" /\ ~dry
  /\ SetPost("posting")
  /\ pc' = "uploading"
  /\ UNCHANGED <<up, enabled, hits, plan, genre, dryout, uploads, dry, run, check,
                 abrupt, faults>>

Uploaded == uploads' = [uploads EXCEPT ![Post] = @ + 1]

Insert ==
  /\ pc = "uploading"
  /\ Uploaded
  /\ pc' = "uploaded"
  /\ UNCHANGED <<up, db, dry, run, check, abrupt, faults>>

Posted ==
  /\ pc = "uploaded"
  /\ SetPost("posted")
  /\ Count("posted")
  /\ NoCheck
  /\ pc' = "create"
  /\ UNCHANGED <<up, enabled, hits, plan, genre, dryout, uploads, dry, cyc, pos,
                 count, abrupt, faults>>

\* videos.insert succeeds and its answer is lost.
InsertLost ==
  /\ pc = "uploading"
  /\ Uploaded
  /\ Fail(FALSE)

\* Any step of _process_post raises: a service gives up, the loop is used up,
\* a template is missing, the compliance gate refuses, the thumbnail cannot be
\* read.
StepFails ==
  /\ UsedUp \/ pc \in {"music", "checking", "regenerating", "image", "render",
                       "publish", "uploading", "uploaded"}
  /\ \E fatal \in BOOLEAN : Fail(fatal)
  /\ UNCHANGED uploads

EndCycleUnlessFatal ==
  /\ pc = "create" /\ pos = count
  /\ SetPlan("completed")
  /\ pc' = "done"
  /\ UNCHANGED <<up, enabled, hits, genre, status, dryout, uploads, dry, run, check,
                 abrupt, faults>>
EndCycle ==
  /\ \/ pc = "create" /\ pos = count
     \/ pc = "end"
  /\ SetPlan(IF tally.fatal THEN "failed" ELSE "completed")
  /\ pc' = "done"
  /\ UNCHANGED <<up, enabled, hits, genre, status, dryout, uploads, dry, run, check,
                 abrupt, faults>>

-----------------------------------------------------------------------------
(* The database fails, the process stops, an operator intervenes *)

\* Inside _process_post the scheduler is halted.  A commit of the plan, the
\* creation of a post and the recording of a failure are outside the try
\* block: their exception leaves run() as it is.
DbFails ==
  /\ pc \notin Ended /\ Fault
  /\ Leave(IF pc \in {"planned", "create", "end"} THEN "raised" ELSE "halted")
RecordFails ==
  /\ pc \notin Ended \cup {"planned", "create", "begin", "loop", "suspending", "end"}
  /\ Fault
  /\ Leave("raised")

\* An upload under way may be complete.
Crash ==
  /\ up /\ Fault
  /\ up' = FALSE
  /\ pc' = "idle"
  /\ NoCheck
  /\ \/ UNCHANGED uploads
     \/ pc = "uploading" /\ Uploaded
  /\ UNCHANGED <<db, dry, run, abrupt>>

\* lifespan: reconcile_orphaned_runs before anything is scheduled.
FailOrphanPosts ==
  status' = [q \in Posts |-> IF status[q] = "generating" THEN "failed" ELSE status[q]]
RestartOnly ==
  /\ ~up
  /\ up' = TRUE
  /\ FailOrphanPosts
  /\ abrupt' = {}
  /\ UNCHANGED <<enabled, hits, plan, genre, dryout, uploads, dry, run, pc, check,
                 faults>>
Restart ==
  /\ ~up
  /\ up' = TRUE
  /\ FailOrphanPosts
  /\ plan' = [c \in Cycles |-> IF plan[c] = "executing" THEN "failed" ELSE plan[c]]
  /\ abrupt' = {}
  /\ UNCHANGED <<enabled, hits, genre, dryout, uploads, dry, run, pc, check, faults>>

\* POST /genres/{name}/promote: the count of hits stays what it was.
Promote(g) ==
  /\ up /\ ~enabled[g]
  /\ enabled' = [enabled EXCEPT ![g] = TRUE]
  /\ UNCHANGED <<up, hits, plan, genre, status, dryout, uploads, dry, run, pc, check,
                 abrupt, faults>>

AcoustidLoop ==
  \/ CheckTracks \/ FlushRefused \/ Verdict \/ Suspend \/ Regenerated
  \/ \E t \in Tracks : Answer(t) \/ Flushed(t) \/ Regenerate(t)
Publication ==
  Image \/ Render \/ Dryrun \/ Publish \/ Insert \/ Posted \/ InsertLost
Cycle == \/ PlanFails \/ Execute \/ CreatePost \/ Begin \/ Music
         \/ AcoustidLoop \/ Publication \/ StepFails \/ EndCycle
         \/ DbFails \/ RecordFails

Next == \/ Fire \/ Cycle \/ Crash \/ Restart
        \/ \E g \in Genres : Promote(g)

Spec == Init /\ [][Next]_vars

\* A cycle that has begun goes on: every wait in it has a timeout.
FairSpec == Spec /\ WF_vars(Cycle)

-----------------------------------------------------------------------------
(* Properties *)

PC == Ended \cup {"planned", "create", "begin", "music", "loop", "checking",
                  "suspending", "regenerating", "image", "render", "publish",
                  "uploading", "uploaded", "end"}

\* Every variable keeps its type; a process that is down runs no cycle.
TypeOK ==
  /\ up \in BOOLEAN /\ dry \in BOOLEAN
  /\ enabled \in [Genres -> BOOLEAN] /\ hits \in [Genres -> Nat]
  /\ plan \in [Cycles -> PlanState]
  /\ genre \in [Posts -> Genres \cup {NoGenre}]
  /\ status \in [Posts -> PostState]
  /\ dryout \in [Posts -> BOOLEAN] /\ uploads \in [Posts -> Nat]
  /\ cyc \in 0 .. MaxCycles /\ pos \in 0 .. count /\ count \in 0 .. MaxPosts
  /\ tally \in Tally
  /\ ac \in [Tracks -> AcoustidStatus] /\ regen \in [Tracks -> 0 .. MaxRegen]
  /\ loops \in 0 .. MaxLoops
  /\ todo \subseteq Tracks /\ flushing \subseteq Tracks
  /\ todo # {} => pc \in {"checking", "regenerating"}
  /\ pc \in PC /\ abrupt \subseteq Cycles
  /\ (~up => pc = "idle")
  /\ faults \in 0 .. MaxFaults

\* A post goes on to its artifacts and to YouTube only with tracks that were
\* looked up after their last generation and did not hit.
OnlyPassedTracksGoOn ==
  pc \in {"image", "render", "publish", "uploading", "uploaded"} =>
    \A t \in Tracks : ac[t] \in Passed

\* The genre is suspended before the loop or the regenerations of a track are
\* used up: the three limits fit together for every sequence of answers, so
\* the error for a hit that does not go away is never raised.
SuspendedBeforeUsedUp == ~UsedUp

\* What is on YouTube is never forgotten: its post has left "generated" before
\* the upload began, whatever fails or stops afterwards, and a post says posted
\* only with its one video.
UploadIsRemembered ==
  \A q \in Posts :
    /\ uploads[q] > 0 => status[q] \in {"posting", "posted", "failed"}
    /\ uploads[q] <= 1
    /\ status[q] = "posted" => uploads[q] = 1
    /\ dryout[q] => uploads[q] = 0

\* A cycle that ends accounts for every post it created, and its plan is
\* completed only if every post of the plan was begun and ended.
CycleAddsUp ==
  LET in(s) == {q \in Created : status[q] = s}
      out == {q \in Created : dryout[q]}
  IN pc = "done" =>
       /\ tally.posted = Cardinality(in("posted"))
       /\ tally.failed = Cardinality(in("failed"))
       /\ tally.dryrun = Cardinality(out)
       /\ Created = in("posted") \cup in("failed") \cup out
       /\ plan[cyc] = "completed" => Cardinality(Created) = count

\* While the process is up, a cycle that is not running has no open plan and no
\* post that is being generated, unless an exception of run() left them since
\* the last start.
DeadCycleIsClosed ==
  up => \A c \in Cycles :
          (c # cyc \/ pc \in Ended) /\ c \notin abrupt =>
            /\ plan[c] # "executing"
            /\ \A q \in Posts : q[1] = c => status[q] # "generating"

\* A cycle that has begun ends: it returns, raises or is stopped.
CycleEnds == (pc \notin Ended) ~> (pc \in Ended)

=============================================================================

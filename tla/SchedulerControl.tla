--------------------------- MODULE SchedulerControl ---------------------------
(***************************************************************************)
(* Who may stop and start the posting jobs: PUT /scheduler and PUT         *)
(* /scheduler/mode, POST /scheduler/panic-stop, the cron slots that halt   *)
(* the scheduler on an infrastructure error, and the start of the process. *)
(*                                                                         *)
(* The switch has two halves.  One is persistent, a row of app_state,      *)
(* written by an upsert whose row lock is held until the transaction ends. *)
(* The other is the set of jobs registered in APScheduler, lost with the   *)
(* process.  A request writes them in two steps with awaits in between.    *)
(***************************************************************************)
EXTENDS Naturals, Sequences, FiniteSets

CONSTANTS Toggles,     \* PUT /scheduler and PUT /scheduler/mode requests
          Panics,      \* POST /scheduler/panic-stop requests
          NoRequest,   \* nobody holds a row lock
          Slots,       \* cron slots of the daily cycle
          Videos,      \* posted videos, public on YouTube at first
          MaxLost,     \* bound on commits applied whose answer is lost
          MaxCrashes   \* bound on stops of the process

Requests == Toggles \cup Panics
Scheduler == "scheduler_enabled"
Mode == "dryrun_enabled"
Keys == {Scheduler, Mode}

ASSUME RequestAssumption == /\ Toggles \cap Panics = {}
                            /\ NoRequest \notin Requests
ASSUME BoundAssumption == MaxLost \in Nat /\ MaxCrashes \in Nat

VARIABLES
  up,       \* the backend process is running
  flag,     \* committed app_state values
  lock,     \* request whose transaction holds the row of each key
  trail,    \* committed audit_log entries of each key, oldest first
  jobs,     \* the posting jobs are registered in APScheduler
  firing,   \* slots whose job body is running
  youtube,  \* privacyStatus on YouTube
  row,      \* committed videos.privacy_status
  pc,       \* control point of each request
  key, want,\* what a toggle was asked to set, and to what
  targets,  \* set_private of each panic-stop
  todo,     \* videos it has not yet made private
  result,   \* answer of each request
  clean,    \* since the start no two requests overlapped, no answer was lost
  halted,   \* a halt or a failed panic-stop removed the jobs
  lost,     \* lost answers left
  crashes   \* process stops left

switch == <<flag, lock, trail, jobs>>
videos == <<youtube, row>>
request == <<pc, key, want, targets, todo, result>>
vars == <<up, switch, firing, videos, request, clean, halted, lost, crashes>>

InFlight == {q \in Requests : pc[q] \notin {"idle", "done"}}

\* The migration seeds scheduler_enabled = false and dryrun_enabled = true.
Seed == [k \in Keys |-> k = Mode]

Init ==
  /\ up = TRUE
  /\ flag = Seed
  /\ lock = [k \in Keys |-> NoRequest]
  /\ trail = [k \in Keys |-> <<>>]
  /\ jobs = FALSE
  /\ firing = {}
  /\ youtube = [v \in Videos |-> "public"]
  /\ row = [v \in Videos |-> "public"]
  /\ pc = [q \in Requests |-> "idle"]
  /\ key = [t \in Toggles |-> Scheduler]
  /\ want = [t \in Toggles |-> FALSE]
  /\ targets = [p \in Panics |-> {}]
  /\ todo = [p \in Panics |-> {}]
  /\ result = [q \in Requests |-> "none"]
  /\ clean = TRUE
  /\ halted = FALSE
  /\ lost = MaxLost
  /\ crashes = MaxCrashes

-----------------------------------------------------------------------------
(* Helpers *)

Goto(q, label) == pc' = [pc EXCEPT ![q] = label]
Answer(q, outcome) ==
  /\ Goto(q, "done")
  /\ result' = [result EXCEPT ![q] = outcome]
Overlap == clean' = (clean /\ InFlight = {})

\* The upsert waits while another transaction holds the row.
TakeLock(q, k) == lock[k] = NoRequest /\ lock' = [lock EXCEPT ![k] = q]
Unlock(q) == lock' = [k \in Keys |-> IF lock[k] = q THEN NoRequest ELSE lock[k]]

\* What a request's commit writes: the flag and its audit entry, at once.
PersistFlagOnly(q, k, value) ==
  /\ flag' = [flag EXCEPT ![k] = value]
  /\ UNCHANGED trail
Persist(q, k, value) ==
  /\ flag' = [flag EXCEPT ![k] = value]
  /\ trail' = [trail EXCEPT ![k] = Append(@, [by |-> q, to |-> value])]

-----------------------------------------------------------------------------
(* PUT /scheduler and PUT /scheduler/mode *)

\* The flag is read without a lock; a request for the value read is a no-op.
ToggleRead(t) ==
  /\ up /\ pc[t] = "idle"
  /\ \E k \in Keys, w \in BOOLEAN :
       /\ key' = [key EXCEPT ![t] = k]
       /\ want' = [want EXCEPT ![t] = w]
       /\ \/ flag[k] = w /\ Answer(t, "ok")
          \/ flag[k] # w /\ Goto(t, "read") /\ UNCHANGED result
  /\ Overlap
  /\ UNCHANGED <<up, switch, firing, videos, targets, todo, halted, lost, crashes>>

ToggleUpsert(t) ==
  /\ pc[t] = "read"
  /\ TakeLock(t, key[t])
  /\ Goto(t, "wrote")
  /\ UNCHANGED <<up, flag, trail, jobs, firing, videos, key, want, targets, todo,
                 result, clean, halted, lost, crashes>>

ToggleCommit(t) ==
  /\ pc[t] = "wrote"
  /\ Persist(t, key[t], want[t])
  /\ Unlock(t)
  /\ Goto(t, "committed")
  /\ UNCHANGED <<up, jobs, firing, videos, key, want, targets, todo, result, clean,
                 halted, lost, crashes>>

\* The commit is applied but its answer never arrives: the handler raises.
ToggleLost(t) ==
  /\ pc[t] = "wrote" /\ lost > 0
  /\ lost' = lost - 1
  /\ Persist(t, key[t], want[t])
  /\ Unlock(t)
  /\ Answer(t, "error")
  /\ clean' = FALSE
  /\ UNCHANGED <<up, jobs, firing, videos, key, want, targets, todo, halted, crashes>>

\* A database error before the commit: get_session rolls back.
ToggleRollback(t) ==
  /\ pc[t] \in {"read", "wrote"}
  /\ Unlock(t)
  /\ Answer(t, "error")
  /\ UNCHANGED <<up, flag, trail, jobs, firing, videos, key, want, targets, todo, clean,
                 halted, lost, crashes>>

ToggleApplyBlind(t) ==
  /\ pc[t] = "committed"
  /\ jobs' = TRUE
  /\ halted' = FALSE
  /\ Answer(t, "ok")
  /\ UNCHANGED <<up, flag, lock, trail, firing, videos, key, want, targets, todo, clean,
                 lost, crashes>>

\* After the commit: enable() registers the jobs, disable() removes them; the
\* mode has none.
ToggleApply(t) ==
  /\ pc[t] = "committed"
  /\ \/ /\ key[t] = Scheduler
        /\ jobs' = want[t]
        /\ halted' = (halted /\ ~want[t])
     \/ key[t] = Mode /\ UNCHANGED <<jobs, halted>>
  /\ Answer(t, "ok")
  /\ UNCHANGED <<up, flag, lock, trail, firing, videos, key, want, targets, todo, clean,
                 lost, crashes>>

-----------------------------------------------------------------------------
(* POST /scheduler/panic-stop *)

\* The jobs go first, before anything is written.
PanicDisable(p) ==
  /\ up /\ pc[p] = "idle"
  /\ jobs' = FALSE
  /\ \E T \in SUBSET Videos : targets' = [targets EXCEPT ![p] = T]
  /\ Goto(p, "read")
  /\ Overlap
  /\ UNCHANGED <<up, flag, lock, trail, firing, videos, key, want, todo, result, halted,
                 lost, crashes>>

PanicFailsLocked(p) ==
  /\ pc[p] \in {"read", "wrote"}
  /\ Answer(p, "error")
  /\ halted' = TRUE
  /\ UNCHANGED <<up, flag, lock, trail, jobs, firing, row, key, want, targets, todo, clean,
                 lost, crashes>>

\* Wherever it stops, a failed panic-stop rolls its transaction back; the jobs
\* stay removed and what was changed on YouTube stays changed.
PanicFails(p) ==
  /\ pc[p] \in {"read", "wrote"}
  /\ Unlock(p)
  /\ Answer(p, "error")
  /\ halted' = TRUE
  /\ UNCHANGED <<up, flag, trail, jobs, firing, row, key, want, targets, todo, clean,
                 lost, crashes>>

PanicUpsert(p) ==
  /\ pc[p] = "read"
  /\ TakeLock(p, Scheduler)
  /\ todo' = [todo EXCEPT ![p] = targets[p]]
  /\ Goto(p, "wrote")
  /\ UNCHANGED <<up, flag, trail, jobs, firing, videos, key, want, targets, result, clean,
                 halted, lost, crashes>>

\* set_privacy: a 4xx or 5xx is refused and raises; a timeout raises too, and
\* the change may have been made.
Refused(v) == UNCHANGED youtube
Made(v) == youtube' = [youtube EXCEPT ![v] = "private"]

PanicVideo(p, v) ==
  /\ pc[p] = "wrote" /\ v \in todo[p]
  /\ Made(v)
  /\ todo' = [todo EXCEPT ![p] = @ \ {v}]
  /\ UNCHANGED <<up, switch, firing, row, pc, key, want, targets, result, clean, halted,
                 lost, crashes>>
PanicVideoFails(p, v) ==
  /\ pc[p] = "wrote" /\ v \in todo[p]
  /\ Made(v) \/ Refused(v)
  /\ PanicFails(p)

\* A database error; YouTube is not involved.
PanicDatabaseFails(p) == PanicFails(p) /\ UNCHANGED youtube

PanicPersistEarly(p) ==
  /\ pc[p] = "wrote"
  /\ Persist(p, Scheduler, FALSE)
  /\ row' = [v \in Videos |-> IF v \in targets[p] THEN "private" ELSE row[v]]
  /\ Unlock(p)
PanicPersist(p) ==
  /\ pc[p] = "wrote" /\ todo[p] = {}
  /\ Persist(p, Scheduler, FALSE)
  /\ row' = [v \in Videos |-> IF v \in targets[p] THEN "private" ELSE row[v]]
  /\ Unlock(p)

PanicCommit(p) ==
  /\ PanicPersist(p)
  /\ Answer(p, "ok")
  /\ UNCHANGED <<up, jobs, firing, youtube, key, want, targets, todo, clean, halted, lost,
                 crashes>>

PanicLost(p) ==
  /\ lost > 0 /\ lost' = lost - 1
  /\ PanicPersist(p)
  /\ Answer(p, "error")
  /\ clean' = FALSE
  /\ UNCHANGED <<up, jobs, firing, youtube, key, want, targets, todo, halted, crashes>>

-----------------------------------------------------------------------------
(* Cron slots *)

SlotFires(s) ==
  /\ up /\ jobs /\ s \notin firing
  /\ firing' = firing \cup {s}
  /\ UNCHANGED <<up, switch, videos, request, clean, halted, lost, crashes>>

\* The run ended, or failed with an error that is only notified.
SlotEnds(s) ==
  /\ s \in firing
  /\ firing' = firing \ {s}
  /\ UNCHANGED <<up, switch, videos, request, clean, halted, lost, crashes>>

\* SchedulerHaltError: the jobs are removed; the flag is not written.
SlotHalts(s) ==
  /\ s \in firing
  /\ firing' = firing \ {s}
  /\ jobs' = FALSE
  /\ halted' = TRUE
  /\ UNCHANGED <<up, flag, lock, trail, videos, request, clean, lost, crashes>>

-----------------------------------------------------------------------------
(* The process *)

\* Requests in flight end unanswered; their transactions are rolled back.
Crash ==
  /\ up /\ crashes > 0
  /\ up' = FALSE
  /\ crashes' = crashes - 1
  /\ jobs' = FALSE
  /\ firing' = {}
  /\ lock' = [k \in Keys |-> NoRequest]
  /\ pc' = [q \in Requests |-> IF q \in InFlight THEN "done" ELSE pc[q]]
  /\ result' = [q \in Requests |-> IF q \in InFlight THEN "error" ELSE result[q]]
  /\ UNCHANGED <<flag, trail, videos, key, want, targets, todo, clean, halted, lost>>

\* The lifespan registers the jobs when the stored flag is true.
Start ==
  /\ ~up
  /\ up' = TRUE
  /\ jobs' = flag[Scheduler]
  /\ clean' = TRUE
  /\ halted' = FALSE
  /\ UNCHANGED <<flag, lock, trail, firing, videos, request, lost, crashes>>

Toggle(t) == \/ ToggleRead(t) \/ ToggleUpsert(t) \/ ToggleCommit(t) \/ ToggleLost(t)
             \/ ToggleRollback(t) \/ ToggleApply(t)
Panic(p) == \/ PanicDisable(p) \/ PanicUpsert(p) \/ PanicCommit(p) \/ PanicLost(p)
            \/ PanicDatabaseFails(p)
            \/ \E v \in Videos : PanicVideo(p, v) \/ PanicVideoFails(p, v)
Slot(s) == SlotFires(s) \/ SlotEnds(s) \/ SlotHalts(s)

Next == \/ \E t \in Toggles : Toggle(t)
        \/ \E p \in Panics : Panic(p)
        \/ \E s \in Slots : Slot(s)
        \/ Crash \/ Start

Spec == Init /\ [][Next]_vars

\* A handler that has begun keeps being scheduled, its database and HTTP calls
\* end (the HTTP client has a timeout) and a free row lock is granted to a
\* waiting upsert.  Nothing is assumed of errors.
FairSpec ==
  /\ Spec
  /\ \A t \in Toggles : WF_vars(ToggleUpsert(t) \/ ToggleCommit(t) \/ ToggleApply(t))
  /\ \A p \in Panics :
       WF_vars(PanicUpsert(p) \/ PanicCommit(p) \/ \E v \in Videos : PanicVideo(p, v))

-----------------------------------------------------------------------------
(* Properties *)

Privacy == {"public", "private"}
PC == {"idle", "read", "wrote", "committed", "done"}

\* Every variable keeps its type; a video is public or private, never anything
\* set_private could not have asked for.
TypeOK ==
  /\ up \in BOOLEAN /\ jobs \in BOOLEAN /\ clean \in BOOLEAN /\ halted \in BOOLEAN
  /\ flag \in [Keys -> BOOLEAN]
  /\ lock \in [Keys -> Requests \cup {NoRequest}]
  /\ trail \in [Keys -> Seq([by : Requests, to : BOOLEAN])]
  /\ firing \subseteq Slots
  /\ youtube \in [Videos -> Privacy]
  /\ row \in [Videos -> Privacy]
  /\ pc \in [Requests -> PC]
  /\ key \in [Toggles -> Keys]
  /\ want \in [Toggles -> BOOLEAN]
  /\ targets \in [Panics -> SUBSET Videos]
  /\ todo \in [Panics -> SUBSET Videos]
  /\ result \in [Requests -> {"none", "ok", "error"}]
  /\ lost \in 0 .. MaxLost
  /\ crashes \in 0 .. MaxCrashes

Quiet == up /\ InFlight = {}

\* The last audit entry of a key tells its stored value, whatever failed,
\* crashed or lost its answer: flag and entry are committed together.
FlagIsAudited ==
  \A k \in Keys :
    flag[k] = IF trail[k] = <<>> THEN Seed[k] ELSE trail[k][Len(trail[k])].to

\* A video whose row says private is private on YouTube: YouTube is changed
\* first and the row only if that raised nothing.
PrivateRowIsPrivate ==
  \A v \in Videos : row[v] = "private" => youtube[v] = "private"

\* A panic-stop that answered with success has made every video it was given
\* private, on YouTube and in the rows.
PanicMadePrivate ==
  \A p \in Panics : result[p] = "ok" =>
    \A v \in targets[p] : youtube[v] = "private" /\ row[v] = "private"

\* The rows, the answers of panic-stops and YouTube agree on what is private.
PrivacyAgrees == PrivateRowIsPrivate /\ PanicMadePrivate

\* While no request is in flight the two halves of the switch agree: as long
\* as requests came one after the other and none lost its answer, the jobs are
\* registered exactly when the flag is set and nothing halted the scheduler.
JobsMatchFlag ==
  Quiet /\ clean => jobs = (flag[Scheduler] /\ ~halted)

\* A request that has read its flag is answered: no row lock outlives the
\* request that took it, and none waits for ever.
RequestsEnd ==
  \A q \in Requests : pc[q] # "idle" ~> pc[q] = "done"

-----------------------------------------------------------------------------
(* What the repository says and the code does not do *)

\* panic_stop: the scheduler is stopped and the flag says so.  Once the last
\* committed decision is a panic-stop and nothing is in flight, no posting job
\* is registered.
PanicLeavesNoJobs ==
  LET log == trail[Scheduler] IN
    Quiet /\ log # <<>> /\ log[Len(log)].by \in Panics => ~jobs
=============================================================================

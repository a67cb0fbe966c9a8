-------------------------- MODULE SchedulerProofs --------------------------
(***************************************************************************)
(* Flag, audit trail, jobs and privacy, for every number of requests,      *)
(* slots, videos, lost answers and stops.                                  *)
(***************************************************************************)
EXTENDS SchedulerControl, TLAPS

\* What a panic-stop has ticked off its list is private on YouTube, and an
\* answer of success is its last step.
ProgressInv ==
  /\ \A p \in Panics : pc[p] = "wrote" =>
       \A v \in targets[p] : v \notin todo[p] => youtube[v] = "private"
  /\ \A p \in Panics : result[p] = "ok" => pc[p] = "done"

Agreed == jobs = (flag[Scheduler] /\ ~halted)
Flying(q) == pc[q] \notin {"idle", "done"}

\* A request whose work has not, or not yet, touched flag or jobs.
Harmless(q) ==
  q \in Toggles /\ (pc[q] \in {"read", "wrote"} \/ key[q] = Mode)

\* While all is clean there is one request at most, and it is known where it
\* stands between the two halves of the switch.
CleanInv ==
  clean /\ up =>
    /\ \A q, r \in Requests : Flying(q) /\ Flying(r) => q = r
    /\ (\A q \in Requests : Flying(q) => Harmless(q)) => Agreed
    /\ \A t \in Toggles : pc[t] = "committed" /\ key[t] = Scheduler =>
         flag[Scheduler] = want[t]
    /\ \A p \in Panics : Flying(p) => ~jobs

StoppedInv == ~up => (\A q \in Requests : ~Flying(q))

\* A panic-stop has no third step.
StageInv == \A p \in Panics : pc[p] # "committed"

IInv ==
  /\ TypeOK
  /\ FlagIsAudited
  /\ PrivacyAgrees /\ ProgressInv
  /\ CleanInv /\ StoppedInv /\ StageInv

-----------------------------------------------------------------------------
(* Types *)

LEMMA KeysType == Scheduler \in Keys /\ Mode \in Keys /\ Scheduler # Mode
BY DEF Keys, Scheduler, Mode

LEMMA InitType == Init => TypeOK
<1> SUFFICES ASSUME Init PROVE TypeOK
  OBVIOUS
<1>1. flag \in [Keys -> BOOLEAN]
  BY DEF Init, Seed
<1>2. trail \in [Keys -> Seq([by : Requests, to : BOOLEAN])]
  BY DEF Init
<1>3. up \in BOOLEAN /\ jobs \in BOOLEAN /\ clean \in BOOLEAN /\ halted \in BOOLEAN
  BY Zenon DEF Init
<1>4. lost \in 0 .. MaxLost /\ crashes \in 0 .. MaxCrashes
  BY BoundAssumption DEF Init
<1> QED BY <1>1, <1>2, <1>3, <1>4, KeysType DEF Init, TypeOK, Privacy, PC

LEMMA PersistType ==
  ASSUME TypeOK, NEW q \in Requests, NEW k \in Keys, NEW value \in BOOLEAN,
         Persist(q, k, value)
  PROVE  /\ flag' \in [Keys -> BOOLEAN]
         /\ trail' \in [Keys -> Seq([by : Requests, to : BOOLEAN])]
<1>1. flag' \in [Keys -> BOOLEAN]
  BY DEF Persist, TypeOK
<1>2. Append(trail[k], [by |-> q, to |-> value]) \in Seq([by : Requests, to : BOOLEAN])
  <2> DEFINE entry == [by |-> q, to |-> value]
             Entries == [by : Requests, to : BOOLEAN]
  <2>1. entry \in Entries
    OBVIOUS
  <2>2. trail[k] \in Seq(Entries)
    BY DEF TypeOK
  <2> HIDE DEF entry, Entries
  <2>3. Append(trail[k], entry) \in Seq(Entries)
    BY <2>1, <2>2
  <2> QED BY <2>3 DEF entry, Entries
<1> QED BY <1>1, <1>2 DEF Persist, TypeOK

LEMMA UnlockType ==
  ASSUME TypeOK, NEW q, Unlock(q)
  PROVE  lock' \in [Keys -> Requests \cup {NoRequest}]
BY DEF TypeOK, Unlock

LEMMA ToggleType ==
  ASSUME TypeOK, NEW t \in Toggles, Toggle(t)
  PROVE  TypeOK'
<1> USE DEF TypeOK, PC, Goto, Answer, Requests
<1>1. t \in Requests /\ key[t] \in Keys /\ want[t] \in BOOLEAN
  OBVIOUS
<1>2. CASE ToggleRead(t)
  <2>1. PICK k \in Keys, w \in BOOLEAN :
          /\ key' = [key EXCEPT ![t] = k]
          /\ want' = [want EXCEPT ![t] = w]
          /\ \/ Answer(t, "ok")
             \/ Goto(t, "read") /\ UNCHANGED result
    BY <1>2 DEF ToggleRead
  <2>2. key' \in [Toggles -> Keys] /\ want' \in [Toggles -> BOOLEAN]
    BY <2>1
  <2>3. pc' \in [Requests -> PC] /\ result' \in [Requests -> {"none", "ok", "error"}]
    BY <1>1, <2>1
  <2>4. clean' \in BOOLEAN
    BY <1>2 DEF ToggleRead, Overlap
  <2> QED BY <1>2, <2>2, <2>3, <2>4 DEF ToggleRead, switch, videos
<1>3. CASE ToggleUpsert(t)
  BY <1>1, <1>3 DEF ToggleUpsert, TakeLock, videos
<1>4. CASE ToggleCommit(t)
  BY <1>1, <1>4, PersistType, UnlockType DEF ToggleCommit, videos
<1>5. CASE ToggleLost(t)
  <2>1. lost' \in 0 .. MaxLost
    BY <1>5, BoundAssumption DEF ToggleLost
  <2>2. /\ flag' \in [Keys -> BOOLEAN]
        /\ trail' \in [Keys -> Seq([by : Requests, to : BOOLEAN])]
        /\ lock' \in [Keys -> Requests \cup {NoRequest}]
    BY <1>1, <1>5, PersistType, UnlockType DEF ToggleLost
  <2> QED BY <1>1, <1>5, <2>1, <2>2 DEF ToggleLost, videos
<1>6. CASE ToggleRollback(t)
  BY <1>1, <1>6, UnlockType DEF ToggleRollback, videos
<1>7. CASE ToggleApply(t)
  <2>1. jobs' \in BOOLEAN /\ halted' \in BOOLEAN
    BY <1>1, <1>7 DEF ToggleApply
  <2> QED BY <1>1, <1>7, <2>1 DEF ToggleApply, videos
<1> QED BY <1>2, <1>3, <1>4, <1>5, <1>6, <1>7 DEF Toggle

LEMMA PanicType ==
  ASSUME TypeOK, NEW p \in Panics, Panic(p)
  PROVE  TypeOK'
<1> USE DEF TypeOK, PC, Goto, Answer, Requests
<1>1. p \in Requests /\ Scheduler \in Keys
  BY KeysType
<1>2. CASE PanicDisable(p)
  <2>1. clean' \in BOOLEAN /\ jobs' \in BOOLEAN
    BY <1>2 DEF PanicDisable, Overlap
  <2> QED BY <1>1, <1>2, <2>1 DEF PanicDisable, videos
<1>3. CASE PanicUpsert(p)
  BY <1>1, <1>3 DEF PanicUpsert, TakeLock, videos
<1>4. ASSUME PanicPersist(p)
      PROVE  /\ flag' \in [Keys -> BOOLEAN]
             /\ trail' \in [Keys -> Seq([by : Requests, to : BOOLEAN])]
             /\ lock' \in [Keys -> Requests \cup {NoRequest}]
             /\ row' \in [Videos -> Privacy]
  <2>1. row' \in [Videos -> Privacy]
    BY <1>4 DEF PanicPersist, Privacy
  <2> QED BY <1>1, <1>4, <2>1, PersistType, UnlockType DEF PanicPersist
<1>5. CASE PanicCommit(p)
  BY <1>1, <1>4, <1>5 DEF PanicCommit
<1>6. CASE PanicLost(p)
  <2>1. lost' \in 0 .. MaxLost
    BY <1>6, BoundAssumption DEF PanicLost
  <2> QED BY <1>1, <1>4, <1>6, <2>1 DEF PanicLost, PanicPersist
<1>7. ASSUME PanicFails(p), youtube' \in [Videos -> Privacy]
      PROVE  TypeOK'
  BY <1>1, <1>7, UnlockType DEF PanicFails
<1>8. CASE PanicDatabaseFails(p)
  BY <1>7, <1>8 DEF PanicDatabaseFails
<1>9. ASSUME NEW v \in Videos
      PROVE  Made(v) \/ Refused(v) => youtube' \in [Videos -> Privacy]
  BY DEF Made, Refused, Privacy
<1>10. ASSUME NEW v \in Videos, PanicVideo(p, v)
       PROVE  TypeOK'
  BY <1>9, <1>10 DEF PanicVideo, switch
<1>11. ASSUME NEW v \in Videos, PanicVideoFails(p, v)
       PROVE  TypeOK'
  BY <1>7, <1>9, <1>11 DEF PanicVideoFails
<1> QED BY <1>2, <1>3, <1>5, <1>6, <1>8, <1>10, <1>11 DEF Panic

LEMMA OtherType ==
  ASSUME TypeOK, (\E s \in Slots : Slot(s)) \/ Crash \/ Start \/ UNCHANGED vars
  PROVE  TypeOK'
<1>1. CASE \E s \in Slots : Slot(s)
  BY <1>1 DEF TypeOK, Slot, SlotFires, SlotEnds, SlotHalts, switch, videos, request
<1>2. CASE Crash
  <2>1. pc' \in [Requests -> PC] /\ result' \in [Requests -> {"none", "ok", "error"}]
    BY <1>2 DEF Crash, TypeOK, PC
  <2>2. lock' \in [Keys -> Requests \cup {NoRequest}]
    BY <1>2 DEF Crash
  <2>3. crashes' \in 0 .. MaxCrashes
    BY <1>2, BoundAssumption DEF Crash, TypeOK
  <2> QED BY <1>2, <2>1, <2>2, <2>3 DEF Crash, TypeOK, videos
<1>3. CASE Start
  BY <1>3, KeysType DEF Start, TypeOK, videos, request
<1>4. CASE UNCHANGED vars
  BY <1>4 DEF TypeOK, vars, switch, videos, request
<1> QED BY <1>1, <1>2, <1>3, <1>4

LEMMA TypeStep ==
  ASSUME TypeOK, [Next]_vars
  PROVE  TypeOK'
BY ToggleType, PanicType, OtherType DEF Next

-----------------------------------------------------------------------------
(* The audit trail *)

\* One commit writes flag and entry; a request writes no other key.
LEMMA PersistAudit ==
  ASSUME TypeOK, FlagIsAudited, NEW q \in Requests, NEW k \in Keys, NEW value \in BOOLEAN,
         Persist(q, k, value)
  PROVE  FlagIsAudited'
<1> DEFINE entry == [by |-> q, to |-> value]
           Entries == [by : Requests, to : BOOLEAN]
           log == Append(trail[k], entry)
<1>1. entry \in Entries /\ entry.to = value
  OBVIOUS
<1>2. trail[k] \in Seq(Entries)
  BY DEF TypeOK
<1>3. log # <<>> /\ log[Len(log)] = entry
  <2> HIDE DEF entry, Entries
  <2> QED BY <1>1, <1>2
<1>4. /\ \A j \in Keys : trail'[j] = IF j = k THEN log ELSE trail[j]
      /\ \A j \in Keys : flag'[j] = IF j = k THEN value ELSE flag[j]
  BY DEF Persist, TypeOK
<1> HIDE DEF log, entry
<1> QED BY <1>1, <1>3, <1>4 DEF FlagIsAudited

LEMMA AuditStep ==
  ASSUME TypeOK, FlagIsAudited, [Next]_vars
  PROVE  FlagIsAudited'
<1>1. ASSUME UNCHANGED <<flag, trail>>
      PROVE  FlagIsAudited'
  BY <1>1 DEF FlagIsAudited
<1>2. ASSUME NEW t \in Toggles, ToggleCommit(t) \/ ToggleLost(t)
      PROVE  FlagIsAudited'
  <2>1. t \in Requests /\ key[t] \in Keys /\ want[t] \in BOOLEAN
    BY DEF TypeOK, Requests
  <2> QED BY <1>2, <2>1, PersistAudit DEF ToggleCommit, ToggleLost
<1>3. ASSUME NEW p \in Panics, PanicPersist(p)
      PROVE  FlagIsAudited'
  <2>1. p \in Requests
    BY DEF Requests
  <2> QED BY <1>3, <2>1, PersistAudit, KeysType DEF PanicPersist
<1>4. ASSUME NEW t \in Toggles,
             ToggleRead(t) \/ ToggleUpsert(t) \/ ToggleRollback(t) \/ ToggleApply(t)
      PROVE  FlagIsAudited'
  BY <1>1, <1>4 DEF ToggleRead, ToggleUpsert, ToggleRollback, ToggleApply, switch
<1>5. ASSUME NEW p \in Panics,
             \/ PanicDisable(p) \/ PanicUpsert(p) \/ PanicDatabaseFails(p)
             \/ \E v \in Videos : PanicVideo(p, v) \/ PanicVideoFails(p, v)
      PROVE  FlagIsAudited'
  BY <1>1, <1>5 DEF PanicDisable, PanicUpsert, PanicDatabaseFails, PanicVideo,
                    PanicVideoFails, PanicFails, switch
<1>6. CASE (\E s \in Slots : Slot(s)) \/ Crash \/ Start \/ UNCHANGED vars
  BY <1>1, <1>6 DEF Slot, SlotFires, SlotEnds, SlotHalts, Crash, Start, vars, switch
<1> QED BY <1>2, <1>3, <1>4, <1>5, <1>6 DEF Next, Toggle, Panic, PanicCommit, PanicLost

-----------------------------------------------------------------------------
(* Privacy *)

PrivacyInv == PrivacyAgrees /\ ProgressInv /\ StageInv

\* A step that leaves the videos alone and gives no panic-stop the answer of
\* success or a place in its loop.
LEMMA VideosKept ==
  ASSUME PrivacyInv, UNCHANGED <<youtube, row>>,
         \A p \in Panics :
           \/ /\ pc'[p] = pc[p] /\ result'[p] = result[p]
              /\ targets'[p] = targets[p] /\ todo'[p] = todo[p]
           \/ pc'[p] \in {"read", "done"} /\ result'[p] # "ok"
  PROVE  PrivacyInv'
BY DEF PrivacyInv, PrivacyAgrees, PrivateRowIsPrivate, PanicMadePrivate, ProgressInv, StageInv

LEMMA TogglePrivacy ==
  ASSUME TypeOK, PrivacyInv, NEW t \in Toggles, Toggle(t)
  PROVE  PrivacyInv'
<1>1. UNCHANGED <<youtube, row, targets, todo>>
  BY DEF Toggle, ToggleRead, ToggleUpsert, ToggleCommit, ToggleLost, ToggleRollback,
         ToggleApply, videos
<1>2. ASSUME NEW p \in Panics
      PROVE  pc'[p] = pc[p] /\ result'[p] = result[p]
  <2>1. p # t
    BY RequestAssumption
  <2>2. p \in Requests
    BY DEF Requests
  <2> QED BY <2>1, <2>2 DEF Toggle, ToggleRead, ToggleUpsert, ToggleCommit, ToggleLost,
             ToggleRollback, ToggleApply, Goto, Answer, TypeOK
<1> QED BY <1>1, <1>2, VideosKept

\* A step of one panic-stop leaves the others where they are.
LEMMA OthersStay ==
  ASSUME TypeOK, NEW p \in Panics, Panic(p)
  PROVE  \A q \in Requests : q # p =>
           /\ pc'[q] = pc[q] /\ result'[q] = result[q]
           /\ q \in Panics => targets'[q] = targets[q] /\ todo'[q] = todo[q]
BY DEF Panic, PanicDisable, PanicUpsert, PanicCommit, PanicLost, PanicDatabaseFails,
       PanicVideo, PanicVideoFails, PanicFails, Goto, Answer, TypeOK

LEMMA PanicPrivacy ==
  ASSUME TypeOK, PrivacyInv, NEW p \in Panics, Panic(p)
  PROVE  PrivacyInv'
<1>1. p \in Requests /\ Panics \subseteq Requests
  BY DEF Requests
<1>2. \A q \in Panics : q # p =>
        /\ pc'[q] = pc[q] /\ result'[q] = result[q]
        /\ targets'[q] = targets[q] /\ todo'[q] = todo[q]
  BY <1>1, OthersStay
<1>3. CASE PanicDisable(p)
  <2>1. pc'[p] = "read" /\ result'[p] = result[p] /\ UNCHANGED <<youtube, row>>
    BY <1>1, <1>3 DEF PanicDisable, Goto, TypeOK, videos
  <2>2. result[p] # "ok"
    BY <1>3 DEF PanicDisable, PrivacyInv, ProgressInv
  <2> QED BY <1>2, <2>1, <2>2, VideosKept
<1>4. CASE PanicUpsert(p)
  <2>1. /\ pc'[p] = "wrote" /\ result'[p] = result[p] /\ targets'[p] = targets[p]
        /\ todo'[p] = targets[p] /\ UNCHANGED <<youtube, row>>
    BY <1>1, <1>4 DEF PanicUpsert, Goto, TypeOK, videos
  <2>2. pc[p] = "read"
    BY <1>4 DEF PanicUpsert
  <2> QED BY <1>2, <2>1, <2>2 DEF PrivacyInv, PrivacyAgrees, PrivateRowIsPrivate,
             PanicMadePrivate, ProgressInv, StageInv
<1>5. CASE PanicCommit(p) \/ PanicLost(p)
  <2>1. /\ pc[p] = "wrote" /\ todo[p] = {} /\ UNCHANGED <<youtube, targets>>
        /\ pc'[p] = "done" /\ todo'[p] = todo[p]
    BY <1>1, <1>5 DEF PanicCommit, PanicLost, PanicPersist, Answer, Goto, TypeOK
  <2>2. \A v \in Videos : row'[v] = IF v \in targets[p] THEN "private" ELSE row[v]
    BY <1>5 DEF PanicCommit, PanicLost, PanicPersist
  <2>3. \A v \in targets[p] : v \in Videos /\ youtube[v] = "private"
    BY <1>1, <2>1 DEF PrivacyInv, ProgressInv, TypeOK
  <2>4. \A q \in Panics : targets[q] \subseteq Videos
    BY DEF TypeOK
  <2> QED BY <1>2, <2>1, <2>2, <2>3, <2>4 DEF PrivacyInv, PrivacyAgrees,
             PrivateRowIsPrivate, PanicMadePrivate, ProgressInv, StageInv
<1>6. ASSUME NEW v \in Videos, Made(v) \/ Refused(v)
      PROVE  \A u \in Videos : youtube'[u] \in {youtube[u], "private"}
  BY <1>6 DEF Made, Refused, TypeOK
<1>7. ASSUME PanicFails(p),
             \A u \in Videos : youtube[u] = "private" => youtube'[u] = "private"
      PROVE  PrivacyInv'
  <2>1. row' = row /\ pc'[p] = "done" /\ result'[p] = "error" /\ targets' = targets /\ todo' = todo
    BY <1>1, <1>7 DEF PanicFails, Answer, Goto, TypeOK
  <2>2. \A q \in Panics : targets[q] \subseteq Videos
    BY DEF TypeOK
  <2> QED BY <1>2, <1>7, <2>1, <2>2 DEF PrivacyInv, PrivacyAgrees, PrivateRowIsPrivate,
             PanicMadePrivate, ProgressInv, StageInv
<1>8. CASE PanicDatabaseFails(p)
  BY <1>7, <1>8 DEF PanicDatabaseFails
<1>9. ASSUME NEW v \in Videos, PanicVideoFails(p, v)
      PROVE  PrivacyInv'
  BY <1>6, <1>7, <1>9 DEF PanicVideoFails
<1>10. ASSUME NEW v \in Videos, PanicVideo(p, v)
       PROVE  PrivacyInv'
  <2>1. /\ UNCHANGED <<row, pc, targets, result>> /\ todo'[p] = todo[p] \ {v}
        /\ \A u \in Videos : youtube'[u] = IF u = v THEN "private" ELSE youtube[u]
    BY <1>10 DEF PanicVideo, Made, TypeOK
  <2>2. \A q \in Panics : targets[q] \subseteq Videos
    BY DEF TypeOK
  <2> QED BY <1>2, <2>1, <2>2 DEF PrivacyInv, PrivacyAgrees, PrivateRowIsPrivate,
             PanicMadePrivate, ProgressInv, StageInv
<1> QED BY <1>3, <1>4, <1>5, <1>8, <1>9, <1>10 DEF Panic

LEMMA OtherPrivacy ==
  ASSUME TypeOK, PrivacyInv, (\E s \in Slots : Slot(s)) \/ Crash \/ Start \/ UNCHANGED vars
  PROVE  PrivacyInv'
<1>1. UNCHANGED <<youtube, row, targets, todo>>
  BY DEF Slot, SlotFires, SlotEnds, SlotHalts, Crash, Start, vars, videos, request
<1>2. ASSUME NEW p \in Panics
      PROVE  \/ pc'[p] = pc[p] /\ result'[p] = result[p]
             \/ pc'[p] = "done" /\ result'[p] # "ok"
  <2>1. p \in Requests
    BY DEF Requests
  <2>2. CASE Crash
    BY <2>1, <2>2 DEF Crash
  <2>3. CASE (\E s \in Slots : Slot(s)) \/ Start \/ UNCHANGED vars
    BY <2>3 DEF Slot, SlotFires, SlotEnds, SlotHalts, Start, vars, request
  <2> QED BY <2>2, <2>3
<1> QED BY <1>1, <1>2, VideosKept

LEMMA PrivacyStep ==
  ASSUME TypeOK, PrivacyInv, [Next]_vars
  PROVE  PrivacyInv'
BY TogglePrivacy, PanicPrivacy, OtherPrivacy DEF Next

-----------------------------------------------------------------------------
(* Flag and jobs *)

JobsInv == CleanInv /\ StoppedInv

\* A step of one request leaves the others where they are.
LEMMA Alone ==
  ASSUME TypeOK, NEW q \in Requests,
         (q \in Toggles /\ Toggle(q)) \/ (q \in Panics /\ Panic(q))
  PROVE  /\ \A r \in Requests : r # q => pc'[r] = pc[r]
         /\ \A t \in Toggles : t # q => key'[t] = key[t] /\ want'[t] = want[t]
         /\ up' = up
BY DEF Toggle, ToggleRead, ToggleUpsert, ToggleCommit, ToggleLost, ToggleRollback,
       ToggleApply, Panic, PanicDisable, PanicUpsert, PanicCommit, PanicLost,
       PanicDatabaseFails, PanicVideo, PanicVideoFails, PanicFails, PanicPersist,
       Goto, Answer, TypeOK

\* What has to be shown of a step of request q, when nobody else is in flight.
LEMMA OneInFlight ==
  ASSUME TypeOK, NEW q \in Requests,
         \A r \in Requests : r # q => ~ Flying(r)',
         Flying(q)' /\ Harmless(q)' => Agreed',
         ~ Flying(q)' => Agreed',
         q \in Toggles => (pc'[q] = "committed" /\ key'[q] = Scheduler =>
                             flag'[Scheduler] = want'[q]),
         q \in Panics => (Flying(q)' => ~ jobs')
  PROVE  CleanInv'
<1>1. \A p \in Panics : p \in Requests
  BY DEF Requests
<1>2. \A t \in Toggles : t \in Requests
  BY DEF Requests
<1>3. \A r \in Requests : pc'[r] = "committed" => Flying(r)'
  BY DEF Flying
<1>4. \A r, u \in Requests : Flying(r)' /\ Flying(u)' => r = u
  OBVIOUS
<1>5. (\A r \in Requests : Flying(r)' => Harmless(r)') => Agreed'
  OBVIOUS
<1>6. \A t \in Toggles : pc'[t] = "committed" /\ key'[t] = Scheduler =>
        flag'[Scheduler] = want'[t]
  BY <1>2, <1>3
<1>7. \A p \in Panics : Flying(p)' => ~ jobs'
  BY <1>1
<1> QED BY <1>4, <1>5, <1>6, <1>7, Zenon DEF CleanInv

LEMMA ToggleJobs ==
  ASSUME TypeOK, JobsInv, NEW t \in Toggles, Toggle(t)
  PROVE  JobsInv'
<1>1. t \in Requests
  BY DEF Requests
<1>2. t \notin Panics
  BY RequestAssumption
<1>3. /\ \A r \in Requests : r # t => pc'[r] = pc[r]
      /\ up' = up
  BY <1>1, Alone
<1>4. CASE ToggleRead(t)
  <2>1. up /\ pc'[t] \in {"read", "done"} /\ UNCHANGED <<flag, jobs, halted>>
    BY <1>1, <1>4 DEF ToggleRead, Goto, Answer, TypeOK, switch
  <2>2. clean' => clean /\ \A r \in Requests : ~ Flying(r)
    BY <1>4 DEF ToggleRead, Overlap, InFlight, Flying
  <2>3. clean' => Agreed
    BY <2>1, <2>2 DEF JobsInv, CleanInv
  <2>4. Agreed => Agreed'
    BY <2>1 DEF Agreed
  <2>5. clean' => CleanInv'
    <3> SUFFICES ASSUME clean' PROVE CleanInv'
      OBVIOUS
    <3>1. \A r \in Requests : r # t => ~ Flying(r)'
      BY <1>3, <2>2 DEF Flying
    <3> QED BY <1>1, <1>2, <2>1, <2>3, <2>4, <3>1, OneInFlight
  <2>6. ~ clean' => CleanInv'
    BY DEF CleanInv
  <2> QED BY <1>3, <2>1, <2>5, <2>6 DEF JobsInv, StoppedInv
<1>5. CASE ~ ToggleRead(t)
  <2>1. Flying(t)
    BY <1>5 DEF Toggle, ToggleUpsert, ToggleCommit, ToggleLost, ToggleRollback, ToggleApply,
       Flying
  <2>2. up
    BY <1>1, <2>1 DEF JobsInv, StoppedInv
  <2>3. clean' => clean
    BY <1>5 DEF Toggle, ToggleUpsert, ToggleCommit, ToggleLost, ToggleRollback, ToggleApply
  <2>4. ASSUME clean'
        PROVE  CleanInv'
    <3>1. clean /\ up
      BY <2>2, <2>3, <2>4
    <3>2. \A r \in Requests : r # t => ~ Flying(r)
      BY <1>1, <2>1, <3>1 DEF JobsInv, CleanInv
    <3>3. \A r \in Requests : r # t => ~ Flying(r)'
      BY <1>3, <3>2 DEF Flying
    <3>4. Harmless(t) => Agreed
      BY <3>1, <3>2 DEF JobsInv, CleanInv
    <3>5. pc[t] \in {"read", "wrote"} => Agreed
      BY <3>4 DEF Harmless
    <3>6. CASE ToggleUpsert(t) \/ ToggleRollback(t)
      <4>1. /\ pc[t] \in {"read", "wrote"} /\ pc'[t] \in {"wrote", "done"}
            /\ UNCHANGED <<flag, jobs, halted>>
        BY <1>1, <3>6 DEF ToggleUpsert, ToggleRollback, Goto, Answer, TypeOK
      <4>2. Agreed'
        BY <3>5, <4>1 DEF Agreed
      <4> QED BY <1>1, <1>2, <3>3, <4>1, <4>2, OneInFlight
    <3>7. CASE ToggleCommit(t)
      <4>1. /\ pc[t] = "wrote" /\ pc'[t] = "committed" /\ UNCHANGED <<key, want, jobs, halted>>
            /\ flag' = [flag EXCEPT ![key[t]] = want[t]]
        BY <1>1, <3>7 DEF ToggleCommit, Persist, Goto, TypeOK
      <4>2. key[t] = Scheduler => flag'[Scheduler] = want[t]
        BY <4>1, KeysType DEF TypeOK
      <4>3. key[t] # Scheduler => Agreed'
        <5>1. key[t] # Scheduler => flag'[Scheduler] = flag[Scheduler]
          BY <4>1, KeysType DEF TypeOK
        <5> QED BY <3>5, <4>1, <5>1 DEF Agreed
      <4>4. Harmless(t)' => key[t] # Scheduler
        BY <4>1, KeysType DEF Harmless
      <4>5. Flying(t)'
        BY <4>1 DEF Flying
      <4> QED BY <1>1, <1>2, <3>3, <4>1, <4>2, <4>3, <4>4, <4>5, OneInFlight
    <3>8. CASE ToggleLost(t)
      BY <2>4, <3>8 DEF ToggleLost
    <3>9. CASE ToggleApply(t)
      <4>1. pc[t] = "committed" /\ pc'[t] = "done" /\ UNCHANGED flag
        BY <1>1, <3>9 DEF ToggleApply, Answer, Goto, TypeOK
      <4>2. flag[Scheduler] \in BOOLEAN /\ want[t] \in BOOLEAN /\ halted \in BOOLEAN
        BY KeysType DEF TypeOK
      <4>3. CASE key[t] = Scheduler
        <5>1. flag[Scheduler] = want[t]
          BY <3>1, <4>1, <4>3 DEF JobsInv, CleanInv
        <5>2. jobs' = want[t] /\ halted' = (halted /\ ~ want[t])
          BY <3>9, <4>3, KeysType DEF ToggleApply
        <5>3. jobs' = (flag'[Scheduler] /\ ~ halted')
          <6>1. CASE want[t] = TRUE
            BY <4>1, <5>1, <5>2, <6>1, Zenon
          <6>2. CASE want[t] = FALSE
            BY <4>1, <5>1, <5>2, <6>2, Zenon
          <6> QED BY <4>2, <6>1, <6>2
        <5> QED BY <1>1, <1>2, <3>3, <4>1, <5>3, OneInFlight DEF Agreed, Flying
      <4>4. CASE key[t] # Scheduler
        <5>1. key[t] = Mode /\ UNCHANGED <<jobs, halted>>
          BY <3>9, <4>4 DEF ToggleApply
        <5>2. Agreed'
          BY <3>4, <4>1, <5>1 DEF Agreed, Harmless
        <5> QED BY <1>1, <1>2, <3>3, <4>1, <5>2, OneInFlight
      <4> QED BY <4>3, <4>4
    <3> QED BY <1>5, <3>6, <3>7, <3>8, <3>9 DEF Toggle
  <2>5. ~ clean' => CleanInv'
    BY DEF CleanInv
  <2> QED BY <1>3, <2>2, <2>4, <2>5 DEF JobsInv, StoppedInv
<1> QED BY <1>4, <1>5

LEMMA PanicJobs ==
  ASSUME TypeOK, JobsInv, StageInv, NEW p \in Panics, Panic(p)
  PROVE  JobsInv'
<1>1. p \in Requests
  BY DEF Requests
<1>2. p \notin Toggles
  BY RequestAssumption
<1>3. /\ \A r \in Requests : r # p => pc'[r] = pc[r]
      /\ up' = up
  BY <1>1, Alone
<1>4. ~ Harmless(p) /\ ~ Harmless(p)'
  BY <1>2 DEF Harmless
<1>5. CASE PanicDisable(p)
  <2>1. up /\ jobs' = FALSE /\ pc'[p] = "read"
    BY <1>1, <1>5 DEF PanicDisable, Goto, TypeOK
  <2>2. clean' => clean /\ \A r \in Requests : ~ Flying(r)
    BY <1>5 DEF PanicDisable, Overlap, InFlight, Flying
  <2>3. ASSUME clean'
        PROVE  CleanInv'
    <3>1. \A r \in Requests : r # p => ~ Flying(r)'
      BY <1>3, <2>2, <2>3 DEF Flying
    <3>2. Flying(p)'
      BY <2>1 DEF Flying
    <3> QED BY <1>1, <1>2, <1>4, <2>1, <3>1, <3>2, OneInFlight
  <2>4. ~ clean' => CleanInv'
    BY DEF CleanInv
  <2> QED BY <1>3, <2>1, <2>3, <2>4 DEF JobsInv, StoppedInv
<1>6. CASE ~ PanicDisable(p)
  <2>1. Flying(p)
    BY <1>6 DEF Panic, PanicUpsert, PanicCommit, PanicLost, PanicPersist, PanicDatabaseFails,
       PanicVideo, PanicVideoFails, PanicFails, Flying
  <2>2. up
    BY <1>1, <2>1 DEF JobsInv, StoppedInv
  <2>3. (clean' => clean) /\ jobs' = jobs
    <3>1. CASE PanicLost(p)
      BY <3>1 DEF PanicLost
    <3>2. CASE ~ PanicLost(p)
      <4>1. UNCHANGED <<clean, jobs>>
        BY <1>6, <3>2 DEF Panic, PanicUpsert, PanicCommit, PanicDatabaseFails, PanicVideo,
           PanicVideoFails, PanicFails, switch
      <4> QED BY <4>1
    <3> QED BY <3>1, <3>2
  <2>4. ASSUME clean'
        PROVE  CleanInv'
    <3>1. clean /\ up
      BY <2>2, <2>3, <2>4
    <3>2. \A r \in Requests : r # p => ~ Flying(r)
      BY <1>1, <2>1, <3>1 DEF JobsInv, CleanInv
    <3>3. \A r \in Requests : r # p => ~ Flying(r)'
      BY <1>3, <3>2 DEF Flying
    <3>4. jobs = FALSE /\ jobs' = FALSE
      BY <2>1, <2>3, <3>1 DEF JobsInv, CleanInv, TypeOK
    <3>5. CASE PanicUpsert(p) \/ \E v \in Videos : PanicVideo(p, v)
      <4>1. pc'[p] = "wrote"
        BY <1>1, <3>5 DEF PanicUpsert, PanicVideo, Goto, TypeOK
      <4>2. Flying(p)'
        BY <4>1 DEF Flying
      <4> QED BY <1>1, <1>2, <1>4, <3>3, <3>4, <4>2, OneInFlight
    <3>6. CASE PanicCommit(p)
      <4>1. pc'[p] = "done" /\ flag' = [flag EXCEPT ![Scheduler] = FALSE]
        BY <1>1, <3>6 DEF PanicCommit, PanicPersist, Persist, Answer, Goto, TypeOK
      <4>2. flag'[Scheduler] = FALSE
        BY <4>1, KeysType DEF TypeOK
      <4>3. Agreed' /\ ~ Flying(p)'
        BY <3>4, <4>1, <4>2 DEF Agreed, Flying
      <4> QED BY <1>1, <1>2, <3>3, <4>3, OneInFlight
    <3>7. CASE PanicLost(p)
      BY <2>4, <3>7 DEF PanicLost
    <3>8. CASE PanicFails(p)
      <4>1. pc'[p] = "done" /\ halted' = TRUE
        BY <1>1, <3>8 DEF PanicFails, Answer, Goto, TypeOK
      <4>2. Agreed' /\ ~ Flying(p)'
        BY <3>4, <4>1 DEF Agreed, Flying
      <4> QED BY <1>1, <1>2, <3>3, <4>2, OneInFlight
    <3> QED BY <1>6, <3>5, <3>6, <3>7, <3>8 DEF Panic, PanicDatabaseFails, PanicVideoFails
  <2>5. ~ clean' => CleanInv'
    BY DEF CleanInv
  <2> QED BY <1>3, <2>2, <2>4, <2>5 DEF JobsInv, StoppedInv
<1> QED BY <1>5, <1>6

LEMMA OtherJobs ==
  ASSUME TypeOK, JobsInv, (\E s \in Slots : Slot(s)) \/ Crash \/ Start \/ UNCHANGED vars
  PROVE  JobsInv'
<1>1. CASE \E s \in Slots : SlotFires(s) \/ SlotEnds(s)
  <2>1. UNCHANGED <<up, clean, pc, key, want, flag, jobs, halted>>
    BY <1>1 DEF SlotFires, SlotEnds, switch, request
  <2> QED BY <2>1 DEF JobsInv, CleanInv, StoppedInv, Agreed, Harmless, Flying
<1>2. CASE \E s \in Slots : SlotHalts(s)
  <2>1. /\ UNCHANGED <<up, clean, pc, key, want, flag>>
        /\ jobs' = FALSE /\ halted' = TRUE
    BY <1>2 DEF SlotHalts, request
  <2>2. Agreed'
    BY <2>1 DEF Agreed
  <2>3. \A q \in Requests : Flying(q)' <=> Flying(q)
    BY <2>1 DEF Flying
  <2>4. CleanInv'
    <3> SUFFICES ASSUME clean, up PROVE CleanInv'
      BY <2>1 DEF CleanInv
    <3>1. \A q, r \in Requests : Flying(q)' /\ Flying(r)' => q = r
      BY <2>3 DEF JobsInv, CleanInv
    <3>2. \A t \in Toggles : pc'[t] = "committed" /\ key'[t] = Scheduler =>
            flag'[Scheduler] = want'[t]
      BY <2>1 DEF JobsInv, CleanInv
    <3> QED BY <2>1, <2>2, <3>1, <3>2, Zenon DEF CleanInv
  <2> QED BY <2>1, <2>3, <2>4 DEF JobsInv, StoppedInv
<1>3. CASE Crash
  <2>1. up' = FALSE /\ \A q \in Requests : ~ Flying(q)'
    BY <1>3 DEF Crash, InFlight, Flying
  <2> QED BY <2>1 DEF JobsInv, CleanInv, StoppedInv
<1>4. CASE Start
  <2>1. /\ up' = TRUE /\ ~ up /\ UNCHANGED <<pc, flag>>
        /\ jobs' = flag[Scheduler] /\ halted' = FALSE
    BY <1>4 DEF Start, request
  <2>2. \A q \in Requests : ~ Flying(q)'
    BY <2>1 DEF JobsInv, StoppedInv, Flying
  <2>3. flag[Scheduler] \in BOOLEAN
    BY KeysType DEF TypeOK
  <2>4. Agreed'
    BY <2>1, <2>3 DEF Agreed
  <2>5. CleanInv'
    <3>1. \A t \in Toggles : t \in Requests /\ pc'[t] # "committed"
      BY <2>2 DEF Requests, Flying
    <3>2. \A p \in Panics : ~ Flying(p)'
      BY <2>2 DEF Requests
    <3> QED BY <2>2, <2>4, <3>1, <3>2, Zenon DEF CleanInv
  <2> QED BY <2>1, <2>5 DEF JobsInv, StoppedInv
<1>5. CASE UNCHANGED vars
  BY <1>5 DEF vars, switch, request, JobsInv, CleanInv, StoppedInv, Agreed, Harmless, Flying
<1> QED BY <1>1, <1>2, <1>3, <1>4, <1>5 DEF Slot

-----------------------------------------------------------------------------
(* Theorems *)

LEMMA InitInv == Init => IInv
<1> SUFFICES ASSUME Init PROVE IInv
  OBVIOUS
<1>1. FlagIsAudited
  BY DEF Init, FlagIsAudited
<1>2. PrivacyAgrees /\ ProgressInv /\ StageInv
  BY DEF Init, PrivacyAgrees, PrivateRowIsPrivate, PanicMadePrivate, ProgressInv, StageInv,
         Requests
<1>3. flag[Scheduler] = FALSE /\ jobs = FALSE
  BY KeysType DEF Init, Seed
<1>4. CleanInv /\ StoppedInv
  BY <1>3 DEF Init, CleanInv, StoppedInv, Agreed, Flying, Requests
<1> QED BY <1>1, <1>2, <1>4, InitType DEF IInv

\* The inductive invariant: types; flag and audit entry; what a panic-stop has
\* done so far; and, while all is clean, where the only request stands between
\* flag and jobs.
THEOREM Inductive == Spec => []IInv
<1>1. IInv /\ [Next]_vars => IInv'
  <2> SUFFICES ASSUME IInv, [Next]_vars PROVE IInv'
    OBVIOUS
  <2>1. TypeOK' /\ FlagIsAudited'
    BY TypeStep, AuditStep DEF IInv
  <2>2. PrivacyInv'
    BY PrivacyStep DEF IInv, PrivacyInv
  <2>3. JobsInv'
    BY ToggleJobs, PanicJobs, OtherJobs DEF IInv, JobsInv, Next
  <2> QED BY <2>1, <2>2, <2>3 DEF IInv, PrivacyInv, JobsInv
<1> QED BY <1>1, InitInv, PTL DEF Spec

\* Type correctness of the scheduler's control.
THEOREM TypeCorrect == Spec => []TypeOK
BY Inductive, PTL DEF IInv

\* Flag and audit entry are committed together, whatever is lost, rolled back or
\* stopped (api/scheduler.py, domain/panic_stop/service.py).
THEOREM FlagAudited == Spec => []FlagIsAudited
<1>1. IInv => FlagIsAudited
  BY DEF IInv
<1> QED BY <1>1, Inductive, PTL

\* A row or an answer that says private is true of YouTube, although the videos
\* are changed one by one before one commit (domain/panic_stop/service.py).
THEOREM PrivacyKept == Spec => []PrivacyAgrees
<1>1. IInv => PrivacyAgrees
  BY DEF IInv
<1> QED BY <1>1, Inductive, PTL

\* Requests that came one after the other leave the jobs as the flag says, or
\* halted (infrastructure/scheduler.py).
THEOREM JobsAgree == Spec => []JobsMatchFlag
<1>1. IInv => JobsMatchFlag
  BY DEF IInv, CleanInv, JobsMatchFlag, Quiet, InFlight, Flying, Agreed
<1> QED BY <1>1, Inductive, PTL

=============================================================================

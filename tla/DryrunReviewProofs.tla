------------------------- MODULE DryrunReviewProofs -------------------------
(***************************************************************************)
(* Proofs about DryrunReview for every set of outputs and reviews and every *)
(* budget of failures and stops.                                           *)
(***************************************************************************)
EXTENDS DryrunReview, FiniteSetTheorems, TLAPS

Live(r) == pc[r] \notin {"idle", "done"}

\* What is under review, or in the hands of the retention job, exists.
ActiveExists ==
  /\ \A r \in Reviews : Live(r) => on[r] \in Outputs /\ state[on[r]] # "absent"
  /\ \A o \in batch \cup swept : state[o] # "absent"

\* An upload is counted before its row is committed.
UploadInv ==
  /\ PostedIsUploaded
  /\ \A r \in Reviews : pc[r] = "inserted" => uploads[on[r]] > 0

\* A preview is gone before its row is committed.
FileInv ==
  /\ DiscardedHasNoPreview
  /\ \A r \in Reviews : pc[r] = "rejecting" => ~file[on[r]]
  /\ \A o \in swept : ~file[o]

\* A calm output that nobody works on agrees with YouTube and the storage.
Agrees(o) ==
  /\ uploads[o] = (IF state[o] = "posted" THEN 1 ELSE 0)
  /\ linked[o] <=> state[o] = "posted"
  /\ file[o] <=> state[o] \in {"pending", "posted"}

\* A calm output has one worker at most, and what it has done so far is known
\* from where it stands.
CalmInv(o) ==
  calm[o] =>
    /\ ~Busy(o) => Agrees(o)
    /\ Busy(o) => state[o] = "pending" /\ ~linked[o]
    /\ \A r \in Reviewing(o) :
         /\ o \notin batch \cup swept
         /\ \A q \in Reviewing(o) : q = r
         /\ uploads[o] = (IF pc[r] = "inserted" THEN 1 ELSE 0)
         /\ file[o] <=> pc[r] # "rejecting"
    /\ o \in batch => uploads[o] = 0 /\ file[o]
    /\ o \in swept => uploads[o] = 0 /\ ~file[o]

IInv ==
  /\ TypeOK
  /\ ActiveExists
  /\ UploadInv
  /\ FileInv
  /\ \A o \in Outputs : CalmInv(o)

-----------------------------------------------------------------------------
(* Types *)

\* A stop adds to the uploads of an output the insertions that were under way
\* for it and completed, a natural number, and none if there are none.
LEMMA CrashUploads ==
  ASSUME NEW done \in SUBSET Reviews, NEW o
  PROVE  /\ Cardinality({r \in done : on[r] = o}) \in Nat
         /\ (\A r \in done : on[r] # o) => Cardinality({r \in done : on[r] = o}) = 0
<1>1. IsFiniteSet({r \in done : on[r] = o})
  BY ReviewsAssumption, FS_Subset
<1>2. Cardinality({r \in done : on[r] = o}) \in Nat
  BY <1>1, FS_CardinalityType
<1>3. (\A r \in done : on[r] # o) => {r \in done : on[r] = o} = {}
  OBVIOUS
<1> QED BY <1>2, <1>3, FS_EmptySet

\* What a stop does to the uploads and to calm.
LEMMA CrashEffect ==
  ASSUME TypeOK, Crash
  PROVE  \E done \in SUBSET InStep({"inserting"}) :
           /\ uploads' \in [Outputs -> Nat]
           /\ \A o \in Outputs : uploads'[o] >= uploads[o]
           /\ \A o \in Outputs :
                (\A r \in done : on[r] # o) => uploads'[o] = uploads[o]
           /\ calm' \in [Outputs -> BOOLEAN]
           /\ \A o \in Outputs : calm'[o] =>
                /\ calm[o] /\ o \notin swept
                /\ \A r \in Reviews : pc[r] \in {"inserted", "rejecting"} => on[r] # o
                /\ \A r \in done : on[r] # o
<1>1. PICK done \in SUBSET InStep({"inserting"}) : RollBack(done)
  BY DEF Crash
<1>2. done \in SUBSET Reviews
  BY DEF InStep
<1>3. \A o \in Outputs : uploads'[o] = uploads[o] + Cardinality({r \in done : on[r] = o})
  BY <1>1 DEF RollBack
<1>4. ASSUME NEW o \in Outputs
      PROVE  /\ uploads'[o] \in Nat /\ uploads'[o] >= uploads[o]
             /\ (\A r \in done : on[r] # o) => uploads'[o] = uploads[o]
  <2>1. uploads[o] \in Nat
    BY DEF TypeOK
  <2> DEFINE n == Cardinality({r \in done : on[r] = o})
  <2>2. n \in Nat /\ ((\A r \in done : on[r] # o) => n = 0)
    BY <1>2, CrashUploads
  <2>3. uploads'[o] = uploads[o] + n
    BY <1>3
  <2> HIDE DEF n
  <2> QED BY <2>1, <2>2, <2>3
<1>5. uploads' \in [Outputs -> Nat]
  BY <1>1, <1>4 DEF RollBack
<1>6. calm' \in [Outputs -> BOOLEAN]
  BY <1>1 DEF RollBack, Disturb, TypeOK
<1>7. ASSUME NEW o \in Outputs, calm'[o]
      PROVE  /\ calm[o] /\ o \notin swept
             /\ \A r \in Reviews : pc[r] \in {"inserted", "rejecting"} => on[r] # o
             /\ \A r \in done : on[r] # o
  BY <1>1, <1>2, <1>7 DEF RollBack, Disturb, InStep
<1> QED BY <1>1, <1>4, <1>5, <1>6, <1>7

\* Init satisfies the whole invariant.
LEMMA InitInv == Init => IInv
<1> SUFFICES ASSUME Init PROVE IInv
  OBVIOUS
<1> USE DEF Init
<1>1. TypeOK
  <2>1. /\ file \in [Outputs -> BOOLEAN] /\ old \in [Outputs -> BOOLEAN]
        /\ linked \in [Outputs -> BOOLEAN] /\ calm \in [Outputs -> BOOLEAN]
    OBVIOUS
  <2>2. /\ state \in [Outputs -> State] /\ uploads \in [Outputs -> Nat]
        /\ pc \in [Reviews -> PC] /\ on \in [Reviews -> Outputs \cup {NoOutput}]
    BY DEF State, PC
  <2>3. faults \in 0 .. MaxFaults /\ crashes \in 0 .. MaxCrashes
    BY BoundAssumption
  <2> QED BY <2>1, <2>2, <2>3 DEF TypeOK
<1>2. ActiveExists /\ UploadInv /\ FileInv
  BY DEF ActiveExists, UploadInv, FileInv, PostedIsUploaded, DiscardedHasNoPreview, Live,
     Discarded
<1>3. ASSUME NEW o \in Outputs
      PROVE  CalmInv(o)
  <2>1. Reviewing(o) = {} /\ batch = {} /\ swept = {}
    BY DEF Reviewing
  <2>2. uploads[o] = 0 /\ ~linked[o] /\ ~file[o] /\ state[o] = "absent"
    OBVIOUS
  <2>3. ~Busy(o)
    BY <2>1 DEF Busy
  <2>4. Agrees(o)
    BY <2>2 DEF Agrees
  <2> QED BY <2>1, <2>3, <2>4 DEF CalmInv
<1> QED BY <1>1, <1>2, <1>3 DEF IInv

\* Every step keeps the types.
LEMMA TypeStep ==
  ASSUME TypeOK, ActiveExists, [Next]_vars
  PROVE  TypeOK'
<1> USE BoundAssumption DEF TypeOK, ActiveExists, Live, State, PC, rows, outside, reviews, sweep
<1>1. ASSUME NEW o \in Outputs, Create(o)
      PROVE  TypeOK'
  BY <1>1 DEF Create
<1>2. ASSUME NEW o \in Outputs, Age(o)
      PROVE  TypeOK'
  BY <1>2 DEF Age
<1>3. ASSUME NEW o \in Outputs, SweepOne(o)
      PROVE  TypeOK'
  BY <1>3 DEF SweepOne, DeletePreview
<1>4. ASSUME NEW r \in Reviews, NEW o \in Outputs, Refuse(r, o)
      PROVE  TypeOK'
  BY <1>4 DEF Refuse, Goto
<1>5. ASSUME NEW r \in Reviews, NEW o \in Outputs, ApproveLoad(r, o)
      PROVE  TypeOK'
  BY <1>5 DEF ApproveLoad, LoadPending, Goto, Disturb
<1>6. ASSUME NEW r \in Reviews, NEW o \in Outputs, RejectLoad(r, o)
      PROVE  TypeOK'
  BY <1>6 DEF RejectLoad, LoadPending, DeletePreview, Goto, Disturb
<1>7. ASSUME NEW r \in Reviews, NEW o \in Outputs, RejectRefused(r, o)
      PROVE  TypeOK'
  BY <1>7 DEF RejectRefused, LoadPending, Goto, Disturb
<1>8. ASSUME NEW r \in Reviews, ApproveRead(r)
      PROVE  TypeOK'
  BY <1>8 DEF ApproveRead, Goto
<1>9. ASSUME NEW r \in Reviews, ApproveRefused(r)
      PROVE  TypeOK'
  BY <1>9 DEF ApproveRefused, Goto
<1>10. ASSUME NEW r \in Reviews, ApproveInsert(r)
      PROVE  TypeOK'
  BY <1>10 DEF ApproveInsert, Goto, Upload
<1>11. ASSUME NEW r \in Reviews, ApproveLost(r)
      PROVE  TypeOK'
  BY <1>11 DEF ApproveLost, Goto, Upload, Fault, Disturb
<1>12. ASSUME NEW r \in Reviews, ApproveFails(r)
      PROVE  TypeOK'
  BY <1>12 DEF ApproveFails, Goto, Fault, Disturb
<1>13. ASSUME NEW r \in Reviews, ApproveCommit(r)
      PROVE  TypeOK'
  BY <1>13 DEF ApproveCommit, Goto, Post
<1>14. ASSUME NEW r \in Reviews, RejectFails(r)
      PROVE  TypeOK'
  BY <1>14 DEF RejectFails, Goto, Fault, Disturb
<1>15. ASSUME NEW r \in Reviews, RejectCommit(r)
      PROVE  TypeOK'
  BY <1>15 DEF RejectCommit, Goto
<1>16. CASE SweepSelect
  BY <1>16 DEF SweepSelect, Disturb, Expirable
<1>17. CASE SweepCommit
  BY <1>17 DEF SweepCommit
<1>18. CASE SweepFails
  <2>1. calm' \in [Outputs -> BOOLEAN]
    BY <1>18 DEF SweepFails, SweepEnds, Disturb
  <2>2. faults' \in 0 .. MaxFaults
    BY <1>18 DEF SweepFails, Fault
  <2>3. /\ UNCHANGED <<up, state, linked, file, uploads, old, pc, on, crashes>>
        /\ sweeping' = FALSE /\ batch' = {} /\ swept' = {}
    BY <1>18 DEF SweepFails, SweepEnds
  <2> QED BY <2>1, <2>2, <2>3
<1>19. CASE Restart
  BY <1>19 DEF Restart
<1>20. CASE Crash
  <2>1. uploads' \in [Outputs -> Nat] /\ calm' \in [Outputs -> BOOLEAN]
    BY <1>20, CrashEffect
  <2>2. pc' \in [Reviews -> PC]
    BY <1>20 DEF Crash, RollBack
  <2>3. UNCHANGED <<state, linked, file, old, on, faults>>
    BY <1>20 DEF Crash, RollBack
  <2>4. up' = FALSE /\ sweeping' = FALSE /\ batch' = {} /\ swept' = {}
    BY <1>20 DEF Crash, RollBack
  <2>5. crashes' \in 0 .. MaxCrashes
    BY <1>20 DEF Crash, RollBack
  <2> QED BY <2>1, <2>2, <2>3, <2>4, <2>5
<1>21. CASE UNCHANGED vars
  BY <1>21 DEF vars
<1> QED BY <1>1, <1>2, <1>3, <1>4, <1>5, <1>6, <1>7, <1>8, <1>9, <1>10, <1>11, <1>12, <1>13, <1>14, <1>15, <1>16, <1>17, <1>18, <1>19, <1>20, <1>21
       DEF Next, Review, Sweep

-----------------------------------------------------------------------------
(* Rows, uploads and previews *)

\* Nothing is reviewed or expired that does not exist: no row goes back to
\* absent.
LEMMA ActiveStep ==
  ASSUME TypeOK, ActiveExists, [Next]_vars
  PROVE  ActiveExists'
<1> USE DEF TypeOK, ActiveExists, Live, State, PC, rows, outside, reviews, sweep
<1>1. ASSUME NEW o \in Outputs, Create(o)
      PROVE  ActiveExists'
  BY <1>1 DEF Create
<1>2. ASSUME NEW o \in Outputs, Age(o)
      PROVE  ActiveExists'
  BY <1>2 DEF Age
<1>3. ASSUME NEW o \in Outputs, SweepOne(o)
      PROVE  ActiveExists'
  BY <1>3 DEF SweepOne, DeletePreview
<1>4. ASSUME NEW r \in Reviews, NEW o \in Outputs, Refuse(r, o)
      PROVE  ActiveExists'
  BY <1>4 DEF Refuse, Goto
<1>5. ASSUME NEW r \in Reviews, NEW o \in Outputs, ApproveLoad(r, o)
      PROVE  ActiveExists'
  BY <1>5 DEF ApproveLoad, LoadPending, Goto
<1>6. ASSUME NEW r \in Reviews, NEW o \in Outputs, RejectLoad(r, o)
      PROVE  ActiveExists'
  BY <1>6 DEF RejectLoad, LoadPending, DeletePreview, Goto
<1>7. ASSUME NEW r \in Reviews, NEW o \in Outputs, RejectRefused(r, o)
      PROVE  ActiveExists'
  BY <1>7 DEF RejectRefused, LoadPending, Goto
<1>8. ASSUME NEW r \in Reviews, ApproveRead(r)
      PROVE  ActiveExists'
  BY <1>8 DEF ApproveRead, Goto
<1>9. ASSUME NEW r \in Reviews, ApproveRefused(r)
      PROVE  ActiveExists'
  BY <1>9 DEF ApproveRefused, Goto
<1>10. ASSUME NEW r \in Reviews, ApproveInsert(r)
      PROVE  ActiveExists'
  BY <1>10 DEF ApproveInsert, Goto, Upload
<1>11. ASSUME NEW r \in Reviews, ApproveLost(r)
      PROVE  ActiveExists'
  BY <1>11 DEF ApproveLost, Goto, Upload
<1>12. ASSUME NEW r \in Reviews, ApproveFails(r)
      PROVE  ActiveExists'
  BY <1>12 DEF ApproveFails, Goto
<1>13. ASSUME NEW r \in Reviews, ApproveCommit(r)
      PROVE  ActiveExists'
  BY <1>13 DEF ApproveCommit, Goto, Post
<1>14. ASSUME NEW r \in Reviews, RejectFails(r)
      PROVE  ActiveExists'
  BY <1>14 DEF RejectFails, Goto
<1>15. ASSUME NEW r \in Reviews, RejectCommit(r)
      PROVE  ActiveExists'
  BY <1>15 DEF RejectCommit, Goto
<1>16. CASE SweepSelect
  BY <1>16 DEF SweepSelect, Expirable
<1>17. CASE SweepCommit
  BY <1>17 DEF SweepCommit
<1>18. CASE SweepFails
  BY <1>18 DEF SweepFails, SweepEnds
<1>19. CASE Restart
  BY <1>19 DEF Restart
<1>20. CASE Crash
  BY <1>20 DEF Crash, RollBack
<1>21. CASE UNCHANGED vars
  BY <1>21 DEF vars
<1> QED BY <1>1, <1>2, <1>3, <1>4, <1>5, <1>6, <1>7, <1>8, <1>9, <1>10,
       <1>11, <1>12, <1>13, <1>14, <1>15, <1>16, <1>17, <1>18, <1>19, <1>20, <1>21
       DEF Next, Review, Sweep

\* The commit of an approval finds the upload done, and no upload is undone.
LEMMA UploadStep ==
  ASSUME TypeOK, ActiveExists, UploadInv, [Next]_vars
  PROVE  UploadInv'
<1> USE DEF TypeOK, ActiveExists, Live, UploadInv, PostedIsUploaded, State, PC, rows, outside,
            reviews, sweep
<1>1. ASSUME NEW o \in Outputs, Create(o)
      PROVE  UploadInv'
  BY <1>1 DEF Create
<1>2. ASSUME NEW o \in Outputs, Age(o)
      PROVE  UploadInv'
  BY <1>2 DEF Age
<1>3. ASSUME NEW o \in Outputs, SweepOne(o)
      PROVE  UploadInv'
  BY <1>3 DEF SweepOne, DeletePreview
<1>4. ASSUME NEW r \in Reviews, NEW o \in Outputs, Refuse(r, o)
      PROVE  UploadInv'
  BY <1>4 DEF Refuse, Goto
<1>5. ASSUME NEW r \in Reviews, NEW o \in Outputs, ApproveLoad(r, o)
      PROVE  UploadInv'
  BY <1>5 DEF ApproveLoad, LoadPending, Goto
<1>6. ASSUME NEW r \in Reviews, NEW o \in Outputs, RejectLoad(r, o)
      PROVE  UploadInv'
  BY <1>6 DEF RejectLoad, LoadPending, DeletePreview, Goto
<1>7. ASSUME NEW r \in Reviews, NEW o \in Outputs, RejectRefused(r, o)
      PROVE  UploadInv'
  BY <1>7 DEF RejectRefused, LoadPending, Goto
<1>8. ASSUME NEW r \in Reviews, ApproveRead(r)
      PROVE  UploadInv'
  BY <1>8 DEF ApproveRead, Goto
<1>9. ASSUME NEW r \in Reviews, ApproveRefused(r)
      PROVE  UploadInv'
  BY <1>9 DEF ApproveRefused, Goto
<1>10. ASSUME NEW r \in Reviews, ApproveInsert(r)
      PROVE  UploadInv'
  BY <1>10 DEF ApproveInsert, Goto, Upload
<1>11. ASSUME NEW r \in Reviews, ApproveLost(r)
      PROVE  UploadInv'
  BY <1>11 DEF ApproveLost, Goto, Upload
<1>12. ASSUME NEW r \in Reviews, ApproveFails(r)
      PROVE  UploadInv'
  BY <1>12 DEF ApproveFails, Goto
<1>13. ASSUME NEW r \in Reviews, ApproveCommit(r)
      PROVE  UploadInv'
  BY <1>13 DEF ApproveCommit, Goto, Post
<1>14. ASSUME NEW r \in Reviews, RejectFails(r)
      PROVE  UploadInv'
  BY <1>14 DEF RejectFails, Goto
<1>15. ASSUME NEW r \in Reviews, RejectCommit(r)
      PROVE  UploadInv'
  BY <1>15 DEF RejectCommit, Goto
<1>16. CASE SweepSelect
  BY <1>16 DEF SweepSelect, Expirable
<1>17. CASE SweepCommit
  BY <1>17 DEF SweepCommit
<1>18. CASE SweepFails
  BY <1>18 DEF SweepFails, SweepEnds
<1>19. CASE Restart
  BY <1>19 DEF Restart
<1>20. CASE Crash
  <2>1. \A o \in Outputs : uploads'[o] \in Nat /\ uploads'[o] >= uploads[o]
    BY <1>20, CrashEffect
  <2>2. UNCHANGED <<state, linked>> /\ \A r \in Reviews : pc'[r] # "inserted"
    BY <1>20 DEF Crash, RollBack
  <2> QED BY <2>1, <2>2
<1>21. CASE UNCHANGED vars
  BY <1>21 DEF vars
<1> QED BY <1>1, <1>2, <1>3, <1>4, <1>5, <1>6, <1>7, <1>8, <1>9, <1>10,
       <1>11, <1>12, <1>13, <1>14, <1>15, <1>16, <1>17, <1>18, <1>19, <1>20, <1>21
       DEF Next, Review, Sweep

\* A preview that is deleted stays deleted: only the creation of the row
\* stores one.
LEMMA FileStep ==
  ASSUME TypeOK, ActiveExists, FileInv, [Next]_vars
  PROVE  FileInv'
<1> USE DEF TypeOK, ActiveExists, Live, FileInv, DiscardedHasNoPreview, Discarded, State, PC,
            rows, outside, reviews, sweep
<1>1. ASSUME NEW o \in Outputs, Create(o)
      PROVE  FileInv'
  BY <1>1 DEF Create
<1>2. ASSUME NEW o \in Outputs, Age(o)
      PROVE  FileInv'
  BY <1>2 DEF Age
<1>3. ASSUME NEW o \in Outputs, SweepOne(o)
      PROVE  FileInv'
  BY <1>3 DEF SweepOne, DeletePreview
<1>4. ASSUME NEW r \in Reviews, NEW o \in Outputs, Refuse(r, o)
      PROVE  FileInv'
  BY <1>4 DEF Refuse, Goto
<1>5. ASSUME NEW r \in Reviews, NEW o \in Outputs, ApproveLoad(r, o)
      PROVE  FileInv'
  BY <1>5 DEF ApproveLoad, LoadPending, Goto
<1>6. ASSUME NEW r \in Reviews, NEW o \in Outputs, RejectLoad(r, o)
      PROVE  FileInv'
  BY <1>6 DEF RejectLoad, LoadPending, DeletePreview, Goto
<1>7. ASSUME NEW r \in Reviews, NEW o \in Outputs, RejectRefused(r, o)
      PROVE  FileInv'
  BY <1>7 DEF RejectRefused, LoadPending, Goto
<1>8. ASSUME NEW r \in Reviews, ApproveRead(r)
      PROVE  FileInv'
  BY <1>8 DEF ApproveRead, Goto
<1>9. ASSUME NEW r \in Reviews, ApproveRefused(r)
      PROVE  FileInv'
  BY <1>9 DEF ApproveRefused, Goto
<1>10. ASSUME NEW r \in Reviews, ApproveInsert(r)
      PROVE  FileInv'
  BY <1>10 DEF ApproveInsert, Goto, Upload
<1>11. ASSUME NEW r \in Reviews, ApproveLost(r)
      PROVE  FileInv'
  BY <1>11 DEF ApproveLost, Goto, Upload
<1>12. ASSUME NEW r \in Reviews, ApproveFails(r)
      PROVE  FileInv'
  BY <1>12 DEF ApproveFails, Goto
<1>13. ASSUME NEW r \in Reviews, ApproveCommit(r)
      PROVE  FileInv'
  BY <1>13 DEF ApproveCommit, Goto, Post
<1>14. ASSUME NEW r \in Reviews, RejectFails(r)
      PROVE  FileInv'
  BY <1>14 DEF RejectFails, Goto
<1>15. ASSUME NEW r \in Reviews, RejectCommit(r)
      PROVE  FileInv'
  BY <1>15 DEF RejectCommit, Goto
<1>16. CASE SweepSelect
  BY <1>16 DEF SweepSelect, Expirable
<1>17. CASE SweepCommit
  BY <1>17 DEF SweepCommit
<1>18. CASE SweepFails
  BY <1>18 DEF SweepFails, SweepEnds
<1>19. CASE Restart
  BY <1>19 DEF Restart
<1>20. CASE Crash
  BY <1>20 DEF Crash, RollBack
<1>21. CASE UNCHANGED vars
  BY <1>21 DEF vars
<1> QED BY <1>1, <1>2, <1>3, <1>4, <1>5, <1>6, <1>7, <1>8, <1>9, <1>10,
       <1>11, <1>12, <1>13, <1>14, <1>15, <1>16, <1>17, <1>18, <1>19, <1>20, <1>21
       DEF Next, Review, Sweep

-----------------------------------------------------------------------------
(* Calm outputs *)

\* Whoever takes up a calm output finds it pending and untouched, and leaves it
\* in agreement or disturbs it.
LEMMA CalmStep ==
  ASSUME TypeOK, ActiveExists, NEW p \in Outputs, CalmInv(p), [Next]_vars
  PROVE  CalmInv(p)'
<1> USE DEF TypeOK, ActiveExists, Live, CalmInv, Agrees, Busy, Reviewing, State, PC, rows,
            outside, reviews, sweep
<1>1. ASSUME NEW o \in Outputs, Create(o)
      PROVE  CalmInv(p)'
  BY <1>1 DEF Create
<1>2. ASSUME NEW o \in Outputs, Age(o)
      PROVE  CalmInv(p)'
  BY <1>2 DEF Age
<1>3. ASSUME NEW o \in Outputs, SweepOne(o)
      PROVE  CalmInv(p)'
  BY <1>3 DEF SweepOne, DeletePreview
<1>4. ASSUME NEW r \in Reviews, NEW o \in Outputs, Refuse(r, o)
      PROVE  CalmInv(p)'
  BY <1>4 DEF Refuse, Goto
<1>5. ASSUME NEW r \in Reviews, NEW o \in Outputs, ApproveLoad(r, o)
      PROVE  CalmInv(p)'
  BY <1>5 DEF ApproveLoad, LoadPending, Goto, Disturb
<1>6. ASSUME NEW r \in Reviews, NEW o \in Outputs, RejectLoad(r, o)
      PROVE  CalmInv(p)'
  BY <1>6 DEF RejectLoad, LoadPending, DeletePreview, Goto, Disturb
<1>7. ASSUME NEW r \in Reviews, NEW o \in Outputs, RejectRefused(r, o)
      PROVE  CalmInv(p)'
  BY <1>7 DEF RejectRefused, LoadPending, Goto, Disturb
<1>8. ASSUME NEW r \in Reviews, ApproveRead(r)
      PROVE  CalmInv(p)'
  BY <1>8 DEF ApproveRead, Goto
<1>9. ASSUME NEW r \in Reviews, ApproveRefused(r)
      PROVE  CalmInv(p)'
  BY <1>9 DEF ApproveRefused, Goto
<1>10. ASSUME NEW r \in Reviews, ApproveInsert(r)
      PROVE  CalmInv(p)'
  BY <1>10 DEF ApproveInsert, Goto, Upload
<1>11. ASSUME NEW r \in Reviews, ApproveLost(r)
      PROVE  CalmInv(p)'
  BY <1>11 DEF ApproveLost, Goto, Upload, Disturb
<1>12. ASSUME NEW r \in Reviews, ApproveFails(r)
      PROVE  CalmInv(p)'
  BY <1>12 DEF ApproveFails, Goto, Disturb
<1>13. ASSUME NEW r \in Reviews, ApproveCommit(r)
      PROVE  CalmInv(p)'
  BY <1>13 DEF ApproveCommit, Goto, Post
<1>14. ASSUME NEW r \in Reviews, RejectFails(r)
      PROVE  CalmInv(p)'
  BY <1>14 DEF RejectFails, Goto, Disturb
<1>15. ASSUME NEW r \in Reviews, RejectCommit(r)
      PROVE  CalmInv(p)'
  BY <1>15 DEF RejectCommit, Goto
<1>16. CASE SweepSelect
  BY <1>16 DEF SweepSelect, Expirable, Disturb
<1>17. CASE SweepCommit
  BY <1>17 DEF SweepCommit
<1>18. CASE SweepFails
  BY <1>18 DEF SweepFails, SweepEnds, Disturb
<1>19. CASE Restart
  BY <1>19 DEF Restart
<1>20. CASE Crash
  <2>1. UNCHANGED <<state, linked, file>> /\ ~Busy(p)'
    BY <1>20 DEF Crash, RollBack
  <2>2. calm'[p] => /\ calm[p] /\ p \notin swept
                    /\ \A r \in Reviews : pc[r] \in {"inserted", "rejecting"} => on[r] # p
                    /\ uploads'[p] = uploads[p]
    BY <1>20, CrashEffect
  <2>3. calm'[p] => Agrees(p)
    BY <2>2
  <2> QED BY <2>1, <2>2, <2>3
<1>21. CASE UNCHANGED vars
  BY <1>21 DEF vars
<1> QED BY <1>1, <1>2, <1>3, <1>4, <1>5, <1>6, <1>7, <1>8, <1>9, <1>10,
       <1>11, <1>12, <1>13, <1>14, <1>15, <1>16, <1>17, <1>18, <1>19, <1>20, <1>21
       DEF Next, Review, Sweep
-----------------------------------------------------------------------------
(* Theorems *)

\* The inductive invariant: types, what is active exists, uploads and deletions
\* come before their commits, and calm outputs are where their worker left them.
THEOREM Inductive == Spec => []IInv
<1>1. Init => IInv
  BY InitInv
<1>2. IInv /\ [Next]_vars => IInv'
  BY TypeStep, ActiveStep, UploadStep, FileStep, CalmStep DEF IInv
<1> QED BY <1>1, <1>2, PTL DEF Spec

\* Every variable keeps its type; the retention job works on rows only while
\* it is running.
THEOREM TypeCorrect == Spec => []TypeOK
BY Inductive, PTL DEF IInv

\* A row that says posted has its video on YouTube and its link, whatever
\* requests, failures and stops interleave.
THEOREM PostedUploaded == Spec => []PostedIsUploaded
<1>1. IInv => PostedIsUploaded
  BY DEF IInv, UploadInv
<1> QED BY <1>1, Inductive, PTL

\* A rejected or expired output has no preview left.
THEOREM DiscardedDeleted == Spec => []DiscardedHasNoPreview
<1>1. IInv => DiscardedHasNoPreview
  BY DEF IInv, FileInv
<1> QED BY <1>1, Inductive, PTL

\* What a decided row says has happened outside the database.
THEOREM DecisionEffective == Spec => []DecisionHasEffect
<1>1. PostedIsUploaded /\ DiscardedHasNoPreview => DecisionHasEffect
  BY DEF DecisionHasEffect
<1> QED BY <1>1, PostedUploaded, DiscardedDeleted, PTL

\* An output that was handled by one at a time, without a failure after a side
\* effect, is uploaded once and linked exactly when posted, and has its preview
\* exactly while pending or posted.
THEOREM CalmAgrees == Spec => []CalmOutputAgrees
<1>1. IInv => CalmOutputAgrees
  BY DEF IInv, CalmInv, Agrees, CalmOutputAgrees
<1> QED BY <1>1, Inductive, PTL
=============================================================================

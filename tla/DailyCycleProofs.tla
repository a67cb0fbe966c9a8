-------------------------- MODULE DailyCycleProofs --------------------------
(***************************************************************************)
(* Proofs about DailyCycle for every set of genres and tracks, every number *)
(* of cycles and posts, every budget of failures, and all limits of hits,  *)
(* rounds and regenerations that satisfy LimitAssumption.                  *)
(***************************************************************************)
EXTENDS DailyCycle, FiniteSetTheorems, TLAPS

\* Where a post is in the making, and where it says generating.
InPost == PC \ (Ended \cup {"planned", "create", "end"})
Generating == {"music", "loop", "checking", "suspending", "regenerating", "image",
               "render"}

\* A running cycle has its posts, with a genre each, and stands on one of them
\* while a post is in the making.
PositionInv ==
  /\ pc \notin Ended => cyc \in Cycles /\ count \in 1 .. MaxPosts
  /\ pc \notin Ended => \A p \in 1 .. count : genre[<<cyc, p>>] \in Genres
  /\ pc \in InPost => pos \in 1 .. count

\* A track that is not to be looked up any more has an answer.
CheckedInv ==
  /\ OnlyPassedTracksGoOn
  /\ pc = "checking" => \A t \in Tracks \ todo : ac[t] # "not_checked"

\* Every round of the loop ends with a hit more for the genre, and regenerates
\* a track once at most.
LimitInv ==
  /\ pc = "loop" =>
       /\ hits[Genre] >= loops
       /\ loops > 0 => hits[Genre] < HitLimit
       /\ \A t \in Tracks : regen[t] <= loops
  /\ pc = "checking" =>
       /\ loops > 0 /\ hits[Genre] + 1 >= loops
       /\ \A t \in Tracks : regen[t] < loops
  /\ pc = "regenerating" =>
       /\ hits[Genre] >= loops /\ hits[Genre] < HitLimit
       /\ \A t \in Tracks : regen[t] <= loops
       /\ \A t \in todo : regen[t] < loops

\* The status of the post in the making tells where it is; the posts that are
\* not yet created have no trace.
PostedSoFar ==
  /\ UploadIsRemembered
  /\ \A q \in Posts : dryout[q] => status[q] # "none"
  /\ \A q \in Posts : q[1] > cyc \/ (q[1] = cyc /\ q[2] > pos) => status[q] = "none"
UploadInv ==
  /\ PostedSoFar
  /\ pc \in InPost => ~dryout[Post]
  /\ pc = "begin" => status[Post] = "pending"
  /\ pc \in Generating => status[Post] = "generating"
  /\ pc = "publish" => status[Post] = "generated"
  /\ pc = "uploading" => status[Post] = "posting" /\ uploads[Post] = 0
  /\ pc = "uploaded" => status[Post] = "posting" /\ uploads[Post] = 1

\* Only the running cycle, and one that an exception ended, has an open plan or
\* a post that is being generated.
OpenInv ==
  up => /\ \A c \in Cycles : plan[c] = "executing" =>
             c \in abrupt \/ (c = cyc /\ pc \notin Ended)
        /\ \A q \in Posts : status[q] = "generating" =>
             q[1] \in abrupt \/ (q = Post /\ pc \in Generating)

IInv ==
  /\ TypeOK
  /\ PositionInv
  /\ CheckedInv
  /\ LimitInv
  /\ UploadInv
  /\ OpenInv

-----------------------------------------------------------------------------
(* Types and positions *)

\* Counting keeps the type of the tally.
LEMMA TallyCounts ==
  ASSUME tally \in Tally
  PROVE  /\ \A f \in {"posted", "dryrun", "failed"} : [tally EXCEPT ![f] = @ + 1] \in Tally
         /\ \A f \in BOOLEAN : [tally EXCEPT !.failed = @ + 1, !.fatal = f] \in Tally
<1> USE DEF Tally
<1>1. /\ [tally EXCEPT !["posted"] = @ + 1] \in Tally
      /\ [tally EXCEPT !["dryrun"] = @ + 1] \in Tally
      /\ [tally EXCEPT !["failed"] = @ + 1] \in Tally
  OBVIOUS
<1>2. ASSUME NEW f \in BOOLEAN
      PROVE  [tally EXCEPT !.failed = @ + 1, !.fatal = f] \in Tally
  <2> DEFINE n == tally.failed + 1
  <2>1. n \in Nat
    OBVIOUS
  <2> HIDE DEF n
  <2>2. [tally EXCEPT !.failed = n, !.fatal = f] \in Tally
    BY <2>1, Zenon
  <2> QED BY <2>2 DEF n
<1> QED BY <1>1, <1>2

\* What a verdict may be: the count goes up with a hit, and the tracks that hit
\* are regenerated only below the limit.
LEMMA VerdictCases ==
  ASSUME TypeOK, PositionInv, Verdict
  PROVE  /\ Genre \in Genres /\ NextHits \in Nat
         /\ hits' = [hits EXCEPT ![Genre] = NextHits]
         /\ pc' \in {"suspending", "image", "regenerating"}
         /\ pc' = "regenerating" =>
              Hits # {} /\ NextHits = hits[Genre] + 1 /\ NextHits < HitLimit
         /\ todo' \subseteq Hits /\ (todo' # {} => pc' = "regenerating")
<1>1. Genre \in Genres
  BY DEF TypeOK, PositionInv, InPost, PC, Ended, Post, Genre, Verdict, Cycles
<1>2. hits[Genre] \in Nat /\ HitLimit \in Nat
  BY <1>1, LimitAssumption DEF TypeOK
<1>3. NextHits \in Nat /\ (Hits # {} => NextHits = hits[Genre] + 1)
  BY <1>2 DEF NextHits
<1>4. hits' = [hits EXCEPT ![Genre] = NextHits]
  BY DEF Verdict
<1> DEFINE suspend == Hits # {} /\ NextHits >= HitLimit
<1>5. /\ pc' = CASE suspend -> "suspending"
                 [] ~suspend /\ Hits = {} -> "image"
                 [] OTHER -> "regenerating"
      /\ todo' = IF suspend THEN {} ELSE Hits
  BY DEF Verdict
<1>6. CASE suspend
  BY <1>1, <1>3, <1>4, <1>5, <1>6
<1>7. CASE ~suspend /\ Hits = {}
  BY <1>1, <1>3, <1>4, <1>5, <1>7
<1>8. CASE ~suspend /\ Hits # {}
  <2>1. NextHits < HitLimit
    BY <1>2, <1>3, <1>8
  <2>2. pc' = "regenerating" /\ todo' = Hits
    BY <1>5, <1>8
  <2> QED BY <1>1, <1>3, <1>4, <1>8, <2>1, <2>2
<1> QED BY <1>6, <1>7, <1>8

\* Every step keeps the types.
LEMMA TypeStep ==
  ASSUME TypeOK, PositionInv, [Next]_vars
  PROVE  TypeOK'
<1> USE LimitAssumption, BoundAssumption, TracksAssumption, NoGenreAssumption
    DEF TypeOK, PC, Ended, Post, Genre, Posts, Cycles, PlanState, PostState,
        AcoustidStatus, Passed, db, run, check, NoTally, PositionInv, InPost
<1>1. CASE Fire
  <2>1. cyc' \in 0 .. MaxCycles
    BY <1>1 DEF Fire
  <2>2. genre' \in [Posts -> Genres \cup {NoGenre}]
    BY <1>1 DEF Fire
  <2>3. plan' \in [Cycles -> PlanState]
    BY <1>1 DEF Fire
  <2>4. count' \in 0 .. MaxPosts /\ pos' \in 0 .. count'
    BY <1>1 DEF Fire
  <2>5. tally' \in Tally
    BY <1>1 DEF Fire, Tally
  <2>6. /\ pc' = "planned" /\ up
        /\ UNCHANGED <<up, enabled, hits, status, dryout, uploads, dry, ac, regen,
                   loops, todo, flushing, abrupt, faults>>
    BY <1>1 DEF Fire
  <2>7. todo = {}
    BY <1>1 DEF Fire
  <2> QED BY <1>1, <2>1, <2>2, <2>3, <2>4, <2>5, <2>6, <2>7
<1>2. CASE PlanFails
  BY <1>2 DEF PlanFails, Leave, NoCheck
<1>3. CASE Execute
  BY <1>3 DEF Execute, SetPlan
<1>4. CASE CreatePost
  <2>1. pos' \in 0 .. count'
    BY <1>4 DEF CreatePost
  <2>2. status' \in [Posts -> PostState]
    BY <1>4 DEF CreatePost
  <2> QED BY <1>4, <2>1, <2>2 DEF CreatePost
<1>5. CASE Begin
  BY <1>5 DEF Begin, SetPost
<1>6. CASE Music
  BY <1>6 DEF Music, NoCheck
<1>7. CASE CheckTracks
  <2>1. loops' \in 0 .. MaxLoops
    BY <1>7 DEF CheckTracks
  <2> QED BY <1>7, <2>1 DEF CheckTracks
<1>8. CASE FlushRefused
  BY <1>8 DEF FlushRefused, Leave, NoCheck
<1>9. CASE Verdict
  <2>1. hits' \in [Genres -> Nat]
    BY <1>9, VerdictCases
  <2>2. enabled' \in [Genres -> BOOLEAN]
    BY <1>9 DEF Verdict
  <2>3. /\ pc' \in {"suspending", "image", "regenerating"}
        /\ todo' \subseteq Tracks /\ (todo' # {} => pc' = "regenerating")
    BY <1>9, VerdictCases DEF Hits
  <2>4. UNCHANGED <<up, plan, genre, status, dryout, uploads, dry, cyc, pos, count,
                    tally, ac, regen, loops, flushing, abrupt, faults>> /\ up
    BY <1>9 DEF Verdict
  <2> QED BY <2>1, <2>2, <2>3, <2>4
<1>10. CASE Suspend
  <2>1. tally' \in Tally
    BY <1>10, TallyCounts DEF Suspend, Count
  <2>2. status' \in [Posts -> PostState]
    BY <1>10 DEF Suspend, SetPost, Count, NoCheck
  <2> QED BY <1>10, <2>1, <2>2 DEF Suspend, SetPost, Count, NoCheck
<1>11. CASE Regenerated
  BY <1>11 DEF Regenerated
<1>12. ASSUME NEW t \in Tracks, Answer(t)
      PROVE  TypeOK'
  <2>1. ac' \in [Tracks -> AcoustidStatus]
    BY <1>12 DEF Answer
  <2> QED BY <1>12, <2>1 DEF Answer
<1>13. ASSUME NEW t \in Tracks, Flushed(t)
      PROVE  TypeOK'
  BY <1>13 DEF Flushed
<1>14. ASSUME NEW t \in Tracks, Regenerate(t)
      PROVE  TypeOK'
  <2>1. ac' \in [Tracks -> AcoustidStatus]
    BY <1>14 DEF Regenerate
  <2>2. regen' \in [Tracks -> 0 .. MaxRegen]
    BY <1>14 DEF Regenerate
  <2> QED BY <1>14, <2>1, <2>2 DEF Regenerate
<1>15. CASE Image
  BY <1>15 DEF Image
<1>16. CASE Render
  BY <1>16 DEF Render, SetPost
<1>17. CASE Dryrun
  <2>1. tally' \in Tally
    BY <1>17, TallyCounts DEF Dryrun, Count
  <2>2. dryout' \in [Posts -> BOOLEAN]
    BY <1>17 DEF Dryrun, Count, NoCheck
  <2> QED BY <1>17, <2>1, <2>2 DEF Dryrun, Count, NoCheck
<1>18. CASE Publish
  BY <1>18 DEF Publish, SetPost
<1>19. CASE Insert
  <2>1. uploads' \in [Posts -> Nat]
    BY <1>19 DEF Insert, Uploaded
  <2> QED BY <1>19, <2>1 DEF Insert, Uploaded
<1>20. CASE Posted
  <2>1. tally' \in Tally
    BY <1>20, TallyCounts DEF Posted, Count
  <2>2. status' \in [Posts -> PostState]
    BY <1>20 DEF Posted, SetPost, Count, NoCheck
  <2> QED BY <1>20, <2>1, <2>2 DEF Posted, SetPost, Count, NoCheck
<1>21. CASE InsertLost
  <2>1. tally' \in Tally
    BY <1>21, TallyCounts DEF InsertLost, Fail
  <2>2. status' \in [Posts -> PostState]
    BY <1>21 DEF InsertLost, Fail, SetPost
  <2>3. uploads' \in [Posts -> Nat]
    BY <1>21 DEF InsertLost, Uploaded
  <2>4. /\ pc' = "create" /\ up
        /\ UNCHANGED <<up, enabled, hits, plan, genre, dryout, dry, cyc, pos, count,
                   abrupt, faults>>
    BY <1>21 DEF InsertLost, Fail, Stay
  <2>5. NoCheck
    BY <1>21 DEF InsertLost, Fail
  <2> QED BY <2>1, <2>2, <2>3, <2>4, <2>5 DEF NoCheck
<1>22. CASE StepFails
  <2>1. tally' \in Tally
    BY <1>22, TallyCounts DEF StepFails, Fail
  <2>2. status' \in [Posts -> PostState] /\ UNCHANGED uploads
    BY <1>22 DEF StepFails, Fail, SetPost, Stay, NoCheck
  <2>3. /\ pc' \in {"create", "end"} /\ up
        /\ UNCHANGED <<up, enabled, hits, plan, genre, dryout, dry, cyc, pos, count,
                   abrupt, faults>>
    BY <1>22 DEF StepFails, UsedUp, Fail, Stay
  <2>4. NoCheck
    BY <1>22 DEF StepFails, Fail
  <2> QED BY <2>1, <2>2, <2>3, <2>4 DEF NoCheck
<1>23. CASE EndCycle
  BY <1>23 DEF EndCycle, SetPlan
<1>24. CASE DbFails
  BY <1>24 DEF DbFails, Leave, NoCheck, Fault
<1>25. CASE RecordFails
  BY <1>25 DEF RecordFails, Leave, NoCheck, Fault
<1>26. CASE Crash
  <2>1. uploads' \in [Posts -> Nat]
    <3>1. CASE pc = "uploading" /\ Uploaded
      BY <3>1 DEF Uploaded
    <3>2. CASE UNCHANGED uploads
      BY <3>2
    <3> QED BY <1>26, <3>1, <3>2 DEF Crash
  <2>2. faults' \in 0 .. MaxFaults
    BY <1>26 DEF Crash, Fault
  <2>3. ~up' /\ up' \in BOOLEAN /\ pc' = "idle" /\ cyc' = cyc /\ pos' = pos /\ count' = count
    BY <1>26 DEF Crash
  <2>4. /\ ac' \in [Tracks -> AcoustidStatus] /\ regen' \in [Tracks -> 0 .. MaxRegen]
        /\ loops' = 0 /\ todo' = {} /\ flushing' = {}
    BY <1>26 DEF Crash, NoCheck
  <2>5. UNCHANGED <<enabled, hits, plan, genre, status, dryout>>
    BY <1>26 DEF Crash
  <2>6. UNCHANGED <<dry, tally, abrupt>>
    BY <1>26 DEF Crash
  <2>7. /\ enabled' \in [Genres -> BOOLEAN] /\ hits' \in [Genres -> Nat]
        /\ plan' \in [Cycles -> PlanState] /\ genre' \in [Posts -> Genres \cup {NoGenre}]
        /\ status' \in [Posts -> PostState] /\ dryout' \in [Posts -> BOOLEAN]
    BY <2>5
  <2>8. /\ dry' \in BOOLEAN /\ tally' \in Tally /\ abrupt' \subseteq Cycles
    BY <2>6
  <2>9. cyc' \in 0 .. MaxCycles /\ pos' \in 0 .. count' /\ count' \in 0 .. MaxPosts
    BY <2>3
  <2>10. /\ loops' \in 0 .. MaxLoops /\ todo' \subseteq Tracks /\ flushing' \subseteq Tracks
         /\ todo' = {} /\ pc' \in PC
    BY <2>3, <2>4
  <2> QED BY <2>1, <2>2, <2>3, <2>4, <2>7, <2>8, <2>9, <2>10, Zenon DEF TypeOK
<1>27. CASE Restart
  BY <1>27 DEF Restart, FailOrphanPosts
<1>28. ASSUME NEW g \in Genres, Promote(g)
      PROVE  TypeOK'
  BY <1>28 DEF Promote
<1>29. CASE UNCHANGED vars
  BY <1>29 DEF vars
<1> QED BY <1>1, <1>2, <1>3, <1>4, <1>5, <1>6, <1>7, <1>8, <1>9, <1>10, <1>11, <1>12,
       <1>13, <1>14, <1>15, <1>16, <1>17, <1>18, <1>19, <1>20, <1>21, <1>22, <1>23, <1>24,
       <1>25, <1>26, <1>27, <1>28, <1>29
       DEF Next, Cycle, AcoustidLoop, Publication

\* Every step keeps the position.
LEMMA PositionStep ==
  ASSUME TypeOK, PositionInv, [Next]_vars
  PROVE  PositionInv'
<1> USE BoundAssumption
    DEF TypeOK, PC, Ended, Post, Genre, Posts, Cycles, PlanState, PostState,
        AcoustidStatus, Passed, db, run, check, NoTally, PositionInv, InPost
<1>1. CASE Fire
  <2>1. cyc' \in Cycles
    BY <1>1 DEF Fire
  <2>2. count' \in 1 .. MaxPosts /\ pos' = 0 /\ pc' = "planned"
    BY <1>1 DEF Fire
  <2>3. \A p \in 1 .. count' : <<cyc', p>> \in Posts
    BY <2>1, <2>2
  <2>4. \A p \in 1 .. count' : genre'[<<cyc', p>>] \in Genres
    BY <2>1, <2>2, <2>3, <1>1 DEF Fire
  <2> QED BY <1>1, <2>1, <2>2, <2>3, <2>4 DEF Fire
<1>2. CASE PlanFails
  BY <1>2 DEF PlanFails, Leave, NoCheck
<1>3. CASE Execute
  BY <1>3 DEF Execute, SetPlan
<1>4. CASE CreatePost
  BY <1>4 DEF CreatePost
<1>5. CASE Begin
  BY <1>5 DEF Begin, SetPost
<1>6. CASE Music
  BY <1>6 DEF Music, NoCheck
<1>7. CASE CheckTracks
  BY <1>7 DEF CheckTracks
<1>8. CASE FlushRefused
  BY <1>8 DEF FlushRefused, Leave, NoCheck
<1>9. CASE Verdict
  BY <1>9 DEF Verdict, NextHits, Hits
<1>10. CASE Suspend
  BY <1>10 DEF Suspend, SetPost, Count, NoCheck
<1>11. CASE Regenerated
  BY <1>11 DEF Regenerated
<1>12. ASSUME NEW t \in Tracks, Answer(t)
      PROVE  PositionInv'
  BY <1>12 DEF Answer
<1>13. ASSUME NEW t \in Tracks, Flushed(t)
      PROVE  PositionInv'
  BY <1>13 DEF Flushed
<1>14. ASSUME NEW t \in Tracks, Regenerate(t)
      PROVE  PositionInv'
  BY <1>14 DEF Regenerate
<1>15. CASE Image
  BY <1>15 DEF Image
<1>16. CASE Render
  BY <1>16 DEF Render, SetPost
<1>17. CASE Dryrun
  BY <1>17 DEF Dryrun, Count, NoCheck
<1>18. CASE Publish
  BY <1>18 DEF Publish, SetPost
<1>19. CASE Insert
  BY <1>19 DEF Insert, Uploaded
<1>20. CASE Posted
  BY <1>20 DEF Posted, SetPost, Count, NoCheck
<1>21. CASE InsertLost
  BY <1>21 DEF InsertLost, Uploaded, Fail, SetPost, Stay, NoCheck
<1>22. CASE StepFails
  <2>1. pc \notin Ended /\ pc' \in {"create", "end"}
    BY <1>22 DEF StepFails, Fail, SetPost, Stay, NoCheck, UsedUp
  <2>2. UNCHANGED <<cyc, count, genre, pos>>
    BY <1>22 DEF StepFails, Fail, SetPost, Stay, NoCheck
  <2> QED BY <2>1, <2>2
<1>23. CASE EndCycle
  BY <1>23 DEF EndCycle, SetPlan
<1>24. CASE DbFails
  BY <1>24 DEF DbFails, Leave, NoCheck, Fault
<1>25. CASE RecordFails
  BY <1>25 DEF RecordFails, Leave, NoCheck, Fault
<1>26. CASE Crash
  BY <1>26 DEF Crash, Fault, NoCheck, Uploaded
<1>27. CASE Restart
  BY <1>27 DEF Restart, FailOrphanPosts
<1>28. ASSUME NEW g \in Genres, Promote(g)
      PROVE  PositionInv'
  BY <1>28 DEF Promote
<1>29. CASE UNCHANGED vars
  BY <1>29 DEF vars
<1> QED BY <1>1, <1>2, <1>3, <1>4, <1>5, <1>6, <1>7, <1>8, <1>9, <1>10, <1>11, <1>12,
       <1>13, <1>14, <1>15, <1>16, <1>17, <1>18, <1>19, <1>20, <1>21, <1>22, <1>23, <1>24,
       <1>25, <1>26, <1>27, <1>28, <1>29
       DEF Next, Cycle, AcoustidLoop, Publication

\* A step that touches the current post only keeps the others as they are.
LEMMA OthersStay ==
  ASSUME TypeOK, UploadInv, NEW p \in Posts, p[1] = cyc, p[2] = pos, UNCHANGED <<cyc, pos>>,
         \A q \in Posts \ {p} : /\ status'[q] = status[q] /\ uploads'[q] = uploads[q]
                                /\ (dryout'[q] <=> dryout[q]),
         uploads'[p] > 0 => status'[p] \in {"posting", "posted", "failed"},
         uploads'[p] <= 1,
         status'[p] = "posted" => uploads'[p] = 1,
         dryout'[p] => uploads'[p] = 0 /\ status'[p] # "none"
  PROVE  PostedSoFar'
<1> USE DEF PostedSoFar, UploadIsRemembered
<1>1. ASSUME NEW q \in Posts \ {p}
      PROVE  /\ uploads'[q] > 0 => status'[q] \in {"posting", "posted", "failed"}
             /\ uploads'[q] <= 1
             /\ status'[q] = "posted" => uploads'[q] = 1
             /\ dryout'[q] => uploads'[q] = 0 /\ status'[q] # "none"
             /\ q[1] > cyc' \/ (q[1] = cyc' /\ q[2] > pos') => status'[q] = "none"
  <2>1. /\ status'[q] = status[q] /\ uploads'[q] = uploads[q]
        /\ dryout'[q] <=> dryout[q]
    BY <1>1
  <2>2. PostedSoFar
    BY DEF UploadInv
  <2> QED BY <1>1, <2>1, <2>2
<1>2. ~(p[1] > cyc') /\ ~(p[2] > pos')
  BY DEF TypeOK
<1> QED BY <1>1, <1>2

\* A post has no video before its upload.
LEMMA NoVideoYet ==
  ASSUME TypeOK, UploadInv, NEW q \in Posts,
         status[q] \in {"pending", "generating", "generated"}
  PROVE  uploads[q] = 0
<1>1. uploads[q] \in Nat /\ ~(uploads[q] > 0)
  BY DEF TypeOK, UploadInv, PostedSoFar, UploadIsRemembered
<1> QED BY <1>1

\* A post in the making is one of the posts.
LEMMA AtPost ==
  ASSUME TypeOK, PositionInv, pc \in InPost
  PROVE  /\ Post \in Posts /\ Post[1] = cyc /\ Post[2] = pos /\ pos \in Nat
         /\ Genre \in Genres
BY BoundAssumption DEF TypeOK, PositionInv, InPost, PC, Ended, Cycles, Posts, Post, Genre

-----------------------------------------------------------------------------
(* The AcoustID loop *)

\* Every step keeps what is known of the tracks.
LEMMA CheckedStep ==
  ASSUME TypeOK, CheckedInv, [Next]_vars
  PROVE  CheckedInv'
<1> USE DEF TypeOK, PC, Ended, Post, Genre, Posts, Cycles, PlanState, PostState,
            AcoustidStatus, Passed, db, run, check, NoTally, CheckedInv,
            OnlyPassedTracksGoOn
<1>1. CASE Fire
  BY <1>1 DEF Fire
<1>2. CASE PlanFails
  BY <1>2 DEF PlanFails, Leave, NoCheck
<1>3. CASE Execute
  BY <1>3 DEF Execute, SetPlan
<1>4. CASE CreatePost
  BY <1>4 DEF CreatePost
<1>5. CASE Begin
  BY <1>5 DEF Begin, SetPost
<1>6. CASE Music
  BY <1>6 DEF Music, NoCheck
<1>7. CASE CheckTracks
  BY <1>7 DEF CheckTracks
<1>8. CASE FlushRefused
  BY <1>8 DEF FlushRefused, Leave, NoCheck
<1>9. CASE Verdict
  BY <1>9 DEF Verdict, NextHits, Hits
<1>10. CASE Suspend
  BY <1>10 DEF Suspend, SetPost, Count, NoCheck
<1>11. CASE Regenerated
  BY <1>11 DEF Regenerated
<1>12. ASSUME NEW t \in Tracks, Answer(t)
      PROVE  CheckedInv'
  BY <1>12 DEF Answer
<1>13. ASSUME NEW t \in Tracks, Flushed(t)
      PROVE  CheckedInv'
  BY <1>13 DEF Flushed
<1>14. ASSUME NEW t \in Tracks, Regenerate(t)
      PROVE  CheckedInv'
  BY <1>14 DEF Regenerate
<1>15. CASE Image
  BY <1>15 DEF Image
<1>16. CASE Render
  BY <1>16 DEF Render, SetPost
<1>17. CASE Dryrun
  BY <1>17 DEF Dryrun, Count, NoCheck
<1>18. CASE Publish
  BY <1>18 DEF Publish, SetPost
<1>19. CASE Insert
  BY <1>19 DEF Insert, Uploaded
<1>20. CASE Posted
  BY <1>20 DEF Posted, SetPost, Count, NoCheck
<1>21. CASE InsertLost
  BY <1>21 DEF InsertLost, Uploaded, Fail, SetPost, Stay, NoCheck
<1>22. CASE StepFails
  BY <1>22 DEF StepFails, Fail, SetPost, Stay, NoCheck
<1>23. CASE EndCycle
  BY <1>23 DEF EndCycle, SetPlan
<1>24. CASE DbFails
  BY <1>24 DEF DbFails, Leave, NoCheck, Fault
<1>25. CASE RecordFails
  BY <1>25 DEF RecordFails, Leave, NoCheck, Fault
<1>26. CASE Crash
  BY <1>26 DEF Crash, Fault, NoCheck, Uploaded
<1>27. CASE Restart
  BY <1>27 DEF Restart, FailOrphanPosts
<1>28. ASSUME NEW g \in Genres, Promote(g)
      PROVE  CheckedInv'
  BY <1>28 DEF Promote
<1>29. CASE UNCHANGED vars
  BY <1>29 DEF vars
<1> QED BY <1>1, <1>2, <1>3, <1>4, <1>5, <1>6, <1>7, <1>8, <1>9, <1>10, <1>11, <1>12,
       <1>13, <1>14, <1>15, <1>16, <1>17, <1>18, <1>19, <1>20, <1>21, <1>22, <1>23, <1>24,
       <1>25, <1>26, <1>27, <1>28, <1>29
       DEF Next, Cycle, AcoustidLoop, Publication

\* Every step keeps the counts of hits, rounds and regenerations apart.
LEMMA LimitStep ==
  ASSUME TypeOK, PositionInv, LimitInv, [Next]_vars
  PROVE  LimitInv'
<1> USE LimitAssumption
    DEF TypeOK, PC, Ended, Post, Genre, Posts, Cycles, PlanState, PostState,
        AcoustidStatus, Passed, db, run, check, NoTally, PositionInv, InPost,
        LimitInv
<1>1. CASE Fire
  BY <1>1 DEF Fire
<1>2. CASE PlanFails
  BY <1>2 DEF PlanFails, Leave, NoCheck
<1>3. CASE Execute
  BY <1>3 DEF Execute, SetPlan
<1>4. CASE CreatePost
  BY <1>4 DEF CreatePost
<1>5. CASE Begin
  BY <1>5 DEF Begin, SetPost
<1>6. CASE Music
  BY <1>6 DEF Music, NoCheck
<1>7. CASE CheckTracks
  BY <1>7 DEF CheckTracks
<1>8. CASE FlushRefused
  BY <1>8 DEF FlushRefused, Leave, NoCheck
<1>9. CASE Verdict
  <2>1. /\ Genre \in Genres /\ hits[Genre] \in Nat /\ loops \in Nat
        /\ hits[Genre] + 1 >= loops
        /\ \A t \in Tracks : regen[t] \in Nat /\ regen[t] < loops
        /\ UNCHANGED <<loops, regen, genre, cyc, pos>>
    BY <1>9, VerdictCases DEF Verdict
  <2>2. CASE pc' = "regenerating"
    <3>1. hits'[Genre] = hits[Genre] + 1 /\ hits[Genre] + 1 < HitLimit
      BY <1>9, <2>1, <2>2, VerdictCases
    <3>2. todo' \subseteq Tracks
      BY <1>9, VerdictCases DEF Hits
    <3> QED BY <2>1, <2>2, <3>1, <3>2
  <2>3. CASE pc' # "regenerating"
    BY <1>9, <2>3, VerdictCases
  <2> QED BY <2>2, <2>3
<1>10. CASE Suspend
  BY <1>10 DEF Suspend, SetPost, Count, NoCheck
<1>11. CASE Regenerated
  BY <1>11 DEF Regenerated
<1>12. ASSUME NEW t \in Tracks, Answer(t)
      PROVE  LimitInv'
  BY <1>12 DEF Answer
<1>13. ASSUME NEW t \in Tracks, Flushed(t)
      PROVE  LimitInv'
  BY <1>13 DEF Flushed
<1>14. ASSUME NEW t \in Tracks, Regenerate(t)
      PROVE  LimitInv'
  BY <1>14 DEF Regenerate
<1>15. CASE Image
  BY <1>15 DEF Image
<1>16. CASE Render
  BY <1>16 DEF Render, SetPost
<1>17. CASE Dryrun
  BY <1>17 DEF Dryrun, Count, NoCheck
<1>18. CASE Publish
  BY <1>18 DEF Publish, SetPost
<1>19. CASE Insert
  BY <1>19 DEF Insert, Uploaded
<1>20. CASE Posted
  BY <1>20 DEF Posted, SetPost, Count, NoCheck
<1>21. CASE InsertLost
  BY <1>21 DEF InsertLost, Uploaded, Fail, SetPost, Stay, NoCheck
<1>22. CASE StepFails
  BY <1>22 DEF StepFails, Fail, SetPost, Stay, NoCheck
<1>23. CASE EndCycle
  BY <1>23 DEF EndCycle, SetPlan
<1>24. CASE DbFails
  BY <1>24 DEF DbFails, Leave, NoCheck, Fault
<1>25. CASE RecordFails
  BY <1>25 DEF RecordFails, Leave, NoCheck, Fault
<1>26. CASE Crash
  BY <1>26 DEF Crash, Fault, NoCheck, Uploaded
<1>27. CASE Restart
  BY <1>27 DEF Restart, FailOrphanPosts
<1>28. ASSUME NEW g \in Genres, Promote(g)
      PROVE  LimitInv'
  BY <1>28 DEF Promote
<1>29. CASE UNCHANGED vars
  BY <1>29 DEF vars
<1> QED BY <1>1, <1>2, <1>3, <1>4, <1>5, <1>6, <1>7, <1>8, <1>9, <1>10, <1>11, <1>12,
       <1>13, <1>14, <1>15, <1>16, <1>17, <1>18, <1>19, <1>20, <1>21, <1>22, <1>23, <1>24,
       <1>25, <1>26, <1>27, <1>28, <1>29
       DEF Next, Cycle, AcoustidLoop, Publication

-----------------------------------------------------------------------------
(* Posts and plans *)

\* Every step keeps the statuses of posts.
LEMMA UploadStep ==
  ASSUME TypeOK, PositionInv, UploadInv, [Next]_vars
  PROVE  UploadInv'
<1> USE BoundAssumption
    DEF TypeOK, PC, Ended, Post, Genre, Posts, Cycles, PlanState, PostState,
        AcoustidStatus, Passed, db, run, check, NoTally, PositionInv, InPost,
        Generating, UploadInv, PostedSoFar, UploadIsRemembered
<1>1. CASE Fire
  BY <1>1 DEF Fire
<1>2. CASE PlanFails
  BY <1>2 DEF PlanFails, Leave, NoCheck
<1>3. CASE Execute
  BY <1>3 DEF Execute, SetPlan
<1>4. CASE CreatePost
  BY <1>4 DEF CreatePost
<1>5. CASE Begin
  <2>1. Post \in Posts /\ Post' = Post /\ Post[1] = cyc /\ Post[2] = pos /\ pos \in Nat
    BY <1>5, AtPost DEF Begin, SetPost
  <2>2. pc' = "music" /\ UNCHANGED <<uploads, dryout, cyc, pos, count>>
    BY <1>5 DEF Begin, SetPost
  <2>3. status'[Post] = "generating" /\ \A q \in Posts \ {Post} : status'[q] = status[q]
    BY <1>5, <2>1 DEF Begin, SetPost
  <2>4. uploads[Post] = 0 /\ ~dryout[Post]
    BY <1>5, <2>1, NoVideoYet DEF Begin
  <2> HIDE DEF Post, Posts, TypeOK, PositionInv, UploadInv, PostedSoFar, UploadIsRemembered
  <2>5. PostedSoFar'
    BY <2>1, <2>2, <2>3, <2>4, OthersStay
  <2> QED BY <2>1, <2>2, <2>3, <2>4, <2>5 DEF UploadInv
<1>6. CASE Music
  BY <1>6 DEF Music, NoCheck
<1>7. CASE CheckTracks
  BY <1>7 DEF CheckTracks
<1>8. CASE FlushRefused
  BY <1>8 DEF FlushRefused, Leave, NoCheck
<1>9. CASE Verdict
  BY <1>9 DEF Verdict, NextHits, Hits
<1>10. CASE Suspend
  BY <1>10 DEF Suspend, SetPost, Count, NoCheck
<1>11. CASE Regenerated
  BY <1>11 DEF Regenerated
<1>12. ASSUME NEW t \in Tracks, Answer(t)
      PROVE  UploadInv'
  BY <1>12 DEF Answer
<1>13. ASSUME NEW t \in Tracks, Flushed(t)
      PROVE  UploadInv'
  BY <1>13 DEF Flushed
<1>14. ASSUME NEW t \in Tracks, Regenerate(t)
      PROVE  UploadInv'
  BY <1>14 DEF Regenerate
<1>15. CASE Image
  BY <1>15 DEF Image
<1>16. CASE Render
  <2>1. Post \in Posts /\ Post' = Post /\ Post[1] = cyc /\ Post[2] = pos /\ pos \in Nat
    BY <1>16, AtPost DEF Render, SetPost
  <2>2. pc' = "publish" /\ UNCHANGED <<uploads, dryout, cyc, pos, count>>
    BY <1>16 DEF Render, SetPost
  <2>3. status'[Post] = "generated" /\ \A q \in Posts \ {Post} : status'[q] = status[q]
    BY <1>16, <2>1 DEF Render, SetPost
  <2>4. uploads[Post] = 0 /\ ~dryout[Post]
    BY <1>16, <2>1, NoVideoYet DEF Render
  <2> HIDE DEF Post, Posts, TypeOK, PositionInv, UploadInv, PostedSoFar, UploadIsRemembered
  <2>5. PostedSoFar'
    BY <2>1, <2>2, <2>3, <2>4, OthersStay
  <2> QED BY <2>1, <2>2, <2>3, <2>4, <2>5 DEF UploadInv
<1>17. CASE Dryrun
  <2>1. Post \in Posts /\ Post' = Post /\ Post[1] = cyc /\ Post[2] = pos /\ pos \in Nat
    BY <1>17, AtPost DEF Dryrun, Count, NoCheck
  <2>2. pc' = "create" /\ UNCHANGED <<status, uploads, cyc, pos, count>>
    BY <1>17 DEF Dryrun, Count, NoCheck
  <2>3. dryout'[Post] /\ \A q \in Posts \ {Post} : (dryout'[q] <=> dryout[q])
    BY <1>17, <2>1 DEF Dryrun, Count, NoCheck
  <2>4. uploads[Post] = 0 /\ ~dryout[Post]
    BY <1>17, <2>1, NoVideoYet DEF Dryrun
  <2>5. status[Post] = "generated"
    BY <1>17 DEF Dryrun
  <2> HIDE DEF Post, Posts, TypeOK, PositionInv, UploadInv, PostedSoFar, UploadIsRemembered
  <2>6. PostedSoFar'
    BY <2>1, <2>2, <2>3, <2>4, <2>5, OthersStay
  <2> QED BY <2>1, <2>2, <2>3, <2>4, <2>5, <2>6 DEF UploadInv
<1>18. CASE Publish
  <2>1. Post \in Posts /\ Post' = Post /\ Post[1] = cyc /\ Post[2] = pos /\ pos \in Nat
    BY <1>18, AtPost DEF Publish, SetPost
  <2>2. pc' = "uploading" /\ UNCHANGED <<uploads, dryout, cyc, pos, count>>
    BY <1>18 DEF Publish, SetPost
  <2>3. status'[Post] = "posting" /\ \A q \in Posts \ {Post} : status'[q] = status[q]
    BY <1>18, <2>1 DEF Publish, SetPost
  <2>4. uploads[Post] = 0 /\ ~dryout[Post]
    BY <1>18, <2>1, NoVideoYet DEF Publish
  <2> HIDE DEF Post, Posts, TypeOK, PositionInv, UploadInv, PostedSoFar, UploadIsRemembered
  <2>5. PostedSoFar'
    BY <2>1, <2>2, <2>3, <2>4, OthersStay
  <2> QED BY <2>1, <2>2, <2>3, <2>4, <2>5 DEF UploadInv
<1>19. CASE Insert
  <2>1. Post \in Posts /\ Post' = Post /\ Post[1] = cyc /\ Post[2] = pos /\ pos \in Nat
    BY <1>19, AtPost DEF Insert, Uploaded
  <2>2. pc' = "uploaded" /\ UNCHANGED <<status, dryout, cyc, pos, count>>
    BY <1>19 DEF Insert, Uploaded
  <2>3. uploads'[Post] = 1 /\ \A q \in Posts \ {Post} : uploads'[q] = uploads[q]
    BY <1>19, <2>1 DEF Insert, Uploaded
  <2>4. uploads[Post] = 0 /\ ~dryout[Post]
    BY <1>19, <2>1, NoVideoYet DEF Insert
  <2>5. status[Post] = "posting"
    BY <1>19 DEF Insert
  <2> HIDE DEF Post, Posts, TypeOK, PositionInv, UploadInv, PostedSoFar, UploadIsRemembered
  <2>6. PostedSoFar'
    BY <2>1, <2>2, <2>3, <2>4, <2>5, OthersStay
  <2> QED BY <2>1, <2>2, <2>3, <2>4, <2>5, <2>6 DEF UploadInv
<1>20. CASE Posted
  BY <1>20 DEF Posted, SetPost, Count, NoCheck
<1>21. CASE InsertLost
  <2>1. Post \in Posts /\ Post' = Post /\ Post[1] = cyc /\ Post[2] = pos /\ pos \in Nat
    BY <1>21, AtPost DEF InsertLost, Uploaded, Fail, SetPost, Stay, NoCheck
  <2>2. pc' = "create" /\ UNCHANGED <<dryout, cyc, pos, count>>
    BY <1>21 DEF InsertLost, Uploaded, Fail, SetPost, Stay, NoCheck
  <2>3. status'[Post] = "failed" /\ \A q \in Posts \ {Post} : status'[q] = status[q]
    BY <1>21, <2>1 DEF InsertLost, Uploaded, Fail, SetPost, Stay, NoCheck
  <2>4. uploads'[Post] = 1 /\ \A q \in Posts \ {Post} : uploads'[q] = uploads[q]
    BY <1>21, <2>1 DEF InsertLost, Uploaded, Fail, SetPost, Stay, NoCheck
  <2>5. uploads[Post] = 0 /\ ~dryout[Post]
    BY <1>21, <2>1, NoVideoYet DEF InsertLost
  <2> HIDE DEF Post, Posts, TypeOK, PositionInv, UploadInv, PostedSoFar, UploadIsRemembered
  <2>6. PostedSoFar'
    BY <2>1, <2>2, <2>3, <2>4, <2>5, OthersStay
  <2> QED BY <2>1, <2>2, <2>3, <2>4, <2>5, <2>6 DEF UploadInv
<1>22. CASE StepFails
  BY <1>22 DEF StepFails, Fail, SetPost, Stay, NoCheck
<1>23. CASE EndCycle
  BY <1>23 DEF EndCycle, SetPlan
<1>24. CASE DbFails
  BY <1>24 DEF DbFails, Leave, NoCheck, Fault
<1>25. CASE RecordFails
  BY <1>25 DEF RecordFails, Leave, NoCheck, Fault
<1>26. CASE Crash
  <2>1. CASE UNCHANGED uploads
    BY <1>26, <2>1 DEF Crash
  <2>2. CASE pc = "uploading" /\ Uploaded
    <3>1. Post \in Posts
      BY <2>2, AtPost
    <3>2. pc' = "idle" /\ UNCHANGED <<status, dryout, cyc, pos>>
      BY <1>26 DEF Crash
    <3>3. uploads'[Post] = uploads[Post] + 1 /\ \A q \in Posts \ {Post} : uploads'[q] = uploads[q]
      BY <2>2, <3>1 DEF Uploaded
    <3> HIDE DEF Post, Posts
    <3> QED BY <2>2, <3>1, <3>2, <3>3
  <2> QED BY <1>26, <2>1, <2>2 DEF Crash
<1>27. CASE Restart
  BY <1>27 DEF Restart, FailOrphanPosts
<1>28. ASSUME NEW g \in Genres, Promote(g)
      PROVE  UploadInv'
  BY <1>28 DEF Promote
<1>29. CASE UNCHANGED vars
  BY <1>29 DEF vars
<1> QED BY <1>1, <1>2, <1>3, <1>4, <1>5, <1>6, <1>7, <1>8, <1>9, <1>10, <1>11, <1>12,
       <1>13, <1>14, <1>15, <1>16, <1>17, <1>18, <1>19, <1>20, <1>21, <1>22, <1>23, <1>24,
       <1>25, <1>26, <1>27, <1>28, <1>29
       DEF Next, Cycle, AcoustidLoop, Publication

\* Every step keeps track of what is open.
LEMMA OpenStep ==
  ASSUME TypeOK, PositionInv, OpenInv, [Next]_vars
  PROVE  OpenInv'
<1> USE BoundAssumption
    DEF TypeOK, PC, Ended, Post, Genre, Posts, Cycles, PlanState, PostState,
        AcoustidStatus, Passed, db, run, check, NoTally, PositionInv, InPost,
        Generating, OpenInv
<1>1. CASE Fire
  BY <1>1 DEF Fire
<1>2. CASE PlanFails
  BY <1>2 DEF PlanFails, Leave, NoCheck
<1>3. CASE Execute
  BY <1>3 DEF Execute, SetPlan
<1>4. CASE CreatePost
  BY <1>4 DEF CreatePost
<1>5. CASE Begin
  BY <1>5 DEF Begin, SetPost
<1>6. CASE Music
  BY <1>6 DEF Music, NoCheck
<1>7. CASE CheckTracks
  BY <1>7 DEF CheckTracks
<1>8. CASE FlushRefused
  BY <1>8 DEF FlushRefused, Leave, NoCheck
<1>9. CASE Verdict
  BY <1>9 DEF Verdict, NextHits, Hits
<1>10. CASE Suspend
  BY <1>10 DEF Suspend, SetPost, Count, NoCheck
<1>11. CASE Regenerated
  BY <1>11 DEF Regenerated
<1>12. ASSUME NEW t \in Tracks, Answer(t)
      PROVE  OpenInv'
  BY <1>12 DEF Answer
<1>13. ASSUME NEW t \in Tracks, Flushed(t)
      PROVE  OpenInv'
  BY <1>13 DEF Flushed
<1>14. ASSUME NEW t \in Tracks, Regenerate(t)
      PROVE  OpenInv'
  BY <1>14 DEF Regenerate
<1>15. CASE Image
  BY <1>15 DEF Image
<1>16. CASE Render
  BY <1>16 DEF Render, SetPost
<1>17. CASE Dryrun
  BY <1>17 DEF Dryrun, Count, NoCheck
<1>18. CASE Publish
  BY <1>18 DEF Publish, SetPost
<1>19. CASE Insert
  BY <1>19 DEF Insert, Uploaded
<1>20. CASE Posted
  BY <1>20 DEF Posted, SetPost, Count, NoCheck
<1>21. CASE InsertLost
  BY <1>21 DEF InsertLost, Uploaded, Fail, SetPost, Stay, NoCheck
<1>22. CASE StepFails
  BY <1>22 DEF StepFails, Fail, SetPost, Stay, NoCheck
<1>23. CASE EndCycle
  BY <1>23 DEF EndCycle, SetPlan
<1>24. CASE DbFails
  BY <1>24 DEF DbFails, Leave, NoCheck, Fault
<1>25. CASE RecordFails
  BY <1>25 DEF RecordFails, Leave, NoCheck, Fault
<1>26. CASE Crash
  BY <1>26 DEF Crash, Fault, NoCheck, Uploaded
<1>27. CASE Restart
  BY <1>27 DEF Restart, FailOrphanPosts
<1>28. ASSUME NEW g \in Genres, Promote(g)
      PROVE  OpenInv'
  BY <1>28 DEF Promote
<1>29. CASE UNCHANGED vars
  BY <1>29 DEF vars
<1> QED BY <1>1, <1>2, <1>3, <1>4, <1>5, <1>6, <1>7, <1>8, <1>9, <1>10, <1>11, <1>12,
       <1>13, <1>14, <1>15, <1>16, <1>17, <1>18, <1>19, <1>20, <1>21, <1>22, <1>23, <1>24,
       <1>25, <1>26, <1>27, <1>28, <1>29
       DEF Next, Cycle, AcoustidLoop, Publication

-----------------------------------------------------------------------------
(* The tally *)

Told(s) == {q \in Posts : q[1] = cyc /\ status[q] = s}
Kept == {q \in Posts : q[1] = cyc /\ dryout[q]}
Live == pc \notin {"idle", "halted", "raised"}

\* The counts of the running cycle are those of its rows; every post it has
\* created is accounted for, but for the one in the making; and the loop is
\* left early only by a fatal error.
TallyInv ==
  Live =>
    /\ tally.posted = Cardinality(Told("posted"))
    /\ tally.failed = Cardinality(Told("failed"))
    /\ tally.dryrun = Cardinality(Kept)
    /\ pos = Cardinality(Created)
    /\ \A q \in Created : \/ status[q] \in {"posted", "failed"} \/ dryout[q]
                          \/ pc \in InPost /\ q = Post
    /\ pc = "end" => tally.fatal
    /\ pc = "done" /\ plan[cyc] = "completed" => pos = count

\* A row more in a set of rows counts one more.
LEMMA OneMore ==
  ASSUME NEW S \in SUBSET Posts, NEW p \in Posts, p \notin S
  PROVE  Cardinality(S) \in Nat /\ Cardinality(S \cup {p}) = Cardinality(S) + 1
<1>1. IsFiniteSet(Cycles) /\ IsFiniteSet(1 .. MaxPosts)
  BY FS_Interval, BoundAssumption DEF Cycles
<1>2. IsFiniteSet(Posts)
  BY <1>1, FS_Product DEF Posts
<1>3. IsFiniteSet(S)
  BY <1>2, FS_Subset
<1> QED BY <1>3, FS_AddElement, FS_CardinalityType

\* What a post ends with, and the count that goes with it.
Settles(f) ==
  /\ pc \in InPost /\ pc' \in {"create", "end"}
  /\ UNCHANGED <<cyc, pos>>
  /\ \A q \in Posts \ {Post} : status'[q] = status[q] /\ (dryout'[q] <=> dryout[q])
  /\ tally'[f] = tally[f] + 1
  /\ \A g \in {"posted", "failed", "dryrun"} \ {f} : tally'[g] = tally[g]
  /\ f = "dryrun" => dryout'[Post] /\ status'[Post] = status[Post]
  /\ f # "dryrun" => ~ dryout'[Post] /\ status'[Post] = f
  /\ pc' = "end" => tally'.fatal

\* A step that ends no post.
Passes ==
  /\ UNCHANGED <<cyc, pos, tally, dryout>>
  /\ \A q \in Posts \ {Post} : status'[q] = status[q]
  /\ \/ status' = status
     \/ /\ pc \in InPost /\ status'[Post] \notin {"none", "posted", "failed"}
  /\ Live /\ (pc \in InPost <=> pc' \in InPost)
  /\ pc' = "end" => pc = "end"
  /\ pc' = "done" /\ plan'[cyc] = "completed" =>
       \/ pc = "done" /\ plan' = plan /\ count' = count
       \/ pos = count'
       \/ pc = "end" /\ ~ tally.fatal

\* A step of the cycle creates the next post, ends the one in the making, or
\* leaves the count of the rows alone.
LEMMA EveryStep ==
  ASSUME TypeOK, PositionInv, UploadInv, [Next]_vars
  PROVE  \/ ~ Live'
         \/ Fire
         \/ CreatePost
         \/ \E f \in {"posted", "failed", "dryrun"} : Settles(f)
         \/ Passes
<1> USE DEF InPost, PC, Ended
<1>1. pc \in InPost => Post \in Posts /\ ~ dryout[Post]
  BY AtPost DEF UploadInv
<1>2. CASE PlanFails \/ FlushRefused \/ DbFails \/ RecordFails \/ Crash
  BY <1>2 DEF PlanFails, FlushRefused, DbFails, RecordFails, Crash, Leave, Live
<1>3. CASE Restart
  BY <1>3 DEF Restart, TypeOK, Live, run
<1>4. CASE Execute \/ EndCycle
  <2>1. CASE Execute
    BY <2>1 DEF Execute, Passes, Live, run
  <2>2. CASE EndCycle
    <3>1. /\ UNCHANGED <<cyc, pos, count, tally, dryout, status>> /\ pc' = "done"
          /\ pc = "end" \/ (pc = "create" /\ pos = count)
          /\ plan' = [plan EXCEPT ![cyc] = IF tally.fatal THEN "failed" ELSE "completed"]
      BY <2>2 DEF EndCycle, SetPlan, run
    <3>2. plan'[cyc] = IF tally.fatal THEN "failed" ELSE "completed"
      BY <3>1 DEF TypeOK, PositionInv
    <3> QED BY <3>1, <3>2 DEF Passes, Live
  <2> QED BY <1>4, <2>1, <2>2
<1>5. CASE Music \/ Image \/ CheckTracks \/ Verdict \/ Regenerated \/ Insert
  BY <1>5 DEF Music, Image, CheckTracks, Verdict, Regenerated, Insert, Passes, Live, run, db
<1>6. ASSUME NEW t \in Tracks, Answer(t) \/ Regenerate(t) \/ Flushed(t)
      PROVE  Passes \/ ~ Live'
  BY <1>6 DEF Answer, Regenerate, Flushed, Passes, Live, run, db
<1>7. CASE (\E g \in Genres : Promote(g)) \/ UNCHANGED vars
  BY <1>7 DEF Promote, Passes, Live, vars, run, db
<1>8. CASE Begin \/ Render \/ Publish
  <2>1. PICK s \in {"generating", "generated", "posting"} : SetPost(s)
    BY <1>8 DEF Begin, Render, Publish
  <2>2. pc \in InPost /\ pc' \in InPost /\ UNCHANGED <<cyc, pos, count, tally, dryout>>
    BY <1>8 DEF Begin, Render, Publish, run
  <2>3. status'[Post] = s /\ \A q \in Posts \ {Post} : status'[q] = status[q]
    BY <1>1, <2>1, <2>2 DEF SetPost, TypeOK
  <2> QED BY <2>2, <2>3 DEF Passes, Live
<1>9. CASE Suspend \/ Posted
  <2>1. PICK f \in {"posted", "failed"} : SetPost(f) /\ Count(f)
    BY <1>9 DEF Suspend, Posted
  <2>2. pc \in InPost /\ pc' = "create" /\ UNCHANGED <<cyc, pos, count, dryout>>
    BY <1>9 DEF Suspend, Posted
  <2>3. status'[Post] = f /\ \A q \in Posts \ {Post} : status'[q] = status[q]
    BY <1>1, <2>1, <2>2 DEF SetPost, TypeOK
  <2>4. tally'[f] = tally[f] + 1
        /\ \A g \in {"posted", "failed", "dryrun"} \ {f} : tally'[g] = tally[g]
    BY <2>1 DEF Count, TypeOK, Tally
  <2>5. Settles(f)
    BY <1>1, <2>2, <2>3, <2>4 DEF Settles
  <2> QED BY <2>5
<1>10. CASE Dryrun
  <2>1. /\ pc \in InPost /\ pc' = "create" /\ UNCHANGED <<cyc, pos, count, status>>
        /\ dryout' = [dryout EXCEPT ![Post] = TRUE] /\ Count("dryrun")
    BY <1>10 DEF Dryrun
  <2>2. dryout'[Post] /\ \A q \in Posts \ {Post} : dryout'[q] <=> dryout[q]
    BY <1>1, <2>1 DEF TypeOK
  <2>3. tally'["dryrun"] = tally["dryrun"] + 1
        /\ \A g \in {"posted", "failed", "dryrun"} \ {"dryrun"} : tally'[g] = tally[g]
    BY <2>1 DEF Count, TypeOK, Tally
  <2>4. Settles("dryrun")
    BY <2>1, <2>2, <2>3 DEF Settles
  <2> QED BY <2>4
<1>11. CASE InsertLost \/ StepFails
  <2>1. PICK fatal \in BOOLEAN : Fail(fatal)
    BY <1>11 DEF InsertLost, StepFails
  <2>2. pc \in InPost
    BY <1>11 DEF InsertLost, StepFails, UsedUp
  <2>3. /\ SetPost("failed") /\ tally' = [tally EXCEPT !.failed = @ + 1, !.fatal = fatal]
        /\ pc' = IF fatal THEN "end" ELSE "create"
        /\ UNCHANGED <<cyc, pos, count, dryout>>
    BY <2>1 DEF Fail, Stay
  <2>4. status'[Post] = "failed" /\ \A q \in Posts \ {Post} : status'[q] = status[q]
    BY <1>1, <2>2, <2>3 DEF SetPost, TypeOK
  <2>5. /\ tally'["failed"] = tally["failed"] + 1 /\ tally'.fatal = fatal
        /\ \A g \in {"posted", "failed", "dryrun"} \ {"failed"} : tally'[g] = tally[g]
    BY <2>3 DEF TypeOK, Tally
  <2>6. Settles("failed")
    BY <1>1, <2>2, <2>3, <2>4, <2>5 DEF Settles
  <2> QED BY <2>6
<1> QED BY <1>2, <1>3, <1>4, <1>5, <1>6, <1>7, <1>8, <1>9, <1>10, <1>11
        DEF Next, Cycle, AcoustidLoop, Publication

\* The tally counts the rows before a step and after it.
LEMMA TallyStep ==
  ASSUME TypeOK, PositionInv, UploadInv, TallyInv, TypeOK', [Next]_vars
  PROVE  TallyInv'
<1>1. CASE ~ Live'
  BY <1>1 DEF TallyInv
<1>2. CASE Fire
  <2>1. /\ cyc' = cyc + 1 /\ pos' = 0 /\ tally' = NoTally /\ pc' = "planned"
        /\ UNCHANGED <<status, dryout>>
    BY <1>2 DEF Fire
  <2>2. \A q \in Posts : q[1] = cyc' => status[q] = "none" /\ ~ dryout[q]
    <3>1. cyc \in Nat
      BY BoundAssumption DEF TypeOK
    <3> QED BY <2>1, <3>1 DEF UploadInv, PostedSoFar
  <2>3. Told("posted")' = {} /\ Told("failed")' = {} /\ Kept' = {} /\ Created' = {}
    BY <2>1, <2>2 DEF Told, Kept, Created
  <2> QED BY <2>1, <2>3, FS_EmptySet DEF TallyInv, NoTally
<1>3. CASE CreatePost
  <2> DEFINE new == <<cyc, pos + 1>>
  <2>1. /\ pc = "create" /\ pc' = "begin" /\ pos' = pos + 1 /\ Live
        /\ UNCHANGED <<cyc, count, tally, dryout>>
        /\ status' = [status EXCEPT ![new] = "pending"]
    BY <1>3 DEF CreatePost, Live
  <2>2. new \in Posts /\ new[1] = cyc /\ new[2] = pos + 1 /\ pos \in Nat
    BY <1>3, BoundAssumption DEF CreatePost, TypeOK, PositionInv, Ended, Posts, Cycles
  <2>3. status[new] = "none" /\ ~ dryout[new]
    BY <2>2 DEF UploadInv, PostedSoFar, TypeOK
  <2>4. status'[new] = "pending" /\ \A q \in Posts \ {new} : status'[q] = status[q]
    BY <2>1, <2>2 DEF TypeOK
  <2>5. new = Post'
    BY <2>1 DEF Post
  <2> HIDE DEF new
  <2>6. /\ Told("posted")' = Told("posted") /\ Told("failed")' = Told("failed")
        /\ Kept' = Kept
    BY <2>1, <2>3, <2>4 DEF Told, Kept
  <2>7. Created' = Created \cup {new} /\ new \notin Created /\ Created \in SUBSET Posts
    BY <2>1, <2>2, <2>3, <2>4 DEF Created
  <2>8. Cardinality(Created') = pos + 1
    BY <2>1, <2>2, <2>7, OneMore DEF TallyInv
  <2>9. ASSUME NEW q \in Created'
        PROVE  \/ status'[q] \in {"posted", "failed"} \/ dryout'[q]
               \/ pc' \in InPost /\ q = Post'
    <3>1. CASE q = new
      BY <2>1, <2>5, <3>1 DEF InPost, PC, Ended
    <3>2. CASE q # new
      <4>1. q \in Created /\ status'[q] = status[q]
        BY <2>4, <2>7, <3>2 DEF Created
      <4> QED BY <2>1, <4>1 DEF TallyInv, InPost, PC, Ended
    <3> QED BY <3>1, <3>2
  <2> QED BY <2>1, <2>6, <2>8, <2>9 DEF TallyInv
<1>4. ASSUME NEW f \in {"posted", "failed", "dryrun"}, Settles(f)
      PROVE  TallyInv'
  <2>1. Post \in Posts /\ Post[1] = cyc /\ status[Post] \notin {"none", "posted", "failed"}
        /\ ~ dryout[Post]
    BY <1>4, AtPost DEF Settles, UploadInv, Generating, InPost, PC, Ended
  <2>2. Live /\ Post' = Post /\ UNCHANGED <<cyc, pos>>
    BY <1>4 DEF Settles, Live, InPost, PC, Ended, Post
  <2>3. /\ Told("posted") \in SUBSET Posts /\ Post \notin Told("posted")
        /\ Told("failed") \in SUBSET Posts /\ Post \notin Told("failed")
        /\ Kept \in SUBSET Posts /\ Post \notin Kept
    BY <2>1 DEF Told, Kept
  <2>4. /\ Told("posted")' = Told("posted") \cup (IF f = "posted" THEN {Post} ELSE {})
        /\ Told("failed")' = Told("failed") \cup (IF f = "failed" THEN {Post} ELSE {})
        /\ Kept' = Kept \cup (IF f = "dryrun" THEN {Post} ELSE {})
    BY <1>4, <2>1, <2>2 DEF Told, Kept, Settles
  <2>5. Created' = Created
    BY <1>4, <2>1, <2>2 DEF Created, Settles
  <2>6. /\ tally'.posted = Cardinality(Told("posted")')
        /\ tally'.failed = Cardinality(Told("failed")')
        /\ tally'.dryrun = Cardinality(Kept')
    <3>1. /\ tally.posted = Cardinality(Told("posted"))
          /\ tally.failed = Cardinality(Told("failed"))
          /\ tally.dryrun = Cardinality(Kept)
      BY <2>2 DEF TallyInv
    <3>2. /\ Cardinality(Told("posted") \cup {Post}) = Cardinality(Told("posted")) + 1
          /\ Cardinality(Told("failed") \cup {Post}) = Cardinality(Told("failed")) + 1
          /\ Cardinality(Kept \cup {Post}) = Cardinality(Kept) + 1
      BY <2>1, <2>3, OneMore
    <3>3. \A S : S \cup {} = S
      OBVIOUS
    <3> QED BY <1>4, <2>4, <3>1, <3>2, <3>3 DEF Settles
  <2>7. \A q \in Created' : status'[q] \in {"posted", "failed"} \/ dryout'[q]
    BY <1>4, <2>2, <2>5 DEF TallyInv, Settles, Created
  <2>8. pos' = Cardinality(Created')
    BY <2>2, <2>5 DEF TallyInv
  <2>9. (pc' = "end" => tally'.fatal) /\ pc' # "done"
    BY <1>4 DEF Settles
  <2> QED BY <2>6, <2>7, <2>8, <2>9 DEF TallyInv
<1>5. CASE Passes
  <2>1. Live /\ Post' = Post /\ UNCHANGED <<cyc, pos, tally, dryout>>
    BY <1>5 DEF Passes, Post
  <2>2. ASSUME NEW q \in Posts
        PROVE  /\ (status'[q] = "posted") <=> (status[q] = "posted")
               /\ (status'[q] = "failed") <=> (status[q] = "failed")
               /\ (status'[q] = "none") <=> (status[q] = "none")
    <3>1. CASE status'[q] = status[q]
      BY <3>1
    <3>2. CASE status'[q] # status[q]
      <4>1. q = Post /\ pc \in InPost /\ status'[q] \notin {"none", "posted", "failed"}
        BY <1>5, <3>2 DEF Passes
      <4>2. status[q] \notin {"none", "posted", "failed"}
        BY <4>1 DEF UploadInv, Generating, InPost, PC, Ended
      <4> QED BY <4>1, <4>2
    <3> QED BY <3>1, <3>2
  <2>3. /\ Told("posted")' = Told("posted") /\ Told("failed")' = Told("failed")
        /\ Kept' = Kept /\ Created' = Created
    BY <2>1, <2>2 DEF Told, Kept, Created
  <2>4. \A q \in Created' : \/ status'[q] \in {"posted", "failed"} \/ dryout'[q]
                            \/ pc' \in InPost /\ q = Post'
    <3>1. \A q \in Created : q \in Posts
      BY DEF Created
    <3> QED BY <1>5, <2>1, <2>2, <2>3, <3>1 DEF TallyInv, Passes
  <2>5. (pc' = "end" => tally'.fatal)
        /\ (pc' = "done" /\ plan'[cyc'] = "completed" => pos' = count')
    BY <1>5, <2>1 DEF TallyInv, Passes
  <2> QED BY <2>1, <2>3, <2>4, <2>5 DEF TallyInv
<1> QED BY EveryStep, <1>1, <1>2, <1>3, <1>4, <1>5

-----------------------------------------------------------------------------
(* The theorems *)

\* Init satisfies the whole invariant.
LEMMA InitInv == Init => IInv
<1> SUFFICES ASSUME Init PROVE IInv
  OBVIOUS
<1> USE LimitAssumption, BoundAssumption DEF Init, Ended
<1>1. TypeOK
  <2>1. NoTally \in Tally
    BY DEF NoTally, Tally
  <2> QED BY <2>1 DEF TypeOK, PC, PlanState, PostState, AcoustidStatus
<1>2. PositionInv
  BY DEF PositionInv, InPost
<1>3. CheckedInv
  BY DEF CheckedInv, OnlyPassedTracksGoOn
<1>4. LimitInv
  BY DEF LimitInv
<1>5. UploadInv
  BY DEF UploadInv, PostedSoFar, UploadIsRemembered, InPost, Generating
<1>6. OpenInv
  BY DEF OpenInv, Generating
<1> QED BY <1>1, <1>2, <1>3, <1>4, <1>5, <1>6 DEF IInv

\* The invariant holds in every state of every behaviour of the cycle.
THEOREM Inductive == Spec => []IInv
<1>1. ASSUME IInv, [Next]_vars PROVE IInv'
  BY <1>1, TypeStep, PositionStep, CheckedStep, LimitStep, UploadStep, OpenStep
     DEF IInv
<1> QED BY <1>1, InitInv, PTL DEF Spec

\* Every variable keeps its type (plans, posts and tracks of the cycle).
THEOREM TypeCorrect == Spec => []TypeOK
<1>1. IInv => TypeOK
  BY DEF IInv
<1> QED BY <1>1, Inductive, PTL

\* DailyCycleOrchestrator._process_post: no post is illustrated, rendered or
\* published with a track that was not looked up after its last generation, or
\* that hit.
THEOREM PassedGoOn == Spec => []OnlyPassedTracksGoOn
<1>1. IInv => OnlyPassedTracksGoOn
  BY DEF IInv, CheckedInv
<1> QED BY <1>1, Inductive, PTL

\* _run_acoustid_loop: the genre is suspended before the rounds of the loop or the
\* regenerations of a track are used up, for all limits in the order that
\* LimitAssumption asks for, which the limits of the code are in.
THEOREM SuspendedFirst == Spec => []SuspendedBeforeUsedUp
<1>1. IInv => SuspendedBeforeUsedUp
  <2> SUFFICES ASSUME IInv, UsedUp PROVE FALSE
    BY DEF SuspendedBeforeUsedUp
  <2>1. Genre \in Genres
    BY DEF IInv, TypeOK, PositionInv, InPost, PC, Ended, Post, Genre, Cycles, UsedUp
  <2>2. hits[Genre] \in Nat /\ loops \in Nat /\ \A t \in Tracks : regen[t] \in Nat
    BY <2>1, LimitAssumption DEF IInv, TypeOK
  <2>3. CASE pc = "loop" /\ loops = MaxLoops
    BY <2>2, <2>3, LimitAssumption DEF IInv, LimitInv
  <2>4. CASE pc = "regenerating" /\ \E t \in todo : regen[t] >= MaxRegen
    <3>1. PICK t \in todo : regen[t] >= MaxRegen
      BY <2>4
    <3>2. t \in Tracks /\ regen[t] <= hits[Genre] /\ hits[Genre] < HitLimit
      <4>1. /\ hits[Genre] >= loops /\ hits[Genre] < HitLimit
            /\ regen[t] < loops
        BY <2>4, <3>1 DEF IInv, LimitInv
      <4>2. t \in Tracks
        BY <3>1 DEF IInv, TypeOK
      <4> QED BY <2>2, <4>1, <4>2
    <3> QED BY <2>2, <3>1, <3>2, LimitAssumption
  <2> QED BY <2>3, <2>4 DEF UsedUp
<1> QED BY <1>1, Inductive, PTL

\* _publish: a post with a video on YouTube has left "generated", whatever fails
\* or stops after the insertion, and a posted one has exactly one.
THEOREM UploadRemembered == Spec => []UploadIsRemembered
<1>1. IInv => UploadIsRemembered
  BY DEF IInv, UploadInv, PostedSoFar
<1> QED BY <1>1, Inductive, PTL

\* reconcile_orphaned_runs: outside a running cycle no plan is executing and no
\* post is generating, save those an exception of run() left since the start.
THEOREM DeadClosed == Spec => []DeadCycleIsClosed
<1>1. IInv => DeadCycleIsClosed
  <2> SUFFICES ASSUME IInv, up, NEW c \in Cycles, c # cyc \/ pc \in Ended, c \notin abrupt
               PROVE  /\ plan[c] # "executing"
                      /\ \A q \in Posts : q[1] = c => status[q] # "generating"
    BY DEF DeadCycleIsClosed
  <2>1. plan[c] # "executing"
    BY DEF IInv, OpenInv
  <2>2. ASSUME NEW q \in Posts, q[1] = c PROVE status[q] # "generating"
    BY <2>2 DEF IInv, OpenInv, Post, Generating, Ended
  <2> QED BY <2>1, <2>2
<1> QED BY <1>1, Inductive, PTL

\* The tally of the running cycle counts its rows, in every reachable state.
THEOREM TallyKept == Spec => []TallyInv
<1>1. Init => TallyInv
  BY DEF Init, TallyInv, Live
<1>2. IInv /\ IInv' /\ TallyInv /\ [Next]_vars => TallyInv'
  BY TallyStep DEF IInv
<1> QED BY <1>1, <1>2, Inductive, PTL DEF Spec

\* A cycle that ends (DailyCycleRunner.run) accounts for every post it created,
\* and its plan is completed only if every post was begun and ended.
THEOREM AddsUp == Spec => []CycleAddsUp
<1>1. ASSUME IInv, TallyInv PROVE CycleAddsUp
  <2> SUFFICES ASSUME pc = "done"
               PROVE  /\ tally.posted = Cardinality({q \in Created : status[q] = "posted"})
                      /\ tally.failed = Cardinality({q \in Created : status[q] = "failed"})
                      /\ tally.dryrun = Cardinality({q \in Created : dryout[q]})
                      /\ Created = {q \in Created : status[q] = "posted"}
                                     \cup {q \in Created : status[q] = "failed"}
                                     \cup {q \in Created : dryout[q]}
                      /\ plan[cyc] = "completed" => Cardinality(Created) = count
    BY DEF CycleAddsUp
  <2>1. Live /\ pc \notin InPost
    BY DEF Live, InPost, Ended
  <2>2. \A q \in Posts : dryout[q] => status[q] # "none"
    BY <1>1 DEF IInv, UploadInv, PostedSoFar
  <2>3. /\ {q \in Created : status[q] = "posted"} = Told("posted")
        /\ {q \in Created : status[q] = "failed"} = Told("failed")
        /\ {q \in Created : dryout[q]} = Kept
    BY <2>2 DEF Created, Told, Kept
  <2>4. \A q \in Created : status[q] \in {"posted", "failed"} \/ dryout[q]
    BY <1>1, <2>1 DEF TallyInv
  <2> QED BY <1>1, <2>1, <2>3, <2>4 DEF TallyInv
<1> QED BY <1>1, Inductive, TallyKept, PTL
=============================================================================

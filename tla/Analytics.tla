------------------------------ MODULE Analytics ------------------------------
(***************************************************************************)
(* What the analytics of YouTube lead to: the daily figures of the videos  *)
(* that are visible, stored one row per video and day, and the advice that *)
(* is drawn from them on each experimental genre, to adopt it, to drop it  *)
(* or to keep trying.                                                      *)
(*                                                                         *)
(* Of a row only the retention is modelled, a whole per cent; views and    *)
(* the other figures are shown and decide nothing.  A request that YouTube *)
(* answers with an error leaves everything as it is, so it is no action.   *)
(* Nothing in the code inserts the rows of videos that this part reads:    *)
(* PostClip stands for that insert.                                        *)
(***************************************************************************)
EXTENDS Naturals, FiniteSets, FiniteSetsExt

CONSTANTS Clips,      \* videos
          MainClips,  \* those of a genre with role main
          TrialGenres,\* genres with role experiment
          TrialOf,    \* genre of each of the other videos
          Retentions, \* averageViewPercentage that YouTube may report
          MinClips,   \* MIN_VIDEO_COUNT
          MinDays,    \* MIN_DAYS_ELAPSED
          Window,     \* window_days
          LastDay,    \* bound on days
          MaxFetches, \* bound on fetches
          NoFigure,   \* there is no row
          Unmeasured  \* retention_pct is NULL

Days == 1 .. LastDay

ASSUME AnalyticsAssumption ==
  /\ IsFiniteSet(Clips) /\ MainClips \subseteq Clips
  /\ TrialOf \in [Clips \ MainClips -> TrialGenres]
  /\ Retentions \subseteq Nat \ {0}
  /\ NoFigure \notin Nat /\ Unmeasured \notin Nat /\ NoFigure # Unmeasured
  /\ {MinClips, MinDays, MaxFetches} \subseteq Nat
  /\ {LastDay, Window} \subseteq Nat \ {0}

VARIABLES day,     \* today
          posted,  \* day on which each video was posted, 0 before
          visible, \* videos whose privacy_status is public or unlisted
          figures, \* rows of analytics_daily
          fetches, \* number of fetches so far
          advice   \* the advice, when the last step gave one

analyticsVars == <<day, posted, visible, figures, fetches, advice>>

NoAdvice == [is |-> "none"]

AnalyticsInit ==
  /\ day = 1
  /\ posted = [v \in Clips |-> 0]
  /\ visible = {}
  /\ figures = [v \in Clips |-> [d \in Days |-> NoFigure]]
  /\ fetches = 0
  /\ advice = NoAdvice

PostClip(v) ==
  /\ posted[v] = 0
  /\ posted' = [posted EXCEPT ![v] = day]
  /\ visible' = visible \cup {v}
  /\ advice' = NoAdvice
  /\ UNCHANGED <<day, figures, fetches>>

\* The panic stop makes a video private.
HideClip(v) ==
  /\ v \in visible
  /\ visible' = visible \ {v}
  /\ advice' = NoAdvice
  /\ UNCHANGED <<day, posted, figures, fetches>>

NextDay ==
  /\ day < LastDay
  /\ day' = day + 1
  /\ advice' = NoAdvice
  /\ UNCHANGED <<posted, visible, figures, fetches>>

-----------------------------------------------------------------------------
(* The fetch. *)

\* Mutant: a missing retention is stored as 0, as missing views are.
StoredZero(measured) == IF measured = Unmeasured THEN 0 ELSE measured

\* retention_pct of the row: a video that is not in the report has none.
Stored(measured) == measured

\* The videos that are asked for, and what YouTube may answer: it may leave a
\* video out, and knows nothing of days before it was posted.
Targets == visible
Reports(date) ==
  {report \in [Clips -> Retentions \cup {Unmeasured}] :
     \A v \in Clips : report[v] # Unmeasured => v \in Targets /\ posted[v] <= date}

\* One row for each target, which takes the place of the row it had.
Upserted(date, report) ==
  [v \in Clips |-> IF v \in Targets THEN [figures[v] EXCEPT ![date] = Stored(report[v])]
                   ELSE figures[v]]

\* fetch_and_upsert for a day that is over.
Fetch(date, report) ==
  /\ date < day
  /\ Targets # {}
  /\ fetches < MaxFetches
  /\ figures' = Upserted(date, report)
  /\ fetches' = fetches + 1
  /\ advice' = NoAdvice
  /\ UNCHANGED <<day, posted, visible>>

-----------------------------------------------------------------------------
(* The advice. *)

ClipsOf(genre) == {v \in Clips \ MainClips : TrialOf[v] = genre}

\* The rows of some videos that an average is taken of.
InWindow(clips) ==
  {r \in clips \X Days : /\ r[2] + Window >= day
                         /\ figures[r[1]][r[2]] \notin {NoFigure, Unmeasured}}
RetentionSum(rows) == MapThenSumSet(LAMBDA r : figures[r[1]][r[2]], rows)

\* round(average / average of the main genres, 4), in 1/10000.
Ratio(own, main) ==
  LET n == RetentionSum(own) * Cardinality(main)
      d == RetentionSum(main) * Cardinality(own)
  IN (20000 * n + d) \div (2 * d)

\* Days since the first video of a genre.
Elapsed(genre) ==
  LET posts == {posted[v] : v \in ClipsOf(genre)} \ {0}
  IN IF posts = {} THEN 0 ELSE day - Min(posts)

\* _evaluate
Advised(genre) ==
  LET sample == {v \in ClipsOf(genre) : posted[v] # 0}
      own == InWindow(ClipsOf(genre))
      main == InWindow(MainClips)
      tried == Cardinality(sample) >= MinClips /\ Elapsed(genre) >= MinDays
      compared == own # {} /\ main # {} /\ RetentionSum(main) # 0
  IN CASE tried /\ compared /\ Ratio(own, main) >= 8000 -> "adopt"
       [] tried /\ compared /\ Ratio(own, main) < 6000 -> "drop"
       [] OTHER -> "keep"

\* recommend_genres; nothing is stored.
Advise(genre) ==
  /\ advice' = [is |-> Advised(genre), genre |-> genre]
  /\ UNCHANGED <<day, posted, visible, figures, fetches>>

GetAnalytics == \E genre \in TrialGenres : Advise(genre)

AnalyticsNext ==
  \/ \E v \in Clips : PostClip(v) \/ HideClip(v)
  \/ NextDay
  \/ \E date \in Days : \E report \in Reports(date) : Fetch(date, report)
  \/ GetAnalytics

AnalyticsSpec == AnalyticsInit /\ [][AnalyticsNext]_analyticsVars

-----------------------------------------------------------------------------
(* Properties *)

AnalyticsTypeOK ==
  /\ day \in Days
  /\ posted \in [Clips -> 0 .. LastDay]
  /\ visible \subseteq Clips
  /\ figures \in [Clips -> [Days -> Retentions \cup {NoFigure, Unmeasured}]]
  /\ fetches \in 0 .. MaxFetches
  /\ advice.is \in {"none", "adopt", "drop", "keep"}

\* A figure that YouTube reported and that the advice may go by.
Measured(v, d) == posted[v] # 0 /\ figures[v][d] \in Retentions /\ d >= day - Window

\* Two figures, below 60 per cent of one another or at 80 per cent.
Compares(is, v, d, w, e) ==
  /\ Measured(v, d) /\ Measured(w, e)
  /\ IF is = "drop"
       THEN 100 * figures[v][d] < 60 * figures[w][e]
       ELSE 20000 * figures[v][d] >= 15999 * figures[w][e]

LongTried(genre) ==
  /\ Cardinality({v \in ClipsOf(genre) : posted[v] # 0}) >= MinClips
  /\ \E v \in ClipsOf(genre) : posted[v] # 0 /\ day - posted[v] >= MinDays

Backed(is, genre) ==
  /\ \E v \in ClipsOf(genre), w \in MainClips :
       \E d \in Days, e \in Days : Compares(is, v, d, w, e)
  /\ LongTried(genre)

\* A genre is dropped, or adopted, only on figures: there is a recent one of the
\* genre below 60 per cent of a recent one of the main genres, or at 80 per cent of
\* one, and the genre has been tried long enough.  Days without figures, and videos
\* that YouTube leaves out, argue for nothing.
AdviceIsMeasured == advice.is \in {"drop", "adopt"} => Backed(advice.is, advice.genre)

=============================================================================

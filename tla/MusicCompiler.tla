---------------------------- MODULE MusicCompiler ----------------------------
(***************************************************************************)
(* compile_post turns the proposals of a post, or the template of its      *)
(* genre when the plan has none, into the tracks to be generated: a tempo  *)
(* within the limits of genre and worker, one of the known keys, a prompt  *)
(* of its own for each track.  It succeeds as a whole or not at all.       *)
(*                                                                         *)
(* The prompt is the tuple of the parts it is joined from; fields besides  *)
(* the subtheme stand in one, "extra".  Seeds and fingerprints are hashes, *)
(* taken to be free of collisions, and left out.                           *)
(***************************************************************************)
EXTENDS Integers, Sequences, FiniteSets, FiniteSetsExt

CONSTANTS TrackCount,
          WorkerMin, WorkerMax, \* _WORKER_BPM_MIN and _WORKER_BPM_MAX
          Fallback,   \* tempo of a legacy plan without any limits
          NoLimit,    \* the genre has no limit, the post no range
          Bpms,       \* tempos a model, or a person, may write down
          Subthemes,  \* subthemes that may be proposed
          Extras,     \* other fields of the prompt, "" for none
          Keys,       \* ALLOWED_MUSIC_KEYS
          BadKey      \* a key that is not one of them

Template == [i \in 1 .. TrackCount |-> <<"template", i>>]

ASSUME CompilerAssumption ==
  /\ TrackCount \in Nat \ {0}
  /\ WorkerMin \in Nat /\ WorkerMax \in Nat /\ WorkerMin < WorkerMax
  /\ Fallback \in WorkerMin .. WorkerMax
  /\ Bpms \subseteq Nat /\ NoLimit \notin Nat
  /\ BadKey \notin Keys /\ Keys # {}

\* The schema of the plan limits what a model may propose.
Proposals == [sub : Subthemes, extra : Extras, bpm : Bpms \cap (WorkerMin .. WorkerMax),
              key : Keys \cup {BadKey}]
Limits == Bpms \cup {NoLimit}

VARIABLES post,   \* the post: its proposals, or none, and its range of tempos
          genreMin, genreMax, \* limits of its genre
          batch   \* whether it is compiled, and its tracks

compilerVars == <<post, genreMin, genreMax, batch>>

\* A legacy plan has no proposals, and maybe a range; the database keeps the
\* lower limit of a genre below the upper one.
CompilerInit ==
  /\ \/ post \in [tracks : [1 .. TrackCount -> Proposals], low : {NoLimit}, high : {NoLimit}]
     \/ post \in [tracks : {<<>>}, low : Bpms, high : Bpms]
     \/ post = [tracks |-> <<>>, low |-> NoLimit, high |-> NoLimit]
  /\ genreMin \in Limits /\ genreMax \in Limits
  /\ (genreMin # NoLimit /\ genreMax # NoLimit) => genreMin <= genreMax
  /\ batch = [is |-> "none", tracks |-> <<>>]

-----------------------------------------------------------------------------

\* _legacy_desired_bpm
LegacyBpm ==
  CASE post.low # NoLimit -> (post.low + post.high) \div 2
    [] post.low = NoLimit /\ genreMin # NoLimit /\ genreMax # NoLimit ->
         (genreMin + genreMax) \div 2
    [] post.low = NoLimit /\ genreMin # NoLimit /\ genreMax = NoLimit -> genreMin
    [] post.low = NoLimit /\ genreMin = NoLimit /\ genreMax # NoLimit -> genreMax
    [] OTHER -> Fallback

\* _expand_legacy_proposals: the subthemes of the template, all with one tempo
\* and the key of the genre.
Expanded ==
  [i \in 1 .. TrackCount |-> [sub |-> Template[i], extra |-> "extra", bpm |-> LegacyBpm,
                              key |-> CHOOSE k \in Keys : TRUE]]

Wanted == IF post.tracks # <<>> THEN post.tracks ELSE Expanded

\* _resolve_bpm_bounds
Low == IF genreMin = NoLimit THEN WorkerMin ELSE Max({WorkerMin, genreMin})
High == IF genreMax = NoLimit THEN WorkerMax ELSE Min({WorkerMax, genreMax})

\* Mutant: a tempo that is too high gets the lower limit.
ClampedLow(bpm) == IF bpm \in Low .. High THEN bpm ELSE Low

\* _clamp_bpm: its three cases come to this.
Clamped(bpm) == IF bpm < Low THEN Low ELSE IF bpm > High THEN High ELSE bpm

\* Tempo, prompt and the record of an adjustment.
Locked(p) ==
  LET bpm == Clamped(p.bpm)
  IN [bpm |-> bpm,
      prompt |-> <<p.sub, p.extra, bpm, p.key>>,
      adjusted |-> IF bpm = p.bpm THEN <<>> ELSE <<p.bpm, bpm, Low, High>>]

NotCompiled(why) == [is |-> why, tracks |-> <<>>]
Different(values) == Cardinality(values) = TrackCount

\* compile_post.  The tempo of a legacy plan may be one that the schema of a
\* proposal refuses.
Compile ==
  /\ batch.is = "none"
  /\ LET invalid == \E i \in 1 .. TrackCount : Wanted[i].bpm \notin WorkerMin .. WorkerMax
         refused == \/ Low > High
                    \/ \E i \in 1 .. TrackCount : Wanted[i].key \notin Keys
                    \/ ~ Different({Wanted[i].sub : i \in 1 .. TrackCount})
                    \/ ~ Different({Locked(Wanted[i]).prompt : i \in 1 .. TrackCount})
     IN batch' = CASE invalid -> NotCompiled("invalid")
                   [] ~ invalid /\ refused -> NotCompiled("refused")
                   [] OTHER -> [is |-> "compiled",
                                tracks |-> [i \in 1 .. TrackCount |-> Locked(Wanted[i])]]
  /\ UNCHANGED <<post, genreMin, genreMax>>

CompilerSpec == CompilerInit /\ [][Compile]_compilerVars

-----------------------------------------------------------------------------
(* Properties *)

\* The tempos that both the genre and the worker accept, from the definition of
\* the limits.
Playable == {b \in WorkerMin .. WorkerMax : /\ (genreMin = NoLimit \/ b >= genreMin)
                                            /\ (genreMax = NoLimit \/ b <= genreMax)}
Distance(a, b) == IF a < b THEN b - a ELSE a - b

\* A batch is made of tracks the worker accepts, each with the playable tempo
\* that is nearest to the one that was asked for, and a record of the change
\* exactly when there is one; no two tracks are the same music.  It is refused
\* only when no tempo is playable, a key is unknown or two subthemes are the
\* same.
CompiledBatchFits ==
  LET Tracks == 1 .. TrackCount
  IN /\ batch.is = "compiled" =>
          \A i \in Tracks :
            /\ batch.tracks[i].bpm \in Playable
            /\ \A b \in Playable :
                 Distance(Wanted[i].bpm, batch.tracks[i].bpm) <= Distance(Wanted[i].bpm, b)
            /\ (batch.tracks[i].adjusted = <<>>) <=> (batch.tracks[i].bpm = Wanted[i].bpm)
            /\ \A j \in Tracks \ {i} : batch.tracks[i].prompt # batch.tracks[j].prompt
     /\ batch.is = "refused" =>
          \/ Playable = {}
          \/ \E i \in Tracks : Wanted[i].key = BadKey
          \/ \E i, j \in Tracks : i # j /\ Wanted[i].sub = Wanted[j].sub
     /\ batch.is = "invalid" => post.tracks = <<>>

=============================================================================

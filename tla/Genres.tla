-------------------------------- MODULE Genres --------------------------------
(***************************************************************************)
(* The dictionary of genres.  Requests of the admin page create, promote,  *)
(* demote and disable genres, and the weekly rotation applies an approved  *)
(* plan to all of them.  Each reads rows, and later commits, with its      *)
(* audit record, the columns it assigned a new value to: SQLAlchemy leaves *)
(* a column out of the UPDATE when the value is the one it had read.       *)
(*                                                                         *)
(* Left out: names, BPM ranges and descriptions, and the list, which has   *)
(* no effect.                                                              *)
(***************************************************************************)
EXTENDS Naturals, Sequences

CONSTANTS Names,    \* genres that may exist
          Seed,     \* the genres of the first migration, with their roles
          OddRole,  \* a role outside the ladder, which POST /genres accepts
          NoGenreRow,
          Keep,     \* the column is not written
          WeekPlans,\* approved plans: genres of distribution, experiments, avoid
          Callers   \* requests, or rotations, that may run at a time

Ladder == <<"experiment", "extension", "main">>
Roles == {Ladder[i] : i \in 1 .. 3} \cup {OddRole}
Columns == [role : Roles, enabled : BOOLEAN]
Promotable == {"extension", "main"}
Demotable == {"extension", "experiment"}

ASSUME GenreAssumption ==
  /\ DOMAIN Seed \subseteq Names
  /\ \A n \in DOMAIN Seed : Seed[n] \in Roles
  /\ OddRole \notin {Ladder[i] : i \in 1 .. 3}
  /\ NoGenreRow \notin Columns /\ NoGenreRow \notin Roles
  /\ Keep \notin Roles /\ Keep \notin BOOLEAN
  /\ \A w \in WeekPlans : w.share \cup w.trial \cup w.avoid \subseteq Names

VARIABLES genreRow, \* rows of genres
          said,     \* the role that the last audit record on the genre states
          call,     \* what each request has read and will write
          told      \* the answer of the last step, when it was a rotation

genreVars == <<genreRow, said, call, told>>

NoCall == [op |-> "none"]
NoAnswer == [on |-> {}, off |-> {}, moved |-> {}]

GenresInit ==
  /\ genreRow = [n \in Names |-> IF n \in DOMAIN Seed
                                 THEN [role |-> Seed[n], enabled |-> TRUE]
                                 ELSE NoGenreRow]
  /\ said = [n \in Names |-> IF n \in DOMAIN Seed THEN Seed[n] ELSE NoGenreRow]
  /\ call = [c \in Callers |-> NoCall]
  /\ told = NoAnswer

-----------------------------------------------------------------------------
(* Requests read a row and decide. *)

\* Position on the ladder; a role outside of it counts as the lowest.
Rank(role) == IF \E i \in 1 .. 3 : Ladder[i] = role
                THEN CHOOSE i \in 1 .. 3 : Ladder[i] = role ELSE 1

\* The roles a promotion may lead to: the next one, or a higher one that the
\* request names.
Promotions(role) == {Ladder[i] : i \in {i \in 1 .. 3 : i = Rank(role) + 1}}
  \cup {t \in Promotable : Rank(t) > Rank(role)}
Demotions(role) == {Ladder[i] : i \in {i \in 1 .. 3 : i + 1 = Rank(role)}}
  \cup {t \in Demotable : Rank(t) < Rank(role)}

\* The columns whose new value differs from the one that was read.
Changed(old, new) == [role |-> IF new.role = old.role THEN Keep ELSE new.role,
                      enabled |-> IF new.enabled = old.enabled THEN Keep ELSE new.enabled]

Exists(n) == genreRow[n] # NoGenreRow
Read(c, n, op, new) ==
  /\ call[c] = NoCall
  /\ call' = [call EXCEPT ![c] = [op |-> op, name |-> n,
                                  set |-> Changed(genreRow[n], new)]]
  /\ told' = NoAnswer
  /\ UNCHANGED <<genreRow, said>>

PromoteGenre(c, n) ==
  /\ Exists(n)
  /\ \E role \in Promotions(genreRow[n].role) :
       Read(c, n, "promote", [role |-> role, enabled |-> TRUE])

DemoteGenre(c, n) ==
  /\ Exists(n)
  /\ \E role \in Demotions(genreRow[n].role) :
       Read(c, n, "demote", [genreRow[n] EXCEPT !.role = role])

DisableGenre(c, n) ==
  /\ Exists(n)
  /\ Read(c, n, "disable", [genreRow[n] EXCEPT !.enabled = FALSE])

CreateGenre(c, n, role, on) ==
  /\ ~ Exists(n)
  /\ call[c] = NoCall
  /\ call' = [call EXCEPT ![c] = [op |-> "create", name |-> n,
                                  row |-> [role |-> role, enabled |-> on]]]
  /\ told' = NoAnswer
  /\ UNCHANGED <<genreRow, said>>

-----------------------------------------------------------------------------
(* The weekly rotation. *)

TurnOn(w) == w.share \cup w.trial
TurnOff(w) == w.avoid \ TurnOn(w)

\* The row of a genre that is not in the dictionary yet.
Placeholder == [role |-> "experiment", enabled |-> TRUE]

\* The rows after the rotation, from the rows that were read.
Rotated(w, old) ==
  [n \in Names |->
     CASE n \in w.trial \/ (n \in w.share /\ old[n] = NoGenreRow) -> Placeholder
       [] n \in w.share \ w.trial /\ old[n] # NoGenreRow -> [old[n] EXCEPT !.enabled = TRUE]
       [] n \in TurnOff(w) /\ old[n] # NoGenreRow -> [old[n] EXCEPT !.enabled = FALSE]
       [] OTHER -> old[n]]

IsOff(row) == IF row = NoGenreRow THEN TRUE ELSE ~ row.enabled
IsRole(row, role) == IF row = NoGenreRow THEN FALSE ELSE row.role = role

\* Mutant: an avoided genre is reported although it is in the distribution.
AvoidedAnswer(w, old) ==
  [on |-> {n \in TurnOn(w) : IsOff(old[n])},
   off |-> {n \in w.avoid : ~ IsOff(old[n])},
   moved |-> {n \in w.trial : ~ IsRole(old[n], "experiment")}
             \cup {n \in w.share : old[n] = NoGenreRow}]

\* RotationResult, from the rows that were read.
Answer(w, old) ==
  [on |-> {n \in TurnOn(w) : IsOff(old[n])},
   off |-> {n \in TurnOff(w) : ~ IsOff(old[n])},
   moved |-> {n \in w.trial : ~ IsRole(old[n], "experiment")}
             \cup {n \in w.share : old[n] = NoGenreRow}]

ReadWeek(c, w) ==
  /\ call[c] = NoCall
  /\ call' = [call EXCEPT ![c] = [op |-> "rotate", week |-> w, old |-> genreRow]]
  /\ told' = NoAnswer
  /\ UNCHANGED <<genreRow, said>>

-----------------------------------------------------------------------------
(* Commits. *)

Written(row, set) == [role |-> IF set.role = Keep THEN row.role ELSE set.role,
                      enabled |-> IF set.enabled = Keep THEN row.enabled ELSE set.enabled]

Answered(c) == call' = [call EXCEPT ![c] = NoCall]

\* Mutant: the record of a demotion is written before the role is assigned.
SaveUnsaid(c) ==
  /\ call[c].op \in {"promote", "demote", "disable"}
  /\ LET n == call[c].name
         set == call[c].set
     IN /\ genreRow' = [genreRow EXCEPT ![n] = Written(@, set)]
        /\ said' = [said EXCEPT ![n] = IF call[c].op = "promote" THEN set.role ELSE @]
  /\ told' = NoAnswer
  /\ Answered(c)

\* genre_promoted and genre_demoted state the new role; genre_disabled only
\* mentions the role it has read.
Save(c) ==
  /\ call[c].op \in {"promote", "demote", "disable"}
  /\ LET n == call[c].name
         set == call[c].set
     IN /\ genreRow' = [genreRow EXCEPT ![n] = Written(@, set)]
        /\ said' = [said EXCEPT ![n] = IF set.role = Keep THEN @ ELSE set.role]
  /\ told' = NoAnswer
  /\ Answered(c)

\* An INSERT of a name that another request has taken fails, and with it the
\* whole transaction.
SaveNew(c) ==
  /\ call[c].op = "create"
  /\ LET n == call[c].name
     IN IF Exists(n)
          THEN UNCHANGED <<genreRow, said>>
          ELSE /\ genreRow' = [genreRow EXCEPT ![n] = call[c].row]
               /\ said' = [said EXCEPT ![n] = call[c].row.role]
  /\ told' = NoAnswer
  /\ Answered(c)

SaveWeek(c) ==
  /\ call[c].op = "rotate"
  /\ LET w == call[c].week
         old == call[c].old
         new == Rotated(w, old)
         answer == Answer(w, old)
         made == {n \in Names : old[n] = NoGenreRow /\ new[n] # NoGenreRow}
     IN IF \E n \in made : Exists(n)
          THEN UNCHANGED <<genreRow, said>> /\ told' = NoAnswer
          ELSE /\ genreRow' = [n \in Names |->
                    CASE n \in made -> new[n]
                      [] old[n] # NoGenreRow -> Written(genreRow[n], Changed(old[n], new[n]))
                      [] OTHER -> genreRow[n]]
               /\ said' = [n \in Names |->
                    IF n \in answer.moved THEN "experiment" ELSE said[n]]
               /\ told' = answer
  /\ Answered(c)

\* The connection, or the process, is lost before the commit.
Abandon(c) ==
  /\ call[c] # NoCall
  /\ told' = NoAnswer
  /\ Answered(c)
  /\ UNCHANGED <<genreRow, said>>

GenresNext ==
  \E c \in Callers :
    \/ \E n \in Names : \/ PromoteGenre(c, n)
                        \/ DemoteGenre(c, n)
                        \/ DisableGenre(c, n)
                        \/ \E role \in Roles, on \in BOOLEAN : CreateGenre(c, n, role, on)
    \/ \E w \in WeekPlans : ReadWeek(c, w)
    \/ Save(c)
    \/ SaveNew(c)
    \/ SaveWeek(c)
    \/ Abandon(c)

GenresSpec == GenresInit /\ [][GenresNext]_genreVars

-----------------------------------------------------------------------------
(* Properties *)

GenresTypeOK ==
  /\ genreRow \in [Names -> Columns \cup {NoGenreRow}]
  /\ said \in [Names -> Roles \cup {NoGenreRow}]
  /\ told \in [on : SUBSET Names, off : SUBSET Names, moved : SUBSET Names]

\* However requests and rotations interleave, and whatever each had read, a
\* genre has the role that the last audit record on it states: role and record
\* are committed together, and no record states a role that was not written.
RoleIsAudited ==
  \A n \in Names : said[n] = IF Exists(n) THEN genreRow[n].role ELSE NoGenreRow

\* When nobody changed the rows in the meantime, a rotation answers exactly
\* the difference it makes, and the same plan once more would change nothing.
RotationAddsUp ==
  [][told' # NoAnswer =>
       \A c \in Callers : call[c].op = "rotate" /\ call'[c] = NoCall /\ call[c].old = genreRow =>
         /\ told'.on = {n \in Names : IsOff(genreRow[n]) /\ ~ IsOff(genreRow'[n])}
         /\ told'.off = {n \in Names : ~ IsOff(genreRow[n]) /\ IsOff(genreRow'[n])}
         /\ told'.moved = {n \in Names : /\ genreRow'[n] # genreRow[n]
                                         /\ IsRole(genreRow'[n], "experiment")
                                         /\ ~ IsRole(genreRow[n], "experiment")}
         /\ Answer(call[c].week, genreRow') = NoAnswer]_genreVars

=============================================================================

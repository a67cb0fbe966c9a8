--------------------------- MODULE PlanningProofs ---------------------------
(***************************************************************************)
(* Promises of the planner, of its settings and of the texts it delivers,  *)
(* for any providers and models, any rows found in app_state, any number   *)
(* of requests and any template: a switch of the provider that was         *)
(* answered leaves settings the factory reads, no plan names a genre that  *)
(* its request was not offered, and a text is delivered from a template    *)
(* exactly when its grammar and its names allow it, with every piece in    *)
(* its place.  The three parts share no state.  The lemmas on sets of      *)
(* numbers that open the last part repeat facts of ComponentsProofs, which *)
(* is about other modules.                                                 *)
(***************************************************************************)
EXTENDS Planning, Directives, FiniteSetTheorems, SequenceTheorems,
        WellFoundedInduction, TLAPS

-----------------------------------------------------------------------------
(* Settings. *)

\* What PUT /llm/providers may be about to write: a model under the provider
\* that lists it.
Pairs == {Row(p, m) : p \in Providers, m \in Models}

Listed(row) == row.provider \in Providers /\ row.model \in ModelsOf(row.provider)

\* put holds a checked pair until it is written, and that pair is what keeps
\* the settings usable.
SettingsInv ==
  /\ put # NoRow => put \in Pairs /\ Listed(put)
  /\ SwitchRepairs

\* The factory accepts a checked pair once it is what app_state holds.
LEMMA PairIsUsable ==
  ASSUME NEW p \in Providers, NEW m \in ModelsOf(p), active' = Row(p, m)
  PROVE  Usable'
<1>1. m \in Models /\ p # NoRow /\ m # NoRow /\ "api_key" # NoRow
  BY ModelAssumption DEF Models
<1>2. active'.provider = p /\ active'.auth = "api_key" /\ active'.model = m
  BY DEF Row
<1>3. Provider' = p /\ Auth' = "api_key" /\ Model' = m
  BY <1>1, <1>2 DEF Provider, Auth, Model
<1>4. Readable'
  BY <1>3 DEF Readable
<1> QED
  BY <1>3, <1>4 DEF Usable

\* And when the pair is what is active already.
LEMMA SameIsUsable ==
  ASSUME NEW p \in Providers, NEW m \in ModelsOf(p),
         [provider |-> Provider, auth |-> Auth, model |-> Model] = Row(p, m)
  PROVE  Usable
<1>1. Provider = p /\ Auth = "api_key" /\ Model = m
  BY DEF Row
<1>2. Readable
  BY <1>1 DEF Readable
<1> QED
  BY <1>1, <1>2 DEF Usable

\* Whether the factory accepts the settings depends on the three rows alone.
LEMMA UsableSame ==
  ASSUME UNCHANGED active
  PROVE  Usable' <=> Usable
<1>1. Provider' = Provider /\ Auth' = Auth
  BY DEF Provider, Auth
<1>2. Readable' <=> Readable
  BY <1>1 DEF Readable
<1>3. Model' = Model
  BY <1>1, <1>2 DEF Model
<1> QED
  BY <1>1, <1>2, <1>3 DEF Usable

LEMMA SettingsInit == Init => SettingsInv
  BY DEF Init, SettingsInv, SwitchRepairs

\* A step outside the settings keeps the invariant of them.
LEMMA SettingsSame ==
  ASSUME SettingsInv, UNCHANGED <<active, put, settled>>
  PROVE  SettingsInv'
  BY UsableSame DEF SettingsInv, SwitchRepairs

LEMMA PutReadsStep ==
  ASSUME SettingsInv, NEW p \in Providers, NEW m \in ModelsOf(p), PutReads(p, m)
  PROVE  SettingsInv'
<1>1. UNCHANGED active /\ (Usable' <=> Usable)
  BY UsableSame DEF PutReads
<1>2. CASE [provider |-> Provider, auth |-> Auth, model |-> Model] = Row(p, m)
  <2>1. Usable
    BY <1>2, SameIsUsable
  <2>2. UNCHANGED put
    BY <1>2 DEF PutReads
  <2> QED
    BY <1>1, <2>1, <2>2 DEF SettingsInv, SwitchRepairs
<1>3. CASE [provider |-> Provider, auth |-> Auth, model |-> Model] # Row(p, m)
  <2>1. put' = Row(p, m) /\ UNCHANGED settled
    BY <1>3 DEF PutReads
  <2>2. put' \in Pairs /\ Listed(put')
    BY <2>1 DEF Pairs, Listed, Row, Models
  <2> QED
    BY <1>1, <2>1, <2>2 DEF SettingsInv, SwitchRepairs
<1> QED
  BY <1>2, <1>3

LEMMA PutWritesStep ==
  ASSUME SettingsInv, PutWrites
  PROVE  SettingsInv'
<1>1. put \in Pairs /\ Listed(put) /\ active' = put /\ put' = NoRow
  BY DEF SettingsInv, PutWrites
<1>2. PICK p \in Providers, m \in Models : put = Row(p, m)
  BY <1>1 DEF Pairs
<1>3. m \in ModelsOf(p)
  BY <1>1, <1>2 DEF Listed, Row
<1>4. Usable'
  BY <1>1, <1>2, <1>3, PairIsUsable
<1> QED
  BY <1>1, <1>4 DEF SettingsInv, SwitchRepairs

LEMMA GoLeavesSettings ==
  ASSUME NEW r \in Requests, Ask(r) \/ Go(r)
  PROVE  UNCHANGED <<settings, enabled>>
  BY DEF Ask, Go, PostPlan, WeeklyPlan, Begin, LoadGenres, ResolveConfig, ResolveKey,
         Answer, AskAgain, CallFails, Save, SaveFails, On, To

LEMMA SettingsNext == SettingsInv /\ [Next]_vars => SettingsInv'
<1> SUFFICES ASSUME SettingsInv, [Next]_vars
             PROVE  SettingsInv'
  OBVIOUS
<1>1. CASE Operate
  <2>1. ASSUME NEW p \in Providers, NEW m \in ModelsOf(p), PutReads(p, m)
        PROVE  SettingsInv'
    BY <2>1, PutReadsStep
  <2>2. CASE PutWrites
    BY <2>2, PutWritesStep
  <2>3. ASSUME NEW p \in Cloud, StoreKey(p) \/ DeleteKey(p)
        PROVE  SettingsInv'
    BY <2>3, SettingsSame DEF StoreKey, DeleteKey
  <2>4. ASSUME NEW g \in Genres, Disable(g) \/ Promote(g)
        PROVE  SettingsInv'
    BY <2>4, SettingsSame DEF Disable, Promote, settings
  <2> QED
    BY <1>1, <2>1, <2>2, <2>3, <2>4 DEF Operate
<1>2. CASE \E r \in Requests : Ask(r) \/ Go(r)
  BY <1>2, GoLeavesSettings, SettingsSame DEF settings
<1>3. CASE UNCHANGED vars
  BY <1>3, SettingsSame DEF vars, settings
<1> QED
  BY <1>1, <1>2, <1>3 DEF Next

\* Whatever app_state held when the backend began, once a PUT /llm/providers
\* has been answered the settings are ones the factory accepts, and no later
\* switch, key or request undoes it.
THEOREM SettingsRepaired == Spec => []SwitchRepairs
<1>1. SettingsInv => SwitchRepairs
  BY DEF SettingsInv
<1> QED
  BY <1>1, SettingsInit, SettingsNext, PTL DEF Spec

-----------------------------------------------------------------------------
(* Requests. *)

Kinds == {"daily", "weekly"}

Begun == [pc : {"genres"}, kind : Kinds, date : Dates]
Offered == [pc : {"config"}, kind : Kinds, date : Dates, allowed : SUBSET Genres]
Calling == [pc : {"key", "call"}, kind : Kinds, date : Dates, allowed : SUBSET Genres,
            provider : Providers, model : Models, attempt : 1..MaxAttempts]
Answered == [pc : {"save"}, kind : Kinds, date : Dates, allowed : SUBSET Genres,
             provider : Providers, model : Models,
             answer : [date : Dates, genre : Genres]]
States == {Idle} \cup Begun \cup Offered \cup Calling \cup Answered

PlanRows == [kind : Kinds, date : Dates, asked : Dates, genre : Genres,
             provider : Providers, model : Models]

\* No request is ahead of what it has read, and an answer that waits to be saved
\* names a genre its request was offered.
RequestsInv ==
  /\ plans \in Seq(PlanRows)
  /\ enabled \subseteq Genres
  /\ req \in [Requests -> States]
  /\ \A r \in Requests : req[r].pc = "save" => Allowed(r, req[r].answer.genre)

\* What the step of a request tells about its state.
LEMMA StateAt ==
  ASSUME NEW s \in States
  PROVE  /\ s.pc \in {"idle", "genres", "config", "key", "call", "save"}
         /\ s.pc = "genres" => s \in Begun
         /\ s.pc = "config" => s \in Offered
         /\ s.pc \in {"key", "call"} => s \in Calling
         /\ s.pc = "save" => s \in Answered
<1>1. CASE s = Idle
  BY <1>1 DEF Idle
<1>2. CASE s \in Begun
  BY <1>2 DEF Begun
<1>3. CASE s \in Offered
  BY <1>3 DEF Offered
<1>4. CASE s \in Calling
  BY <1>4 DEF Calling
<1>5. CASE s \in Answered
  BY <1>5 DEF Answered
<1> QED
  BY <1>1, <1>2, <1>3, <1>4, <1>5 DEF States

LEMMA RequestsInit == Init => RequestsInv
<1> SUFFICES ASSUME Init
             PROVE  RequestsInv
  OBVIOUS
<1>1. plans \in Seq(PlanRows) /\ enabled \subseteq Genres
  BY DEF Init
<1>2. req \in [Requests -> States]
  BY DEF Init, States
<1>3. \A r \in Requests : req[r].pc = "idle"
  BY DEF Init, Idle
<1> QED
  BY <1>1, <1>2, <1>3 DEF RequestsInv

\* One request that goes to another state, with no plan saved, keeps the
\* invariant when that state is one it may be in.
LEMMA MoveKeeps ==
  ASSUME RequestsInv, NEW r \in Requests, NEW s \in States, On(r, s),
         s.pc = "save" => (s.allowed = {} \/ s.answer.genre \in s.allowed)
  PROVE  RequestsInv'
<1>1. req' = [req EXCEPT ![r] = s] /\ UNCHANGED <<plans, enabled>>
  BY DEF On, To, rows
<1>2. req' \in [Requests -> States]
  BY <1>1 DEF RequestsInv
<1>3. ASSUME NEW q \in Requests, req'[q].pc = "save"
      PROVE  req'[q].allowed = {} \/ req'[q].answer.genre \in req'[q].allowed
  <2>1. CASE q = r
    BY <1>1, <1>3, <2>1 DEF RequestsInv
  <2>2. CASE q # r
    BY <1>1, <1>3, <2>2 DEF RequestsInv, Allowed
  <2> QED
    BY <2>1, <2>2
<1> QED
  BY <1>1, <1>2, <1>3 DEF RequestsInv, Allowed

LEMMA BeginKeeps ==
  ASSUME RequestsInv, NEW r \in Requests, Ask(r)
  PROVE  RequestsInv'
<1>1. PICK d \in Dates, kind \in Kinds : Begin(r, kind, d)
  BY DEF Ask, PostPlan, WeeklyPlan, Kinds
<1> DEFINE s == [pc |-> "genres", kind |-> kind, date |-> d]
<1>2. s \in States /\ s.pc = "genres"
  BY DEF States, Begun
<1>3. On(r, s)
  BY <1>1 DEF Begin
<1> HIDE DEF s
<1> QED
  BY <1>2, <1>3, MoveKeeps

LEMMA LoadKeeps ==
  ASSUME RequestsInv, NEW r \in Requests, LoadGenres(r)
  PROVE  RequestsInv'
<1> DEFINE s == [pc |-> "config", kind |-> req[r].kind, date |-> req[r].date,
                 allowed |-> enabled]
<1>1. req[r] \in Begun
  BY StateAt DEF RequestsInv, LoadGenres
<1>2. s \in States /\ s.pc = "config"
  BY <1>1 DEF RequestsInv, States, Begun, Offered
<1>3. On(r, s)
  BY DEF LoadGenres
<1> HIDE DEF s
<1> QED
  BY <1>2, <1>3, MoveKeeps

\* Leaving with an error is always a move to Idle.
LEMMA IdleKeeps ==
  ASSUME RequestsInv, NEW r \in Requests, On(r, Idle)
  PROVE  RequestsInv'
<1>1. Idle \in States /\ Idle.pc = "idle"
  BY DEF States, Idle
<1> QED
  BY <1>1, MoveKeeps

LEMMA ConfigKeeps ==
  ASSUME RequestsInv, NEW r \in Requests, ResolveConfig(r)
  PROVE  RequestsInv'
<1>1. CASE Usable
  <2> DEFINE s == [pc |-> IF Provider \in Cloud THEN "key" ELSE "call",
                   kind |-> req[r].kind, date |-> req[r].date,
                   allowed |-> req[r].allowed,
                   provider |-> Provider, model |-> Model, attempt |-> 1]
  <2>1. req[r] \in Offered
    BY StateAt DEF RequestsInv, ResolveConfig
  <2>2. Provider \in Providers /\ Model \in Models
    BY <1>1 DEF Usable, Readable, Models
  <2>3. s \in Calling /\ s.pc # "save"
    BY <2>1, <2>2, BoundAssumption DEF Offered, Calling
  <2>4. On(r, s)
    BY <1>1 DEF ResolveConfig
  <2> HIDE DEF s
  <2> QED
    BY <2>3, <2>4, MoveKeeps DEF States
<1>2. CASE ~Usable
  BY <1>2, IdleKeeps DEF ResolveConfig
<1> QED
  BY <1>1, <1>2

LEMMA KeyKeeps ==
  ASSUME RequestsInv, NEW r \in Requests, ResolveKey(r)
  PROVE  RequestsInv'
<1>1. CASE HasKey(req[r].provider)
  <2> DEFINE s == [req[r] EXCEPT !.pc = "call"]
  <2>1. req[r] \in Calling
    BY StateAt DEF RequestsInv, ResolveKey
  <2>2. s \in Calling /\ s.pc # "save"
    BY <2>1 DEF Calling
  <2>3. On(r, s)
    BY <1>1 DEF ResolveKey
  <2> HIDE DEF s
  <2> QED
    BY <2>2, <2>3, MoveKeeps DEF States
<1>2. CASE ~HasKey(req[r].provider)
  BY <1>2, IdleKeeps DEF ResolveKey
<1> QED
  BY <1>1, <1>2

LEMMA AnswerKeeps ==
  ASSUME RequestsInv, NEW r \in Requests, NEW d \in Dates, NEW g \in Genres, Answer(r, d, g)
  PROVE  RequestsInv'
<1>1. CASE Allowed(r, g)
  <2> DEFINE s == [pc |-> "save", kind |-> req[r].kind, date |-> req[r].date,
                   allowed |-> req[r].allowed, provider |-> req[r].provider,
                   model |-> req[r].model, answer |-> [date |-> d, genre |-> g]]
  <2>1. req[r] \in Calling
    BY StateAt DEF RequestsInv, Answer
  <2>2. s \in Answered
    BY <2>1 DEF Calling, Answered
  <2>3. s.allowed = {} \/ s.answer.genre \in s.allowed
    BY <1>1 DEF Allowed
  <2>4. On(r, s)
    BY <1>1 DEF Answer
  <2> HIDE DEF s
  <2> QED
    BY <2>2, <2>3, <2>4, MoveKeeps DEF States
<1>2. CASE ~Allowed(r, g)
  BY <1>2, IdleKeeps DEF Answer
<1> QED
  BY <1>1, <1>2

LEMMA AgainKeeps ==
  ASSUME RequestsInv, NEW r \in Requests, AskAgain(r)
  PROVE  RequestsInv'
<1>1. CASE req[r].attempt < MaxAttempts
  <2> DEFINE s == [req[r] EXCEPT !.attempt = @ + 1]
  <2>1. req[r] \in Calling
    BY StateAt DEF RequestsInv, AskAgain
  <2>2. s \in Calling /\ s.pc # "save"
    BY <1>1, <2>1, BoundAssumption DEF Calling
  <2>3. On(r, s)
    BY <1>1 DEF AskAgain
  <2> HIDE DEF s
  <2> QED
    BY <2>2, <2>3, MoveKeeps DEF States
<1>2. CASE ~(req[r].attempt < MaxAttempts)
  BY <1>2, IdleKeeps DEF AskAgain
<1> QED
  BY <1>1, <1>2

\* The model that a plan and its usage name is the first the provider lists.
LEMMA FirstModel ==
  ASSUME NEW p \in Providers
  PROVE  Head(Supported[p]) \in Models
  BY ModelAssumption

LEMMA SaveKeeps ==
  ASSUME RequestsInv, NEW r \in Requests, Save(r)
  PROVE  RequestsInv'
<1>1. req[r] \in Answered
  BY StateAt DEF RequestsInv, Save
<1>2. PlanRow(r) \in PlanRows
  BY <1>1, FirstModel DEF PlanRow, PlanRows, Answered
<1>3. plans' \in Seq(PlanRows)
  BY <1>2 DEF RequestsInv, Save
<1>4. req' = [req EXCEPT ![r] = Idle] /\ UNCHANGED enabled
  BY DEF Save, To
<1>5. req' \in [Requests -> States]
  BY <1>4 DEF RequestsInv, States
<1>6. ASSUME NEW q \in Requests, req'[q].pc = "save"
      PROVE  req'[q].allowed = {} \/ req'[q].answer.genre \in req'[q].allowed
  <2>1. q # r
    BY <1>4, <1>6 DEF RequestsInv, Idle
  <2> QED
    BY <1>4, <1>6, <2>1 DEF RequestsInv, Allowed
<1> QED
  BY <1>3, <1>4, <1>5, <1>6 DEF RequestsInv, Allowed

\* A step of the operator touches neither requests nor plans.
LEMMA OperateKeeps ==
  ASSUME RequestsInv, Operate \/ UNCHANGED vars
  PROVE  RequestsInv'
<1>1. UNCHANGED <<req, rows>> /\ enabled' \subseteq Genres
  BY DEF Operate, PutReads, PutWrites, StoreKey, DeleteKey, Disable, Promote, vars,
         RequestsInv
<1>2. UNCHANGED plans
  BY <1>1 DEF rows
<1> QED
  BY <1>1, <1>2 DEF RequestsInv, Allowed

LEMMA RequestsNext == RequestsInv /\ [Next]_vars => RequestsInv'
<1> SUFFICES ASSUME RequestsInv, [Next]_vars
             PROVE  RequestsInv'
  OBVIOUS
<1>1. CASE Operate \/ UNCHANGED vars
  BY <1>1, OperateKeeps
<1>2. ASSUME NEW r \in Requests, Ask(r) \/ Go(r)
      PROVE  RequestsInv'
  <2>1. CASE Ask(r)
    BY <2>1, BeginKeeps
  <2>2. CASE LoadGenres(r) \/ ResolveConfig(r) \/ ResolveKey(r) \/ AskAgain(r)
    BY <2>2, LoadKeeps, ConfigKeeps, KeyKeeps, AgainKeeps
  <2>3. CASE \E d \in Dates, g \in Genres : Answer(r, d, g)
    BY <2>3, AnswerKeeps
  <2>4. CASE CallFails(r) \/ SaveFails(r)
    BY <2>4, IdleKeeps DEF CallFails, SaveFails
  <2>5. CASE Save(r)
    BY <2>5, SaveKeeps
  <2> QED
    BY <1>2, <2>1, <2>2, <2>3, <2>4, <2>5 DEF Go
<1> QED
  BY <1>1, <1>2 DEF Next

\* The row that a step adds to plans is that of a request which leaves "save".
LEMMA OnlySaveAdds ==
  ASSUME RequestsInv, [Next]_vars, plans' # plans
  PROVE  \E r \in Requests : Save(r)
<1>1. ~(Operate \/ UNCHANGED vars)
  BY DEF Operate, PutReads, PutWrites, StoreKey, DeleteKey, Disable, Promote, vars, rows
<1>2. PICK r \in Requests : Ask(r) \/ Go(r)
  BY <1>1 DEF Next
<1>3. Save(r)
  BY <1>2 DEF Ask, Go, PostPlan, WeeklyPlan, Begin, LoadGenres, ResolveConfig, ResolveKey,
              Answer, AskAgain, CallFails, SaveFails, On, rows
<1> QED
  BY <1>3

\* However the operator suspends and promotes genres meanwhile, a plan that is
\* saved names a genre that was enabled when its own request read the dictionary,
\* unless it read none (_enforce_genre_dictionary).
THEOREM PlansKeepGenres == Spec => GenreWasAllowed
<1>1. ASSUME RequestsInv, [Next]_vars
      PROVE  [\A r \in Requests :
                plans' # plans /\ req[r].pc = "save" /\ req'[r] = Idle /\ req[r].allowed # {}
                  => plans'[Len(plans')].genre \in req[r].allowed]_vars
  <2> SUFFICES ASSUME NEW r \in Requests, plans' # plans, req[r].pc = "save",
                      req'[r] = Idle, req[r].allowed # {}
               PROVE  plans'[Len(plans')].genre \in req[r].allowed
    OBVIOUS
  <2>1. PICK q \in Requests : Save(q)
    BY <1>1, OnlySaveAdds
  <2>2. q = r
    BY <1>1, <2>1 DEF RequestsInv, Save, To, Idle
  <2>3. req[r].answer.genre \in req[r].allowed
    BY <1>1 DEF RequestsInv, Allowed
  <2>4. req[r] \in Answered
    BY <1>1, StateAt DEF RequestsInv
  <2>5. PlanRow(r) \in PlanRows /\ PlanRow(r).genre = req[r].answer.genre
    BY <2>4, FirstModel DEF PlanRow, PlanRows, Answered
  <2>6. plans' = Append(plans, PlanRow(r)) /\ plans \in Seq(PlanRows)
    BY <1>1, <2>1, <2>2 DEF Save, RequestsInv
  <2>7. plans'[Len(plans')] = PlanRow(r)
    BY <2>5, <2>6
  <2> QED
    BY <2>3, <2>5, <2>7
<1> QED
  BY <1>1, RequestsInit, RequestsNext, PTL DEF Spec, GenreWasAllowed

-----------------------------------------------------------------------------
(* Texts: positions of a template. *)

\* A set of numbers that is not empty has a least one.
LEMMA LeastOf ==
  ASSUME NEW T \in SUBSET Nat, T # {}
  PROVE  \E n \in T : \A m \in T : n <= m
<1>1. PICK n \in T : \A m \in T : ~ (<<m, n>> \in OpToRel(<, Nat))
  BY NatLessThanWellFounded, WFMin
<1>2. \A m \in T : m < n => <<m, n>> \in OpToRel(<, Nat)
  BY DEF OpToRel
<1>3. \A m \in T : ~ (m < n)
  BY <1>1, <1>2, Zenon
<1> QED
  BY <1>3

\* Induction, said of a set.
LEMMA EveryNumber ==
  ASSUME NEW T \in SUBSET Nat, 0 \in T, \A n \in T : n + 1 \in T
  PROVE  T = Nat
<1> SUFFICES ASSUME Nat \ T # {} PROVE FALSE
  OBVIOUS
<1>1. PICK n \in Nat \ T : \A m \in Nat \ T : n <= m
  BY LeastOf
<1>2. n # 0 /\ n - 1 \in Nat /\ n - 1 \notin Nat \ T
  BY <1>1
<1> QED
  BY <1>1, <1>2

\* A set of numbers that is bounded and not empty has a greatest one: most proofs below
\* look at the last position that something is true of.
LEMMA GreatestOf ==
  ASSUME NEW n \in Nat, NEW s \in SUBSET (0 .. n), s # {}
  PROVE  \E x \in s : \A y \in s : y <= x
<1> DEFINE T == {n - x : x \in s}
<1>0. \A x \in s : x \in Nat /\ n - x \in Nat
  <2>1. \A x \in 0 .. n : x \in Nat /\ n - x \in Nat
    OBVIOUS
  <2> QED
    BY <2>1
<1>1. T \in SUBSET Nat /\ T # {}
  BY <1>0
<1>2. PICK d \in T : \A e \in T : d <= e
  BY <1>1, LeastOf
<1>3. PICK x \in s : d = n - x
  BY <1>2
<1>4. ASSUME NEW y \in s
      PROVE  y <= x
  <2>1. n - x <= n - y
    BY <1>2, <1>3
  <2> QED
    BY <1>0, <2>1
<1> QED
  BY <1>4

\* Even and odd numbers take turns.
LEMMA Parity ==
  ASSUME NEW n \in Nat
  PROVE  /\ n % 2 = 0 => (n + 1) % 2 # 0 /\ (n + 2) % 2 = 0
         /\ n % 2 \in {0, 1}
         /\ n % 2 # 0 => (n + 1) % 2 = 0
OBVIOUS

\* A finite set of positions.
Numbered(S) == IsFiniteSet(S) /\ \A j \in S : j \in Nat /\ j # 0

\* Positions of a template, or of its segments, are such a set.
LEMMA Places1 ==
  ASSUME NEW n \in Nat, NEW S, \A j \in S : j \in 1 .. n
  PROVE  Numbered(S) /\ \A j \in S : j <= n
<1>1. S \subseteq 1 .. n /\ IsFiniteSet(1 .. n)
  BY FS_Interval
<1>2. IsFiniteSet(S)
  BY <1>1, FS_Subset
<1>3. \A j \in 1 .. n : j \in Nat /\ j # 0 /\ j <= n
  OBVIOUS
<1> QED
  BY <1>2, <1>3 DEF Numbered

\* A rank is a number.
LEMMA RankIsNumber ==
  ASSUME NEW S, Numbered(S), NEW i
  PROVE  RankAmong(S, i) \in Nat /\ IsFiniteSet({j \in S : j <= i})
<1>1. {j \in S : j <= i} \in SUBSET S
  OBVIOUS
<1>2. IsFiniteSet({j \in S : j <= i})
  BY <1>1, FS_Subset DEF Numbered
<1> QED
  BY <1>2, FS_CardinalityType DEF RankAmong

\* Between positions with none of the set, the rank stays.
LEMMA RankStays ==
  ASSUME NEW S, Numbered(S), NEW i \in Nat, NEW k \in Nat,
         i <= k, \A j \in S : ~ (i < j /\ j <= k)
  PROVE  RankAmong(S, k) = RankAmong(S, i)
<1>1. \A j \in S : j <= k <=> j <= i
  BY DEF Numbered
<1>2. {j \in S : j <= k} = {j \in S : j <= i}
  BY <1>1, Zenon
<1> QED
  BY <1>2 DEF RankAmong

\* At a position of the set it grows by one.
LEMMA RankGrows ==
  ASSUME NEW S, Numbered(S), NEW i \in Nat, i + 1 \in S
  PROVE  RankAmong(S, i + 1) = RankAmong(S, i) + 1
<1>1. \A j \in S : j <= i + 1 <=> j <= i \/ j = i + 1
  BY DEF Numbered
<1>2. {j \in S : j <= i + 1} = {j \in S : j <= i} \cup {i + 1}
  BY <1>1
<1>3. i + 1 \notin {j \in S : j <= i}
  OBVIOUS
<1> DEFINE B == {j \in S : j <= i}
<1>4. IsFiniteSet(B)
  BY RankIsNumber
<1> HIDE DEF B
<1>5. i + 1 \notin B => Cardinality(B \cup {i + 1}) = Cardinality(B) + 1
  BY <1>4, FS_AddElement
<1> QED
  BY <1>2, <1>3, <1>5 DEF RankAmong, B

\* It never shrinks.
LEMMA RankMonotone ==
  ASSUME NEW S, Numbered(S), NEW i \in Nat, NEW k \in Nat, i <= k
  PROVE  RankAmong(S, i) <= RankAmong(S, k)
<1>1. \A j \in S : j <= i => j <= k
  BY DEF Numbered
<1> DEFINE B == {j \in S : j <= i}
           C == {j \in S : j <= k}
<1>2. B \in SUBSET C
  BY <1>1, Zenon
<1>3. IsFiniteSet(C)
  BY RankIsNumber
<1> HIDE DEF B, C
<1>4. Cardinality(B) <= Cardinality(C)
  BY <1>2, <1>3, FS_Subset
<1> QED
  BY <1>4 DEF RankAmong, B, C

\* It begins at zero and ends at the size of the set.
LEMMA RankZero ==
  ASSUME NEW S, Numbered(S), NEW n \in Nat, \A j \in S : j <= n
  PROVE  RankAmong(S, 0) = 0 /\ RankAmong(S, n) = Cardinality(S) /\ Cardinality(S) \in Nat
<1>1. \A j \in S : ~ (j <= 0)
  BY DEF Numbered
<1>2. {j \in S : j <= 0} = {} /\ {j \in S : j <= n} = S
  BY <1>1
<1> QED
  BY <1>2, FS_EmptySet, FS_CardinalityType DEF RankAmong, Numbered

\* Along a stretch that is all of the set it grows with the position.
LEMMA RankOfStretch ==
  ASSUME NEW S, Numbered(S), NEW i \in Nat, NEW k \in Nat,
         \A j \in i + 1 .. i + k : j \in S
  PROVE  RankAmong(S, i + k) = RankAmong(S, i) + k
<1> DEFINE T == {d \in Nat : d <= k => RankAmong(S, i + d) = RankAmong(S, i) + d}
<1>0. RankAmong(S, i) \in Nat
  BY RankIsNumber
<1>1. 0 \in T
  BY <1>0
<1>2. ASSUME NEW d \in T
      PROVE  d + 1 \in T
  <2>1. CASE d + 1 <= k
    <3>1. d \in Nat /\ i + d \in Nat /\ (i + d) + 1 \in S /\ RankAmong(S, i + d) = RankAmong(S, i) + d
      BY <2>1
    <3>2. RankAmong(S, (i + d) + 1) = RankAmong(S, i + d) + 1
      BY <3>1, RankGrows
    <3>3. (i + d) + 1 = i + (d + 1)
      BY <3>1
    <3> QED
      BY <1>0, <3>1, <3>2, <3>3
  <2>2. CASE ~ (d + 1 <= k)
    BY <2>2
  <2> QED
    BY <2>1, <2>2
<1>3. T = Nat
  <2> HIDE DEF T
  <2>1. T \in SUBSET Nat
    BY DEF T
  <2> QED
    BY <1>1, <1>2, <2>1, EveryNumber
<1> QED
  BY <1>3

\* Every number up to the size of the set is the rank of one of its positions.
LEMMA RankReached ==
  ASSUME NEW S, Numbered(S), NEW n \in Nat, \A j \in S : j <= n, NEW r \in 1 .. Cardinality(S)
  PROVE  \E i \in S : RankAmong(S, i) = r
<1> DEFINE T == {i \in Nat : r <= RankAmong(S, i)}
<1>0. r \in Nat /\ r # 0 /\ r <= RankAmong(S, n) /\ RankAmong(S, 0) = 0
  <2>1. Cardinality(S) \in Nat
    BY RankZero
  <2> QED
    BY <2>1, RankZero
<1>1. PICK i \in T : \A m \in T : i <= m
  <2>1. T \in SUBSET Nat /\ n \in T
    BY <1>0
  <2> HIDE DEF T
  <2> QED
    BY <2>1, LeastOf
<1>2. i \in Nat /\ i # 0
  BY <1>0
<1>3. i - 1 \in Nat /\ (i - 1) + 1 = i /\ i - 1 \notin T
  BY <1>1, <1>2
<1>4. RankAmong(S, i) \in Nat /\ RankAmong(S, i - 1) \in Nat
  BY RankIsNumber
<1>5. RankAmong(S, i - 1) < r /\ r <= RankAmong(S, i)
  BY <1>0, <1>3, <1>4
<1>6. i \in S
  <2> SUFFICES ASSUME i \notin S PROVE FALSE
    OBVIOUS
  <2>1. \A j \in S : ~ (i - 1 < j /\ j <= i)
    BY <1>2 DEF Numbered
  <2>2. RankAmong(S, i) = RankAmong(S, i - 1)
    BY <1>2, <1>3, <2>1, RankStays
  <2> QED
    BY <1>0, <1>4, <1>5, <2>2
<1>7. RankAmong(S, i) = RankAmong(S, i - 1) + 1
  BY <1>3, <1>6, RankGrows
<1> QED
  BY <1>0, <1>4, <1>5, <1>6, <1>7

-----------------------------------------------------------------------------
(* Texts: the parser: the loop. *)

\* What a segment of a template is.
Parts == [type : {"bad"}] \cup [type : {"lit"}, text : Seq(Tokens)]
           \cup [type : {"var"}, name : Seq(Tokens)] \cup [type : {"gen"}, text : Seq(Tokens)]

\* The body of the loop of Split, with f for what it says of later positions.
After(t, f, i) ==
  LET open == Find(t, "open", i)
      close == Find(t, "close", open + 1)
      literal == SubSeq(t, i, open - 1)
      body == SubSeq(t, open + 1, close - 1)
  IN IF Find(t, "close", i) < open THEN Bad
     ELSE IF open > Len(t) THEN Literal(literal)
     ELSE IF close > Len(t) \/ Find(body, "open", 1) <= Len(body) THEN Bad
     ELSE Literal(literal) \o Directive(body) \o f[close + 1]

\* Split from every position on.
Cuts(t) == CHOOSE f : f = [i \in 1 .. Len(t) + 1 |-> After(t, f, i)]

\* Split is the first of these.
LEMMA SplitIsCut ==
  ASSUME NEW t
  PROVE  Split(t) = Cuts(t)[1]
BY Zenon DEF Split, Cuts, After

\* What Find finds: the token or the end, and none of it before.
LEMMA Found ==
  ASSUME NEW T, NEW t \in Seq(T), NEW token, NEW i \in 1 .. Len(t) + 1
  PROVE  /\ Find(t, token, i) \in i .. Len(t) + 1
         /\ Find(t, token, i) = Len(t) + 1 \/ t[Find(t, token, i)] = token
         /\ \A j \in i .. Find(t, token, i) - 1 : t[j] # token
<1> DEFINE n == Len(t) + 1
           S == {k \in i .. n : k = n \/ t[k] = token}
<1>1. n \in Nat /\ i \in Nat /\ i <= n
  OBVIOUS
<1> HIDE DEF n
<1>2. S \in SUBSET Nat /\ n \in S
  BY <1>1
<1>3. PICK k \in S : \A m \in S : k <= m
  <2> HIDE DEF S
  <2> QED
    BY <1>2, LeastOf
<1>4. \A j \in i .. k - 1 : j \in i .. n /\ ~ (k <= j)
  BY <1>1, <1>3
<1>5. \A j \in i .. k - 1 : t[j] # token
  BY <1>3, <1>4
<1>6. \E k_1 \in i .. n : (k_1 = n \/ t[k_1] = token) /\ \A j \in i .. k_1 - 1 : t[j] # token
  BY <1>3, <1>5
<1> DEFINE K == CHOOSE k_1 \in i .. n : (k_1 = n \/ t[k_1] = token) /\ \A j \in i .. k_1 - 1 : t[j] # token
<1>7. K \in i .. n /\ (K = n \/ t[K] = token) /\ \A j \in i .. K - 1 : t[j] # token
  BY <1>6, Zenon
<1>8. Find(t, token, i) = K
  BY Zenon DEF Find, n
<1> HIDE DEF K
<1> QED
  BY <1>7, <1>8 DEF n

\* And it finds the first one.
LEMMA FoundIs ==
  ASSUME NEW T, NEW t \in Seq(T), NEW token, NEW i \in 1 .. Len(t) + 1,
         NEW k \in i .. Len(t), t[k] = token, \A j \in i .. k - 1 : t[j] # token
  PROVE  Find(t, token, i) = k
<1> DEFINE m == Find(t, token, i)
<1>1. m \in i .. Len(t) + 1 /\ (m = Len(t) + 1 \/ t[m] = token) /\ \A j \in i .. m - 1 : t[j] # token
  BY Found
<1> HIDE DEF m
<1>2. ~ (m < k)
  BY <1>1
<1>3. ~ (k < m)
  BY <1>1
<1>4. m = k
  BY <1>1, <1>2, <1>3
<1> QED
  BY <1>4 DEF m

\* The body of the loop looks only at later positions.
LEMMA AfterUses ==
  ASSUME NEW t \in Seq(Tokens), NEW f, NEW g, NEW i \in 1 .. Len(t) + 1,
         \A j \in i + 1 .. Len(t) + 1 : f[j] = g[j]
  PROVE  After(t, f, i) = After(t, g, i)
<1> DEFINE o == Find(t, "open", i)
           c == Find(t, "close", o + 1)
<1>1. o \in i .. Len(t) + 1
  BY Found
<1>2. ASSUME ~ (o > Len(t)), ~ (c > Len(t))
      PROVE  f[c + 1] = g[c + 1]
  <2>1. o + 1 \in 1 .. Len(t) + 1
    BY <1>1, <1>2
  <2>2. c \in o + 1 .. Len(t) + 1
    BY <2>1, Found
  <2>3. c + 1 \in i + 1 .. Len(t) + 1
    BY <1>1, <1>2, <2>2
  <2> QED
    BY <2>3
<1>3. ASSUME NEW h
      PROVE  After(t, h, i) =
               IF Find(t, "close", i) < o THEN Bad
               ELSE IF o > Len(t) THEN Literal(SubSeq(t, i, o - 1))
               ELSE IF c > Len(t) \/ Find(SubSeq(t, o + 1, c - 1), "open", 1) <= Len(SubSeq(t, o + 1, c - 1)) THEN Bad
               ELSE Literal(SubSeq(t, i, o - 1)) \o Directive(SubSeq(t, o + 1, c - 1)) \o h[c + 1]
  BY Zenon DEF After
<1> HIDE DEF o, c
<1>4. CASE ~ (o > Len(t)) /\ ~ (c > Len(t))
  BY <1>2, <1>3, <1>4, Zenon
<1>5. CASE o > Len(t) \/ c > Len(t)
  <2>1. CASE o > Len(t)
    BY <1>3, <2>1, Zenon
  <2>2. CASE c > Len(t)
    BY <1>3, <2>2, Zenon
  <2> QED
    BY <1>5, <2>1, <2>2
<1> QED
  BY <1>4, <1>5

\* So there is such a function, built from the end of the template to its beginning.
LEMMA CutsExist ==
  ASSUME NEW t \in Seq(Tokens)
  PROVE  Cuts(t) = [i \in 1 .. Len(t) + 1 |-> After(t, Cuts(t), i)]
<1> DEFINE n == Len(t) + 1
           Done(f, d) == \A i \in 1 .. n : n - d < i => f[i] = After(t, f, i)
           T == {d \in Nat : \E f : f = [i \in 1 .. n |-> f[i]] /\ Done(f, d)}
<1>0. n \in Nat
  OBVIOUS
<1>1. 0 \in T
  <2> DEFINE f == [i \in 1 .. n |-> <<>>]
  <2>1. f = [i \in 1 .. n |-> f[i]]
    OBVIOUS
  <2>2. Done(f, 0)
    BY <1>0
  <2> QED
    BY <2>1, <2>2
<1>2. ASSUME NEW d \in T
      PROVE  d + 1 \in T
  <2>1. d \in Nat
    OBVIOUS
  <2>2. PICK f : f = [i \in 1 .. n |-> f[i]] /\ Done(f, d)
    OBVIOUS
  <2> DEFINE g == [i \in 1 .. n |-> IF i = n - d THEN After(t, f, i) ELSE f[i]]
  <2>3. g = [i \in 1 .. n |-> g[i]]
    OBVIOUS
  <2>4. ASSUME NEW i \in 1 .. n, n - (d + 1) < i
        PROVE  g[i] = After(t, g, i)
    <3>1. \A j \in i + 1 .. n : f[j] = g[j]
      BY <1>0, <2>1, <2>4
    <3>2. After(t, f, i) = After(t, g, i)
      BY <3>1, AfterUses
    <3>3. g[i] = After(t, f, i)
      <4>1. CASE i = n - d
        BY <4>1
      <4>2. CASE i # n - d
        <5>1. n - d < i
          BY <1>0, <2>1, <2>4, <4>2
        <5>2. f[i] = After(t, f, i)
          BY <2>2, <5>1
        <5> QED
          BY <4>2, <5>2
      <4> QED
        BY <4>1, <4>2
    <3> QED
      BY <3>2, <3>3
  <2> HIDE DEF g
  <2>5. Done(g, d + 1)
    BY <2>4
  <2>6. d + 1 \in Nat
    BY <2>1
  <2> QED
    BY <2>3, <2>5, <2>6
<1>3. T = Nat
  <2> HIDE DEF T
  <2>1. T \in SUBSET Nat
    BY DEF T
  <2> QED
    BY <1>1, <1>2, <2>1, EveryNumber
<1>4. PICK f : f = [i \in 1 .. n |-> f[i]] /\ Done(f, n)
  BY <1>0, <1>3
<1>5. \A i \in 1 .. n : f[i] = After(t, f, i)
  BY <1>0, <1>4
<1>6. f = [i \in 1 .. n |-> After(t, f, i)]
  BY <1>4, <1>5, Zenon
<1> QED
  BY <1>6, Zenon DEF Cuts

\* There is no brace from a to b.
NoBrace(t, a, b) == \A y \in a .. b : t[y] # "open" /\ t[y] # "close"

\* The first brace from i on closes what nothing has opened.
StrayAt(t, i, x) == t[x] = "close" /\ NoBrace(t, i, x - 1)

\* What is opened at o is not closed: nothing follows, or it opens again.
BrokenAt(t, o) ==
  \/ NoBrace(t, o + 1, Len(t))
  \/ \E y \in o + 1 .. Len(t) : t[y] = "open" /\ NoBrace(t, o + 1, y - 1)

\* A directive from o to c.
WholeAt(t, o, c) == t[o] = "open" /\ t[c] = "close" /\ NoBrace(t, o + 1, c - 1)

\* The loop at a position, said of the template: no brace is left, or a stray one comes
\* first, or a directive that is broken, or a whole one; and what it makes of each.
LEMMA CutAt ==
  ASSUME NEW t \in Seq(Tokens), NEW i \in 1 .. Len(t) + 1
  PROVE  \/ NoBrace(t, i, Len(t)) /\ Cuts(t)[i] = Literal(SubSeq(t, i, Len(t)))
         \/ \E x \in i .. Len(t) : StrayAt(t, i, x) /\ Cuts(t)[i] = Bad
         \/ \E o \in i .. Len(t) :
              /\ t[o] = "open" /\ NoBrace(t, i, o - 1)
              /\ \/ BrokenAt(t, o) /\ Cuts(t)[i] = Bad
                 \/ \E c \in o + 1 .. Len(t) :
                      /\ WholeAt(t, o, c)
                      /\ Cuts(t)[i] = Literal(SubSeq(t, i, o - 1))
                           \o Directive(SubSeq(t, o + 1, c - 1)) \o Cuts(t)[c + 1]
<1> DEFINE o == Find(t, "open", i)
           s == Find(t, "close", i)
           c == Find(t, "close", o + 1)
           body == SubSeq(t, o + 1, c - 1)
           n == Len(t)
           f == Cuts(t)
<1>0. n \in Nat /\ i \in Nat
  OBVIOUS
<1>1. o \in i .. n + 1 /\ (o = n + 1 \/ t[o] = "open") /\ \A j \in i .. o - 1 : t[j] # "open"
  BY Found
<1>2. s \in i .. n + 1 /\ (s = n + 1 \/ t[s] = "close") /\ \A j \in i .. s - 1 : t[j] # "close"
  BY Found
<1>3. f[i] = After(t, f, i)
  BY CutsExist, Zenon
<1>4. After(t, f, i) =
        IF s < o THEN Bad
        ELSE IF o > n THEN Literal(SubSeq(t, i, o - 1))
        ELSE IF c > n \/ Find(body, "open", 1) <= Len(body) THEN Bad
        ELSE Literal(SubSeq(t, i, o - 1)) \o Directive(body) \o f[c + 1]
  BY Zenon DEF After
<1>5. ASSUME o <= n
      PROVE  /\ c \in o + 1 .. n + 1 /\ (c = n + 1 \/ t[c] = "close")
             /\ \A j \in o + 1 .. c - 1 : t[j] # "close"
  <2>1. o + 1 \in 1 .. n + 1
    BY <1>1, <1>5
  <2> HIDE DEF o
  <2> QED
    BY <2>1, Found
<1>6. ASSUME o <= n
      PROVE  Find(body, "open", 1) <= Len(body) <=> \E y \in o + 1 .. c - 1 : t[y] = "open"
  <2>0. c \in o + 1 .. n + 1 /\ o \in Nat
    BY <1>1, <1>5, <1>6
  <2> HIDE DEF o, c
  <2>1. body \in Seq(Tokens) /\ Len(body) = c - 1 - o /\ \A k \in 1 .. Len(body) : body[k] = t[o + k]
    <3>1. o + 1 \in 1 .. n + 1 /\ c - 1 \in o .. n
      BY <2>0
    <3>2. \A k \in 1 .. c - 1 - o : o + 1 + k - 1 = o + k
      BY <2>0
    <3>3. body \in Seq(Tokens)
      BY <3>1, <2>0, SubSeqProperties
    <3>4. Len(body) = c - 1 - o /\ \A k \in 1 .. Len(body) : body[k] = t[o + k]
      BY <3>1, <2>0
    <3> QED
      BY <3>3, <3>4
  <2> DEFINE e == Find(body, "open", 1)
  <2> HIDE DEF body
  <2>2. e \in 1 .. Len(body) + 1 /\ (e = Len(body) + 1 \/ body[e] = "open") /\
        \A j \in 1 .. e - 1 : body[j] # "open"
    BY <2>1, Found
  <2> HIDE DEF e
  <2>3. ASSUME e <= Len(body)
        PROVE  \E y \in o + 1 .. c - 1 : t[y] = "open"
    <3>1. o + e \in o + 1 .. c - 1 /\ t[o + e] = "open"
      BY <2>0, <2>1, <2>2, <2>3
    <3> QED
      BY <3>1
  <2>4. ASSUME NEW y \in o + 1 .. c - 1, t[y] = "open"
        PROVE  e <= Len(body)
    <3>1. y - o \in 1 .. Len(body) /\ o + (y - o) = y
      BY <2>0, <2>1
    <3>2. body[y - o] = "open"
      BY <2>1, <2>4, <3>1
    <3>3. ~ (y - o \in 1 .. e - 1)
      BY <2>2, <3>2
    <3> QED
      BY <2>1, <2>2, <3>1, <3>3
  <2> QED
    BY <2>3, <2>4 DEF e
<1> HIDE DEF o, s, c, body, n, f
<1>7. CASE s < o
  <2>1. s \in i .. n /\ StrayAt(t, i, s)
    BY <1>0, <1>1, <1>2, <1>7 DEF StrayAt, NoBrace
  <2>2. f[i] = Bad
    BY <1>3, <1>4, <1>7
  <2> QED
    BY <2>1, <2>2 DEF n, f
<1>8. CASE ~ (s < o) /\ o > n
  <2>1. o = n + 1 /\ s = n + 1 /\ o - 1 = n
    BY <1>0, <1>1, <1>2, <1>8
  <2>2. NoBrace(t, i, n)
    BY <1>0, <1>1, <1>2, <2>1 DEF NoBrace
  <2>3. f[i] = Literal(SubSeq(t, i, n))
    BY <1>3, <1>4, <1>8, <2>1
  <2> QED
    BY <2>2, <2>3 DEF n, f
<1>9. CASE ~ (s < o) /\ ~ (o > n)
  <2>1. o \in i .. n /\ t[o] = "open" /\ NoBrace(t, i, o - 1) /\ o <= n
    BY <1>0, <1>1, <1>2, <1>9 DEF NoBrace
  <2>2. c \in o + 1 .. n + 1 /\ (c = n + 1 \/ t[c] = "close")
        /\ \A j \in o + 1 .. c - 1 : t[j] # "close"
    BY <1>5, <2>1
  <2>3. CASE \E y \in o + 1 .. c - 1 : t[y] = "open"
    <3>1. f[i] = Bad
      BY <1>3, <1>4, <1>6, <1>9, <2>1, <2>3
    <3> DEFINE y == Find(t, "open", o + 1)
    <3>2. y \in o + 1 .. n + 1 /\ (y = n + 1 \/ t[y] = "open") /\ \A j \in o + 1 .. y - 1 : t[j] # "open"
      <4>1. o + 1 \in 1 .. n + 1
        BY <1>0, <2>1
      <4> QED
        BY <4>1, Found DEF n
    <3> HIDE DEF y
    <3>3. y <= c - 1
      BY <1>0, <2>1, <2>2, <2>3, <3>2
    <3>4. y \in o + 1 .. n /\ t[y] = "open" /\ NoBrace(t, o + 1, y - 1)
      BY <1>0, <2>1, <2>2, <3>2, <3>3 DEF NoBrace
    <3>5. BrokenAt(t, o)
      BY <3>4 DEF BrokenAt, n
    <3> QED
      BY <2>1, <3>1, <3>5 DEF n, f
  <2>4. CASE ~ (\E y \in o + 1 .. c - 1 : t[y] = "open") /\ c > n
    <3>1. f[i] = Bad
      BY <1>3, <1>4, <1>9, <2>4
    <3>2. NoBrace(t, o + 1, n)
      BY <1>0, <2>1, <2>2, <2>4 DEF NoBrace
    <3>3. BrokenAt(t, o)
      BY <3>2 DEF BrokenAt, n
    <3> QED
      BY <2>1, <3>1, <3>3 DEF n, f
  <2>5. CASE ~ (\E y \in o + 1 .. c - 1 : t[y] = "open") /\ ~ (c > n)
    <3>1. f[i] = Literal(SubSeq(t, i, o - 1)) \o Directive(body) \o f[c + 1]
      BY <1>3, <1>4, <1>6, <1>9, <2>1, <2>5
    <3>2. c \in o + 1 .. n /\ WholeAt(t, o, c)
      BY <1>0, <2>1, <2>2, <2>5 DEF WholeAt, NoBrace
    <3> QED
      BY <2>1, <3>1, <3>2 DEF n, f, body
  <2> QED
    BY <2>3, <2>4, <2>5
<1> QED
  BY <1>7, <1>8, <1>9

\* A body with nothing in it.
AllBlank(b) == \A x \in DOMAIN b : b[x] = "blank"

\* A body that is more than an identifier, as IsSlot has it.
SlotBody(b) == \E j \in DOMAIN b : \E k \in DOMAIN b :
                 /\ j <= k /\ b[j] # "blank" /\ b[k] # "blank"
                 /\ \E x \in j .. k : b[x] \notin Words

\* From the first token that is no space to the last one.
SpanOf(b, f, l) ==
  /\ f \in DOMAIN b /\ l \in DOMAIN b /\ f <= l
  /\ b[f] # "blank" /\ b[l] # "blank"
  /\ \A x \in DOMAIN b : b[x] # "blank" => f <= x /\ x <= l

\* What is left of a body when the space around it is gone.
LEMMA StrippedSpan ==
  ASSUME NEW b \in Seq(Tokens), ~ AllBlank(b)
  PROVE  \E f, l \in DOMAIN b : SpanOf(b, f, l) /\ Stripped(b) = SubSeq(b, f, l)
<1> DEFINE n == Len(b)
           solid == {i \in DOMAIN b : b[i] # "blank"}
           first == CHOOSE i \in solid : \A j \in solid : i <= j
           last == CHOOSE i \in solid : \A j \in solid : j <= i
<1>0. n \in Nat /\ DOMAIN b = 1 .. n
  OBVIOUS
<1>1. solid # {} /\ solid \in SUBSET (0 .. n) /\ solid \in SUBSET Nat /\ solid \in SUBSET DOMAIN b
  BY <1>0 DEF AllBlank
<1>2. Stripped(b) = IF solid = {} THEN <<>> ELSE SubSeq(b, first, last)
  BY Zenon DEF Stripped
<1>3. \A x \in DOMAIN b : b[x] # "blank" <=> x \in solid
  OBVIOUS
<1> HIDE DEF solid
<1>4. first \in solid /\ \A j \in solid : first <= j
  <2>1. \E i \in solid : \A j \in solid : i <= j
    BY <1>1, LeastOf
  <2> QED
    BY <2>1, Zenon
<1>5. last \in solid /\ \A j \in solid : j <= last
  <2>1. \E i \in solid : \A j \in solid : j <= i
    BY <1>0, <1>1, GreatestOf
  <2> QED
    BY <2>1, Zenon
<1> HIDE DEF first, last
<1>6. SpanOf(b, first, last)
  BY <1>1, <1>3, <1>4, <1>5 DEF SpanOf
<1> QED
  BY <1>1, <1>2, <1>4, <1>5, <1>6

\* An empty body is an error; one that is more than an identifier is a slot; any other is a
\* variable, and with a single word everything else in it is space.
LEMMA DirectiveIs ==
  ASSUME NEW b \in Seq(Tokens)
  PROVE  \/ AllBlank(b) /\ Directive(b) = Bad
         \/ /\ ~ AllBlank(b) /\ SlotBody(b) /\ Stripped(b) \in Seq(Tokens)
            /\ Directive(b) = <<[type |-> "gen", text |-> Stripped(b)]>>
         \/ /\ ~ AllBlank(b) /\ ~ SlotBody(b) /\ Stripped(b) \in Seq(Tokens)
            /\ Directive(b) = <<[type |-> "var", name |-> Stripped(b)]>>
            /\ Len(Stripped(b)) = 1 =>
                 \E j \in DOMAIN b : /\ b[j] = Stripped(b)[1] /\ b[j] \in Words
                                     /\ \A k \in DOMAIN b : k # j => b[k] = "blank"
<1>0. Directive(b) = IF Stripped(b) = <<>> THEN Bad
                     ELSE IF \A i \in DOMAIN Stripped(b) : Stripped(b)[i] \in Words
                       THEN <<[type |-> "var", name |-> Stripped(b)]>>
                       ELSE <<[type |-> "gen", text |-> Stripped(b)]>>
  BY Zenon DEF Directive
<1>1. CASE AllBlank(b)
  <2>1. {i \in DOMAIN b : b[i] # "blank"} = {}
    BY <1>1 DEF AllBlank
  <2>2. Stripped(b) = <<>>
    BY <2>1, Zenon DEF Stripped
  <2> QED
    BY <1>0, <1>1, <2>2, Zenon
<1>2. CASE ~ AllBlank(b)
  <2>1. PICK f, l \in DOMAIN b : SpanOf(b, f, l) /\ Stripped(b) = SubSeq(b, f, l)
    BY <1>2, StrippedSpan
  <2> DEFINE s == Stripped(b)
  <2>2. DOMAIN b = 1 .. Len(b) /\ Len(b) \in Nat /\ f \in 1 .. Len(b) /\ l \in 1 .. Len(b) /\ f <= l
    BY <2>1 DEF SpanOf
  <2>3. s \in Seq(Tokens) /\ Len(s) = l - f + 1 /\ DOMAIN s = 1 .. l - f + 1
        /\ \A i \in 1 .. l - f + 1 : s[i] = b[f + i - 1]
    <3>1. SubSeq(b, f, l) \in Seq(Tokens)
      BY <2>2, SubSeqProperties
    <3>2. Len(SubSeq(b, f, l)) = l - f + 1 /\ DOMAIN SubSeq(b, f, l) = 1 .. l - f + 1
          /\ \A i \in 1 .. l - f + 1 : SubSeq(b, f, l)[i] = b[f + i - 1]
      BY <2>2, SubSeqProperties
    <3> QED
      BY <2>1, <3>1, <3>2, Zenon
  <2> HIDE DEF s
  <2>4. (\A i \in DOMAIN s : s[i] \in Words) <=> (\A x \in f .. l : b[x] \in Words)
    <3>1. ASSUME \A i \in DOMAIN s : s[i] \in Words, NEW x \in f .. l
          PROVE  b[x] \in Words
      <4>1. x - f + 1 \in 1 .. l - f + 1 /\ f + (x - f + 1) - 1 = x
        BY <2>2
      <4> QED
        BY <2>3, <3>1, <4>1
    <3>2. ASSUME \A x \in f .. l : b[x] \in Words, NEW i \in DOMAIN s
          PROVE  s[i] \in Words
      <4>1. i \in 1 .. l - f + 1 /\ f + i - 1 \in f .. l
        BY <2>2, <2>3
      <4> QED
        BY <2>3, <3>2, <4>1
    <3> QED
      BY <3>1, <3>2
  <2>5. SlotBody(b) <=> \E x \in f .. l : b[x] \notin Words
    <3>1. ASSUME SlotBody(b)
          PROVE  \E x \in f .. l : b[x] \notin Words
      <4>1. PICK j \in DOMAIN b, k \in DOMAIN b :
               /\ j <= k /\ b[j] # "blank" /\ b[k] # "blank"
               /\ \E x \in j .. k : b[x] \notin Words
        BY <3>1 DEF SlotBody
      <4>2. f <= j /\ k <= l
        BY <2>1, <4>1 DEF SpanOf
      <4> QED
        BY <2>2, <4>1, <4>2
    <3>2. ASSUME \E x \in f .. l : b[x] \notin Words
          PROVE  SlotBody(b)
      BY <2>1, <3>2 DEF SlotBody, SpanOf
    <3> QED
      BY <3>1, <3>2
  <2>6. s # <<>>
    BY <2>2, <2>3
  <2>7. CASE SlotBody(b)
    <3>1. ~ (\A i \in DOMAIN s : s[i] \in Words)
      BY <2>4, <2>5, <2>7
    <3> QED
      BY <1>0, <1>2, <2>3, <2>6, <2>7, <3>1, Zenon DEF s
  <2>8. CASE ~ SlotBody(b)
    <3>1. \A i \in DOMAIN s : s[i] \in Words
      BY <2>4, <2>5, <2>8
    <3>2. Directive(b) = <<[type |-> "var", name |-> s]>>
      BY <1>0, <2>6, <3>1, Zenon DEF s
    <3>3. ASSUME Len(s) = 1
          PROVE  /\ b[f] = s[1] /\ b[f] \in Words
                 /\ \A k \in DOMAIN b : k # f => b[k] = "blank"
      <4>1. l = f /\ 1 \in 1 .. l - f + 1 /\ f + 1 - 1 = f
        <5>1. l - f + 1 = 1
          BY <2>3, <3>3, Zenon
        <5>2. f \in Nat /\ l \in Nat
          BY <2>2
        <5>3. l = f
          BY <5>1, <5>2
        <5>4. 1 \in 1 .. 1 /\ f + 1 - 1 = f
          BY <5>2
        <5> QED
          BY <5>1, <5>3, <5>4, Zenon
      <4>2. b[f] = s[1] /\ s[1] \in Words
        BY <2>3, <3>1, <4>1
      <4>3. ASSUME NEW k \in DOMAIN b, k # f
            PROVE  b[k] = "blank"
        <5>1. b[k] # "blank" => f <= k /\ k <= f
          BY <2>1, <4>1 DEF SpanOf
        <5> QED
          BY <2>2, <4>3, <5>1
      <4> QED
        BY <4>2, <4>3
    <3> QED
      BY <1>2, <2>1, <2>3, <2>8, <3>2, <3>3, Zenon DEF s
  <2> QED
    BY <2>7, <2>8
<1> QED
  BY <1>1, <1>2

\* Each piece is a sequence of segments.
LEMMA PiecesTyped ==
  /\ Bad \in Seq(Parts)
  /\ \A s \in Seq(Tokens) : Literal(s) \in Seq(Parts)
  /\ \A b \in Seq(Tokens) : Directive(b) \in Seq(Parts)
<1>1. \A s \in Seq(Tokens) : /\ [type |-> "lit", text |-> s] \in Parts
                             /\ [type |-> "var", name |-> s] \in Parts
                             /\ [type |-> "gen", text |-> s] \in Parts
  BY DEF Parts
<1>2. [type |-> "bad"] \in Parts
  BY DEF Parts
<1>3. \A p \in Parts : <<p>> \in Seq(Parts)
  OBVIOUS
<1>4. Bad \in Seq(Parts)
  BY <1>2, <1>3 DEF Bad
<1>5. ASSUME NEW s \in Seq(Tokens)
      PROVE  Literal(s) \in Seq(Parts)
  <2>1. CASE s = <<>>
    <3>1. Literal(s) = <<>>
      BY <2>1, Zenon DEF Literal
    <3>2. <<>> \in Seq(Parts)
      OBVIOUS
    <3> QED
      BY <3>1, <3>2, Zenon
  <2>2. CASE s # <<>>
    <3>1. Literal(s) = <<[type |-> "lit", text |-> s]>>
      BY <2>2, Zenon DEF Literal
    <3> QED
      BY <1>1, <1>3, <3>1, Zenon
  <2> QED
    BY <2>1, <2>2
<1>6. ASSUME NEW b \in Seq(Tokens)
      PROVE  Directive(b) \in Seq(Parts)
  BY <1>1, <1>3, <1>4, DirectiveIs
<1> QED
  BY <1>4, <1>5, <1>6

\* And so is what Split makes from any position on.
LEMMA CutsTyped ==
  ASSUME NEW t \in Seq(Tokens), NEW i \in 1 .. Len(t) + 1
  PROVE  Cuts(t)[i] \in Seq(Parts)
<1> DEFINE n == Len(t)
           s == {k \in 1 .. n + 1 : Cuts(t)[k] \notin Seq(Parts)}
<1>0. n \in Nat
  OBVIOUS
<1> SUFFICES ASSUME s # {} PROVE FALSE
  OBVIOUS
<1>1. PICK k \in s : \A m \in s : m <= k
  <2>1. s \in SUBSET (0 .. n + 1) /\ n + 1 \in Nat
    BY <1>0
  <2> HIDE DEF s
  <2> QED
    BY <2>1, GreatestOf
<1>2. k \in 1 .. n + 1 /\ Cuts(t)[k] \notin Seq(Parts)
  OBVIOUS
<1>3. \A a, b \in Nat : a # 0 /\ b <= n => SubSeq(t, a, b) \in Seq(Tokens)
  BY SubSeqProperties
<1>4. CASE Cuts(t)[k] = Bad
  BY <1>2, <1>4, PiecesTyped
<1>5. CASE Cuts(t)[k] = Literal(SubSeq(t, k, n))
  <2>1. SubSeq(t, k, n) \in Seq(Tokens)
    <3>1. k \in Nat /\ k # 0 /\ n \in Nat /\ n <= n
      BY <1>0, <1>2
    <3> QED
      BY <1>3, <3>1
  <2> QED
    BY <1>2, <1>5, <2>1, PiecesTyped, Zenon
<1>6. ASSUME NEW o \in k .. n, NEW c \in o + 1 .. n,
             Cuts(t)[k] = Literal(SubSeq(t, k, o - 1))
                           \o Directive(SubSeq(t, o + 1, c - 1)) \o Cuts(t)[c + 1]
      PROVE  FALSE
  <2>1. c + 1 \in 1 .. n + 1 /\ ~ (c + 1 <= k)
    BY <1>0, <1>2
  <2>2. Cuts(t)[c + 1] \in Seq(Parts)
    BY <1>1, <2>1
  <2>3. SubSeq(t, k, o - 1) \in Seq(Tokens) /\ SubSeq(t, o + 1, c - 1) \in Seq(Tokens)
    <3>1. k \in Nat /\ k # 0 /\ o - 1 \in Nat /\ o - 1 <= n /\ o + 1 \in Nat /\ o + 1 # 0
          /\ c - 1 \in Nat /\ c - 1 <= n
      BY <1>0, <1>2
    <3> QED
      BY <1>3, <3>1
  <2>4. Literal(SubSeq(t, k, o - 1)) \in Seq(Parts) /\ Directive(SubSeq(t, o + 1, c - 1)) \in Seq(Parts)
    BY <2>3, PiecesTyped
  <2>5. \A x, y, z \in Seq(Parts) : x \o y \o z \in Seq(Parts)
    BY ConcatProperties
  <2> QED
    BY <1>2, <1>6, <2>2, <2>4, <2>5, Zenon
<1> QED
  BY <1>0, <1>2, <1>4, <1>5, <1>6, CutAt

-----------------------------------------------------------------------------
(* Texts: the parser: the grammar. *)

\* Braces are such a set.
LEMMA BracesNumbered ==
  ASSUME NEW t \in Seq(Tokens)
  PROVE  Numbered(Braces(t)) /\ \A j \in Braces(t) : j <= Len(t)
<1>1. Len(t) \in Nat /\ \A j \in Braces(t) : j \in 1 .. Len(t)
  BY DEF Braces
<1> QED
  BY <1>1, Places1

\* The braces before a position, as a rank.
LEMMA BeforeIsRank ==
  ASSUME NEW t \in Seq(Tokens), NEW p \in Nat \ {0}
  PROVE  BracesBefore(t, p) = RankAmong(Braces(t), p - 1) /\ BracesBefore(t, p) \in Nat
<1>1. \A j \in Braces(t) : j < p <=> j <= p - 1
  BY BracesNumbered DEF Numbered
<1>2. {j \in Braces(t) : j < p} = {j \in Braces(t) : j <= p - 1}
  BY <1>1, Zenon
<1>3. RankAmong(Braces(t), p - 1) \in Nat
  BY BracesNumbered, RankIsNumber
<1> QED
  BY <1>2, <1>3, Zenon DEF BracesBefore, RankAmong

\* No brace, no change.
LEMMA BeforeStays ==
  ASSUME NEW t \in Seq(Tokens), NEW p \in Nat \ {0}, NEW q \in Nat, p <= q, q <= Len(t) + 1,
         NoBrace(t, p, q - 1)
  PROVE  BracesBefore(t, q) = BracesBefore(t, p)
<1>1. \A j \in Braces(t) : ~ (p - 1 < j /\ j <= q - 1)
  <2> SUFFICES ASSUME NEW j \in Braces(t), p - 1 < j, j <= q - 1 PROVE FALSE
    OBVIOUS
  <2>1. j \in Nat
    BY BracesNumbered DEF Numbered
  <2>2. j \in p .. q - 1
    BY <2>1
  <2> QED
    BY <2>2 DEF NoBrace, Braces
<1>2. p - 1 \in Nat /\ q - 1 \in Nat /\ p - 1 <= q - 1 /\ q \in Nat \ {0}
  OBVIOUS
<1> QED
  BY <1>1, <1>2, BracesNumbered, BeforeIsRank, RankStays

\* One brace is one more.
LEMMA BeforeGrows ==
  ASSUME NEW t \in Seq(Tokens), NEW p \in Braces(t)
  PROVE  BracesBefore(t, p + 1) = BracesBefore(t, p) + 1
<1>1. p \in Nat \ {0} /\ p - 1 \in Nat /\ (p - 1) + 1 = p /\ p + 1 \in Nat \ {0} /\ (p + 1) - 1 = p
  BY BracesNumbered DEF Numbered
<1>2. RankAmong(Braces(t), (p - 1) + 1) = RankAmong(Braces(t), p - 1) + 1
  BY <1>1, BracesNumbered, RankGrows
<1> QED
  BY <1>1, <1>2, BeforeIsRank

\* And there are never fewer.
LEMMA BeforeMonotone ==
  ASSUME NEW t \in Seq(Tokens), NEW p \in Nat \ {0}, NEW q \in Nat, p <= q
  PROVE  BracesBefore(t, p) <= BracesBefore(t, q)
<1>1. p - 1 \in Nat /\ q - 1 \in Nat /\ p - 1 <= q - 1 /\ q \in Nat \ {0}
  OBVIOUS
<1> QED
  BY <1>1, BracesNumbered, BeforeIsRank, RankMonotone

\* There is none before the first position, and before the end there are all.
LEMMA BeforeEnds ==
  ASSUME NEW t \in Seq(Tokens)
  PROVE  BracesBefore(t, 1) = 0 /\ BracesBefore(t, Len(t) + 1) = Cardinality(Braces(t))
<1>1. Len(t) \in Nat /\ 1 - 1 = 0 /\ Len(t) + 1 \in Nat \ {0} /\ (Len(t) + 1) - 1 = Len(t)
  OBVIOUS
<1>2. RankAmong(Braces(t), 0) = 0 /\ RankAmong(Braces(t), Len(t)) = Cardinality(Braces(t))
  BY <1>1, BracesNumbered, RankZero
<1> QED
  BY <1>1, <1>2, BeforeIsRank

\* The two halves of the grammar, for one brace.
Alternates(t, x) == t[x] = IF BracesBefore(t, x) % 2 = 0 THEN "open" ELSE "close"
Filled(t, x) ==
  t[x] = "open" => \E j \in x .. Len(t) : /\ BracesBefore(t, j) = BracesBefore(t, x) + 1
                                          /\ t[j] \notin {"blank", "close"}

\* The grammar is these, and an even number of braces.
LEMMA GrammarIs ==
  ASSUME NEW t
  PROVE  Grammatical(t) <=> /\ \A x \in Braces(t) : Alternates(t, x) /\ Filled(t, x)
                            /\ Cardinality(Braces(t)) % 2 = 0
BY Zenon DEF Grammatical, Alternates, Filled

\* The grammar up to a position outside of directives.
Sound(t, p) ==
  /\ BracesBefore(t, p) % 2 = 0
  /\ \A x \in Braces(t) : x < p => Alternates(t, x) /\ Filled(t, x)

\* It holds of nothing.
LEMMA SoundStart ==
  ASSUME NEW t \in Seq(Tokens)
  PROVE  Sound(t, 1)
<1>1. \A x \in Braces(t) : ~ (x < 1)
  BY BracesNumbered DEF Numbered
<1> QED
  BY <1>1, BeforeEnds DEF Sound

\* How the braces count up to a directive and within it.
LEMMA AroundDirective ==
  ASSUME NEW t \in Seq(Tokens), NEW p \in 1 .. Len(t) + 1, NEW o \in p .. Len(t),
         t[o] = "open", NoBrace(t, p, o - 1)
  PROVE  /\ BracesBefore(t, o) = BracesBefore(t, p)
         /\ BracesBefore(t, o + 1) = BracesBefore(t, p) + 1
         /\ BracesBefore(t, p) \in Nat
         /\ \A j \in o + 1 .. Len(t) + 1 : NoBrace(t, o + 1, j - 1) =>
               BracesBefore(t, j) = BracesBefore(t, p) + 1
<1>1. p \in Nat \ {0} /\ o \in Nat \ {0} /\ p <= o /\ o <= Len(t) + 1 /\ o + 1 \in Nat \ {0} /\
      Len(t) \in Nat
  OBVIOUS
<1>2. BracesBefore(t, o) = BracesBefore(t, p)
  BY <1>1, BeforeStays
<1>3. o \in Braces(t)
  BY <1>1 DEF Braces
<1>4. BracesBefore(t, o + 1) = BracesBefore(t, p) + 1
  BY <1>2, <1>3, BeforeGrows
<1>5. ASSUME NEW j \in o + 1 .. Len(t) + 1, NoBrace(t, o + 1, j - 1)
      PROVE  BracesBefore(t, j) = BracesBefore(t, p) + 1
  <2>1. j \in Nat /\ o + 1 <= j /\ j <= Len(t) + 1
    BY <1>1
  <2> QED
    BY <1>1, <1>4, <1>5, <2>1, BeforeStays
<1> QED
  BY <1>1, <1>2, <1>4, <1>5, BeforeIsRank

\* It holds past a whole directive with something in it.
LEMMA SoundGoesOn ==
  ASSUME NEW t \in Seq(Tokens), NEW p \in 1 .. Len(t) + 1, Sound(t, p), NEW o \in p .. Len(t),
         NoBrace(t, p, o - 1), NEW c \in o + 1 .. Len(t), WholeAt(t, o, c),
         ~ AllBlank(SubSeq(t, o + 1, c - 1))
  PROVE  Sound(t, c + 1)
<1> DEFINE m == BracesBefore(t, p)
<1>0. p \in Nat /\ o \in Nat /\ c \in Nat /\ Len(t) \in Nat /\ p <= o /\ o < c /\ c <= Len(t)
  OBVIOUS
<1>1. t[o] = "open" /\ t[c] = "close" /\ NoBrace(t, o + 1, c - 1)
  BY DEF WholeAt
<1>2. /\ BracesBefore(t, o) = m /\ m \in Nat /\ m % 2 = 0
      /\ \A j \in o + 1 .. Len(t) + 1 : NoBrace(t, o + 1, j - 1) => BracesBefore(t, j) = m + 1
  BY <1>1, AroundDirective DEF Sound
<1>3. BracesBefore(t, c) = m + 1
  BY <1>0, <1>1, <1>2
<1>4. c \in Braces(t) /\ o \in Braces(t)
  BY <1>0, <1>1 DEF Braces
<1> HIDE DEF m
<1>5. BracesBefore(t, c + 1) = m + 2
  <2>1. BracesBefore(t, c + 1) = (m + 1) + 1
    BY <1>3, <1>4, BeforeGrows
  <2> QED
    BY <1>2, <2>1
<1>6. (m + 1) % 2 # 0 /\ (m + 2) % 2 = 0
  BY <1>2, Parity
<1>7. Alternates(t, o) /\ Alternates(t, c) /\ Filled(t, c)
  BY <1>1, <1>2, <1>3, <1>6 DEF Alternates, Filled
<1>8. Filled(t, o)
  <2>1. PICK k \in DOMAIN SubSeq(t, o + 1, c - 1) : SubSeq(t, o + 1, c - 1)[k] # "blank"
    BY DEF AllBlank
  <2>2. k \in 1 .. c - 1 - o /\ t[o + k] # "blank"
    BY <1>0, <2>1
  <2>3. o + k \in o + 1 .. c - 1 /\ o + k \in o .. Len(t) /\ o + k \in o + 1 .. Len(t) + 1
    BY <1>0, <2>2
  <2>4. NoBrace(t, o + 1, o + k - 1)
    BY <1>0, <1>1, <2>2 DEF NoBrace
  <2>5. BracesBefore(t, o + k) = m + 1
    BY <1>2, <2>3, <2>4
  <2>6. t[o + k] # "close"
    BY <1>1, <2>3 DEF NoBrace
  <2> QED
    BY <1>2, <2>2, <2>3, <2>5, <2>6 DEF Filled
<1>9. ASSUME NEW x \in Braces(t), x < c + 1
      PROVE  x < p \/ x = o \/ x = c
  <2>1. x \in Nat /\ (t[x] = "open" \/ t[x] = "close")
    BY BracesNumbered DEF Numbered, Braces
  <2>2. ~ (x \in p .. o - 1) /\ ~ (x \in o + 1 .. c - 1)
    BY <1>1, <2>1 DEF NoBrace
  <2> QED
    BY <1>0, <1>9, <2>1, <2>2
<1> QED
  BY <1>5, <1>6, <1>7, <1>8, <1>9 DEF Sound

\* It is the grammar when no brace is left.
LEMMA SoundEnd ==
  ASSUME NEW t \in Seq(Tokens), NEW p \in 1 .. Len(t) + 1, Sound(t, p), NoBrace(t, p, Len(t))
  PROVE  Grammatical(t)
<1>0. p \in Nat \ {0} /\ Len(t) \in Nat /\ Len(t) + 1 \in Nat /\ p <= Len(t) + 1 /\
      (Len(t) + 1) - 1 = Len(t)
  OBVIOUS
<1>1. BracesBefore(t, Len(t) + 1) = BracesBefore(t, p)
  BY <1>0, BeforeStays
<1>2. \A x \in Braces(t) : x < p
  <2> SUFFICES ASSUME NEW x \in Braces(t), ~ (x < p) PROVE FALSE
    OBVIOUS
  <2>1. x \in p .. Len(t) /\ (t[x] = "open" \/ t[x] = "close")
    BY <1>0, BracesNumbered DEF Numbered, Braces
  <2> QED
    BY <2>1 DEF NoBrace
<1> QED
  BY <1>1, <1>2, BeforeEnds, GrammarIs DEF Sound

\* A stray brace breaks it.
LEMMA StrayBreaks ==
  ASSUME NEW t \in Seq(Tokens), NEW p \in 1 .. Len(t) + 1, Sound(t, p), NEW x \in p .. Len(t),
         StrayAt(t, p, x)
  PROVE  ~ Grammatical(t)
<1>0. p \in Nat \ {0} /\ x \in Nat /\ p <= x /\ x <= Len(t) + 1 /\ x \in 1 .. Len(t)
  OBVIOUS
<1>1. t[x] = "close" /\ NoBrace(t, p, x - 1)
  BY DEF StrayAt
<1>2. BracesBefore(t, x) = BracesBefore(t, p)
  BY <1>0, <1>1, BeforeStays
<1>3. x \in Braces(t) /\ ~ Alternates(t, x)
  BY <1>0, <1>1, <1>2 DEF Sound, Alternates, Braces
<1> QED
  BY <1>3, GrammarIs

\* A directive that is broken breaks it.
LEMMA BrokenBreaks ==
  ASSUME NEW t \in Seq(Tokens), NEW p \in 1 .. Len(t) + 1, Sound(t, p), NEW o \in p .. Len(t),
         t[o] = "open", NoBrace(t, p, o - 1), BrokenAt(t, o)
  PROVE  ~ Grammatical(t)
<1> DEFINE m == BracesBefore(t, p)
<1>0. o \in Nat /\ Len(t) \in Nat /\ o <= Len(t) /\ p \in Nat \ {0} /\ p <= o
  OBVIOUS
<1>1. /\ m \in Nat /\ m % 2 = 0
      /\ \A j \in o + 1 .. Len(t) + 1 : NoBrace(t, o + 1, j - 1) => BracesBefore(t, j) = m + 1
  BY AroundDirective DEF Sound
<1> HIDE DEF m
<1>2. (m + 1) % 2 # 0
  BY <1>1, Parity
<1>3. CASE NoBrace(t, o + 1, Len(t))
  <2>1. Len(t) + 1 \in o + 1 .. Len(t) + 1 /\ (Len(t) + 1) - 1 = Len(t)
    BY <1>0
  <2>2. BracesBefore(t, Len(t) + 1) = m + 1
    BY <1>1, <1>3, <2>1
  <2> QED
    BY <1>2, <2>2, BeforeEnds, GrammarIs
<1>4. CASE \E y \in o + 1 .. Len(t) : t[y] = "open" /\ NoBrace(t, o + 1, y - 1)
  <2>1. PICK y \in o + 1 .. Len(t) : t[y] = "open" /\ NoBrace(t, o + 1, y - 1)
    BY <1>4
  <2>2. y \in Braces(t) /\ y \in o + 1 .. Len(t) + 1
    BY <1>0, <2>1 DEF Braces
  <2>3. BracesBefore(t, y) = m + 1
    BY <1>1, <2>1, <2>2
  <2>4. ~ Alternates(t, y)
    BY <1>2, <2>1, <2>3 DEF Alternates
  <2> QED
    BY <2>2, <2>4, GrammarIs
<1> QED
  BY <1>3, <1>4 DEF BrokenAt

\* An empty directive breaks it.
LEMMA EmptyBreaks ==
  ASSUME NEW t \in Seq(Tokens), NEW p \in 1 .. Len(t) + 1, Sound(t, p), NEW o \in p .. Len(t),
         NoBrace(t, p, o - 1), NEW c \in o + 1 .. Len(t), WholeAt(t, o, c),
         AllBlank(SubSeq(t, o + 1, c - 1))
  PROVE  ~ Grammatical(t)
<1> DEFINE m == BracesBefore(t, p)
<1>0. o \in Nat /\ c \in Nat /\ Len(t) \in Nat /\ o < c /\ c <= Len(t) /\ p \in Nat \ {0} /\ p <= o
  OBVIOUS
<1>1. t[o] = "open" /\ t[c] = "close" /\ NoBrace(t, o + 1, c - 1)
  BY DEF WholeAt
<1>2. /\ BracesBefore(t, o) = m /\ m \in Nat
      /\ \A j \in o + 1 .. Len(t) + 1 : NoBrace(t, o + 1, j - 1) => BracesBefore(t, j) = m + 1
  BY <1>1, AroundDirective
<1>3. BracesBefore(t, c) = m + 1
  BY <1>0, <1>1, <1>2
<1>4. c \in Braces(t) /\ o \in Braces(t)
  BY <1>0, <1>1 DEF Braces
<1> HIDE DEF m
<1>5. BracesBefore(t, c + 1) = m + 2
  <2>1. BracesBefore(t, c + 1) = (m + 1) + 1
    BY <1>3, <1>4, BeforeGrows
  <2> QED
    BY <1>2, <2>1
<1>6. ~ Filled(t, o)
  <2> SUFFICES ASSUME NEW j \in o .. Len(t), BracesBefore(t, j) = m + 1,
                      t[j] \notin {"blank", "close"}
               PROVE  FALSE
    BY <1>1, <1>2 DEF Filled
  <2>0. j \in Nat
    BY <1>0
  <2>1. j # o
    BY <1>2
  <2>2. j # c
    BY <1>1
  <2>3. ~ (c + 1 <= j)
    <3>1. c + 1 <= j => BracesBefore(t, c + 1) <= BracesBefore(t, j)
      BY <1>0, <2>0, BeforeMonotone
    <3> QED
      BY <1>2, <1>5, <3>1
  <2>4. j - o \in 1 .. c - 1 - o
    BY <1>0, <2>0, <2>1, <2>2, <2>3
  <2>5. j - o \in DOMAIN SubSeq(t, o + 1, c - 1) /\ SubSeq(t, o + 1, c - 1)[j - o] = t[j]
    BY <1>0, <2>0, <2>4
  <2> QED
    BY <2>5 DEF AllBlank
<1> QED
  BY <1>4, <1>6, GrammarIs

\* Which pieces have the error in them.
LEMMA BadPieces ==
  /\ IsBad(Bad)
  /\ \A s : ~ IsBad(Literal(s))
  /\ \A b \in Seq(Tokens) : IsBad(Directive(b)) <=> AllBlank(b)
  /\ \A a, b \in Seq(Parts) : IsBad(a \o b) <=> IsBad(a) \/ IsBad(b)
<1>1. \A p : IsBad(<<p>>) <=> p.type = "bad"
  BY DEF IsBad
<1>2. IsBad(Bad)
  BY <1>1 DEF Bad
<1>3. ASSUME NEW s
      PROVE  ~ IsBad(Literal(s))
  <2>1. ~ IsBad(<<>>)
    BY DEF IsBad
  <2>2. [type |-> "lit", text |-> s].type = "lit"
    OBVIOUS
  <2>3. ~ IsBad(<<[type |-> "lit", text |-> s]>>)
    BY <1>1, <2>2
  <2> QED
    BY <2>1, <2>3, Zenon DEF Literal
<1>4. ASSUME NEW b \in Seq(Tokens)
      PROVE  IsBad(Directive(b)) <=> AllBlank(b)
  <2>1. [type |-> "gen", text |-> Stripped(b)].type = "gen" /\
        [type |-> "var", name |-> Stripped(b)].type = "var"
    OBVIOUS
  <2>2. ~ IsBad(<<[type |-> "gen", text |-> Stripped(b)]>>) /\
        ~ IsBad(<<[type |-> "var", name |-> Stripped(b)]>>)
    BY <1>1, <2>1
  <2> QED
    BY <1>2, <2>2, DirectiveIs, Zenon
<1>5. ASSUME NEW a \in Seq(Parts), NEW b \in Seq(Parts)
      PROVE  IsBad(a \o b) <=> IsBad(a) \/ IsBad(b)
  <2>0. /\ Len(a) \in Nat /\ Len(b) \in Nat
        /\ DOMAIN (a \o b) = 1 .. Len(a) + Len(b) /\ DOMAIN a = 1 .. Len(a) /\ DOMAIN b = 1 .. Len(b)
        /\ \A i \in 1 .. Len(a) + Len(b) : (a \o b)[i] = IF i <= Len(a) THEN a[i] ELSE b[i - Len(a)]
    <3>1. Len(a \o b) = Len(a) + Len(b) /\ a \o b \in Seq(Parts)
          /\ \A i \in 1 .. Len(a) + Len(b) : (a \o b)[i] = IF i <= Len(a) THEN a[i] ELSE b[i - Len(a)]
      BY ConcatProperties
    <3> QED
      BY <3>1
  <2> DEFINE s == a \o b
  <2> HIDE DEF s
  <2>1. ASSUME NEW i \in DOMAIN s, s[i].type = "bad"
        PROVE  IsBad(a) \/ IsBad(b)
    <3>1. CASE i <= Len(a)
      <4>1. i \in DOMAIN a /\ s[i] = a[i]
        BY <2>0, <3>1 DEF s
      <4> QED
        BY <2>1, <4>1 DEF IsBad
    <3>2. CASE ~ (i <= Len(a))
      <4>1. i - Len(a) \in DOMAIN b /\ s[i] = b[i - Len(a)]
        BY <2>0, <3>2 DEF s
      <4> QED
        BY <2>1, <4>1 DEF IsBad
    <3> QED
      BY <3>1, <3>2
  <2>2. ASSUME NEW i \in DOMAIN a, a[i].type = "bad"
        PROVE  IsBad(s)
    <3>1. i \in DOMAIN s /\ s[i] = a[i]
      BY <2>0 DEF s
    <3> QED
      BY <2>2, <3>1 DEF IsBad
  <2>3. ASSUME NEW i \in DOMAIN b, b[i].type = "bad"
        PROVE  IsBad(s)
    <3>1. i \in Nat /\ i # 0 /\ i <= Len(b)
      BY <2>0
    <3>2. i + Len(a) \in 1 .. Len(a) + Len(b) /\ ~ (i + Len(a) <= Len(a)) /\ (i + Len(a)) - Len(a) = i
      BY <2>0, <3>1
    <3>3. s[i + Len(a)] = b[i] /\ i + Len(a) \in DOMAIN s
      BY <2>0, <3>2 DEF s
    <3> QED
      BY <2>3, <3>3 DEF IsBad
  <2>4. IsBad(s) <=> IsBad(a) \/ IsBad(b)
    BY <2>1, <2>2, <2>3 DEF IsBad
  <2> QED
    BY <2>4 DEF s
<1> QED
  BY <1>2, <1>3, <1>4, <1>5

\* The pieces around a directive are what the facts above ask for.
LEMMA PiecesOf ==
  ASSUME NEW t \in Seq(Tokens), NEW p \in 1 .. Len(t) + 1, NEW o \in p .. Len(t), NEW c \in o + 1 .. Len(t)
  PROVE  /\ SubSeq(t, p, o - 1) \in Seq(Tokens) /\ SubSeq(t, o + 1, c - 1) \in Seq(Tokens)
         /\ Literal(SubSeq(t, p, o - 1)) \in Seq(Parts)
         /\ Directive(SubSeq(t, o + 1, c - 1)) \in Seq(Parts)
         /\ Cuts(t)[c + 1] \in Seq(Parts) /\ c + 1 \in p + 1 .. Len(t) + 1
<1>1. o - 1 \in p - 1 .. Len(t) /\ o + 1 \in 1 .. Len(t) + 1 /\ c - 1 \in o .. Len(t)
      /\ c + 1 \in p + 1 .. Len(t) + 1 /\ c + 1 \in 1 .. Len(t) + 1
  OBVIOUS
<1>2. SubSeq(t, p, o - 1) \in Seq(Tokens) /\ SubSeq(t, o + 1, c - 1) \in Seq(Tokens)
  BY <1>1, SubSeqProperties
<1> QED
  BY <1>1, <1>2, PiecesTyped, CutsTyped

\* The parser refuses exactly the templates that break the grammar: at the last position
\* the loop reaches with everything sound behind it, the case it is in decides both.
THEOREM SyntaxIsGrammar ==
  ASSUME NEW t \in Seq(Tokens)
  PROVE  IsBad(Split(t)) <=> ~ Grammatical(t)
<1> DEFINE n == Len(t)
           s == {p \in 1 .. n + 1 : Sound(t, p) /\ (IsBad(Cuts(t)[1]) <=> IsBad(Cuts(t)[p]))}
<1>0. n \in Nat
  OBVIOUS
<1>1. PICK p \in s : \A q \in s : q <= p
  <2>1. 1 \in s /\ s \in SUBSET (0 .. n + 1) /\ n + 1 \in Nat
    BY <1>0, SoundStart
  <2> HIDE DEF s
  <2> QED
    BY <2>1, GreatestOf
<1>2. p \in 1 .. n + 1 /\ Sound(t, p) /\ (IsBad(Cuts(t)[1]) <=> IsBad(Cuts(t)[p]))
  OBVIOUS
<1>3. SUFFICES IsBad(Cuts(t)[p]) <=> ~ Grammatical(t)
  BY <1>2, SplitIsCut
<1>4. CASE NoBrace(t, p, n) /\ Cuts(t)[p] = Literal(SubSeq(t, p, n))
  BY <1>2, <1>4, BadPieces, SoundEnd
<1>5. ASSUME NEW x \in p .. n, StrayAt(t, p, x), Cuts(t)[p] = Bad
      PROVE  IsBad(Cuts(t)[p]) <=> ~ Grammatical(t)
  BY <1>2, <1>5, BadPieces, StrayBreaks
<1>6. ASSUME NEW o \in p .. n, t[o] = "open", NoBrace(t, p, o - 1), BrokenAt(t, o), Cuts(t)[p] = Bad
      PROVE  IsBad(Cuts(t)[p]) <=> ~ Grammatical(t)
  BY <1>2, <1>6, BadPieces, BrokenBreaks
<1>7. ASSUME NEW o \in p .. n, t[o] = "open", NoBrace(t, p, o - 1), NEW c \in o + 1 .. n,
             WholeAt(t, o, c),
             Cuts(t)[p] = Literal(SubSeq(t, p, o - 1))
                           \o Directive(SubSeq(t, o + 1, c - 1)) \o Cuts(t)[c + 1]
      PROVE  IsBad(Cuts(t)[p]) <=> ~ Grammatical(t)
  <2> DEFINE lit == Literal(SubSeq(t, p, o - 1))
             dir == Directive(SubSeq(t, o + 1, c - 1))
             rest == Cuts(t)[c + 1]
  <2>1. /\ lit \in Seq(Parts) /\ dir \in Seq(Parts) /\ rest \in Seq(Parts)
        /\ SubSeq(t, o + 1, c - 1) \in Seq(Tokens) /\ c + 1 \in p + 1 .. n + 1
    BY <1>2, PiecesOf
  <2>2. ~ IsBad(lit) /\ (IsBad(dir) <=> AllBlank(SubSeq(t, o + 1, c - 1)))
    BY <2>1, BadPieces
  <2>3. Cuts(t)[p] = lit \o dir \o rest
    BY <1>7
  <2> HIDE DEF lit, dir, rest
  <2>4. IsBad(Cuts(t)[p]) <=> IsBad(dir) \/ IsBad(rest)
    <3>1. lit \o dir \in Seq(Parts)
      BY <2>1, ConcatProperties
    <3> QED
      <4>1. IsBad(lit \o dir) <=> IsBad(dir)
        BY <2>1, <2>2, BadPieces
      <4>2. IsBad((lit \o dir) \o rest) <=> IsBad(lit \o dir) \/ IsBad(rest)
        BY <2>1, <3>1, BadPieces
      <4> QED
        BY <2>3, <4>1, <4>2
  <2>5. CASE AllBlank(SubSeq(t, o + 1, c - 1))
    BY <1>2, <1>7, <2>2, <2>4, <2>5, EmptyBreaks
  <2>6. CASE ~ AllBlank(SubSeq(t, o + 1, c - 1))
    <3>1. Sound(t, c + 1)
      BY <1>2, <1>7, <2>6, SoundGoesOn
    <3>2. IsBad(Cuts(t)[p]) <=> IsBad(Cuts(t)[c + 1])
      BY <2>2, <2>4, <2>6 DEF rest
    <3>3. c + 1 \in 1 .. n + 1 /\ ~ (c + 1 <= p)
      BY <1>0, <1>2, <2>1
    <3>4. c + 1 \in s
      BY <1>2, <3>1, <3>2, <3>3
    <3> QED
      BY <1>1, <3>3, <3>4
  <2> QED
    BY <2>5, <2>6
<1> QED
  BY <1>2, <1>4, <1>5, <1>6, <1>7, CutAt

-----------------------------------------------------------------------------
(* Texts: the text. *)

\* What a segment adds to the text, as Join has it.
Emitted(segs, texts, i) ==
  CASE segs[i].type = "lit" ->
         [k \in DOMAIN segs[i].text |-> Plain(segs[i].text[k])]
    [] segs[i].type = "var" -> <<Value(segs[i].name)>>
    [] segs[i].type = "gen" -> <<Made(texts[SlotId(segs, i)])>>

\* The text after each segment.
Joins(segs, texts) ==
  CHOOSE f : f = [i \in 0 .. Len(segs) |-> IF i = 0 THEN <<>> ELSE f[i - 1] \o Emitted(segs, texts, i)]

\* Join is the last of these.
LEMMA JoinIsLast ==
  ASSUME NEW segs, NEW texts
  PROVE  Join(segs, texts) = Joins(segs, texts)[Len(segs)]
BY Zenon DEF Join, Joins, Emitted

\* There is such a function, from the first segment to the last.
LEMMA JoinsExist ==
  ASSUME NEW segs, NEW texts, Len(segs) \in Nat
  PROVE  /\ Joins(segs, texts)[0] = <<>>
         /\ \A i \in 1 .. Len(segs) :
              Joins(segs, texts)[i] = Joins(segs, texts)[i - 1] \o Emitted(segs, texts, i)
<1> DEFINE n == Len(segs)
           E(i) == Emitted(segs, texts, i)
           Step(f, i) == IF i = 0 THEN <<>> ELSE f[i - 1] \o E(i)
           Done(f, d) == \A i \in 0 .. n : i <= d => f[i] = Step(f, i)
           T == {d \in Nat : \E f : f = [i \in 0 .. n |-> f[i]] /\ Done(f, d)}
<1>0. n \in Nat
  OBVIOUS
<1> HIDE DEF E, n
<1>1. 0 \in T
  <2> DEFINE f == [i \in 0 .. n |-> <<>>]
  <2>1. f = [i \in 0 .. n |-> f[i]]
    OBVIOUS
  <2>2. Done(f, 0)
    BY <1>0
  <2> QED
    BY <2>1, <2>2
<1>2. ASSUME NEW d \in T
      PROVE  d + 1 \in T
  <2>1. d \in Nat
    OBVIOUS
  <2>2. PICK f : f = [i \in 0 .. n |-> f[i]] /\ Done(f, d)
    OBVIOUS
  <2> DEFINE g == [i \in 0 .. n |-> IF i = d + 1 THEN f[d] \o E(i) ELSE f[i]]
  <2>3. g = [i \in 0 .. n |-> g[i]]
    OBVIOUS
  <2>4. ASSUME NEW i \in 0 .. n, i <= d + 1
        PROVE  g[i] = Step(g, i)
    <3>1. CASE i = d + 1
      <4>1. d \in 0 .. n /\ d # d + 1 /\ i # 0 /\ i - 1 = d
        BY <1>0, <2>1, <3>1
      <4>2. g[d] = f[d] /\ g[i] = f[d] \o E(i)
        BY <3>1, <4>1
      <4> QED
        BY <4>1, <4>2
    <3>2. CASE i # d + 1
      <4>1. i <= d /\ g[i] = f[i]
        BY <2>1, <2>4, <3>2
      <4>2. f[i] = Step(f, i)
        BY <2>2, <4>1
      <4>3. i # 0 => i - 1 \in 0 .. n /\ i - 1 # d + 1
        BY <1>0, <2>1, <4>1
      <4>4. i # 0 => g[i - 1] = f[i - 1]
        BY <4>3
      <4> QED
        BY <4>1, <4>2, <4>4
    <3> QED
      BY <3>1, <3>2
  <2> HIDE DEF g
  <2>5. Done(g, d + 1)
    BY <2>4
  <2>6. d + 1 \in Nat
    BY <2>1
  <2> QED
    BY <2>3, <2>5, <2>6
<1>3. T = Nat
  <2> HIDE DEF T
  <2>1. T \in SUBSET Nat
    BY DEF T
  <2> QED
    BY <1>1, <1>2, <2>1, EveryNumber
<1>4. PICK f : f = [i \in 0 .. n |-> f[i]] /\ Done(f, n)
  BY <1>0, <1>3
<1>5. \A i \in 0 .. n : f[i] = Step(f, i)
  BY <1>0, <1>4
<1>6. f = [i \in 0 .. n |-> IF i = 0 THEN <<>> ELSE f[i - 1] \o Emitted(segs, texts, i)]
  BY <1>4, <1>5, Zenon DEF E
<1> DEFINE J == Joins(segs, texts)
<1>7. J = [i \in 0 .. n |-> IF i = 0 THEN <<>> ELSE J[i - 1] \o Emitted(segs, texts, i)]
  BY <1>6, Zenon DEF Joins, n
<1> HIDE DEF J
<1>8. J[0] = <<>>
  BY <1>0, <1>7
<1>9. ASSUME NEW i \in 1 .. n
      PROVE  J[i] = J[i - 1] \o Emitted(segs, texts, i)
  <2>1. i \in 0 .. n /\ i # 0
    BY <1>0
  <2> QED
    BY <1>7, <2>1
<1> QED
  BY <1>8, <1>9 DEF J, n

\* The places where slots begin.
SlotPlaces(t) == {j \in DOMAIN t : IsSlot(t, j)}
\* The values of a template.
Values(t, texts) == {PieceAt(t, texts, i) : i \in Places(t)}

\* Places are such sets.
LEMMA PlacesNumbered ==
  ASSUME NEW t \in Seq(Tokens)
  PROVE  /\ Numbered(Places(t)) /\ Numbered(SlotPlaces(t))
         /\ \A j \in Places(t) : j \in 1 .. Len(t) /\ j <= Len(t)
<1>1. Len(t) \in Nat /\ (\A j \in Places(t) : j \in 1 .. Len(t)) /\ (\A j \in SlotPlaces(t) : j \in 1 .. Len(t))
  BY DEF Places, SlotPlaces
<1> QED
  BY <1>1, Places1

\* out is the text of the template before p.
Covers(t, texts, out, p) ==
  /\ out \in Seq(Values(t, texts))
  /\ Len(out) = RankAmong(Places(t), p - 1)
  /\ \A i \in Places(t) : i < p => out[RankAmong(Places(t), i)] = PieceAt(t, texts, i)

\* It stays so along positions that have no value of their own.
LEMMA CoversStays ==
  ASSUME NEW t \in Seq(Tokens), NEW texts, NEW out, NEW p \in Nat \ {0}, Covers(t, texts, out, p),
         NEW q \in Nat, p <= q, \A j \in Places(t) : ~ (p <= j /\ j < q)
  PROVE  Covers(t, texts, out, q)
<1>1. \A j \in Places(t) : j \in Nat /\ (j < q => j < p) /\ ~ (p - 1 < j /\ j <= q - 1)
  BY PlacesNumbered DEF Numbered
<1>2. p - 1 \in Nat /\ q - 1 \in Nat /\ p - 1 <= q - 1
  OBVIOUS
<1>3. RankAmong(Places(t), q - 1) = RankAmong(Places(t), p - 1)
  BY <1>1, <1>2, PlacesNumbered, RankStays
<1> QED
  BY <1>1, <1>3 DEF Covers

\* It gets longer by the values of the next places.
LEMMA CoversMore ==
  ASSUME NEW t \in Seq(Tokens), NEW texts, NEW out, NEW p \in Nat \ {0}, Covers(t, texts, out, p),
         NEW m \in Nat, NEW add, add \in Seq(Values(t, texts)), Len(add) = m,
         \A j \in 1 .. m : p + j - 1 \in Places(t) /\ add[j] = PieceAt(t, texts, p + j - 1)
  PROVE  Covers(t, texts, out \o add, p + m)
<1> DEFINE V == Values(t, texts)
           S == Places(t)
           q == p - 1
<1>0. Numbered(S) /\ q \in Nat /\ p = q + 1
  BY PlacesNumbered
<1>1. out \in Seq(V) /\ Len(out) = RankAmong(S, q) /\
      \A i \in S : i < p => out[RankAmong(S, i)] = PieceAt(t, texts, i)
  BY DEF Covers
<1> HIDE DEF V
<1>2. /\ out \o add \in Seq(V) /\ Len(out \o add) = Len(out) + m /\ Len(out) \in Nat
      /\ \A i \in 1 .. Len(out) + m : (out \o add)[i] = IF i <= Len(out) THEN out[i] ELSE add[i - Len(out)]
  <2>1. add \in Seq(V)
    BY DEF V
  <2>2. \A a, b \in Seq(V) : /\ a \o b \in Seq(V) /\ Len(a \o b) = Len(a) + Len(b) /\ Len(a) \in Nat
                             /\ \A i \in 1 .. Len(a) + Len(b) : (a \o b)[i] = IF i <= Len(a) THEN a[i] ELSE b[i - Len(a)]
    BY ConcatProperties
  <2> QED
    BY <1>1, <2>1, <2>2
<1> HIDE DEF S, q
<1>3. ASSUME NEW j \in 1 .. m
      PROVE  q + j \in S /\ add[j] = PieceAt(t, texts, q + j)
  <2>1. p + j - 1 = q + j
    BY <1>0
  <2> QED
    BY <2>1 DEF S
<1>4. ASSUME NEW j \in 0 .. m
      PROVE  RankAmong(S, q + j) = RankAmong(S, q) + j
  <2>1. ASSUME NEW x \in q + 1 .. q + j
        PROVE  x \in S
    <3>1. x - q \in 1 .. m /\ q + (x - q) = x
      BY <1>0
    <3> QED
      BY <1>3, <3>1
  <2> QED
    BY <1>0, <2>1, RankOfStretch
<1>5. Len(out \o add) = RankAmong(S, (p + m) - 1)
  <2>1. (p + m) - 1 = q + m /\ m \in 0 .. m
    BY <1>0
  <2> QED
    BY <1>1, <1>2, <1>4, <2>1
<1>6. ASSUME NEW i \in S, i < p + m
      PROVE  (out \o add)[RankAmong(S, i)] = PieceAt(t, texts, i)
  <2>0. i \in Nat /\ i # 0 /\ RankAmong(S, i) \in Nat
    BY <1>0, RankIsNumber DEF Numbered
  <2>1. CASE i < p
    <3>1. RankAmong(S, i) <= RankAmong(S, q)
      BY <1>0, <2>0, <2>1, RankMonotone
    <3>2. RankAmong(S, i) # 0
      <4>1. i - 1 \in Nat /\ (i - 1) + 1 = i
        BY <2>0
      <4>2. RankAmong(S, i) = RankAmong(S, i - 1) + 1 /\ RankAmong(S, i - 1) \in Nat
        BY <1>0, <1>6, <4>1, RankGrows, RankIsNumber
      <4> QED
        BY <4>2
    <3>3. RankAmong(S, i) \in 1 .. Len(out) + m /\ RankAmong(S, i) <= Len(out)
      BY <1>1, <1>2, <2>0, <3>1, <3>2
    <3> QED
      BY <1>1, <1>2, <2>1, <3>3
  <2>2. CASE ~ (i < p)
    <3>1. i - q \in 1 .. m /\ i - q \in 0 .. m /\ q + (i - q) = i
      BY <1>0, <1>6, <2>0, <2>2
    <3>2. RankAmong(S, i) = Len(out) + (i - q) /\ add[i - q] = PieceAt(t, texts, i)
      BY <1>1, <1>3, <1>4, <3>1
    <3> DEFINE d == i - q
    <3> HIDE DEF d
    <3>3. d \in 1 .. m /\ RankAmong(S, i) = Len(out) + d /\ add[d] = PieceAt(t, texts, i)
      BY <3>1, <3>2 DEF d
    <3>4. Len(out) + d \in 1 .. Len(out) + m /\ ~ (Len(out) + d <= Len(out)) /\
          (Len(out) + d) - Len(out) = d
      BY <1>2, <3>3
    <3> QED
      BY <1>2, <3>3, <3>4
  <2> QED
    BY <2>1, <2>2
<1> QED
  BY <1>2, <1>5, <1>6 DEF Covers, V, S

\* At the end it is the text that is expected.
LEMMA CoversAll ==
  ASSUME NEW t \in Seq(Tokens), NEW texts, NEW out, Covers(t, texts, out, Len(t) + 1)
  PROVE  out = Expected(t, texts)
<1> DEFINE S == Places(t)
           At(n) == CHOOSE i \in S : RankAmong(S, i) = n
<1>0. Len(t) \in Nat /\ (Len(t) + 1) - 1 = Len(t) /\ \A j \in S : j <= Len(t) /\ j < Len(t) + 1
  BY PlacesNumbered DEF Numbered
<1>1. RankAmong(S, Len(t)) = Cardinality(S) /\ Cardinality(S) \in Nat
  BY <1>0, PlacesNumbered, RankZero
<1>2. /\ Len(out) = Cardinality(S) /\ out = [n \in 1 .. Len(out) |-> out[n]]
      /\ \A i \in S : out[RankAmong(S, i)] = PieceAt(t, texts, i)
  BY <1>0, <1>1 DEF Covers
<1> HIDE DEF S
<1>3. ASSUME NEW n \in 1 .. Cardinality(S)
      PROVE  out[n] = PieceAt(t, texts, At(n))
  <2>1. \E i \in S : RankAmong(S, i) = n
    BY <1>0, PlacesNumbered, RankReached DEF S
  <2>2. At(n) \in S /\ RankAmong(S, At(n)) = n
    BY <2>1, Zenon
  <2> QED
    BY <1>2, <2>2
<1>4. Expected(t, texts) = [n \in 1 .. Cardinality(S) |-> PieceAt(t, texts, At(n))]
  BY Zenon DEF Expected, S
<1> QED
  BY <1>2, <1>3, <1>4

\* Outside of directives each token stands for itself.
LEMMA PlainPlaces ==
  ASSUME NEW t \in Seq(Tokens), NEW texts, NEW p \in 1 .. Len(t) + 1, Sound(t, p),
         NEW o \in p .. Len(t) + 1, NoBrace(t, p, o - 1), NEW j \in p .. o - 1
  PROVE  j \in Places(t) /\ j \notin SlotPlaces(t) /\ PieceAt(t, texts, j) = Plain(t[j])
<1>1. j \in 1 .. Len(t) /\ p \in Nat \ {0} /\ j \in Nat /\ p <= j /\ j <= Len(t) + 1
  OBVIOUS
<1>2. NoBrace(t, p, j - 1) /\ t[j] # "open"
  <2>1. \A y \in p .. j - 1 : y \in p .. o - 1
    OBVIOUS
  <2> QED
    BY <2>1 DEF NoBrace
<1>3. BracesBefore(t, j) % 2 = 0
  BY <1>1, <1>2, BeforeStays DEF Sound
<1> QED
  BY <1>1, <1>2, <1>3 DEF Places, Outside, SlotPlaces, IsSlot, PieceAt

\* The body of a directive.
LEMMA InsideIs ==
  ASSUME NEW t \in Seq(Tokens), NEW o \in 1 .. Len(t), NEW c \in o + 1 .. Len(t), WholeAt(t, o, c)
  PROVE  Inside(t, o) = SubSeq(t, o + 1, c - 1)
<1>1. t[o] = "open" /\ t[c] = "close" /\ o \in 1 .. Len(t) + 1 /\ c \in o .. Len(t)
  BY DEF WholeAt
<1>2. \A j \in o .. c - 1 : t[j] # "close"
  <2>1. \A j \in o .. c - 1 : j = o \/ j \in o + 1 .. c - 1
    OBVIOUS
  <2> QED
    BY <1>1, <2>1 DEF WholeAt, NoBrace
<1>3. Find(t, "close", o) = c
  BY <1>1, <1>2, FoundIs
<1> QED
  BY <1>3, Zenon DEF Inside

\* A directive has one place, which is a slot exactly when its body is one.
LEMMA DirectivePlace ==
  ASSUME NEW t \in Seq(Tokens), NEW p \in 1 .. Len(t) + 1, Sound(t, p), NEW o \in p .. Len(t),
         NoBrace(t, p, o - 1), NEW c \in o + 1 .. Len(t), WholeAt(t, o, c)
  PROVE  /\ o \in Places(t)
         /\ o \in SlotPlaces(t) <=> SlotBody(SubSeq(t, o + 1, c - 1))
         /\ \A j \in o + 1 .. c : j \notin Places(t) /\ j \notin SlotPlaces(t)
<1>0. o \in Nat /\ c \in Nat /\ Len(t) \in Nat /\ o < c /\ c <= Len(t) /\ o \in 1 .. Len(t) /\
      o \in DOMAIN t
  OBVIOUS
<1>1. t[o] = "open" /\ t[c] = "close" /\ NoBrace(t, o + 1, c - 1)
  BY DEF WholeAt
<1>2. o \in Places(t)
  BY <1>0, <1>1 DEF Places
<1>3. o \in SlotPlaces(t) <=> SlotBody(SubSeq(t, o + 1, c - 1))
  <2>1. Inside(t, o) = SubSeq(t, o + 1, c - 1)
    BY <1>0, InsideIs
  <2>2. IsSlot(t, o) <=> t[o] = "open" /\ SlotBody(Inside(t, o))
    BY Zenon DEF IsSlot, SlotBody
  <2> QED
    BY <1>0, <1>1, <2>1, <2>2, Zenon DEF SlotPlaces
<1>4. ASSUME NEW j \in o + 1 .. c
      PROVE  j \notin Places(t) /\ j \notin SlotPlaces(t)
  <2>1. t[j] # "open"
    <3>1. j = c \/ j \in o + 1 .. c - 1
      BY <1>0
    <3> QED
      BY <1>1, <3>1 DEF NoBrace
  <2>2. j \in o + 1 .. Len(t) + 1 /\ NoBrace(t, o + 1, j - 1)
    <3>1. \A y \in o + 1 .. j - 1 : y \in o + 1 .. c - 1
      BY <1>0
    <3> QED
      BY <1>0, <1>1, <3>1 DEF NoBrace
  <2>3. BracesBefore(t, j) = BracesBefore(t, p) + 1 /\ BracesBefore(t, p) \in Nat
    BY <1>1, <2>2, AroundDirective
  <2>4. BracesBefore(t, j) % 2 # 0
    BY <2>3, Parity DEF Sound
  <2> QED
    BY <2>1, <2>4 DEF Places, Outside, SlotPlaces, IsSlot
<1> QED
  BY <1>2, <1>3, <1>4

\* The segments from the k-th on begin with a.
Holds(segs, k, a) == k + Len(a) <= Len(segs) /\ \A x \in 1 .. Len(a) : segs[k + x] = a[x]

\* Two pieces, one after the other.
LEMMA HoldsBoth ==
  ASSUME NEW segs \in Seq(Parts), NEW k \in Nat, NEW a \in Seq(Parts), NEW b \in Seq(Parts),
         Holds(segs, k, a \o b)
  PROVE  /\ Holds(segs, k, a) /\ Holds(segs, k + Len(a), b)
         /\ k + Len(a) \in Nat /\ k + Len(a \o b) = (k + Len(a)) + Len(b)
<1>1. Len(a) \in Nat /\ Len(b) \in Nat /\ Len(segs) \in Nat /\ Len(a \o b) = Len(a) + Len(b)
      /\ \A i \in 1 .. Len(a) + Len(b) : (a \o b)[i] = IF i <= Len(a) THEN a[i] ELSE b[i - Len(a)]
  BY ConcatProperties
<1>2. ASSUME NEW x \in 1 .. Len(a)
      PROVE  segs[k + x] = a[x]
  <2>1. x \in 1 .. Len(a) + Len(b) /\ x <= Len(a)
    BY <1>1
  <2> QED
    BY <1>1, <2>1 DEF Holds
<1>3. ASSUME NEW x \in 1 .. Len(b)
      PROVE  segs[(k + Len(a)) + x] = b[x]
  <2>1. /\ Len(a) + x \in 1 .. Len(a) + Len(b) /\ ~ (Len(a) + x <= Len(a))
        /\ (Len(a) + x) - Len(a) = x /\ k + (Len(a) + x) = (k + Len(a)) + x
    BY <1>1
  <2>2. (a \o b)[Len(a) + x] = b[x]
    BY <1>1, <2>1
  <2>3. segs[k + (Len(a) + x)] = (a \o b)[Len(a) + x]
    BY <1>1, <2>1 DEF Holds
  <2> QED
    BY <2>1, <2>2, <2>3
<1>4. k + Len(a \o b) <= Len(segs)
  BY DEF Holds
<1>5. k + Len(a) <= Len(segs) /\ (k + Len(a)) + Len(b) <= Len(segs)
  BY <1>1, <1>4
<1> QED
  BY <1>1, <1>2, <1>3, <1>5 DEF Holds

\* After k segments the text is that of the template before p, and so many slots are behind.
Reached(t, texts, segs, p, k) ==
  /\ k \in Nat /\ k <= Len(segs)
  /\ RankAmong(Slots(segs), k) = RankAmong(SlotPlaces(t), p - 1)
  /\ Covers(t, texts, Joins(segs, texts)[k], p)

\* The slots among the segments are such a set.
LEMMA SlotsNumbered ==
  ASSUME NEW segs \in Seq(Parts)
  PROVE  Numbered(Slots(segs)) /\ \A j \in Slots(segs) : j <= Len(segs)
<1>1. Len(segs) \in Nat /\ \A j \in Slots(segs) : j \in 1 .. Len(segs)
  BY DEF Slots
<1> QED
  BY <1>1, Places1

\* A literal takes the text up to the next directive.
LEMMA LiteralStep ==
  ASSUME NEW t \in Seq(Tokens), NEW texts, NEW segs \in Seq(Parts),
         NEW p \in 1 .. Len(t) + 1, Sound(t, p), NEW o \in p .. Len(t) + 1, NoBrace(t, p, o - 1),
         NEW k, Reached(t, texts, segs, p, k), Holds(segs, k, Literal(SubSeq(t, p, o - 1)))
  PROVE  Reached(t, texts, segs, o, k + Len(Literal(SubSeq(t, p, o - 1))))
<1> DEFINE s == SubSeq(t, p, o - 1)
           J == Joins(segs, texts)
<1>0. p \in Nat /\ o \in Nat /\ k \in Nat /\ Len(t) \in Nat /\ Len(segs) \in Nat /\ p <= o /\ p # 0
  BY DEF Reached
<1>1. Len(s) = o - p /\ (\A x \in 1 .. o - p : s[x] = t[p + x - 1]) /\ DOMAIN s = 1 .. o - p
      /\ s \in Seq(Tokens)
  <2>1. o - 1 \in p - 1 .. Len(t)
    BY <1>0
  <2> QED
    BY <1>0, <2>1, SubSeqProperties
<1>2. CASE o = p
  <2>1. s = <<>>
    BY <1>0, <1>1, <1>2
  <2>2. Literal(s) = <<>> /\ Len(<<>>) = 0 /\ k + 0 = k
    BY <1>0, <2>1 DEF Literal
  <2>3. Literal(s) = <<>> => k + Len(Literal(s)) = k
    BY <2>2
  <2> QED
    BY <1>2, <2>2, <2>3
<1>3. CASE o # p
  <2> DEFINE lit == [type |-> "lit", text |-> s]
             add == [x \in DOMAIN s |-> Plain(s[x])]
             m == o - p
  <2>1. m \in Nat /\ m # 0 /\ p + m = o
    BY <1>0, <1>3
  <2>2. Literal(s) = <<lit>>
    <3>1. s # <<>>
      BY <1>1, <2>1
    <3> QED
      BY <3>1, Zenon DEF Literal
  <2>3. Len(<<lit>>) = 1 /\ <<lit>>[1] = lit /\ lit.type = "lit" /\ lit.text = s
    OBVIOUS
  <2> HIDE DEF lit
  <2>4. segs[k + 1] = lit /\ k + 1 <= Len(segs) /\ k + 1 \in 1 .. Len(segs)
    <3>1. Holds(segs, k, <<lit>>)
      BY <2>2
    <3>2. 1 \in 1 .. Len(<<lit>>) /\ k + Len(<<lit>>) = k + 1
      BY <2>3
    <3> QED
      BY <1>0, <2>3, <3>1, <3>2 DEF Holds
  <2>5. Emitted(segs, texts, k + 1) = add
    <3>1. segs[k + 1].type = "lit" /\ segs[k + 1].text = s
      BY <2>3, <2>4
    <3>2. segs[k + 1].type = "lit" => Emitted(segs, texts, k + 1) =
             [x \in DOMAIN segs[k + 1].text |-> Plain(segs[k + 1].text[x])]
      BY DEF Emitted
    <3> QED
      BY <3>1, <3>2, Zenon
  <2>6. J[k + 1] = J[k] \o add
    <3>1. (k + 1) - 1 = k
      BY <1>0
    <3>2. J[k + 1] = J[(k + 1) - 1] \o Emitted(segs, texts, k + 1)
      BY <1>0, <2>4, JoinsExist
    <3> QED
      BY <2>5, <3>1, <3>2, Zenon
  <2>7. ASSUME NEW x \in 1 .. m
        PROVE  p + x - 1 \in Places(t) /\ add[x] = PieceAt(t, texts, p + x - 1)
    <3>1. p + x - 1 \in p .. o - 1
      BY <1>0, <2>1
    <3>2. p + x - 1 \in Places(t) /\ PieceAt(t, texts, p + x - 1) = Plain(t[p + x - 1])
      BY <3>1, PlainPlaces
    <3>3. add[x] = Plain(s[x]) /\ s[x] = t[p + x - 1]
      BY <1>1
    <3> QED
      BY <3>2, <3>3
  <2>8. add \in Seq(Values(t, texts)) /\ Len(add) = m
    <3>1. add = [x \in 1 .. m |-> Plain(s[x])]
      BY <1>1
    <3>2. \A x \in 1 .. m : add[x] \in Values(t, texts)
      BY <2>7 DEF Values
    <3>3. \A x \in 1 .. m : Plain(s[x]) \in Values(t, texts)
      BY <3>1, <3>2
    <3> HIDE DEF m, add
    <3>4. add \in [1 .. m -> Values(t, texts)]
      BY <3>1, <3>3
    <3> QED
      BY <2>1, <3>4
  <2> HIDE DEF add, m
  <2>9. Covers(t, texts, J[k + 1], o)
    <3>1. Covers(t, texts, J[k], p) /\ p \in Nat \ {0}
      BY <1>0 DEF Reached
    <3>2. Covers(t, texts, J[k] \o add, p + m)
      BY <2>1, <2>7, <2>8, <3>1, CoversMore
    <3> QED
      BY <2>1, <2>6, <3>2
  <2>10. RankAmong(Slots(segs), k + 1) = RankAmong(Slots(segs), k)
    <3>1. k + 1 \notin Slots(segs)
      BY <2>3, <2>4 DEF Slots
    <3>2. \A j \in Slots(segs) : ~ (k < j /\ j <= k + 1)
      BY <1>0, <3>1, SlotsNumbered DEF Numbered
    <3> QED
      BY <1>0, <3>2, SlotsNumbered, RankStays
  <2>11. RankAmong(SlotPlaces(t), o - 1) = RankAmong(SlotPlaces(t), p - 1)
    <3>1. p - 1 \in Nat /\ o - 1 \in Nat /\ p - 1 <= o - 1
      BY <1>0
    <3>2. \A j \in SlotPlaces(t) : ~ (p - 1 < j /\ j <= o - 1)
      <4> SUFFICES ASSUME NEW j \in SlotPlaces(t), p - 1 < j, j <= o - 1 PROVE FALSE
        OBVIOUS
      <4>1. j \in p .. o - 1
        BY <1>0, PlacesNumbered DEF Numbered
      <4> QED
        BY <4>1, PlainPlaces
    <3> QED
      BY <3>1, <3>2, PlacesNumbered, RankStays
  <2>12. k + Len(Literal(s)) = k + 1 /\ k + 1 \in Nat
    <3>1. Len(Literal(s)) = 1
      BY <2>2, <2>3, Zenon
    <3>2. k + 1 \in Nat
      BY <1>0
    <3> QED
      BY <3>1, <3>2, Zenon
  <2> QED
    BY <2>4, <2>9, <2>10, <2>11, <2>12 DEF Reached
<1> QED
  BY <1>2, <1>3

\* A body with a single word names that word.
LEMMA OnlyWordIs ==
  ASSUME NEW t, NEW o, NEW j \in DOMAIN Inside(t, o), Inside(t, o)[j] \in Words,
         \A k \in DOMAIN Inside(t, o) : k # j => Inside(t, o)[k] = "blank"
  PROVE  OnlyWord(t, o) = Inside(t, o)[j]
<1> DEFINE b == Inside(t, o)
<1>1. "blank" \notin Words
  BY WordAssumption DEF Marks
<1>2. \A x \in Words : (\E i \in DOMAIN b : b[i] = x) <=> x = b[j]
  BY <1>1
<1>3. OnlyWord(t, o) = CHOOSE x \in Words : \E i \in DOMAIN b : b[i] = x
  BY Zenon DEF OnlyWord
<1> HIDE DEF b
<1>4. (CHOOSE x \in Words : \E i \in DOMAIN b : b[i] = x) = b[j]
  <2>1. b[j] \in Words
    BY DEF b
  <2> QED
    BY <1>2, <2>1, Zenon
<1> QED
  BY <1>3, <1>4 DEF b

\* A directive takes it past its end: the slots have been counted alike on both sides.
LEMMA DirectiveStep ==
  ASSUME NEW t \in Seq(Tokens), NEW texts, NEW segs \in Seq(Parts),
         \A name \in VarNames(segs) : Len(name) = 1,
         NEW p \in 1 .. Len(t) + 1, Sound(t, p), NEW o \in p .. Len(t), NoBrace(t, p, o - 1),
         NEW c \in o + 1 .. Len(t), WholeAt(t, o, c),
         ~ AllBlank(SubSeq(t, o + 1, c - 1)),
         NEW k, Reached(t, texts, segs, o, k), Holds(segs, k, Directive(SubSeq(t, o + 1, c - 1)))
  PROVE  Reached(t, texts, segs, c + 1, k + 1) /\ Len(Directive(SubSeq(t, o + 1, c - 1))) = 1
<1> DEFINE b == SubSeq(t, o + 1, c - 1)
           J == Joins(segs, texts)
           v == PieceAt(t, texts, o)
<1>0. o \in Nat /\ c \in Nat /\ k \in Nat /\ Len(t) \in Nat /\ Len(segs) \in Nat /\ o < c /\
      c <= Len(t) /\ o # 0
      /\ o \in 1 .. Len(t) /\ t[o] = "open"
  BY DEF Reached, WholeAt
<1>1. b \in Seq(Tokens) /\ Inside(t, o) = b
  <2>1. o + 1 \in 1 .. Len(t) + 1 /\ c - 1 \in o .. Len(t)
    BY <1>0
  <2>2. b \in Seq(Tokens)
    BY <2>1, SubSeqProperties
  <2>3. Inside(t, o) = b
    BY <1>0, InsideIs
  <2> QED
    BY <2>2, <2>3
<1>2. /\ o \in Places(t) /\ (o \in SlotPlaces(t) <=> SlotBody(b))
      /\ \A j \in o + 1 .. c : j \notin Places(t) /\ j \notin SlotPlaces(t)
  BY DirectivePlace
<1> HIDE DEF b
<1>3. PICK part : /\ Directive(b) = <<part>> /\ part.type \in {"gen", "var"}
                  /\ part.type = "gen" <=> SlotBody(b)
                  /\ part.type = "var" =>
                       /\ part.name = Stripped(b)
                       /\ Len(Stripped(b)) = 1 =>
                            \E j \in DOMAIN b : /\ b[j] = Stripped(b)[1] /\ b[j] \in Words
                                                /\ \A i \in DOMAIN b : i # j => b[i] = "blank"
                       /\ Stripped(b) \in Seq(Tokens)
  <2>1. CASE /\ SlotBody(b) /\ Directive(b) = <<[type |-> "gen", text |-> Stripped(b)]>>
    BY <2>1
  <2>2. CASE /\ ~ SlotBody(b) /\ Stripped(b) \in Seq(Tokens)
             /\ Directive(b) = <<[type |-> "var", name |-> Stripped(b)]>>
             /\ Len(Stripped(b)) = 1 =>
                  \E j \in DOMAIN b : /\ b[j] = Stripped(b)[1] /\ b[j] \in Words
                                      /\ \A i \in DOMAIN b : i # j => b[i] = "blank"
    <3> DEFINE part == [type |-> "var", name |-> Stripped(b)]
    <3>1. part.type = "var" /\ part.name = Stripped(b) /\ "var" # "gen"
      OBVIOUS
    <3>2. Directive(b) = <<part>>
      BY <2>2
    <3> HIDE DEF part
    <3>3. part.type \in {"gen", "var"} /\ (part.type = "gen" <=> SlotBody(b))
      BY <2>2, <3>1
    <3> QED
      BY <2>2, <3>1, <3>2, <3>3, Zenon
  <2> QED
    BY <1>1, <2>1, <2>2, DirectiveIs DEF b
<1>4. Len(Directive(b)) = 1 /\ Directive(b)[1] = part
  <2>1. Len(<<part>>) = 1 /\ <<part>>[1] = part
    OBVIOUS
  <2> QED
    BY <1>3, <2>1, Zenon
<1>5. segs[k + 1] = part /\ k + 1 <= Len(segs) /\ k + 1 \in 1 .. Len(segs)
  <2>1. k + Len(Directive(b)) <= Len(segs) /\
        \A x \in 1 .. Len(Directive(b)) : segs[k + x] = Directive(b)[x]
    BY DEF b, Holds
  <2>2. k + 1 <= Len(segs) /\ \A x \in 1 .. 1 : segs[k + x] = Directive(b)[x]
    BY <1>4, <2>1, Zenon
  <2> QED
    BY <1>0, <1>4, <2>2
<1>6. k + 1 \in Slots(segs) <=> o \in SlotPlaces(t)
  BY <1>2, <1>3, <1>5 DEF Slots
<1>7. RankAmong(Slots(segs), k + 1) = RankAmong(SlotPlaces(t), o)
  <2>0. o - 1 \in Nat /\ (o - 1) + 1 = o /\ RankAmong(Slots(segs), k) = RankAmong(SlotPlaces(t), o - 1)
    BY <1>0 DEF Reached
  <2>1. CASE k + 1 \in Slots(segs)
    <3>1. RankAmong(Slots(segs), k + 1) = RankAmong(Slots(segs), k) + 1
      BY <1>0, <2>1, SlotsNumbered, RankGrows
    <3>2. RankAmong(SlotPlaces(t), (o - 1) + 1) = RankAmong(SlotPlaces(t), o - 1) + 1
      BY <1>6, <2>0, <2>1, PlacesNumbered, RankGrows
    <3> QED
      BY <2>0, <3>1, <3>2
  <2>2. CASE k + 1 \notin Slots(segs)
    <3>1. \A j \in Slots(segs) : ~ (k < j /\ j <= k + 1)
      BY <1>0, <2>2, SlotsNumbered DEF Numbered
    <3>2. \A j \in SlotPlaces(t) : ~ (o - 1 < j /\ j <= o)
      BY <1>0, <1>6, <2>2, PlacesNumbered DEF Numbered
    <3>3. RankAmong(Slots(segs), k + 1) = RankAmong(Slots(segs), k)
      BY <1>0, <3>1, SlotsNumbered, RankStays
    <3>4. RankAmong(SlotPlaces(t), o) = RankAmong(SlotPlaces(t), o - 1)
      BY <1>0, <2>0, <3>2, PlacesNumbered, RankStays
    <3> QED
      BY <2>0, <3>3, <3>4
  <2> QED
    BY <2>1, <2>2
<1>8. RankAmong(SlotPlaces(t), (c + 1) - 1) = RankAmong(SlotPlaces(t), o)
  <2>1. (c + 1) - 1 = c /\ o <= c
    BY <1>0
  <2>2. \A j \in SlotPlaces(t) : ~ (o < j /\ j <= c)
    BY <1>0, <1>2, PlacesNumbered DEF Numbered
  <2> QED
    BY <1>0, <2>1, <2>2, PlacesNumbered, RankStays
<1>9. Emitted(segs, texts, k + 1) = <<v>>
  <2>1. CASE SlotBody(b)
    <3>1. segs[k + 1].type = "gen"
      BY <1>3, <1>5, <2>1
    <3>2. segs[k + 1].type = "gen" => Emitted(segs, texts, k + 1) = <<Made(texts[SlotId(segs, k + 1)])>>
      BY DEF Emitted
    <3>3. SlotId(segs, k + 1) = RankAmong(Slots(segs), k + 1)
      BY Zenon DEF SlotId, RankAmong
    <3>4. v = Made(texts[RankAmong(SlotPlaces(t), o)])
      <4>1. IsSlot(t, o) /\ ~ (t[o] # "open")
        BY <1>0, <1>2, <2>1 DEF SlotPlaces
      <4> QED
        BY <4>1, Zenon DEF PieceAt, SlotPlaces
    <3> QED
      BY <1>7, <3>1, <3>2, <3>3, <3>4, Zenon
  <2>2. CASE ~ SlotBody(b)
    <3>1. segs[k + 1].type = "var" /\ segs[k + 1].name = Stripped(b)
      BY <1>3, <1>5, <2>2
    <3>2. segs[k + 1].type = "var" => Emitted(segs, texts, k + 1) = <<Value(segs[k + 1].name)>>
      BY DEF Emitted
    <3>3. Stripped(b) \in VarNames(segs)
      BY <1>5, <3>1 DEF VarNames
    <3>4. Len(Stripped(b)) = 1
      BY <3>3
    <3>5. PICK j \in DOMAIN b : /\ b[j] = Stripped(b)[1] /\ b[j] \in Words
                                /\ \A i \in DOMAIN b : i # j => b[i] = "blank"
      BY <1>3, <2>2, <3>4
    <3>6. OnlyWord(t, o) = Stripped(b)[1]
      BY <1>1, <3>5, OnlyWordIs
    <3>7. Stripped(b) = <<Stripped(b)[1]>>
      <4>1. Stripped(b) \in Seq(Tokens)
        BY <1>3, <2>2
      <4> QED
        BY <3>4, <4>1
    <3>8. v = Value(<<OnlyWord(t, o)>>)
      <4>1. ~ IsSlot(t, o) /\ ~ (t[o] # "open")
        BY <1>0, <1>2, <2>2 DEF SlotPlaces
      <4> QED
        BY <4>1, Zenon DEF PieceAt
    <3> QED
      BY <3>1, <3>2, <3>6, <3>7, <3>8, Zenon
  <2> QED
    BY <2>1, <2>2
<1>10. J[k + 1] = J[k] \o <<v>>
  <2>1. (k + 1) - 1 = k
    BY <1>0
  <2>2. J[k + 1] = J[(k + 1) - 1] \o Emitted(segs, texts, k + 1)
    BY <1>0, <1>5, JoinsExist
  <2> QED
    BY <1>9, <2>1, <2>2, Zenon
<1>11. Covers(t, texts, J[k + 1], o + 1)
  <2>1. Covers(t, texts, J[k], o) /\ o \in Nat \ {0}
    BY <1>0 DEF Reached
  <2>2. v \in Values(t, texts)
    BY <1>2 DEF Values
  <2> HIDE DEF v
  <2>3. <<v>> \in Seq(Values(t, texts)) /\ Len(<<v>>) = 1 /\ <<v>>[1] = v
    BY <2>2
  <2>4. \A j \in 1 .. 1 : o + j - 1 \in Places(t) /\ <<v>>[j] = PieceAt(t, texts, o + j - 1)
    <3>1. \A j \in 1 .. 1 : j = 1 /\ o + j - 1 = o
      BY <1>0
    <3> QED
      BY <1>2, <2>3, <3>1 DEF v
  <2>5. Covers(t, texts, J[k] \o <<v>>, o + 1)
    BY <2>1, <2>3, <2>4, CoversMore
  <2> QED
    BY <1>10, <2>5 DEF v
<1>12. Covers(t, texts, J[k + 1], c + 1)
  <2>1. o + 1 \in Nat \ {0} /\ c + 1 \in Nat /\ o + 1 <= c + 1
    BY <1>0
  <2>2. \A j \in Places(t) : ~ (o + 1 <= j /\ j < c + 1)
    BY <1>0, <1>2, PlacesNumbered DEF Numbered
  <2> QED
    BY <1>11, <2>1, <2>2, CoversStays
<1>13. k + 1 \in Nat
  BY <1>0
<1> QED
  BY <1>4, <1>5, <1>7, <1>8, <1>12, <1>13 DEF Reached, b

\* The segments from the k-th on are r.
Behind(segs, k, r) == Holds(segs, k, r) /\ Len(segs) = k + Len(r)

\* The text that is put together from the segments is the one the template calls for, at
\* the last position that the segments and the template have reached together.
THEOREM JoinIsExpected ==
  ASSUME NEW t \in Seq(Tokens), NEW texts, ~ IsBad(Split(t)),
         \A name \in VarNames(Split(t)) : Len(name) = 1
  PROVE  Join(Split(t), texts) = Expected(t, texts)
<1> DEFINE n == Len(t)
           segs == Split(t)
           s == {p \in 1 .. n + 1 :
                   Sound(t, p) /\ \E k : Reached(t, texts, segs, p, k) /\ Behind(segs, k, Cuts(t)[p])}
<1>0. n \in Nat /\ n + 1 \in Nat /\ 1 \in 1 .. n + 1 /\ n + 1 \in 1 .. n + 1
  OBVIOUS
<1>1. segs \in Seq(Parts) /\ segs = Cuts(t)[1] /\ Len(segs) \in Nat
  <2>1. segs = Cuts(t)[1]
    BY SplitIsCut
  <2>2. Cuts(t)[1] \in Seq(Parts)
    BY <1>0, CutsTyped
  <2> HIDE DEF segs
  <2> QED
    BY <2>1, <2>2
<1>2. ~ IsBad(segs) /\ \A name \in VarNames(segs) : Len(name) = 1
  OBVIOUS
<1> HIDE DEF segs
<1>3. 1 \in s
  <2>1. RankAmong(Slots(segs), 0) = 0 /\ RankAmong(SlotPlaces(t), 0) = 0 /\ RankAmong(Places(t), 0) = 0
    <3>1. \A j \in SlotPlaces(t) : j <= n
      BY <1>0 DEF SlotPlaces
    <3> QED
      BY <1>0, <1>1, <3>1, SlotsNumbered, PlacesNumbered, RankZero
  <2>2. Joins(segs, texts)[0] = <<>>
    BY <1>1, JoinsExist
  <2>3. \A i \in Places(t) : ~ (i < 1)
    BY PlacesNumbered DEF Numbered
  <2>4. <<>> \in Seq(Values(t, texts)) /\ Len(<<>>) = 0 /\ 1 - 1 = 0
    OBVIOUS
  <2>5. Covers(t, texts, <<>>, 1)
    BY <2>1, <2>3, <2>4 DEF Covers
  <2>6. Reached(t, texts, segs, 1, 0)
    BY <1>1, <2>1, <2>2, <2>4, <2>5 DEF Reached
  <2>7. Behind(segs, 0, Cuts(t)[1])
    <3>1. 0 + Len(segs) <= Len(segs) /\ Len(segs) = 0 + Len(segs) /\
          \A x \in 1 .. Len(segs) : segs[0 + x] = segs[x]
      BY <1>1
    <3> QED
      BY <1>1, <3>1 DEF Behind, Holds
  <2> QED
    BY <1>0, <2>6, <2>7, SoundStart
<1>4. PICK p \in s : \A q \in s : q <= p
  <2>1. s \in SUBSET (0 .. n + 1)
    BY <1>0
  <2> HIDE DEF s
  <2> QED
    BY <1>0, <1>3, <2>1, GreatestOf
<1>5. p \in 1 .. n + 1 /\ Sound(t, p)
  OBVIOUS
<1>6. PICK k : Reached(t, texts, segs, p, k) /\ Behind(segs, k, Cuts(t)[p])
  OBVIOUS
<1>7. k \in Nat /\ Holds(segs, k, Cuts(t)[p]) /\ Len(segs) = k + Len(Cuts(t)[p])
      /\ Cuts(t)[p] \in Seq(Parts)
  BY <1>5, <1>6, CutsTyped DEF Reached, Behind
<1>8. ~ IsBad(Cuts(t)[p])
  <2> SUFFICES ASSUME NEW i \in DOMAIN Cuts(t)[p], Cuts(t)[p][i].type = "bad" PROVE FALSE
    BY DEF IsBad
  <2>1. i \in 1 .. Len(Cuts(t)[p]) /\ segs[k + i] = Cuts(t)[p][i]
    BY <1>7 DEF Holds
  <2>2. Len(Cuts(t)[p]) \in Nat /\ DOMAIN segs = 1 .. Len(segs)
    BY <1>1, <1>7
  <2>3. k + i \in DOMAIN segs
    BY <1>1, <1>7, <2>1, <2>2
  <2> QED
    BY <1>2, <2>1, <2>3 DEF IsBad
<1>9. Cuts(t)[p] # Bad
  BY <1>8, BadPieces
<1>10. CASE NoBrace(t, p, n) /\ Cuts(t)[p] = Literal(SubSeq(t, p, n))
  <2>1. (n + 1) - 1 = n /\ n + 1 \in p .. n + 1
    BY <1>0, <1>5
  <2>2. Reached(t, texts, segs, n + 1, k + Len(Literal(SubSeq(t, p, (n + 1) - 1))))
    <3>1. NoBrace(t, p, (n + 1) - 1) /\ Holds(segs, k, Literal(SubSeq(t, p, (n + 1) - 1)))
      BY <1>7, <1>10, <2>1
    <3> QED
      BY <1>1, <1>5, <1>6, <2>1, <3>1, LiteralStep
  <2>3. Reached(t, texts, segs, n + 1, Len(segs))
    BY <1>7, <1>10, <2>1, <2>2
  <2> QED
    BY <2>3, CoversAll, JoinIsLast DEF Reached, segs
<1>11. ASSUME NEW o \in p .. n, t[o] = "open", NoBrace(t, p, o - 1), NEW c \in o + 1 .. n,
              WholeAt(t, o, c),
              Cuts(t)[p] = Literal(SubSeq(t, p, o - 1))
                            \o Directive(SubSeq(t, o + 1, c - 1)) \o Cuts(t)[c + 1]
       PROVE  FALSE
  <2> DEFINE lit == Literal(SubSeq(t, p, o - 1))
             dir == Directive(SubSeq(t, o + 1, c - 1))
             rest == Cuts(t)[c + 1]
  <2>1. /\ lit \in Seq(Parts) /\ dir \in Seq(Parts) /\ rest \in Seq(Parts)
        /\ SubSeq(t, o + 1, c - 1) \in Seq(Tokens) /\ c + 1 \in p + 1 .. n + 1
    BY <1>5, PiecesOf
  <2>2. IsBad(dir) <=> AllBlank(SubSeq(t, o + 1, c - 1))
    BY <2>1, BadPieces
  <2>3. Cuts(t)[p] = (lit \o dir) \o rest
    BY <1>11
  <2>15. o \in p .. n + 1
    BY <1>0, <1>5
  <2> DEFINE k2 == k + Len(lit)
  <2> HIDE DEF lit, dir, rest
  <2>4. lit \o dir \in Seq(Parts)
    BY <2>1, ConcatProperties
  <2>5. /\ Holds(segs, k, lit \o dir) /\ Holds(segs, k + Len(lit \o dir), rest)
        /\ k + Len((lit \o dir) \o rest) = (k + Len(lit \o dir)) + Len(rest)
    <3> DEFINE both == lit \o dir
    <3>1. k \in Nat /\ Holds(segs, k, both \o rest) /\ both \in Seq(Parts)
      BY <1>7, <2>3, <2>4
    <3> HIDE DEF both
    <3>2. /\ Holds(segs, k, both) /\ Holds(segs, k + Len(both), rest)
          /\ k + Len(both \o rest) = (k + Len(both)) + Len(rest)
      BY <1>1, <2>1, <3>1, HoldsBoth
    <3> QED
      BY <3>2 DEF both
  <2>6. /\ Holds(segs, k, lit) /\ Holds(segs, k2, dir) /\ k2 \in Nat
        /\ k + Len(lit \o dir) = k2 + Len(dir)
    BY <1>1, <1>7, <2>1, <2>5, HoldsBoth
  <2>7. ~ IsBad(dir)
    <3>1. IsBad((lit \o dir) \o rest) <=> IsBad(lit \o dir) \/ IsBad(rest)
      BY <2>1, <2>4, BadPieces
    <3>2. IsBad(lit \o dir) <=> IsBad(lit) \/ IsBad(dir)
      BY <2>1, BadPieces
    <3> QED
      BY <1>8, <2>3, <3>1, <3>2
  <2>8. Reached(t, texts, segs, o, k2)
    BY <1>1, <1>5, <1>6, <1>11, <2>15, <2>6, LiteralStep DEF lit
  <2> HIDE DEF k2
  <2>9. Reached(t, texts, segs, c + 1, k2 + 1) /\ Len(dir) = 1
    <3>1. ~ AllBlank(SubSeq(t, o + 1, c - 1)) /\ Holds(segs, k2, Directive(SubSeq(t, o + 1, c - 1)))
      BY <2>2, <2>6, <2>7 DEF dir
    <3> QED
      BY <1>1, <1>2, <1>5, <1>11, <2>8, <3>1, DirectiveStep DEF dir
  <2>10. k + Len(lit \o dir) = k2 + 1
    BY <2>6, <2>9
  <2>11. Behind(segs, k2 + 1, rest)
    BY <1>7, <2>3, <2>5, <2>10 DEF Behind
  <2>12. Sound(t, c + 1)
    BY <1>5, <1>11, <2>2, <2>7, SoundGoesOn
  <2>13. c + 1 \in 1 .. n + 1 /\ ~ (c + 1 <= p)
    BY <1>0, <1>5, <2>1
  <2>14. c + 1 \in s
    BY <2>9, <2>11, <2>12, <2>13 DEF rest
  <2> QED
    BY <1>4, <2>13, <2>14
<1> QED
  BY <1>5, <1>9, <1>10, <1>11, CutAt

-----------------------------------------------------------------------------
(* Texts: every step. *)

\* A template is a sequence of tokens.
LEMMA BodyIsSeq ==
  ASSUME NEW t \in Templates
  PROVE  t \in Seq(Tokens)
<1>1. MaxTokens \in Nat
  BY TitleAssumption
<1>2. PICK n \in 1 .. MaxTokens : t \in [1 .. n -> Tokens]
  BY DEF Templates
<1> QED
  BY <1>1, <1>2

\* Its slots can be counted.
LEMMA SplitTyped ==
  ASSUME NEW t \in Seq(Tokens)
  PROVE  Split(t) \in Seq(Parts) /\ Cardinality(Slots(Split(t))) \in Nat
<1>1. Len(t) \in Nat /\ 1 \in 1 .. Len(t) + 1
  OBVIOUS
<1>2. Split(t) \in Seq(Parts)
  BY <1>1, SplitIsCut, CutsTyped
<1>3. IsFiniteSet(Slots(Split(t)))
  BY <1>2, SlotsNumbered DEF Numbered
<1> QED
  BY <1>2, <1>3, FS_CardinalityType

\* The text depends on the template and on the answers alone.
LEMMA ExpectedKept ==
  ASSUME template' = template, slotText' = slotText
  PROVE  Expected(template.body, slotText)' = Expected(template.body, slotText)
BY DEF Expected, PieceAt, Value, Plain, Made

\* The segments are those of the template from the moment it is accepted: on that the text
\* that is delivered depends.
TextInv ==
  /\ DirectivesTypeOK
  /\ stage \notin {"new", "syntax"} => segments = Split(template.body)
  /\ RendersByGrammar

\* It holds in the beginning.
LEMMA TextInvInit == DirectivesInit => TextInv
<1> SUFFICES ASSUME DirectivesInit PROVE TextInv
  OBVIOUS
<1>1. template.body \in Templates /\ stage = "new" /\ slotText = <<>>
  BY DEF DirectivesInit
<1>2. slotText \in Seq(Texts)
  BY <1>1
<1> QED
  BY <1>1, <1>2 DEF TextInv, DirectivesTypeOK, RendersByGrammar

\* Every action keeps it.
LEMMA TextInvNext == TextInv /\ [DirectivesNext]_directiveVars => TextInv'
<1> SUFFICES ASSUME TextInv, [DirectivesNext]_directiveVars PROVE TextInv'
  OBVIOUS
<1> DEFINE t == template.body
<1>1. t \in Templates /\ t \in Seq(Tokens) /\ slotText \in Seq(Texts)
      /\ stage \in {"new", "parsed", "syntax", "slot", "undefined", "title", "done"}
  BY BodyIsSeq DEF TextInv, DirectivesTypeOK
<1>2. IsBad(Split(t)) <=> ~ Grammatical(t)
  BY <1>1, SyntaxIsGrammar
<1>3. /\ stage = "syntax" => ~ Grammatical(t)
      /\ stage \notin {"new", "syntax"} => Grammatical(t) /\ segments = Split(t)
      /\ stage = "done" => rendered = Expected(t, slotText)
  BY DEF TextInv, RendersByGrammar
<1>4. ASSUME template' = template, slotText' \in Seq(Texts),
             stage' \in {"new", "parsed", "syntax", "slot", "undefined", "title", "done"},
             stage' = "syntax" => ~ Grammatical(t),
             stage' \notin {"new", "syntax"} => Grammatical(t) /\ segments' = Split(t),
             stage' = "done" => slotText' = slotText /\ rendered' = Expected(t, slotText)
      PROVE  TextInv'
  <2>1. template.body' = t
    BY <1>4
  <2>2. stage' = "done" => rendered' = Expected(template.body, slotText)'
    BY <1>4, ExpectedKept
  <2>3. RendersByGrammar'
    BY <1>4, <2>1, <2>2 DEF RendersByGrammar
  <2>4. DirectivesTypeOK'
    BY <1>1, <1>4, <2>1 DEF DirectivesTypeOK
  <2> QED
    BY <1>4, <2>1, <2>3, <2>4 DEF TextInv
<1>5. CASE UNCHANGED directiveVars
  <2>1. template' = template /\ stage' = stage /\ segments' = segments /\ slotText' = slotText /\
        rendered' = rendered
    BY <1>5 DEF directiveVars
  <2> QED
    BY <1>1, <1>3, <1>4, <2>1
<1>6. ASSUME NEW why \in {"syntax", "slot", "undefined", "title"}, Refuse(why),
             why = "syntax" => ~ Grammatical(t),
             why # "syntax" => stage \notin {"new", "syntax"}
      PROVE  TextInv'
  <2>1. template' = template /\ stage' = why /\ segments' = segments /\ slotText' = slotText
    BY <1>6 DEF Refuse
  <2>2. why # "syntax" => Grammatical(t) /\ segments' = Split(t)
    BY <1>3, <1>6, <2>1
  <2>3. why # "new" /\ why # "done"
    OBVIOUS
  <2> QED
    BY <1>1, <1>4, <1>6, <2>1, <2>2, <2>3
<1>7. CASE ParseTemplate
  <2>1. CASE IsBad(Split(t))
    <3>1. Refuse("syntax")
      BY <1>7, <2>1 DEF ParseTemplate
    <3> QED
      BY <1>2, <1>6, <2>1, <3>1
  <2>2. CASE ~ IsBad(Split(t))
    <3>1. template' = template /\ stage' = "parsed" /\ segments' = Split(t) /\ slotText' = slotText
      BY <1>7, <2>2 DEF ParseTemplate
    <3> QED
      BY <1>1, <1>2, <1>4, <2>2, <3>1
  <2> QED
    BY <2>1, <2>2
<1>8. ASSUME stage = "parsed", template' = template, stage' = stage, segments' = segments,
             slotText' \in Seq(Texts)
      PROVE  TextInv'
  <2>1. Grammatical(t) /\ segments' = Split(t) /\ stage' = "parsed"
    BY <1>3, <1>8
  <2> QED
    BY <1>4, <1>8, <2>1
<1>9. ASSUME NEW text \in Texts, RenderSlot(text)
      PROVE  TextInv'
  <2>0. stage = "parsed" /\ SlotAnswered(text)
    BY <1>9 DEF RenderSlot
  <2>1. CASE text = "long"
    <3>1. Refuse("slot")
      BY <2>0, <2>1 DEF SlotAnswered
    <3> QED
      BY <1>6, <2>0, <3>1
  <2>2. CASE text # "long"
    <3>1. template' = template /\ stage' = stage /\ segments' = segments /\
          slotText' = Append(slotText, text)
      BY <2>0, <2>2 DEF SlotAnswered
    <3>2. slotText' \in Seq(Texts)
      BY <1>1, <1>9, <3>1
    <3> QED
      BY <1>8, <2>0, <3>1, <3>2
  <2> QED
    BY <2>1, <2>2
<1>10. ASSUME NEW ids, NEW text \in {"text", "emoji"}, FinishBatch(ids, text)
       PROVE  TextInv'
  <2>0. stage = "parsed" /\ slotText = <<>> /\ segments = Split(t)
    BY <1>3, <1>10 DEF FinishBatch
  <2>1. CASE \E i \in 1 .. Missing : i \notin ids
    <3>1. Refuse("slot")
      BY <1>10, <2>1 DEF FinishBatch
    <3> QED
      BY <1>6, <2>0, <3>1
  <2>2. CASE ~ (\E i \in 1 .. Missing : i \notin ids)
    <3>1. /\ slotText' = [i \in 1 .. Missing |-> text]
          /\ template' = template /\ stage' = stage /\ segments' = segments
      BY <1>10, <2>2 DEF FinishBatch
    <3>2. Missing \in Nat
      <4>1. Cardinality(Slots(segments)) \in Nat /\ Len(slotText) = 0
        BY <1>1, <2>0, SplitTyped
      <4> QED
        BY <4>1 DEF Missing
    <3>3. slotText' \in Seq(Texts)
      <4>1. text \in Texts
        BY DEF Texts
      <4> DEFINE m == Missing
      <4>2. m \in Nat
        BY <3>2
      <4>3. slotText' = [i \in 1 .. m |-> text]
        BY <3>1
      <4> HIDE DEF m
      <4>4. [i \in 1 .. m |-> text] \in [1 .. m -> Texts]
        BY <4>1
      <4> QED
        BY <4>2, <4>3, <4>4
    <3> QED
      BY <1>8, <2>0, <3>1, <3>3
  <2> QED
    BY <2>1, <2>2
<1>11. ASSUME stage = "parsed", \A name \in VarNames(segments) : Len(name) = 1,
              rendered' = Join(segments, slotText), stage' = "done",
              template' = template, segments' = segments, slotText' = slotText
       PROVE  TextInv'
  <2>1. segments = Split(t) /\ Grammatical(t)
    BY <1>3, <1>11
  <2>2. Join(Split(t), slotText) = Expected(t, slotText)
    BY <1>1, <1>2, <1>11, <2>1, JoinIsExpected
  <2> QED
    BY <1>1, <1>4, <1>11, <2>1, <2>2
<1>12. CASE RenderTitle
  <2>1. CASE \E name \in VarNames(segments) : Len(name) # 1 \/ name[1] \notin Titled
    <3>1. Refuse("undefined") /\ stage = "parsed"
      BY <1>12, <2>1 DEF RenderTitle
    <3> QED
      BY <1>6, <3>1
  <2>2. CASE ~ \E name \in VarNames(segments) : Len(name) # 1 \/ name[1] \notin Titled
    <3> DEFINE text == Join(segments, slotText)
               Over == Length(text) > TitleMax \/ Emoji(text) > EmojiMax
    <3>1. stage = "parsed" /\ IF Over THEN Refuse("title")
                              ELSE rendered' = text /\ stage' = "done" /\ UNCHANGED <<template, segments, slotText>>
      BY <1>12, <2>2, Zenon DEF RenderTitle
    <3> HIDE DEF Over
    <3>2. CASE Over
      BY <1>6, <3>1, <3>2
    <3>3. CASE ~ Over
      BY <1>11, <2>2, <3>1, <3>3
    <3> QED
      BY <3>2, <3>3
  <2> QED
    BY <2>1, <2>2
<1>13. ASSUME NEW present, NEW fits, RenderDescription(present, fits)
       PROVE  TextInv'
  <2> DEFINE names == {name[1] : name \in {n \in VarNames(segments) : Len(n) = 1}}
             Undefined == HasUnknown(names) \/ Slots(segments) # {} \/ SharedMissing(names, present)
  <2>1. stage = "parsed" /\ IF Undefined THEN Refuse("undefined")
                            ELSE IF FieldFails(names, fits) THEN Refuse("slot")
                            ELSE /\ rendered' = Join(segments, slotText)
                                 /\ stage' = "done"
                                 /\ UNCHANGED <<template, segments, slotText>>
    BY <1>13, Zenon DEF RenderDescription
  <2>2. ~ Undefined => \A name \in VarNames(segments) : Len(name) = 1
    BY DEF HasUnknown
  <2> HIDE DEF Undefined, names
  <2>3. CASE Undefined
    BY <1>6, <2>1, <2>3
  <2>4. CASE ~ Undefined /\ FieldFails(names, fits)
    BY <1>6, <2>1, <2>4
  <2>5. CASE ~ Undefined /\ ~ FieldFails(names, fits)
    BY <1>11, <2>1, <2>2, <2>5
  <2> QED
    BY <2>3, <2>4, <2>5
<1> QED
  BY <1>5, <1>7, <1>9, <1>10, <1>12, <1>13 DEF DirectivesNext

\* Every reachable state of DirectivesSpec has what TextInv says: a template is refused for its
\* syntax or accepted with its segments, and a text is delivered only when it is the one the
\* template calls for.
THEOREM TextInductive == DirectivesSpec => []TextInv
<1> QED
  BY TextInvInit, TextInvNext, PTL DEF DirectivesSpec

\* For any words, lengths and limits: parse_template refuses exactly the templates that break the
\* grammar, and what render_title and render_description deliver has every directive replaced
\* in its place by its own value.
THEOREM TextsByGrammar == DirectivesSpec => []RendersByGrammar
<1>1. TextInv => RendersByGrammar
  BY DEF TextInv
<1> QED
  BY <1>1, TextInductive, PTL

=============================================================================

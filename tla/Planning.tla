------------------------------ MODULE Planning ------------------------------
(***************************************************************************)
(* Plans from a language model.  POST /plans, or the weekly planner called *)
(* by a job, reads the enabled genres, resolves the provider that the      *)
(* settings name and its key, asks it up to three times for an answer of   *)
(* the right shape, checks the genre and saves plan and usage in one       *)
(* transaction.  Meanwhile an operator switches provider and model, stores *)
(* and deletes keys, and genres are suspended and promoted.                *)
(*                                                                         *)
(* The metrics, the history and the reasons of rejected outputs that go    *)
(* into the prompt are left out: they change the words, not the checks.    *)
(***************************************************************************)
EXTENDS Naturals, Sequences, FiniteSets

CONSTANTS Requests,    \* requests for a plan that may run at a time
          Genres,      \* rows of genres
          Dates,       \* days, or Mondays, a plan may be for
          Supported,   \* the models of each provider, in the order it lists them
          Default,     \* the model of each provider when none is stored
          NoRow,       \* no row of app_state has the key
          Env,         \* provider and auth_mode of the environment
          EnvKeys,     \* providers whose key is in the environment
          Stored,      \* what app_state may hold when the backend starts
          MaxAttempts, \* answers a provider asks for in one call
          MaxPlans     \* bound on plans

Providers == {"openai", "anthropic", "ollama"}
Cloud == {"openai", "anthropic"}
ModelsOf(p) == {Supported[p][i] : i \in DOMAIN Supported[p]}
Models == UNION {ModelsOf(p) : p \in Providers}

ASSUME ModelAssumption == /\ Supported \in [Providers -> Seq(Models) \ {<<>>}]
                          /\ \A p \in Providers : Default[p] \in ModelsOf(p)
                          /\ NoRow \notin Providers \cup Models \cup {"api_key"}
ASSUME EnvAssumption == /\ Env.provider \in Providers
                        /\ Env.auth = "api_key"
                        /\ EnvKeys \subseteq Cloud
ASSUME BoundAssumption == MaxAttempts \in Nat \ {0} /\ MaxPlans \in Nat

VARIABLES
  active,  \* rows llm_provider, llm_auth_mode, llm_model of app_state
  secret,  \* providers with a row of llm_provider_secrets
  put,     \* the pair a PUT /llm/providers is about to write, or NoRow
  settled, \* a PUT /llm/providers has been answered
  enabled, \* enabled genres
  req,     \* requests for a plan
  plans,   \* rows of plans, oldest first
  usage    \* rows of usage_log, oldest first

settings == <<active, secret, put, settled>>
rows == <<plans, usage>>
vars == <<settings, enabled, req, rows>>

Idle == [pc |-> "idle"]

Init ==
  /\ active \in Stored
  /\ secret = {}
  /\ put = NoRow
  /\ settled = FALSE
  /\ enabled = Genres
  /\ req = [r \in Requests |-> Idle]
  /\ plans = <<>>
  /\ usage = <<>>

-----------------------------------------------------------------------------
(* Settings. *)

Provider == IF active.provider = NoRow THEN Env.provider ELSE active.provider
Auth == IF active.auth = NoRow THEN Env.auth ELSE active.auth
Readable == Provider \in Providers /\ Auth # "codex_oauth"
Model == IF active.model = NoRow /\ Readable THEN Default[Provider] ELSE active.model

\* What the strict reading of the factory accepts.
Usable ==
  /\ Readable
  /\ Model \in ModelsOf(Provider)
  /\ Provider = "anthropic" => Auth = "api_key"

HasKey(p) == p \in EnvKeys \cup secret

Row(p, m) == [provider |-> p, auth |-> "api_key", model |-> m]

\* PUT /llm/providers checks the pair, reads what is active, and is done when
\* that is the same.
PutReads(p, m) ==
  /\ put = NoRow
  /\ m \in ModelsOf(p)
  /\ IF [provider |-> Provider, auth |-> Auth, model |-> Model] = Row(p, m)
       THEN settled' = TRUE /\ UNCHANGED put
       ELSE put' = Row(p, m) /\ UNCHANGED settled
  /\ UNCHANGED <<active, secret, enabled, req, rows>>

\* Mutant: the mode is not written.
PutWritesModelOnly ==
  /\ put # NoRow
  /\ active' = [active EXCEPT !.provider = put.provider, !.model = put.model]
  /\ put' = NoRow
  /\ settled' = TRUE
  /\ UNCHANGED <<secret, enabled, req, rows>>

\* Otherwise it writes the three rows, and an audit record, and commits.
PutWrites ==
  /\ put # NoRow
  /\ active' = put
  /\ put' = NoRow
  /\ settled' = TRUE
  /\ UNCHANGED <<secret, enabled, req, rows>>

\* PUT /llm/credentials is refused when the environment has the key.
StoreKey(p) ==
  /\ p \notin EnvKeys
  /\ secret' = secret \cup {p}
  /\ UNCHANGED <<active, put, settled, enabled, req, rows>>

DeleteKey(p) ==
  /\ p \in secret \ EnvKeys
  /\ secret' = secret \ {p}
  /\ UNCHANGED <<active, put, settled, enabled, req, rows>>

Disable(g) ==
  /\ enabled' = enabled \ {g}
  /\ UNCHANGED <<settings, req, rows>>

Promote(g) ==
  /\ enabled' = enabled \cup {g}
  /\ UNCHANGED <<settings, req, rows>>

-----------------------------------------------------------------------------
(* Requests. *)

To(r, state) == req' = [req EXCEPT ![r] = state] /\ UNCHANGED <<settings, enabled>>
On(r, state) == To(r, state) /\ UNCHANGED rows

Begin(r, kind, d) ==
  /\ req[r] = Idle
  /\ Len(plans) < MaxPlans
  /\ On(r, [pc |-> "genres", kind |-> kind, date |-> d])

\* POST /plans is refused for a day that has a plan, unless it is forced, and
\* for the weekly cycle.
PostPlan(r, d, force) ==
  /\ force \/ \A i \in DOMAIN plans : plans[i].kind = "daily" => plans[i].date # d
  /\ Begin(r, "daily", d)

\* The weekly planner, which no job of the repository calls.
WeeklyPlan(r, d) == Begin(r, "weekly", d)

LoadGenres(r) ==
  /\ req[r].pc = "genres"
  /\ On(r, [pc |-> "config", kind |-> req[r].kind, date |-> req[r].date,
            allowed |-> enabled])

ResolveConfig(r) ==
  /\ req[r].pc = "config"
  /\ IF Usable
       THEN On(r, [pc |-> IF Provider \in Cloud THEN "key" ELSE "call",
                   kind |-> req[r].kind, date |-> req[r].date,
                   allowed |-> req[r].allowed,
                   provider |-> Provider, model |-> Model, attempt |-> 1])
       ELSE On(r, Idle)

ResolveKey(r) ==
  /\ req[r].pc = "key"
  /\ On(r, IF HasKey(req[r].provider) THEN [req[r] EXCEPT !.pc = "call"] ELSE Idle)

\* Mutant: the answer is taken as the provider has validated it.
AnyGenre(r, g) == TRUE

\* The dictionary is not looked up when no genre is enabled.
Allowed(r, g) == req[r].allowed = {} \/ g \in req[r].allowed

\* An answer of the right shape.  The day of a daily plan is part of it.
Answer(r, d, g) ==
  /\ req[r].pc = "call"
  /\ req[r].kind = "weekly" => d = req[r].date
  /\ On(r, IF Allowed(r, g)
             THEN [pc |-> "save", kind |-> req[r].kind, date |-> req[r].date,
                   allowed |-> req[r].allowed, provider |-> req[r].provider,
                   model |-> req[r].model, answer |-> [date |-> d, genre |-> g]]
             ELSE Idle)

\* Mutant: the attempts begin again.
AskForever(r) ==
  /\ req[r].pc = "call"
  /\ On(r, [req[r] EXCEPT !.attempt = 1 + (@ % MaxAttempts)])

\* An answer of the wrong shape is asked for again, with less temperature.
AskAgain(r) ==
  /\ req[r].pc = "call"
  /\ On(r, IF req[r].attempt < MaxAttempts
             THEN [req[r] EXCEPT !.attempt = @ + 1] ELSE Idle)

\* Any other failure of the provider ends the request.
CallFails(r) == req[r].pc = "call" /\ On(r, Idle)

PlanRow(r) ==
  [kind |-> req[r].kind, date |-> req[r].answer.date, asked |-> req[r].date,
   genre |-> req[r].answer.genre,
   provider |-> req[r].provider, model |-> Head(Supported[req[r].provider])]

\* cost_usd is 0.0 in what all three providers return.
UsageRow(r) ==
  [provider |-> req[r].provider, model |-> Head(Supported[req[r].provider]),
   cost |-> 0, plan |-> Len(plans) + 1]

Save(r) ==
  /\ req[r].pc = "save"
  /\ plans' = Append(plans, PlanRow(r))
  /\ usage' = Append(usage, UsageRow(r))
  /\ To(r, Idle)

SaveFails(r) == req[r].pc = "save" /\ On(r, Idle)

-----------------------------------------------------------------------------
Operate ==
  \/ \E p \in Providers : \E m \in ModelsOf(p) : PutReads(p, m)
  \/ PutWrites
  \/ \E p \in Cloud : StoreKey(p) \/ DeleteKey(p)
  \/ \E g \in Genres : Disable(g) \/ Promote(g)

Ask(r) ==
  \/ \E d \in Dates, force \in BOOLEAN : PostPlan(r, d, force)
  \/ \E d \in Dates : WeeklyPlan(r, d)

Go(r) ==
  \/ LoadGenres(r)
  \/ ResolveConfig(r)
  \/ ResolveKey(r)
  \/ \E d \in Dates, g \in Genres : Answer(r, d, g)
  \/ AskAgain(r)
  \/ CallFails(r)
  \/ Save(r)
  \/ SaveFails(r)

Next == Operate \/ \E r \in Requests : Ask(r) \/ Go(r)

Spec == Init /\ [][Next]_vars

\* Every call has a time limit, so a request goes on.
FairSpec == Spec /\ \A r \in Requests : WF_vars(Go(r))

-----------------------------------------------------------------------------
\* Once a switch of the provider has been answered with 200, whatever app_state
\* held before, reading it no longer fails: neither GET /llm/providers nor the
\* factory (set_provider, resolve_provider_config).
SwitchRepairs == settled => Usable

\* A plan that is saved names a genre that was enabled when its request read the
\* dictionary, unless none was (_enforce_genre_dictionary).
GenreWasAllowed ==
  [][\A r \in Requests :
       plans' # plans /\ req[r].pc = "save" /\ req'[r] = Idle /\ req[r].allowed # {}
         => plans'[Len(plans')].genre \in req[r].allowed]_vars

\* A request for a plan ends: with a plan, or with an error.
RequestEnds == \A r \in Requests : req[r] # Idle ~> req[r] = Idle

\* A plan is for the day that was asked for (domain/plans/schemas.py:18).
PlanIsForItsDay == \A i \in DOMAIN plans : plans[i].date = plans[i].asked

=============================================================================

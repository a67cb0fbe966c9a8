---------------------------- MODULE MCComponents ----------------------------
(***************************************************************************)
(* Six components that share no state, for one run: a behaviour is one of  *)
(* any of them, while the others stay where they begin.                    *)
(***************************************************************************)
EXTENDS Genres, LlmBudget, Analytics, Directives, MusicCompiler, Rendering

CONSTANTS h1, h2

MCSeed == [n \in {h1} |-> "main"]

MCWeekPlans ==
  {[share |-> {h1}, trial |-> {h2}, avoid |-> {h1, h2}],
   [share |-> {h2}, trial |-> {}, avoid |-> {h1}]}

\* From December of the year 1 on.
MCPrices ==
  {[from |-> 23, input |-> 20000, cached |-> 10000, output |-> 50000],
   [from |-> 25, input |-> 20000, cached |-> NoPrice, output |-> 55000]}

MCCallTokens ==
  {[prompt |-> 2, cached |-> 1, completion |-> 1],
   [prompt |-> 3, cached |-> 3, completion |-> 0]}

MCTrialOf == [v \in {"e1", "e2"} |-> "ambient"]

VARIABLE part

\* Where the two components with many initial states begin when they stay there.
NoTemplate ==
  /\ template = [kind |-> "title", body |-> <<"free">>]
  /\ stage = "new"
  /\ segments = <<>> /\ slotText = <<>> /\ rendered = <<>>

NoPost ==
  /\ post = [tracks |-> <<>>, low |-> NoLimit, high |-> NoLimit]
  /\ genreMin = NoLimit /\ genreMax = NoLimit
  /\ batch = [is |-> "none", tracks |-> <<>>]

NoArtifacts == RenderingInit /\ seconds = Min(Lengths)

Init ==
  /\ part \in {"genres", "budget", "analytics", "templates", "music", "rendering"}
  /\ GenresInit /\ BudgetInit /\ AnalyticsInit
  /\ IF part = "templates" THEN DirectivesInit ELSE NoTemplate
  /\ IF part = "music" THEN CompilerInit ELSE NoPost
  /\ IF part = "rendering" THEN RenderingInit ELSE NoArtifacts

Next ==
  \/ /\ part = "genres"
     /\ GenresNext
     /\ UNCHANGED <<part, budgetVars, analyticsVars, directiveVars, compilerVars, renderVars>>
  \/ /\ part = "budget"
     /\ BudgetNext
     /\ UNCHANGED <<part, genreVars, analyticsVars, directiveVars, compilerVars, renderVars>>
  \/ /\ part = "analytics"
     /\ AnalyticsNext
     /\ UNCHANGED <<part, genreVars, budgetVars, directiveVars, compilerVars, renderVars>>
  \/ /\ part = "templates"
     /\ DirectivesNext
     /\ UNCHANGED <<part, genreVars, budgetVars, analyticsVars, compilerVars, renderVars>>
  \/ /\ part = "music"
     /\ Compile
     /\ UNCHANGED <<part, genreVars, budgetVars, analyticsVars, directiveVars, renderVars>>
  \/ /\ part = "rendering"
     /\ RenderingNext
     /\ UNCHANGED <<part, genreVars, budgetVars, analyticsVars, directiveVars, compilerVars>>

vars == <<part, genreVars, budgetVars, analyticsVars, directiveVars, compilerVars, renderVars>>

Spec == Init /\ [][Next]_vars

=============================================================================

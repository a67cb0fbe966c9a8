------------------------------ MODULE LlmBudget ------------------------------
(***************************************************************************)
(* Cost of the language model: prices, rows of usage_log, the monthly      *)
(* report of the settings page, and the check that warns when the sum of   *)
(* the month crosses 50, 80 or 100 per cent of the budget.                 *)
(*                                                                         *)
(* A row carries the time at which its transaction began, so it may be     *)
(* stored after the month it belongs to has ended.  The check records the  *)
(* threshold, commits, and only then notifies.  Days are left out: prices  *)
(* change, and months end, between two months.  The code is modelled as it *)
(* is written to be used, with calculate_cost_usd for the cost of a row    *)
(* and run_budget_check called by one job; nothing calls them yet.         *)
(***************************************************************************)
EXTENDS Integers, Sequences, FiniteSets, FiniteSetsExt

CONSTANTS Prices,    \* rows of model_pricing, in 1/10000 USD per million tokens
          NoPrice,   \* cached_per_1m_usd is NULL
          CallTokens,    \* token counts of a call that may occur
          Budget,    \* monthly_budget_usd, in millionths
          FirstMonth,\* month in which the model starts, counted from year 0
          MaxMonths, \* bound on months
          MaxRows,   \* bound on rows of usage_log
          Writers    \* calls that may be under way at a time

Thresholds == {50, 80, 100}

ASSUME BudgetAssumption ==
  /\ Budget \in Int /\ {FirstMonth, MaxMonths, MaxRows} \subseteq Nat
  /\ \A p \in Prices : /\ p.input \in Nat /\ p.output \in Nat /\ p.from \in Nat
                       /\ p.cached \in Nat \cup {NoPrice}
  /\ \A t \in CallTokens : /\ t.cached \in 0 .. t.prompt
                       /\ t.prompt \in Nat /\ t.completion \in Nat

VARIABLES clock,   \* current month; 0 stands for no month
          spent,   \* rows of usage_log, oldest first: month of created_at and cost
          writing, \* month in which the transaction of each call began, or 0
          state,   \* budget_alert_month and budget_alert_last_threshold
          check,   \* the check of the budget, when it is under way
          alerts   \* notifications that were sent, oldest first

budgetVars == <<clock, spent, writing, state, check, alerts>>

NoCheck == [at |-> "idle"]

BudgetInit ==
  /\ clock = FirstMonth
  /\ spent = <<>>
  /\ writing = [w \in Writers |-> 0]
  /\ state = [month |-> 0, threshold |-> 0]
  /\ check = NoCheck
  /\ alerts = <<>>

-----------------------------------------------------------------------------
(* The cost of a call. *)

\* The latest price that is in effect.
InEffect(month) == {p \in Prices : p.from <= month}
PriceAt(month) == CHOOSE p \in InEffect(month) :
                    \A q \in InEffect(month) : q.from <= p.from

\* n / d rounded half up, for natural n.
Rounded(n, d) == (2 * n + d) \div (2 * d)

\* In millionths of a USD.  Cached tokens are part of the prompt.
Cost(p, t) ==
  LET cached == IF p.cached = NoPrice THEN p.input ELSE p.cached
  IN Rounded((t.prompt - t.cached) * p.input + t.cached * cached
               + t.completion * p.output, 10000)

BeginUsage(w) ==
  /\ writing[w] = 0
  /\ Len(spent) < MaxRows
  /\ writing' = [writing EXCEPT ![w] = clock]
  /\ UNCHANGED <<clock, spent, state, check, alerts>>

\* The price is that of the day of the request; without a price the call
\* counts as free.
WriteUsage(w, t) ==
  /\ writing[w] # 0
  /\ LET cost == IF InEffect(clock) = {} THEN 0 ELSE Cost(PriceAt(clock), t)
     IN spent' = Append(spent, [month |-> writing[w], cost |-> cost])
  /\ writing' = [writing EXCEPT ![w] = 0]
  /\ UNCHANGED <<clock, state, check, alerts>>

-----------------------------------------------------------------------------
(* Months. *)

\* The month as a date: years of twelve months, months from 1.
Year(m) == (m - 1) \div 12
Mon(m) == ((m - 1) % 12) + 1
Start(year, mon) == <<year, mon>>

\* _month_window of the check: the half-open interval of a month.
MonthWindow(m) ==
  [first |-> Start(Year(m), Mon(m)),
   next |-> IF Mon(m) = 12 THEN Start(Year(m) + 1, 1) ELSE Start(Year(m), Mon(m) + 1)]

\* Mutant: January follows December in the same year.
SameYear(m) ==
  [first |-> Start(Year(m), Mon(m)), next |-> Start(Year(m), (Mon(m) % 12) + 1)]

\* _month_bounds of the report computes it a second time.
MonthBounds(m) ==
  LET next == IF Mon(m) = 12 THEN <<Year(m) + 1, 1>> ELSE <<Year(m), Mon(m) + 1>>
  IN [first |-> Start(Year(m), Mon(m)), next |-> Start(next[1], next[2])]

Before(a, b) == a[1] < b[1] \/ (a[1] = b[1] /\ a[2] < b[2])
Within(m, w) == LET d == Start(Year(m), Mon(m)) IN ~ Before(d, w.first) /\ Before(d, w.next)

Total(rows, w) ==
  LET within == {i \in DOMAIN rows : Within(rows[i].month, w)}
  IN MapThenSumSet(LAMBDA i : rows[i].cost, within)

\* budget_pct of GET /llm/usage, 0 without a budget; whole per cents are enough
\* to compare it with a threshold.
Report(m) ==
  IF Budget > 0 THEN (100 * Total(spent, MonthBounds(m))) \div Budget ELSE 0

NextMonth ==
  /\ clock < FirstMonth + MaxMonths - 1
  /\ clock' = clock + 1
  /\ UNCHANGED <<spent, writing, state, check, alerts>>

-----------------------------------------------------------------------------
(* The check of the budget. *)

Crossed(pct) == {t \in Thresholds : pct >= t}

\* Threshold of the last alert, 0 in a new month.
LastThreshold(m) == IF state.month = m THEN state.threshold ELSE 0

\* check_budget_and_alert reads the sum of the month.
ReadSum ==
  /\ check = NoCheck
  /\ Budget > 0
  /\ LET pct == (100 * Total(spent, MonthWindow(clock))) \div Budget
     IN /\ Crossed(pct) # {}
        /\ check' = [at |-> "sum", month |-> clock, threshold |-> Max(Crossed(pct))]
  /\ UNCHANGED <<clock, spent, writing, state, alerts>>

\* It is done when that threshold, or a higher one, was announced before.
Known ==
  /\ check.at = "sum"
  /\ check.threshold <= LastThreshold(check.month)
  /\ check' = NoCheck
  /\ UNCHANGED <<clock, spent, writing, state, alerts>>

\* Mutant: the month of the alert is not recorded.
RecordThreshold ==
  /\ check.at = "sum"
  /\ check.threshold > LastThreshold(check.month)
  /\ state' = [state EXCEPT !.threshold = check.threshold]
  /\ check' = [check EXCEPT !.at = "notify"]
  /\ UNCHANGED <<clock, spent, writing, alerts>>

\* Otherwise it records threshold and month and commits.
RecordAlert ==
  /\ check.at = "sum"
  /\ check.threshold > LastThreshold(check.month)
  /\ state' = [month |-> check.month, threshold |-> check.threshold]
  /\ check' = [check EXCEPT !.at = "notify"]
  /\ UNCHANGED <<clock, spent, writing, alerts>>

SendAlert ==
  /\ check.at = "notify"
  /\ alerts' = Append(alerts, [month |-> check.month, threshold |-> check.threshold])
  /\ check' = NoCheck
  /\ UNCHANGED <<clock, spent, writing, state>>

\* Slack is down, or the process stops: what was not committed is gone, and an
\* alert that was is not sent again.
LoseCheck ==
  /\ check # NoCheck
  /\ check' = NoCheck
  /\ UNCHANGED <<clock, spent, writing, state, alerts>>

BudgetNext ==
  \/ \E w \in Writers : BeginUsage(w) \/ \E t \in CallTokens : WriteUsage(w, t)
  \/ NextMonth
  \/ ReadSum
  \/ Known
  \/ RecordAlert
  \/ SendAlert
  \/ LoseCheck

BudgetSpec == BudgetInit /\ [][BudgetNext]_budgetVars

-----------------------------------------------------------------------------
(* Properties *)

BudgetTypeOK ==
  /\ clock \in FirstMonth .. FirstMonth + MaxMonths - 1
  /\ spent \in Seq([month : Nat, cost : Nat])
  /\ writing \in [Writers -> Nat]
  /\ state.threshold \in {0} \cup Thresholds
  /\ check.at \in {"idle", "sum", "notify"}
  /\ alerts \in Seq([month : Nat, threshold : Thresholds])

\* However late a check ends, and whatever was lost before, the alerts of one
\* month follow each other with rising thresholds, and no alert is about an
\* earlier month than the one before it.
AlertsRise ==
  \A i \in DOMAIN alerts, j \in DOMAIN alerts :
    i < j => \/ alerts[i].month < alerts[j].month
             \/ /\ alerts[i].month = alerts[j].month
                /\ alerts[i].threshold < alerts[j].threshold

\* What an alert says can be seen on the settings page, then and at any later
\* time: the report of its month, which computes the interval and the share on
\* its own, shows at least the threshold.
AlertMatchesReport ==
  \A i \in DOMAIN alerts : Report(alerts[i].month) >= alerts[i].threshold

=============================================================================

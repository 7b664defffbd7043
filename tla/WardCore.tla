------------------------------ MODULE WardCore ------------------------------
(***************************************************************************)
(* The pure rules of the ward-pulse-core crate: statuses, budgets, the       *)
(* dashboard built from provider accounts, the user's alert settings and     *)
(* plan recoveries.                                                          *)
(*                                                                           *)
(* None is an absent optional value.  A percentage is the exact quotient     *)
(* [num, den] the source holds as a float; money keeps its width, so sums    *)
(* wrap around as a release build of the crate does.                         *)
(***************************************************************************)
EXTENDS Integers, Sequences, FiniteSets, SequencesExt

CONSTANTS
    None,       \* an absent optional value
    MaxMinor    \* the largest amount of minor units, 2^63 - 1 in the source

ASSUME MoneyAssumption == MaxMinor \in Nat \ {0}

\* Aggregation ranks: a surface that reported nothing is worse than a healthy one.
Severity == [ok |-> 1, unknown |-> 2, stale |-> 3, warning |-> 4,
             rateLimited |-> 5, authRequired |-> 6, error |-> 7]
Statuses == DOMAIN Severity

Worst(statuses) ==
    IF statuses = {} THEN "unknown"
    ELSE CHOOSE s \in statuses : \A t \in statuses : Severity[t] <= Severity[s]

Periods == {"today", "week", "month"}
Meters == {"plan", "purchased"}

Option(S) == S \cup {None}
Money == [minor : Int, currency : STRING]
Dollars(minor) == [minor |-> minor, currency |-> "USD"]
Percent == [num : Int, den : Nat \ {0}]

ASSUME NoneAssumption == None \notin Int \cup Money \cup Percent

\* A literal is a string; TLAPS has no fact that says so.
ASSUME DollarAssumption == "USD" \in STRING

BudgetStates == [spent : Option(Money), limit : Option(Money), remaining : Option(Money),
                 percent : Option(Percent), projected : Option(Money), status : Statuses]
WatchSummaries == [today : Option(Percent), week : Option(Percent), status : Statuses]

\* The keys of the connections, the demo's among them.
Connections == {"openai.plan", "openai.platform", "anthropic.plan", "anthropic.platform",
                "cursor.plan", "cursor.platform", "mock.plan"}

\* A record with these fields and maybe more.
HasFields(record, fields) ==
    /\ fields \subseteq DOMAIN record
    /\ record = [field \in DOMAIN record |-> record[field]]

\* Names, labels and instants are left to the adapters.
IsAllowance(window) ==
    /\ HasFields(window, {"id", "meter", "percent", "unlimited", "status"})
    /\ window.meter \in Meters /\ window.percent \in Option(Percent)
    /\ window.unlimited \in BOOLEAN /\ window.status \in Statuses

IsAccount(account) ==
    /\ HasFields(account, {"id", "provider", "connection", "status", "budget", "allowances"})
    /\ account.connection \in Option(Connections) /\ account.status \in Statuses
    /\ account.budget \in [Periods -> BudgetStates]
    /\ account.allowances \in Seq(ToSet(account.allowances))
    /\ \A window \in ToSet(account.allowances) : IsAllowance(window)

IsDashboard(dashboard) ==
    /\ dashboard.status \in Statuses /\ dashboard.watch \in WatchSummaries
    /\ dashboard.totals \in [Periods -> BudgetStates]
    /\ dashboard.accounts \in Seq(ToSet(dashboard.accounts))
    /\ \A account \in ToSet(dashboard.accounts) : IsAccount(account)

\* 64-bit sums of the core wrap around.
Wrap(minor) == ((minor + MaxMinor + 1) % (2 * (MaxMinor + 1))) - (MaxMinor + 1)

Fraction(num, den) == [num |-> num, den |-> den]
Reaches(percent, line) == percent.num >= line * percent.den

(***************************************************************************)
(* Budgets.                                                                 *)
(***************************************************************************)
DefaultWarnAt == 80

\* Mutant: nothing to compare is nothing to worry about.
CalculateBudgetStateHealthy(spent, limit, projected) ==
    [spent |-> spent, limit |-> limit, remaining |-> None, percent |-> None,
     projected |-> projected, status |-> "ok"]

CalculateBudgetState(spent, limit, projected) ==
    LET comparable == spent # None /\ limit # None /\ spent.currency = limit.currency
        left == Wrap(limit.minor - spent.minor)
        percent == IF comparable /\ limit.minor > 0
                   THEN Fraction(100 * spent.minor, limit.minor) ELSE None
    IN [spent |-> spent, limit |-> limit,
        remaining |-> IF comparable THEN [limit EXCEPT !.minor = IF left > 0 THEN left ELSE 0]
                      ELSE None,
        percent |-> percent,
        projected |-> projected,
        status |-> IF percent = None THEN "unknown"
                   ELSE IF Reaches(percent, 100) THEN "error"
                   ELSE IF Reaches(percent, DefaultWarnAt) THEN "warning" ELSE "ok"]

UnknownBudget == CalculateBudgetState(None, None, None)

(***************************************************************************)
(* The dashboard of a sequence of accounts.                                 *)
(***************************************************************************)
\* A sum over mixed currencies is no sum, whatever follows.
Mixed == [minor |-> 0, currency |-> "mixed"]

AddMoney(total, next) ==
    IF next = None THEN total
    ELSE IF total = None THEN next
    ELSE IF total.currency = next.currency THEN [total EXCEPT !.minor = Wrap(@ + next.minor)]
    ELSE Mixed

MoneyTotal(amounts) ==
    LET total == FoldLeft(AddMoney, None, amounts)
    IN IF total = Mixed THEN None ELSE total

Column(accounts, period, field) ==
    [i \in DOMAIN accounts |-> accounts[i].budget[period][field]]

\* The aggregate has no limit: no user chose the sum of a few limits.
TotalState(accounts, period) ==
    CalculateBudgetState(MoneyTotal(Column(accounts, period, "spent")), None,
                         MoneyTotal(Column(accounts, period, "projected")))

\* The overall status follows the accounts, never the totals.
BuildDashboard(generatedAt, accounts) ==
    LET totals == [p \in Periods |-> TotalState(accounts, p)]
        overall == Worst({accounts[i].status : i \in DOMAIN accounts})
    IN [generatedAt |-> generatedAt, status |-> overall, accounts |-> accounts,
        totals |-> totals, alerts |-> {},
        watch |-> [today |-> totals["today"].percent, week |-> totals["week"].percent,
                   status |-> overall]]

(***************************************************************************)
(* Alert settings: for some connections, a line per meter and period and a  *)
(* local limit per period, each optional.                                   *)
(***************************************************************************)
Rules == [at : [Meters \cup Periods -> Option(Nat)], limits : [Periods -> Option(Int)]]
NoRules == [at |-> [x \in Meters \cup Periods |-> None], limits |-> [p \in Periods |-> None]]

IsEnabled(rules) == \E x \in Meters \cup Periods : rules.at[x] # None

\* Accounts from before adapters stamped their connection imply one per provider.
FallbackConnection ==
    [codex |-> "openai.plan", openai |-> "openai.platform", claude |-> "anthropic.plan",
     cursor |-> "cursor.plan", mock |-> "mock.plan"]

ConnectionKey(account) ==
    IF account.connection = None THEN FallbackConnection[account.provider]
    ELSE account.connection

RulesOf(settings, account) ==
    IF ConnectionKey(account) \in DOMAIN settings THEN settings[ConnectionKey(account)]
    ELSE NoRules

Crossed(percent, at) == percent # None /\ at # None /\ Reaches(percent, at)

\* Mutant: a limit that is there already stays.
ApplyLocalBudgetOnce(account, settings) ==
    LET limits == RulesOf(settings, account).limits
        Limited(p) ==
            LET state == account.budget[p]
            IN IF limits[p] = None \/ state.spent = None \/ state.limit # None THEN state
               ELSE CalculateBudgetState(state.spent, [state.spent EXCEPT !.minor = limits[p]],
                                         state.projected)
    IN [account EXCEPT !.budget = [p \in Periods |-> Limited(p)]]

\* A local limit takes the currency of the spend it is measured against.
ApplyLocalBudget(account, settings) ==
    LET limits == RulesOf(settings, account).limits
        Limited(p) ==
            LET state == account.budget[p]
            IN IF limits[p] = None \/ state.spent = None THEN state
               ELSE CalculateBudgetState(state.spent, [state.spent EXCEPT !.minor = limits[p]],
                                         state.projected)
    IN [account EXCEPT !.budget = [p \in Periods |-> Limited(p)]]

\* Mutant: a crossed line sets the status it is about.
RaisedOutright(state, at) ==
    IF Crossed(state.percent, at) THEN [state EXCEPT !.status = "warning"] ELSE state

Raised(state, at) ==
    IF Crossed(state.percent, at) THEN [state EXCEPT !.status = Worst({@, "warning"})]
    ELSE state

\* A crossed window raises its account too; a crossed budget only its own card.
RaiseCrossedThresholds(account, settings) ==
    LET at == RulesOf(settings, account).at
        windows == account.allowances
        windowCrossed == \E i \in DOMAIN windows : Crossed(windows[i].percent, at[windows[i].meter])
    IN [account EXCEPT
            !.allowances = [i \in DOMAIN windows |-> Raised(windows[i], at[windows[i].meter])],
            !.status = IF windowCrossed THEN Worst({@, "warning"}) ELSE @,
            !.budget = [p \in Periods |-> Raised(account.budget[p], at[p])]]

\* What an alert names: the account and the card whose line was reached.
Alert(account, kind, card) == <<account.id, kind, card>>

AlertsForAccount(account, settings) ==
    LET rules == RulesOf(settings, account)
        windows == account.allowances
        budgets == {p \in Periods : Crossed(account.budget[p].percent, rules.at[p])}
        reached == {i \in DOMAIN windows : Crossed(windows[i].percent, rules.at[windows[i].meter])}
    IN IF ~IsEnabled(rules) THEN {}
       ELSE {Alert(account, "budget", p) : p \in budgets}
         \cup {Alert(account, "window", windows[i].id) : i \in reached}

CalculateAlerts(dashboard, settings) ==
    UNION {AlertsForAccount(dashboard.accounts[i], settings) : i \in DOMAIN dashboard.accounts}

ApplyAlertSettings(dashboard, settings) ==
    LET Applied(account) ==
            RaiseCrossedThresholds(ApplyLocalBudget(account, settings), settings)
        accounts == [i \in DOMAIN dashboard.accounts |-> Applied(dashboard.accounts[i])]
        rebuilt == BuildDashboard(dashboard.generatedAt, accounts)
    IN [rebuilt EXCEPT !.alerts = CalculateAlerts(rebuilt, settings)]

(***************************************************************************)
(* Recoveries.                                                              *)
(***************************************************************************)
IsExhausted(window) ==
    ~window.unlimited /\ window.percent # None /\ Reaches(window.percent, 100)

HasRoom(window) ==
    window.unlimited \/ (window.percent # None /\ ~Reaches(window.percent, 100))

WindowKey(account, window) == <<account.id, window.id>>

\* The windows of the dashboard, each with the account it belongs to.
WindowsOf(dashboard) ==
    UNION {{<<account, w>> : w \in ToSet(account.allowances)} : account \in ToSet(dashboard.accounts)}

KeysOf(windows) == {WindowKey(p[1], p[2]) : p \in windows}

ExhaustedWindows(dashboard) == KeysOf({p \in WindowsOf(dashboard) : IsExhausted(p[2])})

\* A window the dashboard no longer reports has not recovered.
PlanRecoveries(remembered, dashboard) ==
    remembered \cap KeysOf({p \in WindowsOf(dashboard) : HasRoom(p[2])})
=============================================================================

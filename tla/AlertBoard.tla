------------------------------ MODULE AlertBoard ------------------------------
(***************************************************************************)
(* The dashboard the phone shows: the snapshots a load produced, merged, with *)
(* the user's alert settings applied by the core.  An edit of the settings   *)
(* applies them again, to the dashboard as it is shown, until the next load  *)
(* replaces it.                                                             *)
(***************************************************************************)
EXTENDS ProviderReports

CONSTANTS
    Boards,     \* the loads: sequences of parts [dashboard, stale], one per connection
    RuleSets,   \* the rules a connection may be given
    Owners,     \* the connections whose rules are edited
    MaxEdits    \* bound on the edits between two loads

\* What the core makes of reports: a dashboard follows from its accounts, and the
\* windows of an account have keys of their own.
IsReported(dashboard) ==
    /\ IsDashboard(dashboard)
    /\ dashboard = BuildDashboard(dashboard.generatedAt, dashboard.accounts)
    /\ \A account \in ToSet(dashboard.accounts) :
          \A i, j \in DOMAIN account.allowances :
             account.allowances[i].id = account.allowances[j].id => i = j

ASSUME BoardAssumption ==
    /\ \A parts \in Boards :
          /\ parts \in Seq(ToSet(parts))
          /\ \A part \in ToSet(parts) : IsReported(part.dashboard) /\ part.stale \in BOOLEAN
    /\ RuleSets \subseteq Rules /\ NoRules \in RuleSets
    /\ \A rules \in RuleSets, p \in Periods : rules.limits[p] \in Option(Nat \ {0})
    /\ Owners \subseteq Connections /\ MaxEdits \in Nat

\* Settings are there: the core is handed neither none nor ones it refuses.
ASSUME SettingsAssumption ==
    \A keys \in SUBSET Connections : {None, Refused} \cap [keys -> Rules] = {}

VARIABLE board  \* None, or what was loaded, what is shown, and the edits since

boardVars == <<vars, board>>

(***************************************************************************)
(* The phone's side of the settings.                                        *)
(***************************************************************************)
\* A local limit alone raises no alert but is worth storing: it reaches the core.
IsWorthStoring(rules) == IsEnabled(rules) \/ \E p \in Periods : rules.limits[p] # None

HasEnabledRules(settings) == \E c \in DOMAIN settings : IsWorthStoring(settings[c])

WithConnection(settings, connection, rules) ==
    [c \in (DOMAIN settings \ {connection})
              \cup (IF IsWorthStoring(rules) THEN {connection} ELSE {}) |->
        IF c = connection THEN rules ELSE settings[c]]

\* Without rules the core is not asked, and only the alerts are cleared.
ApplyUserAlertSettings(dashboard, settings) ==
    IF HasEnabledRules(settings) THEN ApplyAlertSettingsEnvelope(dashboard, settings).payload
    ELSE [dashboard EXCEPT !.alerts = {}]

(***************************************************************************)
(* What a load produces.                                                    *)
(***************************************************************************)
EmptyDashboard ==
    [generatedAt |-> 0, status |-> "ok", accounts |-> <<>>,
     totals |-> [p \in Periods |-> UnknownBudget], alerts |-> {},
     watch |-> [today |-> None, week |-> None, status |-> "ok"]]

\* A connection that failed shows its last snapshot with every status stale.
WithStaleStatus(dashboard) ==
    [dashboard EXCEPT
        !.status = "stale", !.watch.status = "stale",
        !.accounts = [i \in DOMAIN @ |-> [@[i] EXCEPT !.status = "stale"]]]

PartSnapshot(part) ==
    IF part.stale THEN WithStaleStatus(part.dashboard) ELSE part.dashboard

\* Snapshots are merged one after the other; one alone is taken as it is.
MergeAll(snapshots) ==
    LET merged[n \in DOMAIN snapshots] ==
            IF n = 1 THEN snapshots[1] ELSE MergeDashboards(<<merged[n - 1], snapshots[n]>>)
    IN IF snapshots = <<>> THEN EmptyDashboard ELSE merged[Len(snapshots)]

(***************************************************************************)
(* Steps.                                                                   *)
(***************************************************************************)
BoardInit == Init /\ board = None

\* The stored settings are applied to what was loaded.
LoadBoard(parts, connection, rules) ==
    /\ source = None /\ board = None
    /\ LET loaded == MergeAll([i \in DOMAIN parts |-> PartSnapshot(parts[i])])
           settings == WithConnection(<<>>, connection, rules)
       IN board' = [loaded |-> loaded, shown |-> ApplyUserAlertSettings(loaded, settings),
                    settings |-> settings, edits |-> 0, relaxed |-> FALSE]
    /\ UNCHANGED vars

\* A line over windows that is removed or raised, or a limit that is removed.
Relaxes(old, new) ==
    \/ \E m \in Meters : old.at[m] # None /\ (new.at[m] = None \/ new.at[m] > old.at[m])
    \/ \E p \in Periods : old.limits[p] # None /\ new.limits[p] = None

RulesFor(settings, connection) ==
    IF connection \in DOMAIN settings THEN settings[connection] ELSE NoRules

Edit(connection, rules) ==
    /\ board # None /\ board.edits < MaxEdits
    /\ LET settings == WithConnection(board.settings, connection, rules)
       IN board' = [board EXCEPT
              !.shown = ApplyUserAlertSettings(board.shown, settings),
              !.settings = settings, !.edits = @ + 1,
              !.relaxed = @ \/ Relaxes(RulesFor(board.settings, connection), rules)]
    /\ UNCHANGED vars

\* The next load starts afresh.
Replace == board # None /\ board' = None /\ UNCHANGED vars

\* Reports are asked for while no dashboard is shown: the two do not meet.
Ask == board = None /\ Next /\ UNCHANGED board

BoardNext ==
    \/ Ask
    \/ \E parts \in Boards, c \in Owners, rules \in RuleSets : LoadBoard(parts, c, rules)
    \/ \E c \in Owners, rules \in RuleSets : Edit(c, rules)
    \/ Replace

BoardSpec == BoardInit /\ [][BoardNext]_boardVars

-----------------------------------------------------------------------------
(***************************************************************************)
(* Properties.                                                              *)
(***************************************************************************)
\* The types of the reports, and a dashboard of the same accounts loaded and shown.
BoardTypes ==
    /\ TypeOK
    /\ board # None =>
          /\ IsDashboard(board.loaded) /\ IsDashboard(board.shown)
          /\ Len(board.shown.accounts) = Len(board.loaded.accounts)
          /\ board.settings \in [DOMAIN board.settings -> Rules] /\ DOMAIN board.settings \subseteq Owners
          /\ board.edits \in 0..MaxEdits /\ board.relaxed \in BOOLEAN

AtLeast(status, floor) == Severity[status] >= Severity[floor]

\* The statuses the card of an alert may be shown with: the windows' or a period's.
CardStatuses(account, kind, card) ==
    IF kind = "budget" THEN {account.budget[card].status}
    ELSE {w.status : w \in {v \in ToSet(account.allowances) : v.id = card}}

\* After any edits, no alert stands beside a card that looks healthy, and the
\* settings never make a window or an account look better than its provider said,
\* change what was spent, or change which windows are spent or have recovered.
AlertsAreSeen ==
    board # None =>
        LET shown == board.shown
            loaded == board.loaded
            keys == KeysOf(WindowsOf(loaded))
        IN /\ \A alert \in shown.alerts : \E account \in ToSet(shown.accounts) :
                 /\ account.id = alert[1]
                 /\ LET statuses == CardStatuses(account, alert[2], alert[3])
                    IN statuses # {} /\ \A s \in statuses : AtLeast(s, "warning")
           /\ \A i \in DOMAIN loaded.accounts :
                 /\ AtLeast(shown.accounts[i].status, loaded.accounts[i].status)
                 /\ \A j \in DOMAIN loaded.accounts[i].allowances :
                       AtLeast(shown.accounts[i].allowances[j].status,
                               loaded.accounts[i].allowances[j].status)
           /\ ExhaustedWindowsEnvelope(shown) = ExhaustedWindowsEnvelope(loaded)
           /\ PlanRecoveriesEnvelope(shown, keys) = PlanRecoveriesEnvelope(loaded, keys)
           /\ \A p \in Periods : shown.totals[p].spent = loaded.totals[p].spent

\* The cards of the loaded dashboard whose use reaches their line: a window's
\* percentage, or what a period spent against the user's own limit.
ReachedCards ==
    UNION {LET account == board.loaded.accounts[i]
               rules == RulesFor(board.settings, ConnectionKey(account))
               Spends(p) == account.budget[p].spent.minor * 100
           IN {Alert(account, "window", w.id) : w \in {v \in ToSet(account.allowances) :
                  /\ v.percent # None /\ rules.at[v.meter] # None
                  /\ v.percent.num >= rules.at[v.meter] * v.percent.den}}
              \cup {Alert(account, "budget", p) : p \in {q \in Periods :
                  /\ rules.at[q] # None /\ rules.limits[q] # None
                  /\ account.budget[q].spent # None
                  /\ Spends(q) >= rules.at[q] * rules.limits[q]}}
           : i \in DOMAIN board.loaded.accounts}

\* Edits that only add or tighten show what a load with the last settings would
\* show: it does not matter over which edits they were reached, nor that each
\* was applied to a dashboard the one before had changed; and the alerts are
\* those of the cards whose use reaches the line.  A dashboard of no accounts is
\* left aside: its overall status depends on whether the core was asked.
EditsConverge ==
    board # None /\ ~board.relaxed /\ board.loaded.accounts # <<>> =>
        /\ board.shown = ApplyUserAlertSettings(board.loaded, board.settings)
        /\ board.shown.alerts = ReachedCards
=============================================================================

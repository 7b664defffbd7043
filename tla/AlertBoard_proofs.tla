--------------------------- MODULE AlertBoard_proofs ---------------------------
(***************************************************************************)
(* What holds of any dashboards that are loaded and merged and of any edits  *)
(* of their alert rules: that no alert stands beside a card that looks       *)
(* healthy, that rules make nothing look better than its provider said, and  *)
(* that edits which only add or tighten show what a load with the last rules *)
(* would show, with the alerts of the cards whose use reaches their line.    *)
(*                                                                         *)
(* Sums over accounts and merges of snapshots are functions of how many were *)
(* taken: what holds of them is proved by looking at the least number for    *)
(* which it fails.                                                         *)
(***************************************************************************)
EXTENDS AlertBoard, ProviderReports_proofs

-----------------------------------------------------------------------------
(***************************************************************************)
(* Statuses.                                                                *)
(***************************************************************************)
LEMMA WorstTypes ==
    ASSUME NEW S, S \subseteq Statuses
    PROVE  Worst(S) \in Statuses
<1>1. CASE S = {}
  BY <1>1, StatusesAre DEF Worst
<1>2. CASE S # {}
  BY <1>2, WorstIsTop
<1> QED
  BY <1>1, <1>2

\* A status that is raised is one a card with a crossed line may have.
LEMMA RaisedStatus ==
    ASSUME NEW s \in Statuses
    PROVE  /\ Worst({s, "warning"}) \in Statuses
           /\ AtLeast(Worst({s, "warning"}), s) /\ AtLeast(Worst({s, "warning"}), "warning")
           /\ Worst({Worst({s, "warning"}), "warning"}) = Worst({s, "warning"})
<1> DEFINE w == Worst({s, "warning"})
<1>1. {s, "warning"} \subseteq Statuses /\ {s, "warning"} # {}
  BY StatusesAre
<1>2. w \in {s, "warning"} /\ Severity[s] <= Severity[w] /\ Severity["warning"] <= Severity[w]
  BY <1>1, WorstIsTop
<1>3. w \in Statuses /\ AtLeast(w, s) /\ AtLeast(w, "warning")
  BY <1>1, <1>2, SeverityTypes DEF AtLeast
<1> HIDE DEF w
<1>4. Worst({w, "warning"}) = w
  <2>1. {w, "warning"} \subseteq Statuses /\ {w, "warning"} # {}
    BY <1>3, StatusesAre
  <2>2. Worst({w, "warning"}) \in {w, "warning"} /\ Severity[w] <= Severity[Worst({w, "warning"})]
    BY <2>1, WorstIsTop
  <2> QED
    BY <2>2, <1>2, <1>3, StatusesAre, SeverityIs DEF AtLeast
<1> QED
  BY <1>3, <1>4 DEF w

LEMMA SameStatus ==
    ASSUME NEW s \in Statuses
    PROVE  AtLeast(s, s)
  BY SeverityTypes DEF AtLeast

LEMMA WorseOnWorse ==
    ASSUME NEW s \in Statuses, NEW t \in Statuses, NEW u \in Statuses,
           AtLeast(s, t), AtLeast(t, u)
    PROVE  AtLeast(s, u)
  BY SeverityTypes DEF AtLeast

-----------------------------------------------------------------------------
(***************************************************************************)
(* Sums of money.                                                           *)
(***************************************************************************)
LEMMA WrapTypes ==
    ASSUME NEW n \in Int
    PROVE  Wrap(n) \in Int
<1>1. 2 * (MaxMinor + 1) \in Nat \ {0} /\ n + MaxMinor + 1 \in Int
  BY MoneyAssumption
<1>2. ((n + MaxMinor + 1) % (2 * (MaxMinor + 1))) \in Int
  BY <1>1
<1> QED
  BY <1>2, MoneyAssumption DEF Wrap

\* What a sum has come to: nothing, an amount, or one of mixed currencies.
Sum == Option(Money) \cup {Mixed}

LEMMA AddMoneyTypes ==
    ASSUME NEW total \in Sum, NEW next \in Option(Money)
    PROVE  AddMoney(total, next) \in Sum
<1>1. CASE next # None /\ total # None /\ total.currency = next.currency
  <2>1. next \in Money /\ total.minor \in Int /\ total = [minor |-> total.minor, currency |-> total.currency]
    BY <1>1 DEF Sum, Option, Money, Mixed
  <2>2. Wrap(total.minor + next.minor) \in Int /\ total.currency \in STRING
    BY <1>1, <2>1, WrapTypes DEF Money
  <2>3. AddMoney(total, next) = [total EXCEPT !.minor = Wrap(total.minor + next.minor)]
    BY <1>1 DEF AddMoney
  <2> QED
    BY <2>1, <2>2, <2>3 DEF Money, Option, Sum
<1>2. CASE ~(next # None /\ total # None /\ total.currency = next.currency)
  BY <1>2 DEF AddMoney, Option, Sum
<1> QED
  BY <1>1, <1>2

\* The sums over the sets of the first n positions.
Sums(g, n, amounts) ==
    g = [s \in SUBSET (1..n) |->
            IF s = {} THEN None ELSE AddMoney(g[s \ {Max(s)}], amounts[Max(s)])]

LEMMA SumsExist ==
    ASSUME NEW amounts, NEW n \in Nat
    PROVE  \E g : Sums(g, n, amounts)
<1> DEFINE T == {k \in Nat : ~ \E g : Sums(g, k, amounts)}
<1>1. 0 \notin T
  <2> DEFINE g == [s \in SUBSET (1..0) |-> None]
  <2>1. \A s \in SUBSET (1..0) : s = {}
    OBVIOUS
  <2>2. Sums(g, 0, amounts)
    BY <2>1 DEF Sums
  <2> QED
    BY <2>2
<1>2. ASSUME NEW k \in Nat, k \notin T
      PROVE  k + 1 \notin T
  <2>1. PICK g : Sums(g, k, amounts)
    BY <1>2
  <2> DEFINE step(s) == AddMoney(g[s \ {k + 1}], amounts[k + 1])
             h == [s \in SUBSET (1..(k + 1)) |-> IF k + 1 \in s THEN step(s) ELSE g[s]]
  <2>2. ASSUME NEW s \in SUBSET (1..(k + 1))
        PROVE  h[s] = IF s = {} THEN None ELSE AddMoney(h[s \ {Max(s)}], amounts[Max(s)])
    <3>1. CASE k + 1 \in s
      <4>1. Max(s) = k + 1 /\ s \ {k + 1} \in SUBSET (1..k)
        BY <3>1, TopOfSet
      <4>2. s \ {k + 1} \in SUBSET (1..(k + 1)) /\ k + 1 \notin s \ {k + 1}
        OBVIOUS
      <4>3. h[s \ {k + 1}] = g[s \ {k + 1}]
        BY <4>2
      <4>4. h[s] = step(s) /\ s # {}
        BY <3>1
      <4> QED
        BY <4>1, <4>3, <4>4
    <3>2. CASE k + 1 \notin s
      <4>1. s \in SUBSET (1..k)
        BY <3>2
      <4>2. h[s] = g[s]
        BY <3>2
      <4>3. g[s] = IF s = {} THEN None ELSE AddMoney(g[s \ {Max(s)}], amounts[Max(s)])
        BY <2>1, <4>1 DEF Sums
      <4>4. s \ {Max(s)} \in SUBSET (1..(k + 1)) /\ k + 1 \notin s \ {Max(s)}
        BY <3>2
      <4>5. h[s \ {Max(s)}] = g[s \ {Max(s)}]
        BY <4>4
      <4> QED
        BY <4>2, <4>3, <4>5
    <3> QED
      BY <3>1, <3>2
  <2>3. h = [s \in SUBSET (1..(k + 1)) |->
                IF s = {} THEN None ELSE AddMoney(h[s \ {Max(s)}], amounts[Max(s)])]
    <3>1. \E D : h = [s \in D |-> h[s]] /\ D = SUBSET (1..(k + 1))
      OBVIOUS
    <3> HIDE DEF h
    <3> QED
      BY <2>2, <3>1
  <2>4. Sums(h, k + 1, amounts)
    BY <2>3 DEF Sums
  <2> QED
    BY <2>4
<1>3. T = {}
  <2> SUFFICES ASSUME T # {}
               PROVE  FALSE
    OBVIOUS
  <2>1. T \subseteq Nat
    OBVIOUS
  <2>2. PICK k \in T : \A m \in T : k <= m
    BY <2>1, LeastNumber
  <2>3. k \in Nat /\ k # 0 /\ k - 1 \notin T
    BY <1>1, <2>1, <2>2
  <2>4. k - 1 \in Nat /\ (k - 1) + 1 = k
    BY <2>3
  <2> QED
    BY <1>2, <2>2, <2>3, <2>4
<1> QED
  BY <1>3

LEMMA SumsTypes ==
    ASSUME NEW n \in Nat, NEW amounts, \A i \in 1..n : amounts[i] \in Option(Money),
           NEW g, Sums(g, n, amounts)
    PROVE  \A s \in SUBSET (1..n) : g[s] \in Sum
<1> DEFINE T == {k \in 0..n : \E s \in SUBSET (1..k) : g[s] \notin Sum}
<1>1. T = {}
  <2> SUFFICES ASSUME T # {}
               PROVE  FALSE
    OBVIOUS
  <2>1. T \subseteq Nat
    OBVIOUS
  <2>2. PICK k \in T : \A m \in T : k <= m
    BY <2>1, LeastNumber
  <2>3. PICK s \in SUBSET (1..k) : g[s] \notin Sum
    BY <2>2
  <2>4. k \in 0..n /\ s \in SUBSET (1..n)
    BY <2>2, <2>3
  <2>5. g[s] = IF s = {} THEN None ELSE AddMoney(g[s \ {Max(s)}], amounts[Max(s)])
    BY <2>4 DEF Sums
  <2>6. s # {}
    BY <2>3, <2>5 DEF Option, Sum
  <2>7. Max(s) \in s /\ \A y \in s : Max(s) >= y
    BY <2>4, <2>6, MaxIsThere
  <2> DEFINE top == Max(s)
  <2>15. k \in Nat /\ k <= n
    BY <2>4
  <2>13. top \in 1..k
    BY <2>3, <2>7
  <2>14. \A m \in T : k <= m
    BY <2>2
  <2> HIDE DEF T, top
  <2>8. top \in 1..k /\ top \in 1..n /\ top - 1 \in 0..n /\ ~(k <= top - 1)
    BY <2>13, <2>15
  <2>12. \A y \in s \ {top} : y \in 1..(top - 1)
    <3> TAKE y \in s \ {top}
    <3>1. y \in 1..k /\ y <= top /\ y # top
      BY <2>3, <2>7, <2>8 DEF top
    <3> QED
      BY <2>8, <3>1
  <2>9. top - 1 \notin T
    BY <2>8, <2>14
  <2> USE DEF T
  <2>10. g[s \ {top}] \in Sum
    BY <2>8, <2>9, <2>12
  <2>11. amounts[Max(s)] \in Option(Money)
    BY <2>4, <2>8 DEF top
  <2> QED
    BY <2>3, <2>5, <2>6, <2>10, <2>11, AddMoneyTypes DEF top
<1> QED
  BY <1>1

\* A sum of optional amounts is an optional amount, however many there are.
LEMMA MoneyTotalTypes ==
    ASSUME NEW amounts, NEW n \in Nat, DOMAIN amounts = 1..n,
           \A i \in 1..n : amounts[i] \in Option(Money)
    PROVE  MoneyTotal(amounts) \in Option(Money)
<1> DEFINE g == CHOOSE g : Sums(g, n, amounts)
<1>1. Sums(g, n, amounts)
  BY SumsExist
<1>2. FoldLeft(AddMoney, None, amounts) = g[1..n]
  BY Zenon DEF FoldLeft, MapThenFoldSet, Sums
<1> HIDE DEF g
<1>3. g[1..n] \in Sum
  BY <1>1, SumsTypes
<1> QED
  BY <1>2, <1>3 DEF MoneyTotal, Option, Sum

\* Nothing adds up to nothing.
LEMMA NoMoney ==
    ASSUME NEW amounts, DOMAIN amounts = {}
    PROVE  MoneyTotal(amounts) = None
<1> DEFINE g == CHOOSE g : Sums(g, 0, amounts)
<1>1. Sums(g, 0, amounts) /\ DOMAIN amounts = 1..0
  BY SumsExist
<1>2. FoldLeft(AddMoney, None, amounts) = g[1..0]
  BY <1>1, Zenon DEF FoldLeft, MapThenFoldSet, Sums
<1> HIDE DEF g
<1>3. g[1..0] = None
  BY <1>1 DEF Sums
<1> QED
  BY <1>2, <1>3 DEF MoneyTotal

LEMMA BudgetTypes ==
    ASSUME NEW spent \in Option(Money), NEW limit \in Option(Money),
           NEW projected \in Option(Money)
    PROVE  CalculateBudgetState(spent, limit, projected) \in BudgetStates
<1> DEFINE comparable == spent # None /\ limit # None /\ spent.currency = limit.currency
           left == Wrap(limit.minor - spent.minor)
           remaining == IF comparable THEN [limit EXCEPT !.minor = IF left > 0 THEN left ELSE 0]
                        ELSE None
           percent == IF comparable /\ limit.minor > 0
                      THEN Fraction(100 * spent.minor, limit.minor) ELSE None
           status == IF percent = None THEN "unknown"
                     ELSE IF Reaches(percent, 100) THEN "error"
                     ELSE IF Reaches(percent, DefaultWarnAt) THEN "warning" ELSE "ok"
<1>1. CalculateBudgetState(spent, limit, projected) =
          [spent |-> spent, limit |-> limit, remaining |-> remaining, percent |-> percent,
           projected |-> projected, status |-> status]
  BY DEF CalculateBudgetState
<1>2. status \in Statuses
  BY StatusesAre
<1>3. remaining \in Option(Money) /\ percent \in Option(Percent)
  <2>1. CASE comparable
    <3>1. spent \in Money /\ limit \in Money
      BY <2>1 DEF Option
    <3>2. spent.minor \in Int /\ limit.minor \in Int
      BY <3>1 DEF Money
    <3>3. left \in Int
      BY <3>2, WrapTypes
    <3>4. remaining \in Money
      <4> DEFINE kept == IF left > 0 THEN left ELSE 0
      <4>1. kept \in Int
        BY <3>3
      <4>2. remaining = [limit EXCEPT !.minor = kept]
        BY <2>1
      <4> HIDE DEF kept, remaining
      <4> QED
        BY <3>1, <4>1, <4>2 DEF Money
    <3>5. percent \in Option(Percent)
      <4>1. CASE limit.minor > 0
        <5>1. percent = [num |-> 100 * spent.minor, den |-> limit.minor]
          BY <2>1, <4>1 DEF Fraction
        <5>2. 100 * spent.minor \in Int /\ limit.minor \in Nat \ {0}
          BY <3>2, <4>1
        <5> QED
          BY <5>1, <5>2 DEF Option, Percent
      <4>2. CASE ~(limit.minor > 0)
        BY <4>2 DEF Option
      <4> QED
        BY <4>1, <4>2
    <3> QED
      BY <3>4, <3>5 DEF Option
  <2>2. CASE ~comparable
    BY <2>2 DEF Option
  <2> QED
    BY <2>1, <2>2
<1> HIDE DEF remaining, percent, status
<1> QED
  BY <1>1, <1>2, <1>3 DEF BudgetStates

-----------------------------------------------------------------------------
(***************************************************************************)
(* Dashboards.                                                              *)
(***************************************************************************)
LEMMA TotalTypes ==
    ASSUME NEW accounts, accounts \in Seq(ToSet(accounts)),
           \A account \in ToSet(accounts) : IsAccount(account), NEW p \in Periods
    PROVE  TotalState(accounts, p) \in BudgetStates
<1>1. PICK n \in Nat : DOMAIN accounts = 1..n
  BY LenProperties
<1>2. \A i \in 1..n : accounts[i].budget[p] \in BudgetStates
  BY <1>1 DEF IsAccount, ToSet
<1>3. \A field \in {"spent", "projected"} :
          MoneyTotal(Column(accounts, p, field)) \in Option(Money)
  <2> TAKE field \in {"spent", "projected"}
  <2>1. DOMAIN Column(accounts, p, field) = 1..n
    BY <1>1 DEF Column
  <2>2. \A i \in 1..n : Column(accounts, p, field)[i] \in Option(Money)
    BY <1>1, <1>2 DEF Column, BudgetStates
  <2> QED
    BY <2>1, <2>2, MoneyTotalTypes
<1>4. None \in Option(Money)
  BY DEF Option
<1> QED
  BY <1>3, <1>4, BudgetTypes DEF TotalState

\* A dashboard that follows from typed accounts is typed.
LEMMA BuildTypes ==
    ASSUME NEW accounts, accounts \in Seq(ToSet(accounts)),
           \A account \in ToSet(accounts) : IsAccount(account), NEW generatedAt
    PROVE  IsDashboard(BuildDashboard(generatedAt, accounts))
<1> DEFINE totals == [p \in Periods |-> TotalState(accounts, p)]
           overall == Worst({accounts[i].status : i \in DOMAIN accounts})
           watch == [today |-> totals["today"].percent, week |-> totals["week"].percent,
                     status |-> overall]
<1>1. totals \in [Periods -> BudgetStates]
  BY TotalTypes
<1>2. overall \in Statuses
  <2>1. {accounts[i].status : i \in DOMAIN accounts} \subseteq Statuses
    BY DEF IsAccount, ToSet
  <2> QED
    BY <2>1, WorstTypes
<1>3. watch \in WatchSummaries
  <2>1. totals["today"] \in BudgetStates /\ totals["week"] \in BudgetStates
    BY <1>1 DEF Periods
  <2> HIDE DEF totals, overall
  <2> QED
    BY <1>2, <2>1 DEF BudgetStates, WatchSummaries
<1>4. BuildDashboard(generatedAt, accounts) =
          [generatedAt |-> generatedAt, status |-> overall, accounts |-> accounts,
           totals |-> totals, alerts |-> {}, watch |-> watch]
  BY DEF BuildDashboard
<1> HIDE DEF totals, overall, watch
<1> QED
  BY <1>1, <1>2, <1>3, <1>4 DEF IsDashboard

LEMMA FlattenTwo ==
    ASSUME NEW a, NEW b, NEW seqs, seqs = <<a, b>>
    PROVE  FlattenSeq(seqs) = a \o b
<1> DEFINE flat == CHOOSE f : Flat(f, seqs)
<1>1. Len(seqs) = 2 /\ Len(seqs) # 0 /\ seqs[1] = a /\ seqs[2] = b
  OBVIOUS
<1>2. \E f : Flat(f, seqs)
  <2> DEFINE f == [i \in 1..2 |-> IF i = 1 THEN a ELSE a \o b]
  <2>1. Flat(f, seqs)
    BY <1>1 DEF Flat
  <2> QED
    BY <2>1
<1>3. Flat(flat, seqs)
  BY <1>2
<1>5. FlattenSeq(seqs) = flat[Len(seqs)]
  BY <1>1, Zenon DEF FlattenSeq, Flat
<1> HIDE DEF flat
<1>4. flat = [i \in 1..Len(seqs) |-> IF i = 1 THEN seqs[i] ELSE flat[i - 1] \o seqs[i]]
  BY <1>3 DEF Flat
<1>6. flat[1] = seqs[1] /\ flat[2] = flat[1] \o seqs[2]
  <2>1. 1 \in 1..Len(seqs) /\ 2 \in 1..Len(seqs) /\ 2 # 1 /\ 2 - 1 = 1
    BY <1>1
  <2>2. \A i \in 1..Len(seqs) : flat[i] = IF i = 1 THEN seqs[i] ELSE flat[i - 1] \o seqs[i]
    BY <1>4, Zenon
  <2>3. flat[2] = flat[2 - 1] \o seqs[2]
    BY <2>1, <2>2, Zenon
  <2>4. flat[1] = seqs[1]
    BY <2>1, <2>2, Zenon
  <2> QED
    BY <2>1, <2>3, <2>4, Zenon
<1> QED
  BY <1>1, <1>5, <1>6

\* The windows of an account have keys of their own.
TellsApart(account) ==
    \A i, j \in DOMAIN account.allowances :
       account.allowances[i].id = account.allowances[j].id => i = j

DashboardFields == {"generatedAt", "status", "accounts", "totals", "alerts", "watch"}

\* A dashboard as the phone holds it: its totals are those of its accounts.
Built(dashboard) ==
    /\ IsDashboard(dashboard) /\ DashboardFields \subseteq DOMAIN dashboard
    /\ \A account \in ToSet(dashboard.accounts) : TellsApart(account)
    /\ dashboard.totals = [p \in Periods |-> TotalState(dashboard.accounts, p)]

\* A provider reports no limit of its own, and so no percentage of one.
Limitless(account) ==
    \A p \in Periods : account.budget[p].limit = None /\ account.budget[p].percent = None

LimitlessBoards ==
    \A parts \in Boards : \A part \in ToSet(parts) :
       \A account \in ToSet(part.dashboard.accounts) : Limitless(account)

\* A dashboard as it is loaded: where there are accounts, all of it follows from them.
Loaded(dashboard) ==
    /\ Built(dashboard) /\ dashboard.alerts = {}
    /\ dashboard.accounts # <<>> =>
          dashboard = BuildDashboard(dashboard.generatedAt, dashboard.accounts)
    /\ LimitlessBoards => \A account \in ToSet(dashboard.accounts) : Limitless(account)

\* What a dashboard that follows from its accounts says.
Follows(built, generatedAt, accounts) ==
    /\ DashboardFields \subseteq DOMAIN built
    /\ built.generatedAt = generatedAt /\ built.accounts = accounts /\ built.alerts = {}
    /\ built.totals = [p \in Periods |-> TotalState(accounts, p)]

LEMMA BuildFields ==
    ASSUME NEW generatedAt, NEW accounts
    PROVE  Follows(BuildDashboard(generatedAt, accounts), generatedAt, accounts)
  BY DEF BuildDashboard, DashboardFields, Follows

LEMMA BuildIsBuilt ==
    ASSUME NEW generatedAt, NEW accounts, accounts \in Seq(ToSet(accounts)),
           \A account \in ToSet(accounts) : IsAccount(account) /\ TellsApart(account)
    PROVE  Built(BuildDashboard(generatedAt, accounts))
<1> DEFINE built == BuildDashboard(generatedAt, accounts)
<1>1. IsDashboard(built)
  BY BuildTypes
<1>2. Follows(built, generatedAt, accounts)
  BY BuildFields
<1> HIDE DEF built
<1>3. Built(built)
  BY <1>1, <1>2 DEF Built, Follows
<1> QED
  BY <1>3 DEF built

\* Two dashboards merge to one that follows from the accounts of both.
LEMMA MergeIsLoaded ==
    ASSUME NEW a, Loaded(a), NEW b, Loaded(b)
    PROVE  Loaded(MergeDashboards(<<a, b>>))
<1> DEFINE snapshots == <<a, b>>
           lists == [i \in DOMAIN snapshots |-> snapshots[i].accounts]
           generatedAt == Max({s.generatedAt : s \in ToSet(snapshots)})
           accounts == a.accounts \o b.accounts
           merged == BuildDashboard(generatedAt, accounts)
<1>1. lists = <<a.accounts, b.accounts>>
  OBVIOUS
<1>2. FlattenSeq(lists) = accounts
  BY <1>1, FlattenTwo
<1>3. snapshots # <<>>
  OBVIOUS
<1>4. MergeDashboards(snapshots) = merged
  BY <1>2, <1>3 DEF MergeDashboards
<1>5. /\ a.accounts \in Seq(ToSet(a.accounts)) /\ b.accounts \in Seq(ToSet(b.accounts))
      /\ \A account \in ToSet(a.accounts) \cup ToSet(b.accounts) :
            /\ IsAccount(account) /\ TellsApart(account)
            /\ LimitlessBoards => Limitless(account)
  BY DEF Loaded, Built, IsDashboard
<1>6. accounts \in Seq(ToSet(accounts)) /\ ToSet(accounts) \subseteq ToSet(a.accounts) \cup ToSet(b.accounts)
  <2> DEFINE A == ToSet(a.accounts) \cup ToSet(b.accounts)
  <2>1. a.accounts \in Seq(A) /\ b.accounts \in Seq(A)
    BY <1>5, SeqMonotonic
  <2>2. accounts \in Seq(A)
    BY <2>1, ConcatProperties
  <2> HIDE DEF A, accounts
  <2>3. DOMAIN accounts = 1..Len(accounts) /\ Len(accounts) \in Nat
        /\ \A i \in DOMAIN accounts : accounts[i] \in A
    BY <2>2
  <2>4. accounts = [i \in 1..Len(accounts) |-> accounts[i]]
    BY <2>2
  <2>5. accounts \in Seq(ToSet(accounts))
    BY <2>3, <2>4, IsASeq DEF ToSet
  <2> QED
    BY <2>3, <2>5 DEF ToSet, A
<1> HIDE DEF accounts, generatedAt, snapshots
<1>7. Built(merged)
  BY <1>5, <1>6, BuildIsBuilt
<1>8. Follows(merged, generatedAt, accounts)
  BY BuildFields
<1>9. \A account \in ToSet(accounts) : LimitlessBoards => Limitless(account)
  BY <1>5, <1>6
<1>10. merged = BuildDashboard(generatedAt, accounts)
  OBVIOUS
<1> HIDE DEF merged
<1>11. Loaded(merged)
  BY <1>7, <1>8, <1>9, <1>10 DEF Loaded, Follows
<1> QED
  BY <1>4, <1>11 DEF snapshots

LEMMA ListIsSeq ==
    ASSUME NEW f, NEW n \in Nat, f = [i \in 1..n |-> f[i]]
    PROVE  f \in Seq(ToSet(f))
<1>1. \A i \in 1..n : f[i] \in ToSet(f)
  <2>1. DOMAIN f = 1..n
    OBVIOUS
  <2> QED
    BY <2>1 DEF ToSet
<1> QED
  BY <1>1, IsASeq

\* Totals are those of what was spent and is projected, account by account.
LEMMA TotalsFollow ==
    ASSUME NEW a, NEW b, DOMAIN a = DOMAIN b, NEW p,
           \A i \in DOMAIN a : /\ a[i].budget[p].spent = b[i].budget[p].spent
                               /\ a[i].budget[p].projected = b[i].budget[p].projected
    PROVE  TotalState(a, p) = TotalState(b, p)
<1>1. Column(a, p, "spent") = Column(b, p, "spent")
  BY DEF Column
<1>2. Column(a, p, "projected") = Column(b, p, "projected")
  BY DEF Column
<1> QED
  BY <1>1, <1>2 DEF TotalState

LEMMA ReportedIsLoaded ==
    ASSUME NEW d, IsReported(d), LimitlessBoards => \A account \in ToSet(d.accounts) : Limitless(account)
    PROVE  Loaded(d)
<1>1. Follows(d, d.generatedAt, d.accounts)
  BY BuildFields DEF IsReported
<1>2. Built(d)
  BY <1>1 DEF IsReported, Built, Follows, TellsApart
<1> QED
  BY <1>1, <1>2 DEF Loaded, IsReported, Follows

LEMMA StaleAccount ==
    ASSUME NEW account, IsAccount(account), TellsApart(account)
    PROVE  LET stale == [account EXCEPT !.status = "stale"]
           IN /\ IsAccount(stale) /\ TellsApart(stale) /\ stale.status = "stale"
              /\ stale.budget = account.budget
<1> DEFINE stale == [account EXCEPT !.status = "stale"]
<1>1. /\ DOMAIN stale = DOMAIN account /\ stale.status = "stale"
      /\ \A field \in DOMAIN account : field # "status" => stale[field] = account[field]
  BY DEF IsAccount
<1>2. stale.connection = account.connection /\ stale.budget = account.budget
      /\ stale.allowances = account.allowances
  BY <1>1 DEF IsAccount
<1>4. stale = [field \in DOMAIN stale |-> stale[field]]
  OBVIOUS
<1> HIDE DEF stale
<1>3. IsAccount(stale) /\ TellsApart(stale)
  BY <1>1, <1>2, <1>4, StatusesAre DEF HasFields, IsAccount, TellsApart
<1> QED
  BY <1>1, <1>2, <1>3 DEF stale

LEMMA StaleIsLoaded ==
    ASSUME NEW d, Loaded(d)
    PROVE  Loaded(WithStaleStatus(d))
<1> DEFINE accounts == [i \in DOMAIN d.accounts |-> [d.accounts[i] EXCEPT !.status = "stale"]]
           watch == [d.watch EXCEPT !.status = "stale"]
           stale == WithStaleStatus(d)
<1>1. /\ IsDashboard(d) /\ DashboardFields \subseteq DOMAIN d
      /\ \A account \in ToSet(d.accounts) : IsAccount(account) /\ TellsApart(account)
  BY DEF Loaded, Built, IsDashboard
<1>2. /\ DOMAIN stale = DOMAIN d
      /\ stale.generatedAt = d.generatedAt /\ stale.status = "stale" /\ stale.accounts = accounts
      /\ stale.totals = d.totals /\ stale.alerts = d.alerts /\ stale.watch = watch
  BY <1>1 DEF WithStaleStatus, DashboardFields
<1>16. stale = [field \in DOMAIN d |-> stale[field]]
  BY DEF WithStaleStatus
<1>3. PICK n \in Nat : DOMAIN d.accounts = 1..n
  BY <1>1, LenProperties DEF IsDashboard
<1>4. \A i \in 1..n : d.accounts[i] \in ToSet(d.accounts)
  BY <1>3 DEF ToSet
<1>5. \A i \in 1..n : /\ IsAccount(accounts[i]) /\ TellsApart(accounts[i])
                      /\ accounts[i].status = "stale" /\ accounts[i].budget = d.accounts[i].budget
  <2> TAKE i \in 1..n
  <2>1. accounts[i] = [d.accounts[i] EXCEPT !.status = "stale"]
    BY <1>3
  <2> QED
    BY <1>1, <1>4, <2>1, StaleAccount
<1>6. DOMAIN accounts = 1..n /\ accounts = [i \in 1..n |-> accounts[i]]
  BY <1>3
<1> HIDE DEF accounts, stale
<1>7. accounts \in Seq(ToSet(accounts))
  BY <1>6, ListIsSeq
<1>8. \A account \in ToSet(accounts) : IsAccount(account) /\ TellsApart(account)
  BY <1>5, <1>6 DEF ToSet
<1>9. \A p \in Periods : TotalState(accounts, p) = TotalState(d.accounts, p)
  BY <1>3, <1>5, <1>6, TotalsFollow, SMTT(30)
<1>10. stale.totals = [p \in Periods |-> TotalState(accounts, p)]
  BY <1>2, <1>9 DEF Loaded, Built
<1>11. watch \in WatchSummaries
  BY <1>1, StatusesAre DEF IsDashboard, WatchSummaries
<1>12. Built(stale)
  <2>1. stale.status \in Statuses /\ stale.totals \in [Periods -> BudgetStates]
    BY <1>1, <1>2, StatusesAre DEF IsDashboard
  <2> QED
    BY <1>1, <1>2, <1>7, <1>8, <1>10, <1>11, <2>1 DEF Built, IsDashboard
<1>13. ASSUME stale.accounts # <<>>
       PROVE  stale = BuildDashboard(stale.generatedAt, stale.accounts)
  <2>1. 1 \in 1..n
    <3>1. n # 0
      BY <1>2, <1>6, <1>13
    <3> QED
      BY <3>1
  <2>2. d = BuildDashboard(d.generatedAt, d.accounts)
    <3>1. d.accounts # <<>>
      BY <1>3, <2>1
    <3> QED
      BY <3>1 DEF Loaded
  <2>3. {accounts[i].status : i \in DOMAIN accounts} = {"stale"}
    BY <1>5, <1>6, <2>1
  <2>4. Worst({"stale"}) = "stale"
    BY WorstIsTop, StatusesAre
  <2>5. watch = [today |-> d.totals["today"].percent, week |-> d.totals["week"].percent,
                 status |-> "stale"]
    BY <2>2 DEF BuildDashboard
  <2> HIDE DEF watch
  <2>6. BuildDashboard(d.generatedAt, accounts) =
            [generatedAt |-> d.generatedAt, status |-> "stale", accounts |-> accounts,
             totals |-> stale.totals, alerts |-> {}, watch |-> watch]
    BY <1>2, <1>10, <2>3, <2>4, <2>5 DEF BuildDashboard
  <2>7. DOMAIN d = DashboardFields /\ d.alerts = {}
    BY <2>2 DEF BuildDashboard, DashboardFields
  <2>8. stale = [generatedAt |-> d.generatedAt, status |-> "stale", accounts |-> accounts,
                 totals |-> stale.totals, alerts |-> {}, watch |-> watch]
    BY <1>2, <1>16, <2>7 DEF DashboardFields
  <2> QED
    BY <1>2, <2>6, <2>8
<1>14. LimitlessBoards => \A account \in ToSet(accounts) : Limitless(account)
  <2> SUFFICES ASSUME LimitlessBoards
               PROVE  \A i \in 1..n : Limitless(accounts[i])
    BY <1>6 DEF ToSet
  <2>1. \A i \in 1..n : Limitless(d.accounts[i])
    BY <1>4 DEF Loaded
  <2> QED
    BY <1>5, <2>1 DEF Limitless
<1>15. stale.alerts = {}
  BY <1>2 DEF Loaded
<1> QED
  BY <1>2, <1>12, <1>13, <1>14, <1>15 DEF Loaded, stale

LEMMA EmptyIsLoaded == Loaded(EmptyDashboard)
<1> DEFINE d == EmptyDashboard
<1>1. /\ d.generatedAt = 0 /\ d.status = "ok" /\ d.accounts = <<>> /\ d.alerts = {}
      /\ d.totals = [p \in Periods |-> UnknownBudget]
      /\ d.watch = [today |-> None, week |-> None, status |-> "ok"]
      /\ DashboardFields \subseteq DOMAIN d
  BY DEF EmptyDashboard, DashboardFields
<1> HIDE DEF d
<1>2. ToSet(d.accounts) = {} /\ DOMAIN d.accounts = {} /\ d.accounts \in Seq(ToSet(d.accounts))
  BY <1>1 DEF ToSet
<1>3. \A p \in Periods : TotalState(d.accounts, p) = UnknownBudget
  <2> TAKE p \in Periods
  <2>1. DOMAIN Column(d.accounts, p, "spent") = {} /\ DOMAIN Column(d.accounts, p, "projected") = {}
    BY <1>2 DEF Column
  <2> QED
    BY <2>1, NoMoney DEF TotalState, UnknownBudget
<1>4. UnknownBudget \in BudgetStates
  BY BudgetTypes DEF UnknownBudget, Option
<1>5. d.watch \in WatchSummaries
  BY <1>1, StatusesAre DEF WatchSummaries, Option
<1>6. Built(d)
  BY <1>1, <1>2, <1>3, <1>4, <1>5, StatusesAre DEF Built, IsDashboard
<1> QED
  BY <1>1, <1>2, <1>6 DEF Loaded, d

\* What the merge of the first n snapshots has come to.
Merges(merged, snapshots) ==
    merged = [n \in DOMAIN snapshots |->
                 IF n = 1 THEN snapshots[1] ELSE MergeDashboards(<<merged[n - 1], snapshots[n]>>)]

LEMMA MergesExist ==
    ASSUME NEW snapshots, NEW n \in Nat, DOMAIN snapshots = 1..n
    PROVE  \E merged : Merges(merged, snapshots)
<1> DEFINE Upto(f, k) ==
               f = [i \in 1..k |-> IF i = 1 THEN snapshots[1]
                                   ELSE MergeDashboards(<<f[i - 1], snapshots[i]>>)]
           T == {k \in Nat : ~ \E f : Upto(f, k)}
<1>1. 0 \notin T
  <2> DEFINE f == [i \in 1..0 |-> None]
  <2>1. Upto(f, 0)
    OBVIOUS
  <2> QED
    BY <2>1
<1>2. ASSUME NEW k \in Nat, k \notin T
      PROVE  k + 1 \notin T
  <2>1. PICK f : Upto(f, k)
    BY <1>2
  <2> DEFINE last == IF k = 0 THEN snapshots[1] ELSE MergeDashboards(<<f[k], snapshots[k + 1]>>)
             h == [i \in 1..(k + 1) |-> IF i = k + 1 THEN last ELSE f[i]]
  <2>2. ASSUME NEW i \in 1..(k + 1)
        PROVE  h[i] = IF i = 1 THEN snapshots[1] ELSE MergeDashboards(<<h[i - 1], snapshots[i]>>)
    <3>1. CASE i = k + 1
      <4>1. h[i] = last
        BY <3>1
      <4>2. k # 0 => h[i - 1] = f[k]
        BY <3>1
      <4>3. (k = 0 <=> i = 1) /\ k + 1 = i
        BY <3>1
      <4> QED
        BY <4>1, <4>2, <4>3
    <3>2. CASE i # k + 1
      <4>1. i \in 1..k /\ h[i] = f[i]
        BY <3>2
      <4>2. f[i] = IF i = 1 THEN snapshots[1] ELSE MergeDashboards(<<f[i - 1], snapshots[i]>>)
        BY <2>1, <4>1
      <4>3. i # 1 => h[i - 1] = f[i - 1]
        BY <4>1
      <4> QED
        BY <4>1, <4>2, <4>3
    <3> QED
      BY <3>1, <3>2
  <2>3. h = [i \in 1..(k + 1) |-> h[i]]
    OBVIOUS
  <2> HIDE DEF h
  <2>4. Upto(h, k + 1)
    BY <2>2, <2>3
  <2> QED
    BY <2>4
<1>6. T \subseteq Nat
  OBVIOUS
<1> HIDE DEF T
<1>3. T = {}
  <2> SUFFICES ASSUME T # {}
               PROVE  FALSE
    OBVIOUS
  <2>2. PICK k \in T : \A m \in T : k <= m
    BY <1>6, LeastNumber
  <2>3. k \in Nat /\ k # 0 /\ k - 1 \notin T
    BY <1>1, <1>6, <2>2
  <2>4. k - 1 \in Nat /\ (k - 1) + 1 = k
    BY <2>3
  <2> QED
    BY <1>2, <2>2, <2>3, <2>4
<1>4. PICK f : Upto(f, n)
  BY <1>3 DEF T
<1>5. Merges(f, snapshots)
  BY <1>4 DEF Merges
<1> QED
  BY <1>5

\* However many snapshots are merged, one after the other.
LEMMA MergeAllIsLoaded ==
    ASSUME NEW snapshots, NEW n \in Nat, DOMAIN snapshots = 1..n, Len(snapshots) = n,
           \A i \in 1..n : Loaded(snapshots[i])
    PROVE  Loaded(MergeAll(snapshots))
<1> DEFINE merged == CHOOSE merged : Merges(merged, snapshots)
<1>1. Merges(merged, snapshots)
  BY MergesExist
<1>2. MergeAll(snapshots) = IF snapshots = <<>> THEN EmptyDashboard ELSE merged[Len(snapshots)]
  BY Zenon DEF MergeAll, Merges
<1> HIDE DEF merged
<1> DEFINE T == {k \in 1..n : ~Loaded(merged[k])}
<1>3. T = {}
  <2> SUFFICES ASSUME T # {}
               PROVE  FALSE
    OBVIOUS
  <2>1. T \subseteq Nat
    OBVIOUS
  <2>2. PICK k \in T : \A m \in T : k <= m
    BY <2>1, LeastNumber
  <2>3. k \in 1..n /\ ~Loaded(merged[k])
    BY <2>2
  <2>4. merged[k] = IF k = 1 THEN snapshots[1] ELSE MergeDashboards(<<merged[k - 1], snapshots[k]>>)
    BY <1>1, <2>3 DEF Merges
  <2>5. k # 1
    BY <2>3, <2>4
  <2>6. k - 1 \in 1..n /\ ~(k <= k - 1)
    BY <2>3, <2>5
  <2>7. Loaded(merged[k - 1])
    BY <2>2, <2>6
  <2> QED
    BY <2>3, <2>4, <2>5, <2>7, MergeIsLoaded
<1>4. snapshots # <<>> => n \in 1..n
  <2> SUFFICES ASSUME n = 0
               PROVE  snapshots = <<>>
    OBVIOUS
  <2> QED
    OBVIOUS
<1>5. snapshots # <<>> => Loaded(merged[Len(snapshots)])
  BY <1>3, <1>4
<1> QED
  BY <1>2, <1>5, EmptyIsLoaded

\* What is loaded of the parts of a load.
LEMMA BoardIsLoaded ==
    ASSUME NEW parts \in Boards
    PROVE  Loaded(MergeAll([i \in DOMAIN parts |-> PartSnapshot(parts[i])]))
<1> DEFINE snapshots == [i \in DOMAIN parts |-> PartSnapshot(parts[i])]
<1>1. PICK n \in Nat : n = Len(parts) /\ DOMAIN parts = 1..n
  BY BoardAssumption, LenProperties
<1>2. \A i \in 1..n : Loaded(snapshots[i])
  <2> TAKE i \in 1..n
  <2>1. parts[i] \in ToSet(parts)
    BY <1>1 DEF ToSet
  <2>2. IsReported(parts[i].dashboard)
    BY <2>1, BoardAssumption
  <2>3. LimitlessBoards => \A account \in ToSet(parts[i].dashboard.accounts) : Limitless(account)
    BY <2>1 DEF LimitlessBoards
  <2>4. Loaded(parts[i].dashboard)
    BY <2>2, <2>3, ReportedIsLoaded
  <2>5. Loaded(PartSnapshot(parts[i]))
    BY <2>4, StaleIsLoaded DEF PartSnapshot
  <2> QED
    BY <1>1, <2>5
<1>3. DOMAIN snapshots = 1..n /\ Len(snapshots) = n
  BY <1>1
<1> HIDE DEF snapshots
<1>4. Loaded(MergeAll(snapshots))
  BY <1>2, <1>3, MergeAllIsLoaded
<1> QED
  BY <1>4 DEF snapshots

-----------------------------------------------------------------------------
(***************************************************************************)
(* The alert settings applied to an account.                                *)
(***************************************************************************)
Applied(account, settings) == RaiseCrossedThresholds(ApplyLocalBudget(account, settings), settings)

\* A budget measured against the user's own limit.
LimitedTo(state, limit) ==
    IF limit = None \/ state.spent = None THEN state
    ELSE CalculateBudgetState(state.spent, [state.spent EXCEPT !.minor = limit], state.projected)

HasCrossed(account, at) ==
    \E i \in DOMAIN account.allowances :
       Crossed(account.allowances[i].percent, at[account.allowances[i].meter])

\* What applying rules makes of an account, field by field.
AppliedBy(new, account, rules) ==
    /\ new = [field \in DOMAIN account |-> new[field]]
    /\ \A field \in DOMAIN account :
          field \notin {"status", "budget", "allowances"} => new[field] = account[field]
    /\ new.budget = [p \in Periods |->
          Raised(LimitedTo(account.budget[p], rules.limits[p]), rules.at[p])]
    /\ new.allowances = [i \in DOMAIN account.allowances |->
          Raised(account.allowances[i], rules.at[account.allowances[i].meter])]
    /\ new.status = IF HasCrossed(account, rules.at) THEN Worst({account.status, "warning"})
                    ELSE account.status

LEMMA SameRules ==
    ASSUME NEW settings, NEW a, NEW b, a.connection = b.connection, a.provider = b.provider
    PROVE  /\ RulesOf(settings, a) = RulesOf(settings, b)
           /\ ConnectionKey(a) = ConnectionKey(b)
  BY DEF RulesOf, ConnectionKey

LEMMA AppliedFields ==
    ASSUME NEW account, IsAccount(account), NEW settings
    PROVE  AppliedBy(Applied(account, settings), account, RulesOf(settings, account))
<1> DEFINE rules == RulesOf(settings, account)
           local == ApplyLocalBudget(account, settings)
           new == Applied(account, settings)
           budget == [p \in Periods |-> LimitedTo(account.budget[p], rules.limits[p])]
           raised == [p \in Periods |-> Raised(budget[p], rules.at[p])]
           windows == [i \in DOMAIN account.allowances |->
                          Raised(account.allowances[i], rules.at[account.allowances[i].meter])]
           status == IF HasCrossed(account, rules.at) THEN Worst({account.status, "warning"})
                     ELSE account.status
<1>1. {"id", "provider", "connection", "status", "budget", "allowances"} \subseteq DOMAIN account
  BY DEF HasFields, IsAccount
<1>2. local = [account EXCEPT !.budget = budget]
  BY DEF ApplyLocalBudget, LimitedTo
<1> HIDE DEF local, budget
<1>3. /\ DOMAIN local = DOMAIN account /\ local.budget = budget
      /\ \A field \in DOMAIN account : field # "budget" => local[field] = account[field]
  BY <1>1, <1>2
<1>4. /\ local.connection = account.connection /\ local.provider = account.provider
      /\ local.allowances = account.allowances /\ local.status = account.status
  BY <1>1, <1>3
<1>5. RulesOf(settings, local) = rules
  BY <1>4, SameRules
<1> HIDE DEF rules
<1>6. new = [local EXCEPT !.allowances = windows, !.status = status, !.budget = raised]
  BY <1>3, <1>4, <1>5 DEF Applied, RaiseCrossedThresholds, HasCrossed, local
<1> HIDE DEF windows, status, raised, new
<1>7. /\ new = [field \in DOMAIN account |-> new[field]]
      /\ new.allowances = windows /\ new.status = status /\ new.budget = raised
      /\ \A field \in DOMAIN account :
            field \notin {"status", "budget", "allowances"} => new[field] = account[field]
  BY <1>1, <1>3, <1>6
<1>8. raised = [p \in Periods |-> Raised(LimitedTo(account.budget[p], rules.limits[p]), rules.at[p])]
  BY DEF raised, budget
<1> QED
  BY <1>7, <1>8 DEF AppliedBy, windows, status, rules, new

LEMMA NoRulesAreRules == NoRules \in Rules
  BY DEF NoRules, Rules, Option

LEMMA RulesOfTypes ==
    ASSUME NEW settings, settings \in [DOMAIN settings -> Rules], NEW account
    PROVE  RulesOf(settings, account) \in Rules
  BY NoRulesAreRules DEF RulesOf

LEMMA LimitedTypes ==
    ASSUME NEW state \in BudgetStates, NEW limit \in Option(Int)
    PROVE  /\ LimitedTo(state, limit) \in BudgetStates
           /\ LimitedTo(state, limit).spent = state.spent
           /\ LimitedTo(state, limit).projected = state.projected
<1>1. CASE limit = None \/ state.spent = None
  BY <1>1 DEF LimitedTo
<1>2. CASE ~(limit = None \/ state.spent = None)
  <2> DEFINE capped == [state.spent EXCEPT !.minor = limit]
  <2>1. state.spent \in Money /\ limit \in Int /\ state.projected \in Option(Money)
    BY <1>2 DEF BudgetStates, Option
  <2>2. capped \in Option(Money) /\ state.spent \in Option(Money)
    BY <2>1 DEF Money, Option
  <2>3. LimitedTo(state, limit) = CalculateBudgetState(state.spent, capped, state.projected)
    BY <1>2 DEF LimitedTo
  <2> HIDE DEF capped
  <2>4. LimitedTo(state, limit) \in BudgetStates
    BY <2>1, <2>2, <2>3, BudgetTypes
  <2> QED
    BY <2>3, <2>4 DEF CalculateBudgetState
<1> QED
  BY <1>1, <1>2

LEMMA RaisedBudget ==
    ASSUME NEW state \in BudgetStates, NEW at
    PROVE  /\ Raised(state, at) \in BudgetStates
           /\ Raised(state, at).spent = state.spent /\ Raised(state, at).percent = state.percent
           /\ Raised(state, at).projected = state.projected
           /\ Crossed(state.percent, at) => AtLeast(Raised(state, at).status, "warning")
<1>1. state.status \in Statuses
  BY DEF BudgetStates
<1>2. Worst({state.status, "warning"}) \in Statuses /\ AtLeast(Worst({state.status, "warning"}), "warning")
  BY <1>1, RaisedStatus
<1> QED
  BY <1>2 DEF Raised, BudgetStates

LEMMA RaisedWindow ==
    ASSUME NEW window, IsAllowance(window), NEW at
    PROVE  LET new == Raised(window, at)
           IN /\ IsAllowance(new) /\ DOMAIN new = DOMAIN window
              /\ \A field \in DOMAIN window : field # "status" => new[field] = window[field]
              /\ new.id = window.id /\ new.percent = window.percent /\ new.meter = window.meter
              /\ new.unlimited = window.unlimited
              /\ AtLeast(new.status, window.status)
              /\ Crossed(window.percent, at) => AtLeast(new.status, "warning")
<1> DEFINE new == Raised(window, at)
           worst == Worst({window.status, "warning"})
<1>1. window.status \in Statuses
  BY DEF IsAllowance
<1>2. worst \in Statuses /\ AtLeast(worst, window.status) /\ AtLeast(worst, "warning")
      /\ AtLeast(window.status, window.status)
  BY <1>1, RaisedStatus, SameStatus
<1>3. new = IF Crossed(window.percent, at) THEN [window EXCEPT !.status = worst] ELSE window
  BY DEF Raised
<1>7. new = [field \in DOMAIN new |-> new[field]]
  BY <1>3 DEF IsAllowance, HasFields
<1> HIDE DEF new, worst
<1>4. /\ DOMAIN new = DOMAIN window
      /\ \A field \in DOMAIN window : field # "status" => new[field] = window[field]
      /\ new.status = IF Crossed(window.percent, at) THEN worst ELSE window.status
  BY <1>3 DEF IsAllowance
<1>5. /\ new.id = window.id /\ new.percent = window.percent /\ new.meter = window.meter
      /\ new.unlimited = window.unlimited
  BY <1>4 DEF HasFields, IsAllowance
<1>6. IsAllowance(new)
  BY <1>1, <1>2, <1>4, <1>5, <1>7 DEF HasFields, IsAllowance
<1> QED
  BY <1>2, <1>4, <1>5, <1>6 DEF new

\* What the settings leave of an account: everything but statuses that got worse
\* and budgets measured against other limits.
Shows(new, old) ==
    /\ new.id = old.id /\ new.provider = old.provider /\ new.connection = old.connection
    /\ AtLeast(new.status, old.status)
    /\ DOMAIN new.allowances = DOMAIN old.allowances
    /\ \A j \in DOMAIN old.allowances :
          /\ new.allowances[j].id = old.allowances[j].id
          /\ new.allowances[j].percent = old.allowances[j].percent
          /\ new.allowances[j].unlimited = old.allowances[j].unlimited
          /\ AtLeast(new.allowances[j].status, old.allowances[j].status)
    /\ \A p \in Periods : /\ new.budget[p].spent = old.budget[p].spent
                          /\ new.budget[p].projected = old.budget[p].projected

\* An alert of an account stands beside a card of it that looks the part.
Beside(account, alert) ==
    /\ account.id = alert[1]
    /\ LET statuses == CardStatuses(account, alert[2], alert[3])
       IN statuses # {} /\ \A s \in statuses : AtLeast(s, "warning")

IsSettings(settings) ==
    settings \in [DOMAIN settings -> Rules] /\ DOMAIN settings \subseteq Connections

LEMMA ShowsIsTransitive ==
    ASSUME NEW a, IsAccount(a), NEW b, IsAccount(b), NEW c, IsAccount(c), Shows(a, b), Shows(b, c)
    PROVE  Shows(a, c)
<1>1. a.status \in Statuses /\ b.status \in Statuses /\ c.status \in Statuses
  BY DEF IsAccount
<1>2. AtLeast(a.status, c.status)
  BY <1>1, WorseOnWorse DEF Shows
<1>3. \A j \in DOMAIN c.allowances : AtLeast(a.allowances[j].status, c.allowances[j].status)
  <2> TAKE j \in DOMAIN c.allowances
  <2>1. /\ a.allowances[j].status \in Statuses /\ b.allowances[j].status \in Statuses
        /\ c.allowances[j].status \in Statuses
    BY DEF IsAccount, IsAllowance, ToSet, Shows
  <2> QED
    BY <2>1, WorseOnWorse DEF Shows
<1> QED
  BY <1>2, <1>3 DEF Shows

LEMMA ShowsIsReflexive ==
    ASSUME NEW a, IsAccount(a)
    PROVE  Shows(a, a)
<1>1. AtLeast(a.status, a.status)
  BY SameStatus DEF IsAccount
<1>2. \A j \in DOMAIN a.allowances : AtLeast(a.allowances[j].status, a.allowances[j].status)
  BY SameStatus DEF IsAccount, IsAllowance, ToSet
<1> QED
  BY <1>1, <1>2 DEF Shows

LEMMA AppliedShows ==
    ASSUME NEW account, IsAccount(account), TellsApart(account),
           NEW settings, IsSettings(settings)
    PROVE  /\ IsAccount(Applied(account, settings)) /\ TellsApart(Applied(account, settings))
           /\ Shows(Applied(account, settings), account)
           /\ \A alert \in AlertsForAccount(Applied(account, settings), settings) :
                 Beside(Applied(account, settings), alert)
<1> DEFINE new == Applied(account, settings)
           rules == RulesOf(settings, account)
<1>1. AppliedBy(new, account, rules)
  BY AppliedFields
<1>2. rules \in Rules
  BY RulesOfTypes DEF IsSettings
<1> HIDE DEF new, rules
<1>3. /\ DOMAIN new = DOMAIN account
      /\ new.id = account.id /\ new.provider = account.provider
      /\ new.connection = account.connection
  BY <1>1 DEF HasFields, AppliedBy, IsAccount
<1>4. \A p \in Periods :
         /\ LimitedTo(account.budget[p], rules.limits[p]) \in BudgetStates
         /\ LimitedTo(account.budget[p], rules.limits[p]).spent = account.budget[p].spent
         /\ LimitedTo(account.budget[p], rules.limits[p]).projected = account.budget[p].projected
  <2> TAKE p \in Periods
  <2>1. account.budget[p] \in BudgetStates /\ rules.limits[p] \in Option(Int)
    BY <1>2 DEF IsAccount, Rules
  <2> QED
    BY <2>1, LimitedTypes
<1>5. \A p \in Periods :
         /\ new.budget[p] \in BudgetStates
         /\ new.budget[p].spent = account.budget[p].spent
         /\ new.budget[p].projected = account.budget[p].projected
         /\ Crossed(new.budget[p].percent, rules.at[p]) => AtLeast(new.budget[p].status, "warning")
  <2> TAKE p \in Periods
  <2> DEFINE state == LimitedTo(account.budget[p], rules.limits[p])
  <2>1. new.budget[p] = Raised(state, rules.at[p])
    BY <1>1 DEF AppliedBy
  <2>2. state \in BudgetStates /\ state.spent = account.budget[p].spent
        /\ state.projected = account.budget[p].projected
    BY <1>4
  <2> HIDE DEF state
  <2> QED
    BY <2>1, <2>2, RaisedBudget
<1>6. DOMAIN new.allowances = DOMAIN account.allowances
  BY <1>1 DEF AppliedBy
<1>7. \A j \in DOMAIN account.allowances :
         /\ IsAllowance(new.allowances[j])
         /\ new.allowances[j].id = account.allowances[j].id
         /\ new.allowances[j].percent = account.allowances[j].percent
         /\ new.allowances[j].meter = account.allowances[j].meter
         /\ new.allowances[j].unlimited = account.allowances[j].unlimited
         /\ AtLeast(new.allowances[j].status, account.allowances[j].status)
         /\ Crossed(account.allowances[j].percent, rules.at[account.allowances[j].meter])
               => AtLeast(new.allowances[j].status, "warning")
  <2> TAKE j \in DOMAIN account.allowances
  <2>1. new.allowances[j] = Raised(account.allowances[j], rules.at[account.allowances[j].meter])
    BY <1>1 DEF AppliedBy
  <2>2. IsAllowance(account.allowances[j])
    BY DEF IsAccount, ToSet
  <2> QED
    BY <2>1, <2>2, RaisedWindow
<1>8. new.status \in Statuses /\ AtLeast(new.status, account.status)
  <2>1. account.status \in Statuses
    BY DEF IsAccount
  <2> QED
    BY <1>1, <2>1, RaisedStatus, SameStatus DEF AppliedBy
<1>9. IsAccount(new)
  <2>1. new.budget \in [Periods -> BudgetStates]
    <3>1. new.budget = [p \in Periods |-> new.budget[p]]
      BY <1>1 DEF AppliedBy
    <3> QED
      BY <1>5, <3>1
  <2>3. new.allowances \in Seq(ToSet(new.allowances))
    <3>1. PICK n \in Nat : DOMAIN account.allowances = 1..n
      BY LenProperties DEF IsAccount
    <3>2. new.allowances = [j \in 1..n |-> new.allowances[j]]
      BY <1>1, <3>1 DEF AppliedBy
    <3> QED
      BY <3>2, ListIsSeq
  <2>2. \A window \in ToSet(new.allowances) : IsAllowance(window)
    BY <1>6, <1>7 DEF ToSet
  <2> QED
    BY <1>1, <1>3, <1>8, <2>1, <2>2, <2>3 DEF HasFields, IsAccount, AppliedBy
<1>10. TellsApart(new)
  BY <1>6, <1>7 DEF TellsApart
<1>11. Shows(new, account)
  BY <1>3, <1>5, <1>6, <1>7, <1>8 DEF Shows
<1>12. ASSUME NEW alert \in AlertsForAccount(new, settings)
       PROVE  Beside(new, alert)
  <2>1. RulesOf(settings, new) = rules
    BY <1>3, SameRules DEF rules
  <2>2. \/ \E p \in Periods : /\ Crossed(new.budget[p].percent, rules.at[p])
                              /\ alert = <<new.id, "budget", p>>
        \/ \E i \in DOMAIN new.allowances :
              /\ Crossed(new.allowances[i].percent, rules.at[new.allowances[i].meter])
              /\ alert = <<new.id, "window", new.allowances[i].id>>
    BY <1>12, <2>1 DEF AlertsForAccount, Alert
  <2>3. ASSUME NEW p \in Periods, Crossed(new.budget[p].percent, rules.at[p]),
               alert = <<new.id, "budget", p>>
        PROVE  Beside(new, alert)
    <3>1. CardStatuses(new, alert[2], alert[3]) = {new.budget[p].status}
      BY <2>3 DEF CardStatuses
    <3> QED
      BY <1>5, <2>3, <3>1 DEF Beside
  <2>4. ASSUME NEW i \in DOMAIN new.allowances,
               Crossed(new.allowances[i].percent, rules.at[new.allowances[i].meter]),
               alert = <<new.id, "window", new.allowances[i].id>>
        PROVE  Beside(new, alert)
    <3>1. AtLeast(new.allowances[i].status, "warning")
      BY <1>6, <1>7, <2>4
    <3>2. CardStatuses(new, alert[2], alert[3])
            = {w.status : w \in {v \in ToSet(new.allowances) : v.id = new.allowances[i].id}}
      BY <2>4 DEF CardStatuses
    <3>3. {v \in ToSet(new.allowances) : v.id = new.allowances[i].id} = {new.allowances[i]}
      BY <1>10 DEF ToSet, TellsApart
    <3>4. CardStatuses(new, alert[2], alert[3]) = {new.allowances[i].status}
      BY <3>2, <3>3
    <3> QED
      BY <2>4, <3>1, <3>4 DEF Beside
  <2> QED
    BY <2>2, <2>3, <2>4
<1> QED
  BY <1>9, <1>10, <1>11, <1>12 DEF new

-----------------------------------------------------------------------------
(***************************************************************************)
(* The alert settings applied to a dashboard.                               *)
(***************************************************************************)
AppliedAccounts(dashboard, settings) ==
    [i \in DOMAIN dashboard.accounts |-> Applied(dashboard.accounts[i], settings)]

\* Every account is shown, and every alert beside a card of one.
ShowsAll(new, old) ==
    /\ DOMAIN new.accounts = DOMAIN old.accounts
    /\ \A i \in DOMAIN old.accounts : Shows(new.accounts[i], old.accounts[i])

AlertsBeside(dashboard) ==
    \A alert \in dashboard.alerts : \E account \in ToSet(dashboard.accounts) : Beside(account, alert)

LEMMA SettingsFields ==
    ASSUME NEW d, NEW settings
    PROVE  LET built == BuildDashboard(d.generatedAt, AppliedAccounts(d, settings))
           IN ApplyAlertSettings(d, settings)
                  = [built EXCEPT !.alerts = CalculateAlerts(built, settings)]
  BY DEF ApplyAlertSettings, AppliedAccounts, Applied

LEMMA SettingsShow ==
    ASSUME NEW d, Built(d), NEW settings, IsSettings(settings)
    PROVE  LET new == ApplyAlertSettings(d, settings)
           IN Built(new) /\ ShowsAll(new, d) /\ AlertsBeside(new)
<1> DEFINE accounts == AppliedAccounts(d, settings)
           built == BuildDashboard(d.generatedAt, accounts)
           alerts == CalculateAlerts(built, settings)
           new == ApplyAlertSettings(d, settings)
<1>1. PICK n \in Nat : DOMAIN d.accounts = 1..n
  BY LenProperties DEF Built, IsDashboard
<1>2. DOMAIN accounts = 1..n /\ accounts = [i \in 1..n |-> accounts[i]]
      /\ \A i \in 1..n : accounts[i] = Applied(d.accounts[i], settings)
  BY <1>1 DEF AppliedAccounts
<1> HIDE DEF accounts
<1>3. \A i \in 1..n : IsAccount(d.accounts[i]) /\ TellsApart(d.accounts[i])
  BY <1>1 DEF Built, IsDashboard, ToSet
<1>4. \A i \in 1..n :
         /\ IsAccount(accounts[i]) /\ TellsApart(accounts[i]) /\ Shows(accounts[i], d.accounts[i])
         /\ \A alert \in AlertsForAccount(accounts[i], settings) : Beside(accounts[i], alert)
  BY <1>2, <1>3, AppliedShows
<1>5. accounts \in Seq(ToSet(accounts))
  BY <1>2, ListIsSeq
<1>6. \A account \in ToSet(accounts) : IsAccount(account) /\ TellsApart(account)
  BY <1>2, <1>4 DEF ToSet
<1>7. Built(built)
  BY <1>5, <1>6, BuildIsBuilt
<1>8. Follows(built, d.generatedAt, accounts)
  BY BuildFields
<1>9. new = [built EXCEPT !.alerts = alerts]
  BY SettingsFields DEF accounts
<1> HIDE DEF built, alerts, new
<1>10. /\ DOMAIN new = DOMAIN built /\ new.alerts = alerts
       /\ new.status = built.status /\ new.watch = built.watch /\ new.totals = built.totals
       /\ new.accounts = accounts
  BY <1>8, <1>9 DEF Follows, DashboardFields
<1>11. Built(new)
  BY <1>7, <1>8, <1>10 DEF Built, IsDashboard, Follows
<1>12. ShowsAll(new, d)
  BY <1>1, <1>2, <1>4, <1>10 DEF ShowsAll
<1>13. AlertsBeside(new)
  <2>1. alerts = UNION {AlertsForAccount(accounts[i], settings) : i \in 1..n}
    BY <1>2, <1>8 DEF alerts, CalculateAlerts, Follows
  <2>2. \A i \in 1..n : accounts[i] \in ToSet(accounts)
    BY <1>2 DEF ToSet
  <2> QED
    BY <1>4, <1>10, <2>1, <2>2 DEF AlertsBeside
<1> QED
  BY <1>11, <1>12, <1>13 DEF new

\* A refusal is not a dashboard: what is refused is told apart from what is answered.
RefusalIsNoDashboard == ~IsDashboard(Refused)

LEMMA EnvelopeOf ==
    ASSUME RefusalIsNoDashboard, NEW d, IsDashboard(d)
    PROVE  Envelope(d).payload = d
<1>1. d # Refused
  BY DEF RefusalIsNoDashboard
<1> QED
  BY <1>1 DEF Envelope

LEMMA SettingsAreThere ==
    ASSUME NEW settings, IsSettings(settings)
    PROVE  settings # None /\ settings # Refused
  BY SettingsAssumption DEF IsSettings

\* With rules the core answers, without the alerts are cleared.
LEMMA UserSettings ==
    ASSUME RefusalIsNoDashboard, NEW d, Built(d), NEW settings, IsSettings(settings)
    PROVE  ApplyUserAlertSettings(d, settings)
             = IF HasEnabledRules(settings) THEN ApplyAlertSettings(d, settings)
               ELSE [d EXCEPT !.alerts = {}]
<1>1. d # Refused
  BY DEF Built, RefusalIsNoDashboard
<1>2. ApplyAlertSettingsEnvelope(d, settings) = Envelope(ApplyAlertSettings(d, settings))
  BY <1>1, SettingsAreThere DEF ApplyAlertSettingsEnvelope
<1>3. IsDashboard(ApplyAlertSettings(d, settings))
  BY SettingsShow DEF Built
<1>4. ApplyAlertSettingsEnvelope(d, settings).payload = ApplyAlertSettings(d, settings)
  BY <1>2, <1>3, EnvelopeOf
<1> QED
  BY <1>4 DEF ApplyUserAlertSettings

LEMMA Unalerted ==
    ASSUME NEW d, Built(d)
    PROVE  LET new == [d EXCEPT !.alerts = {}]
           IN /\ Built(new) /\ ShowsAll(new, d) /\ AlertsBeside(new)
              /\ new.accounts = d.accounts /\ new.generatedAt = d.generatedAt
<1> DEFINE new == [d EXCEPT !.alerts = {}]
<1>1. /\ DOMAIN new = DOMAIN d /\ new.alerts = {} /\ new.generatedAt = d.generatedAt
      /\ new.status = d.status /\ new.watch = d.watch /\ new.totals = d.totals
      /\ new.accounts = d.accounts
  BY DEF Built, DashboardFields
<1> HIDE DEF new
<1>2. Built(new) /\ AlertsBeside(new)
  BY <1>1 DEF Built, IsDashboard, AlertsBeside
<1>3. ShowsAll(new, d)
  BY <1>1, ShowsIsReflexive DEF ShowsAll, Built, IsDashboard, ToSet
<1> QED
  BY <1>1, <1>2, <1>3 DEF new

LEMMA UserSettingsShow ==
    ASSUME RefusalIsNoDashboard, NEW d, Built(d), NEW settings, IsSettings(settings)
    PROVE  LET new == ApplyUserAlertSettings(d, settings)
           IN Built(new) /\ ShowsAll(new, d) /\ AlertsBeside(new)
<1>1. CASE HasEnabledRules(settings)
  <2>1. ApplyUserAlertSettings(d, settings) = ApplyAlertSettings(d, settings)
    BY <1>1, UserSettings
  <2> QED
    BY <2>1, SettingsShow
<1>2. CASE ~HasEnabledRules(settings)
  <2>1. ApplyUserAlertSettings(d, settings) = [d EXCEPT !.alerts = {}]
    BY <1>2, UserSettings
  <2> QED
    BY <2>1, Unalerted
<1> QED
  BY <1>1, <1>2

LEMMA ShowsAllIsTransitive ==
    ASSUME NEW a, Built(a), NEW b, Built(b), NEW c, Built(c), ShowsAll(a, b), ShowsAll(b, c)
    PROVE  ShowsAll(a, c)
<1> SUFFICES ASSUME NEW i \in DOMAIN c.accounts
             PROVE  Shows(a.accounts[i], c.accounts[i])
  BY DEF ShowsAll
<1>1. IsAccount(a.accounts[i]) /\ IsAccount(b.accounts[i]) /\ IsAccount(c.accounts[i])
  BY DEF ShowsAll, Built, IsDashboard, ToSet
<1> QED
  BY <1>1, ShowsIsTransitive DEF ShowsAll

\* What the phone stores for a connection: rules worth it, with positive limits.
IsStored(settings) ==
    /\ IsSettings(settings)
    /\ \A c \in DOMAIN settings : /\ IsWorthStoring(settings[c])
                                  /\ \A p \in Periods : settings[c].limits[p] \in Option(Nat \ {0})

LEMMA StoredSettings ==
    ASSUME NEW settings, IsStored(settings), NEW c \in Owners, NEW rules \in RuleSets
    PROVE  IsStored(WithConnection(settings, c, rules))
<1> DEFINE new == WithConnection(settings, c, rules)
           keys == (DOMAIN settings \ {c}) \cup (IF IsWorthStoring(rules) THEN {c} ELSE {})
<1>1. new = [k \in keys |-> IF k = c THEN rules ELSE settings[k]]
  BY DEF WithConnection
<1>2. keys \subseteq Connections /\ rules \in Rules
      /\ \A p \in Periods : rules.limits[p] \in Option(Nat \ {0})
  BY BoardAssumption DEF IsStored, IsSettings
<1>3. \A k \in keys : k # c => k \in DOMAIN settings
  OBVIOUS
<1>4. c \in keys => IsWorthStoring(rules)
  OBVIOUS
<1> HIDE DEF keys, new
<1>5. DOMAIN new = keys /\ \A k \in keys : new[k] = IF k = c THEN rules ELSE settings[k]
  BY <1>1
<1>6. \A k \in keys : new[k] \in Rules /\ IsWorthStoring(new[k])
                      /\ \A p \in Periods : new[k].limits[p] \in Option(Nat \ {0})
  BY <1>2, <1>3, <1>4, <1>5 DEF IsStored, IsSettings
<1>7. new \in [keys -> Rules]
  BY <1>1, <1>5, <1>6
<1> QED
  BY <1>2, <1>5, <1>6, <1>7 DEF IsStored, IsSettings, new

LEMMA NoSettings == IsStored(<<>>)
<1>1. DOMAIN <<>> = {} /\ <<>> \in [{} -> Rules]
  OBVIOUS
<1> QED
  BY <1>1 DEF IsStored, IsSettings

\* A window of a dashboard, with the account it belongs to.
IsWindowOf(pair, d) ==
    \E i \in DOMAIN d.accounts : \E j \in DOMAIN d.accounts[i].allowances :
       pair = <<d.accounts[i], d.accounts[i].allowances[j]>>

LEMMA WindowsAre ==
    ASSUME NEW d
    PROVE  \A pair : pair \in WindowsOf(d) <=> IsWindowOf(pair, d)
<1> TAKE pair
<1>1. ASSUME pair \in WindowsOf(d)
      PROVE  IsWindowOf(pair, d)
  <2>1. PICK account \in ToSet(d.accounts) : pair \in {<<account, w>> : w \in ToSet(account.allowances)}
    BY <1>1 DEF WindowsOf
  <2>2. PICK w \in ToSet(account.allowances) : pair = <<account, w>>
    BY <2>1
  <2>3. PICK i \in DOMAIN d.accounts : account = d.accounts[i]
    BY DEF ToSet
  <2>4. PICK j \in DOMAIN account.allowances : w = account.allowances[j]
    BY DEF ToSet
  <2> QED
    BY <2>2, <2>3, <2>4 DEF IsWindowOf
<1>2. ASSUME IsWindowOf(pair, d)
      PROVE  pair \in WindowsOf(d)
  <2>3. PICK i \in DOMAIN d.accounts : \E j \in DOMAIN d.accounts[i].allowances :
              pair = <<d.accounts[i], d.accounts[i].allowances[j]>>
    BY <1>2 DEF IsWindowOf
  <2>1. PICK j \in DOMAIN d.accounts[i].allowances :
              pair = <<d.accounts[i], d.accounts[i].allowances[j]>>
    BY <2>3
  <2>2. d.accounts[i] \in ToSet(d.accounts)
        /\ d.accounts[i].allowances[j] \in ToSet(d.accounts[i].allowances)
    BY DEF ToSet
  <2> QED
    BY <2>1, <2>2 DEF WindowsOf
<1> QED
  BY <1>1, <1>2

LEMMA ExhaustedAre ==
    ASSUME NEW d
    PROVE  \A key : key \in ExhaustedWindows(d) <=>
              \E i \in DOMAIN d.accounts : \E j \in DOMAIN d.accounts[i].allowances :
                 /\ IsExhausted(d.accounts[i].allowances[j])
                 /\ key = <<d.accounts[i].id, d.accounts[i].allowances[j].id>>
<1> TAKE key
<1>1. key \in ExhaustedWindows(d) <=>
         \E pair : /\ IsWindowOf(pair, d) /\ IsExhausted(pair[2])
                   /\ key = <<pair[1].id, pair[2].id>>
  BY WindowsAre DEF ExhaustedWindows, KeysOf, WindowKey
<1>2. ASSUME NEW pair, IsWindowOf(pair, d), IsExhausted(pair[2]), key = <<pair[1].id, pair[2].id>>
      PROVE  \E i \in DOMAIN d.accounts : \E j \in DOMAIN d.accounts[i].allowances :
                /\ IsExhausted(d.accounts[i].allowances[j])
                /\ key = <<d.accounts[i].id, d.accounts[i].allowances[j].id>>
  <2>1. PICK i \in DOMAIN d.accounts : \E j \in DOMAIN d.accounts[i].allowances :
              pair = <<d.accounts[i], d.accounts[i].allowances[j]>>
    BY <1>2 DEF IsWindowOf
  <2>2. PICK j \in DOMAIN d.accounts[i].allowances :
              pair = <<d.accounts[i], d.accounts[i].allowances[j]>>
    BY <2>1
  <2>3. pair[1] = d.accounts[i] /\ pair[2] = d.accounts[i].allowances[j]
    BY <2>2
  <2> QED
    BY <1>2, <2>3
<1>3. ASSUME NEW i \in DOMAIN d.accounts, NEW j \in DOMAIN d.accounts[i].allowances,
             IsExhausted(d.accounts[i].allowances[j]),
             key = <<d.accounts[i].id, d.accounts[i].allowances[j].id>>
      PROVE  \E pair : IsWindowOf(pair, d) /\ IsExhausted(pair[2]) /\ key = <<pair[1].id, pair[2].id>>
  <2> DEFINE pair == <<d.accounts[i], d.accounts[i].allowances[j]>>
  <2>1. IsWindowOf(pair, d)
    BY DEF IsWindowOf
  <2>2. pair[1] = d.accounts[i] /\ pair[2] = d.accounts[i].allowances[j]
    OBVIOUS
  <2> QED
    BY <1>3, <2>1, <2>2
<1> QED
  BY <1>1, <1>2, <1>3

LEMMA RecoveredAre ==
    ASSUME NEW d, NEW keys
    PROVE  \A key : key \in PlanRecoveries(keys, d) <=>
              /\ key \in keys
              /\ \E i \in DOMAIN d.accounts : \E j \in DOMAIN d.accounts[i].allowances :
                    /\ HasRoom(d.accounts[i].allowances[j])
                    /\ key = <<d.accounts[i].id, d.accounts[i].allowances[j].id>>
<1> TAKE key
<1>1. key \in PlanRecoveries(keys, d) <=>
         /\ key \in keys
         /\ \E pair : /\ IsWindowOf(pair, d) /\ HasRoom(pair[2])
                      /\ key = <<pair[1].id, pair[2].id>>
  BY WindowsAre DEF PlanRecoveries, KeysOf, WindowKey
<1>2. ASSUME NEW pair, IsWindowOf(pair, d), HasRoom(pair[2]), key = <<pair[1].id, pair[2].id>>
      PROVE  \E i \in DOMAIN d.accounts : \E j \in DOMAIN d.accounts[i].allowances :
                /\ HasRoom(d.accounts[i].allowances[j])
                /\ key = <<d.accounts[i].id, d.accounts[i].allowances[j].id>>
  <2>1. PICK i \in DOMAIN d.accounts : \E j \in DOMAIN d.accounts[i].allowances :
              pair = <<d.accounts[i], d.accounts[i].allowances[j]>>
    BY <1>2 DEF IsWindowOf
  <2>2. PICK j \in DOMAIN d.accounts[i].allowances :
              pair = <<d.accounts[i], d.accounts[i].allowances[j]>>
    BY <2>1
  <2>3. pair[1] = d.accounts[i] /\ pair[2] = d.accounts[i].allowances[j]
    BY <2>2
  <2> QED
    BY <1>2, <2>3
<1>3. ASSUME NEW i \in DOMAIN d.accounts, NEW j \in DOMAIN d.accounts[i].allowances,
             HasRoom(d.accounts[i].allowances[j]),
             key = <<d.accounts[i].id, d.accounts[i].allowances[j].id>>
      PROVE  \E pair : IsWindowOf(pair, d) /\ HasRoom(pair[2]) /\ key = <<pair[1].id, pair[2].id>>
  <2> DEFINE pair == <<d.accounts[i], d.accounts[i].allowances[j]>>
  <2>1. IsWindowOf(pair, d)
    BY DEF IsWindowOf
  <2>2. pair[1] = d.accounts[i] /\ pair[2] = d.accounts[i].allowances[j]
    OBVIOUS
  <2> QED
    BY <1>3, <2>1, <2>2
<1> QED
  BY <1>1, <1>2, <1>3

\* What is spent and what has room do not depend on the settings.
LEMMA SameWindows ==
    ASSUME NEW new, NEW old, ShowsAll(new, old), NEW keys
    PROVE  /\ ExhaustedWindows(new) = ExhaustedWindows(old)
           /\ PlanRecoveries(keys, new) = PlanRecoveries(keys, old)
<1>1. DOMAIN new.accounts = DOMAIN old.accounts
      /\ \A i \in DOMAIN old.accounts : DOMAIN new.accounts[i].allowances = DOMAIN old.accounts[i].allowances
  BY DEF ShowsAll, Shows
<1>2. \A i \in DOMAIN old.accounts : \A j \in DOMAIN old.accounts[i].allowances :
         /\ IsExhausted(new.accounts[i].allowances[j]) <=> IsExhausted(old.accounts[i].allowances[j])
         /\ HasRoom(new.accounts[i].allowances[j]) <=> HasRoom(old.accounts[i].allowances[j])
         /\ new.accounts[i].id = old.accounts[i].id
         /\ new.accounts[i].allowances[j].id = old.accounts[i].allowances[j].id
  BY DEF ShowsAll, Shows, IsExhausted, HasRoom
<1>3. ExhaustedWindows(new) = ExhaustedWindows(old)
  <2>1. \A key : key \in ExhaustedWindows(new) <=> key \in ExhaustedWindows(old)
    BY <1>1, <1>2, ExhaustedAre
  <2>2. ExhaustedWindows(new) \subseteq ExhaustedWindows(old)
        /\ ExhaustedWindows(old) \subseteq ExhaustedWindows(new)
    BY <2>1
  <2> QED
    BY <2>2
<1>4. PlanRecoveries(keys, new) = PlanRecoveries(keys, old)
  <2>1. \A key : key \in PlanRecoveries(keys, new) <=> key \in PlanRecoveries(keys, old)
    BY <1>1, <1>2, RecoveredAre
  <2>2. PlanRecoveries(keys, new) \subseteq PlanRecoveries(keys, old)
        /\ PlanRecoveries(keys, old) \subseteq PlanRecoveries(keys, new)
    BY <2>1
  <2> QED
    BY <2>2
<1> QED
  BY <1>3, <1>4

-----------------------------------------------------------------------------
(***************************************************************************)
(* The board.                                                               *)
(***************************************************************************)
BoardFields == {"loaded", "shown", "settings", "edits", "relaxed"}

\* What is shown is what was loaded, with worse statuses at most, and every alert
\* beside a card: it holds of any edits, so nothing of it speaks of their order.
ShownInv(b) ==
    /\ DOMAIN b = BoardFields
    /\ Loaded(b.loaded) /\ Built(b.shown)
    /\ ShowsAll(b.shown, b.loaded) /\ AlertsBeside(b.shown)
    /\ IsStored(b.settings) /\ DOMAIN b.settings \subseteq Owners
    /\ b.edits \in 0..MaxEdits /\ b.relaxed \in BOOLEAN

BoardInv == board # None => ShownInv(board)

LEMMA LoadKeepsInv ==
    ASSUME RefusalIsNoDashboard, NEW parts \in Boards, NEW c \in Owners, NEW rules \in RuleSets,
           LoadBoard(parts, c, rules)
    PROVE  ShownInv(board')
<1> DEFINE loaded == MergeAll([i \in DOMAIN parts |-> PartSnapshot(parts[i])])
           settings == WithConnection(<<>>, c, rules)
           shown == ApplyUserAlertSettings(loaded, settings)
<1>1. Loaded(loaded)
  BY BoardIsLoaded
<1>2. IsStored(settings) /\ DOMAIN settings \subseteq Owners
  <2>1. DOMAIN settings \subseteq Owners
    BY DEF WithConnection
  <2> QED
    BY <2>1, NoSettings, StoredSettings
<1>3. board' = [loaded |-> loaded, shown |-> shown, settings |-> settings,
                edits |-> 0, relaxed |-> FALSE]
  BY DEF LoadBoard
<1> HIDE DEF loaded, settings
<1>4. Built(shown) /\ ShowsAll(shown, loaded) /\ AlertsBeside(shown)
  BY <1>1, <1>2, UserSettingsShow DEF Loaded, IsStored
<1> HIDE DEF shown
<1>5. 0 \in 0..MaxEdits
  BY BoardAssumption
<1> QED
  BY <1>1, <1>2, <1>3, <1>4, <1>5 DEF ShownInv, BoardFields

LEMMA EditKeepsInv ==
    ASSUME RefusalIsNoDashboard, NEW c \in Owners, NEW rules \in RuleSets, BoardInv, Edit(c, rules)
    PROVE  ShownInv(board') /\ board'.loaded = board.loaded
<1> DEFINE settings == WithConnection(board.settings, c, rules)
           shown == ApplyUserAlertSettings(board.shown, settings)
           relaxed == board.relaxed \/ Relaxes(RulesFor(board.settings, c), rules)
<1>1. ShownInv(board) /\ board.edits < MaxEdits
  BY DEF Edit, BoardInv
<1>2. IsStored(settings) /\ DOMAIN settings \subseteq Owners
  <2>1. DOMAIN settings \subseteq Owners
    BY <1>1 DEF WithConnection, ShownInv
  <2> QED
    BY <1>1, <2>1, StoredSettings DEF ShownInv
<1>3. board' = [board EXCEPT !.shown = shown, !.settings = settings, !.edits = board.edits + 1,
                             !.relaxed = relaxed]
  BY DEF Edit
<1>4. relaxed \in BOOLEAN
  BY <1>1 DEF ShownInv
<1> HIDE DEF settings, relaxed
<1>5. Built(shown) /\ ShowsAll(shown, board.shown) /\ AlertsBeside(shown)
  BY <1>1, <1>2, UserSettingsShow DEF ShownInv, IsStored
<1> HIDE DEF shown
<1>6. ShowsAll(shown, board.loaded)
  BY <1>1, <1>5, ShowsAllIsTransitive DEF ShownInv, Loaded
<1>7. /\ DOMAIN board' = BoardFields /\ board'.loaded = board.loaded /\ board'.shown = shown
      /\ board'.settings = settings /\ board'.edits = board.edits + 1 /\ board'.relaxed = relaxed
  BY <1>1, <1>3 DEF ShownInv, BoardFields
<1>8. board.edits + 1 \in 0..MaxEdits
  BY <1>1, BoardAssumption DEF ShownInv
<1> QED
  BY <1>1, <1>2, <1>4, <1>5, <1>6, <1>7, <1>8 DEF ShownInv

LEMMA BoardInvHolds ==
    ASSUME RefusalIsNoDashboard
    PROVE  BoardSpec => []BoardInv
<1>1. BoardInit => BoardInv
  BY DEF BoardInit, BoardInv
<1>2. BoardInv /\ [BoardNext]_boardVars => BoardInv'
  <2> SUFFICES ASSUME BoardInv, [BoardNext]_boardVars
               PROVE  BoardInv'
    OBVIOUS
  <2>1. CASE board' = board
    BY <2>1 DEF BoardInv
  <2>2. ASSUME NEW parts \in Boards, NEW c \in Owners, NEW rules \in RuleSets,
               LoadBoard(parts, c, rules)
        PROVE  BoardInv'
    BY <2>2, LoadKeepsInv DEF BoardInv
  <2>3. ASSUME NEW c \in Owners, NEW rules \in RuleSets, Edit(c, rules)
        PROVE  BoardInv'
    BY <2>3, EditKeepsInv DEF BoardInv
  <2>4. CASE Replace
    BY <2>4 DEF Replace, BoardInv
  <2> QED
    BY <2>1, <2>2, <2>3, <2>4 DEF BoardNext, Ask, boardVars
<1> QED
  BY <1>1, <1>2, PTL DEF BoardSpec

\* After any edits, no alert stands beside a card that looks healthy, and the
\* settings never make a window or an account look better than its provider said,
\* change what was spent, or change which windows are spent or have recovered:
\* whatever was loaded, merged and edited.
THEOREM AlertsAreBesideCards ==
    RefusalIsNoDashboard => (BoardSpec => []AlertsAreSeen)
<1> SUFFICES ASSUME RefusalIsNoDashboard
             PROVE  BoardSpec => []AlertsAreSeen
  OBVIOUS
<1>1. BoardInv => AlertsAreSeen
  <2> SUFFICES ASSUME BoardInv, board # None
               PROVE  AlertsAreSeen
    BY DEF AlertsAreSeen
  <2> DEFINE shown == board.shown
             loaded == board.loaded
             keys == KeysOf(WindowsOf(loaded))
  <2>1. Built(loaded) /\ Built(shown) /\ ShowsAll(shown, loaded) /\ AlertsBeside(shown)
    BY DEF BoardInv, ShownInv, Loaded
  <2> HIDE DEF shown, loaded, keys
  <2>2. \A alert \in shown.alerts : \E account \in ToSet(shown.accounts) :
           /\ account.id = alert[1]
           /\ LET statuses == CardStatuses(account, alert[2], alert[3])
              IN statuses # {} /\ \A s \in statuses : AtLeast(s, "warning")
    BY <2>1 DEF AlertsBeside, Beside
  <2>3. \A i \in DOMAIN loaded.accounts :
           /\ AtLeast(shown.accounts[i].status, loaded.accounts[i].status)
           /\ \A j \in DOMAIN loaded.accounts[i].allowances :
                 AtLeast(shown.accounts[i].allowances[j].status, loaded.accounts[i].allowances[j].status)
    BY <2>1 DEF ShowsAll, Shows
  <2>4. shown # Refused /\ loaded # Refused
    BY <2>1 DEF Built, RefusalIsNoDashboard
  <2>5. /\ ExhaustedWindowsEnvelope(shown) = ExhaustedWindowsEnvelope(loaded)
        /\ PlanRecoveriesEnvelope(shown, keys) = PlanRecoveriesEnvelope(loaded, keys)
    <3>1. ExhaustedWindows(shown) = ExhaustedWindows(loaded)
      BY <2>1, SameWindows
    <3>2. \A k : PlanRecoveries(k, shown) = PlanRecoveries(k, loaded)
      BY <2>1, SameWindows
    <3> QED
      BY <2>4, <3>1, <3>2 DEF ExhaustedWindowsEnvelope, PlanRecoveriesEnvelope
  <2>6. \A p \in Periods : shown.totals[p].spent = loaded.totals[p].spent
    <3> TAKE p \in Periods
    <3>1. TotalState(shown.accounts, p) = TotalState(loaded.accounts, p)
      BY <2>1, TotalsFollow, SMTT(30) DEF ShowsAll, Shows
    <3> QED
      BY <2>1, <3>1 DEF Built
  <2> QED
    BY <2>2, <2>3, <2>5, <2>6 DEF AlertsAreSeen, shown, loaded, keys
<1> QED
  BY <1>1, BoardInvHolds, PTL

-----------------------------------------------------------------------------
(***************************************************************************)
(* Edits.                                                                   *)
(***************************************************************************)
\* Rules that only add to others or are tighter.
Tightens(old, new) ==
    /\ \A m \in Meters : old.at[m] # None => new.at[m] # None /\ new.at[m] <= old.at[m]
    /\ \A p \in Periods : old.limits[p] # None => new.limits[p] # None

LEMMA NotRelaxed ==
    ASSUME NEW old \in Rules, NEW new \in Rules, ~Relaxes(old, new)
    PROVE  Tightens(old, new)
<1>1. \A m \in Meters : old.at[m] \in Option(Nat) /\ new.at[m] \in Option(Nat)
  BY DEF Rules
<1>2. ASSUME NEW m \in Meters, old.at[m] # None
      PROVE  new.at[m] # None /\ new.at[m] <= old.at[m]
  <2>1. new.at[m] # None /\ ~(new.at[m] > old.at[m])
    BY <1>2 DEF Relaxes
  <2>2. old.at[m] \in Nat /\ new.at[m] \in Nat
    BY <1>1, <1>2, <2>1 DEF Option
  <2> QED
    BY <2>1, <2>2
<1> QED
  BY <1>2 DEF Relaxes, Tightens

LEMMA TightensItself ==
    ASSUME NEW rules \in Rules
    PROVE  Tightens(rules, rules)
<1>1. ASSUME NEW m \in Meters, rules.at[m] # None
      PROVE  rules.at[m] <= rules.at[m]
  <2>1. rules.at[m] \in Nat
    BY <1>1 DEF Rules, Option
  <2> QED
    BY <2>1
<1> QED
  BY <1>1 DEF Tightens

LEMMA RulesForAccount ==
    ASSUME NEW settings, NEW account
    PROVE  RulesOf(settings, account) = RulesFor(settings, ConnectionKey(account))
  BY DEF RulesOf, RulesFor

\* Rules not worth storing are no rules.
LEMMA WorthlessRules ==
    ASSUME NEW rules \in Rules, ~IsWorthStoring(rules)
    PROVE  rules = NoRules
<1>1. /\ \A x \in Meters \cup Periods : rules.at[x] = None
      /\ \A p \in Periods : rules.limits[p] = None
  BY DEF IsWorthStoring, IsEnabled
<1>2. /\ rules.at = [x \in Meters \cup Periods |-> None]
      /\ rules.limits = [p \in Periods |-> None]
  BY <1>1 DEF Rules
<1>3. rules = [at |-> rules.at, limits |-> rules.limits]
  BY DEF Rules
<1> QED
  BY <1>2, <1>3 DEF NoRules

\* An edit that does not relax tightens the rules of every account.
LEMMA EditTightens ==
    ASSUME NEW settings, IsStored(settings), NEW c \in Owners, NEW rules \in RuleSets,
           ~Relaxes(RulesFor(settings, c), rules), NEW account
    PROVE  Tightens(RulesOf(settings, account), RulesOf(WithConnection(settings, c, rules), account))
<1> DEFINE new == WithConnection(settings, c, rules)
           key == ConnectionKey(account)
<1>1. RulesOf(settings, account) = RulesFor(settings, key) /\ RulesOf(new, account) = RulesFor(new, key)
  BY RulesForAccount
<1>2. RulesOf(settings, account) \in Rules /\ rules \in Rules
  BY RulesOfTypes, BoardAssumption DEF IsStored, IsSettings
<1> HIDE DEF key
<1>3. CASE key = c
  <2>1. RulesFor(new, c) = rules
    <3>1. CASE IsWorthStoring(rules)
      BY <3>1 DEF WithConnection, RulesFor
    <3>2. CASE ~IsWorthStoring(rules)
      <4>1. c \notin DOMAIN new
        BY <3>2 DEF WithConnection
      <4> QED
        BY <1>2, <3>2, <4>1, WorthlessRules DEF RulesFor
    <3> QED
      BY <3>1, <3>2
  <2>2. Tightens(RulesFor(settings, c), rules)
    BY <1>1, <1>2, <1>3, NotRelaxed
  <2> QED
    BY <1>1, <1>3, <2>1, <2>2
<1>4. CASE key # c
  <2>1. RulesFor(new, key) = RulesFor(settings, key)
    BY <1>4 DEF WithConnection, RulesFor
  <2> QED
    BY <1>1, <1>2, <2>1, TightensItself
<1> QED
  BY <1>3, <1>4

\* What reaches a line reaches a lower one.
LEMMA CrossesLower ==
    ASSUME NEW percent \in Option(Percent), NEW at \in Nat, NEW line \in Nat, line <= at,
           None # line, Crossed(percent, at)
    PROVE  Crossed(percent, line)
<1>1. percent # None /\ percent \in Percent /\ percent.num >= at * percent.den
  BY DEF Crossed, Reaches, Option
<1>2. percent.num \in Int /\ percent.den \in Nat
  BY <1>1 DEF Percent
<1>3. \A n \in Int, d \in Nat : n >= at * d => n >= line * d
  <2> TAKE n \in Int, d \in Nat
  <2>1. at * d = line * d + (at - line) * d
    OBVIOUS
  <2>2. (at - line) * d >= 0 /\ (at - line) * d \in Int /\ line * d \in Int
    OBVIOUS
  <2> QED
    BY <2>1, <2>2
<1>4. percent.num >= line * percent.den
  BY <1>1, <1>2, <1>3
<1> QED
  BY <1>1, <1>4 DEF Crossed, Reaches

\* A status raised for one line is the one a lower line raises it to.
LEMMA RaisedAgain ==
    ASSUME NEW window, IsAllowance(window), NEW at \in Option(Nat), NEW line \in Option(Nat),
           at # None => line # None /\ line <= at
    PROVE  Raised(Raised(window, at), line) = Raised(window, line)
<1>1. CASE ~Crossed(window.percent, at)
  BY <1>1 DEF Raised
<1>2. CASE Crossed(window.percent, at)
  <2> DEFINE worst == Worst({window.status, "warning"})
             once == [window EXCEPT !.status = worst]
  <2>1. at \in Nat /\ line \in Nat /\ line <= at /\ None # line
    BY <1>2 DEF Crossed, Option
  <2>2. Crossed(window.percent, line)
    BY <1>2, <2>1, CrossesLower DEF IsAllowance
  <2>3. Raised(window, at) = once /\ Raised(window, line) = once
    BY <1>2, <2>2 DEF Raised
  <2>4. Worst({worst, "warning"}) = worst
    BY RaisedStatus DEF IsAllowance
  <2> HIDE DEF worst
  <2>5. once.percent = window.percent /\ once.status = worst
    BY DEF IsAllowance
  <2>6. Raised(once, line) = [once EXCEPT !.status = worst]
    BY <2>2, <2>4, <2>5 DEF Raised
  <2>7. [once EXCEPT !.status = worst] = once
    BY DEF IsAllowance
  <2> QED
    BY <2>3, <2>6, <2>7
<1> QED
  BY <1>1, <1>2

\* A budget measured again is measured from what was spent.
LEMMA LimitedAgain ==
    ASSUME NEW state \in BudgetStates, state.percent = None,
           NEW limit \in Option(Int), NEW other \in Option(Int), limit # None => other # None,
           NEW at
    PROVE  LimitedTo(Raised(LimitedTo(state, limit), at), other) = LimitedTo(state, other)
<1>1. CASE limit = None \/ state.spent = None
  BY <1>1 DEF LimitedTo, Raised, Crossed
<1>2. CASE ~(limit = None \/ state.spent = None)
  <2> DEFINE once == Raised(LimitedTo(state, limit), at)
  <2>1. once.spent = state.spent /\ once.projected = state.projected
    BY LimitedTypes, RaisedBudget
  <2> HIDE DEF once
  <2>2. LimitedTo(once, other) = LimitedTo(state, other)
    BY <1>2, <2>1 DEF LimitedTo
  <2> QED
    BY <2>2 DEF once
<1> QED
  BY <1>1, <1>2

\* Two functions of the same arguments that agree on each are the same.
LEMMA SameFunction ==
    ASSUME NEW D, NEW f, NEW g, f = [x \in D |-> f[x]], g = [x \in D |-> g[x]],
           \A x \in D : f[x] = g[x]
    PROVE  f = g
  OBVIOUS

LEMMA AppliedAgain ==
    ASSUME NEW account, IsAccount(account), TellsApart(account), Limitless(account),
           NEW old, IsSettings(old), NEW settings, IsSettings(settings),
           Tightens(RulesOf(old, account), RulesOf(settings, account))
    PROVE  Applied(Applied(account, old), settings) = Applied(account, settings)
<1> DEFINE r == RulesOf(old, account)
           s == RulesOf(settings, account)
           once == Applied(account, old)
           twice == Applied(once, settings)
           new == Applied(account, settings)
<1>1. AppliedBy(once, account, r) /\ AppliedBy(new, account, s)
  BY AppliedFields
<1>2. IsAccount(once) /\ Shows(once, account)
  BY AppliedShows
<1>3. RulesOf(settings, once) = s
  BY <1>2, SameRules DEF Shows
<1>4. AppliedBy(twice, once, s)
  BY <1>2, <1>3, AppliedFields
<1>5. r \in Rules /\ s \in Rules /\ Tightens(r, s)
  BY RulesOfTypes DEF IsSettings
<1> HIDE DEF r, s, once, twice, new
<1>6. {"status", "budget", "allowances"} \subseteq DOMAIN account /\ DOMAIN once = DOMAIN account
  BY <1>1 DEF HasFields, IsAccount, AppliedBy
<1>7. twice.budget = new.budget
  <2>1. \A p \in Periods : Raised(LimitedTo(once.budget[p], s.limits[p]), s.at[p])
                             = Raised(LimitedTo(account.budget[p], s.limits[p]), s.at[p])
    <3> TAKE p \in Periods
    <3>1. once.budget[p] = Raised(LimitedTo(account.budget[p], r.limits[p]), r.at[p])
      BY <1>1 DEF AppliedBy
    <3>2. /\ account.budget[p] \in BudgetStates /\ account.budget[p].percent = None
          /\ r.limits[p] \in Option(Int) /\ s.limits[p] \in Option(Int)
          /\ r.limits[p] # None => s.limits[p] # None
      BY <1>5 DEF IsAccount, Limitless, Rules, Tightens
    <3>3. LimitedTo(once.budget[p], s.limits[p]) = LimitedTo(account.budget[p], s.limits[p])
      BY <3>1, <3>2, LimitedAgain
    <3> QED
      BY <3>3
  <2>2. twice.budget = [p \in Periods |-> Raised(LimitedTo(once.budget[p], s.limits[p]), s.at[p])]
    BY <1>4 DEF AppliedBy
  <2>3. new.budget = [p \in Periods |-> Raised(LimitedTo(account.budget[p], s.limits[p]), s.at[p])]
    BY <1>1 DEF AppliedBy
  <2> QED
    BY <2>1, <2>2, <2>3
<1>8. \A j \in DOMAIN account.allowances :
         /\ IsAllowance(account.allowances[j])
         /\ once.allowances[j] = Raised(account.allowances[j], r.at[account.allowances[j].meter])
         /\ once.allowances[j].meter = account.allowances[j].meter
         /\ once.allowances[j].percent = account.allowances[j].percent
  <2> TAKE j \in DOMAIN account.allowances
  <2>1. IsAllowance(account.allowances[j])
    BY DEF IsAccount, ToSet
  <2>2. once.allowances[j] = Raised(account.allowances[j], r.at[account.allowances[j].meter])
    BY <1>1 DEF AppliedBy
  <2> QED
    BY <2>1, <2>2, RaisedWindow
<1>9. DOMAIN once.allowances = DOMAIN account.allowances
  BY <1>1 DEF AppliedBy
<1>10. \A m \in Meters : /\ r.at[m] \in Option(Nat) /\ s.at[m] \in Option(Nat)
                         /\ r.at[m] # None => s.at[m] # None /\ s.at[m] <= r.at[m]
  BY <1>5 DEF Rules, Tightens
<1>11. twice.allowances = new.allowances
  <2>1. \A j \in DOMAIN account.allowances :
           Raised(once.allowances[j], s.at[once.allowances[j].meter])
             = Raised(account.allowances[j], s.at[account.allowances[j].meter])
    <3> TAKE j \in DOMAIN account.allowances
    <3>1. account.allowances[j].meter \in Meters
      BY <1>8 DEF IsAllowance
    <3> QED
      BY <1>8, <1>10, <3>1, RaisedAgain
  <2>2. twice.allowances = [j \in DOMAIN account.allowances |->
                               Raised(once.allowances[j], s.at[once.allowances[j].meter])]
    BY <1>4, <1>9 DEF AppliedBy
  <2>3. new.allowances = [j \in DOMAIN account.allowances |->
                             Raised(account.allowances[j], s.at[account.allowances[j].meter])]
    BY <1>1 DEF AppliedBy
  <2> QED
    BY <2>1, <2>2, <2>3
<1>12. HasCrossed(once, s.at) <=> HasCrossed(account, s.at)
  BY <1>8, <1>9 DEF HasCrossed
<1>13. HasCrossed(account, r.at) => HasCrossed(account, s.at)
  <2> SUFFICES ASSUME NEW j \in DOMAIN account.allowances,
                      Crossed(account.allowances[j].percent, r.at[account.allowances[j].meter])
               PROVE  Crossed(account.allowances[j].percent, s.at[account.allowances[j].meter])
    BY DEF HasCrossed
  <2> DEFINE m == account.allowances[j].meter
  <2>1. m \in Meters /\ account.allowances[j].percent \in Option(Percent)
    BY <1>8 DEF IsAllowance
  <2>2. r.at[m] # None
    BY DEF Crossed
  <2>3. r.at[m] \in Nat /\ s.at[m] \in Nat /\ s.at[m] <= r.at[m] /\ None # s.at[m]
    BY <1>10, <2>1, <2>2 DEF Option
  <2> QED
    BY <2>1, <2>3, CrossesLower
<1>14. twice.status = new.status
  <2>1. account.status \in Statuses
    BY DEF IsAccount
  <2>2. Worst({Worst({account.status, "warning"}), "warning"}) = Worst({account.status, "warning"})
    BY <2>1, RaisedStatus
  <2> QED
    BY <1>1, <1>4, <1>12, <1>13, <2>2 DEF AppliedBy
<1>15. \A field \in DOMAIN account : twice[field] = new[field]
  <2>1. \A field \in DOMAIN account :
           field \notin {"status", "budget", "allowances"} => twice[field] = new[field]
    BY <1>1, <1>4, <1>6 DEF AppliedBy
  <2> QED
    BY <1>7, <1>11, <1>14, <2>1
<1>16. twice = [field \in DOMAIN account |-> twice[field]] /\ new = [field \in DOMAIN account |-> new[field]]
  BY <1>1, <1>4, <1>6 DEF AppliedBy
<1>17. twice = new
  BY <1>15, <1>16, SameFunction
<1> QED
  BY <1>17 DEF twice, once, new

\* Rules without a line over windows and without a limit leave an account as it is.
LEMMA AppliedNothing ==
    ASSUME NEW account, IsAccount(account), Limitless(account), NEW settings,
           Tightens(RulesOf(settings, account), NoRules)
    PROVE  Applied(account, settings) = account
<1> DEFINE r == RulesOf(settings, account)
           new == Applied(account, settings)
<1>1. AppliedBy(new, account, r)
  BY AppliedFields
<1>2. (\A m \in Meters : r.at[m] = None) /\ (\A p \in Periods : r.limits[p] = None)
  BY DEF Tightens, NoRules
<1> HIDE DEF r, new
<1>3. \A p \in Periods : Raised(LimitedTo(account.budget[p], r.limits[p]), r.at[p]) = account.budget[p]
  BY <1>2 DEF LimitedTo, Raised, Crossed, Limitless
<1>4. new.budget = account.budget
  <2>1. account.budget = [p \in Periods |-> account.budget[p]]
    BY DEF IsAccount
  <2> QED
    BY <1>1, <1>3, <2>1 DEF AppliedBy
<1>5. \A j \in DOMAIN account.allowances : account.allowances[j].meter \in Meters
  BY DEF IsAccount, IsAllowance, ToSet
<1>6. \A j \in DOMAIN account.allowances : ~Crossed(account.allowances[j].percent, r.at[account.allowances[j].meter])
  BY <1>2, <1>5 DEF Crossed
<1>7. \A j \in DOMAIN account.allowances : new.allowances[j] = account.allowances[j]
  BY <1>1, <1>6 DEF AppliedBy, Raised
<1>9. new.allowances = account.allowances
  <2>1. PICK n \in Nat : account.allowances = [j \in 1..n |-> account.allowances[j]]
    BY LenProperties DEF IsAccount
  <2>2. DOMAIN account.allowances = 1..n /\ new.allowances = [j \in 1..n |-> new.allowances[j]]
    BY <1>1, <2>1 DEF AppliedBy
  <2> QED
    BY <1>7, <2>1, <2>2
<1>8. new.status = account.status
  BY <1>1, <1>6 DEF AppliedBy, HasCrossed
<1>10. \A field \in DOMAIN account : new[field] = account[field]
  BY <1>1, <1>4, <1>8, <1>9 DEF AppliedBy
<1>11. new = [field \in DOMAIN account |-> new[field]]
  BY <1>1 DEF AppliedBy
<1>12. account = [field \in DOMAIN account |-> account[field]]
  BY DEF IsAccount, HasFields
<1>13. new = account
  BY <1>10, <1>11, <1>12, SameFunction
<1> QED
  BY <1>13 DEF new

LEMMA BuiltSequences ==
    ASSUME NEW d, Built(d)
    PROVE  \E n \in Nat : /\ d.accounts = [i \in 1..n |-> d.accounts[i]] /\ DOMAIN d.accounts = 1..n
                          /\ \A i \in 1..n : IsAccount(d.accounts[i]) /\ TellsApart(d.accounts[i])
<1>1. PICK n \in Nat : d.accounts = [i \in 1..n |-> d.accounts[i]] /\ DOMAIN d.accounts = 1..n
  BY LenProperties DEF Built, IsDashboard
<1>2. \A i \in 1..n : IsAccount(d.accounts[i]) /\ TellsApart(d.accounts[i])
  BY <1>1 DEF Built, IsDashboard, ToSet
<1> QED
  BY <1>1, <1>2

\* What the settings make of a dashboard depends on its instant and its accounts.
LEMMA SettingsOfAccounts ==
    ASSUME NEW a, NEW b, a.generatedAt = b.generatedAt, NEW s,
           AppliedAccounts(a, s) = AppliedAccounts(b, s)
    PROVE  ApplyAlertSettings(a, s) = ApplyAlertSettings(b, s)
  BY SettingsFields

LEMMA SettingsKeep ==
    ASSUME NEW d, NEW s
    PROVE  /\ ApplyAlertSettings(d, s).generatedAt = d.generatedAt
           /\ ApplyAlertSettings(d, s).accounts = AppliedAccounts(d, s)
<1> DEFINE built == BuildDashboard(d.generatedAt, AppliedAccounts(d, s))
           alerts == CalculateAlerts(built, s)
           new == ApplyAlertSettings(d, s)
<1>1. Follows(built, d.generatedAt, AppliedAccounts(d, s))
  BY BuildFields
<1>2. new = [built EXCEPT !.alerts = alerts]
  BY SettingsFields
<1> HIDE DEF built, alerts, new
<1>3. new.generatedAt = built.generatedAt /\ new.accounts = built.accounts
  BY <1>1, <1>2 DEF Follows, DashboardFields
<1> QED
  BY <1>1, <1>3 DEF Follows, new

\* Settings applied to what tighter ones are applied to next change nothing of it.
LEMMA EditConverges ==
    ASSUME RefusalIsNoDashboard, LimitlessBoards, NEW loaded, Loaded(loaded), loaded.accounts # <<>>,
           NEW old, IsStored(old), NEW c \in Owners, NEW rules \in RuleSets,
           ~Relaxes(RulesFor(old, c), rules)
    PROVE  LET settings == WithConnection(old, c, rules)
           IN ApplyUserAlertSettings(ApplyUserAlertSettings(loaded, old), settings)
                = ApplyUserAlertSettings(loaded, settings)
<1> DEFINE settings == WithConnection(old, c, rules)
           shown == ApplyUserAlertSettings(loaded, old)
<1>1. IsStored(settings) /\ IsSettings(settings) /\ IsSettings(old)
  BY StoredSettings DEF IsStored
<1>2. Built(loaded) /\ Built(shown)
  BY <1>1, UserSettingsShow DEF Loaded
<1>3. PICK n \in Nat : /\ loaded.accounts = [i \in 1..n |-> loaded.accounts[i]]
                       /\ DOMAIN loaded.accounts = 1..n
                       /\ \A i \in 1..n : IsAccount(loaded.accounts[i]) /\ TellsApart(loaded.accounts[i])
  BY <1>2, BuiltSequences
<1>4. \A i \in 1..n : Limitless(loaded.accounts[i])
  BY <1>3 DEF Loaded, ToSet
<1>5. \A i \in 1..n : Tightens(RulesOf(old, loaded.accounts[i]), RulesOf(settings, loaded.accounts[i]))
  BY EditTightens
<1>6. shown = IF HasEnabledRules(old) THEN ApplyAlertSettings(loaded, old)
              ELSE [loaded EXCEPT !.alerts = {}]
  BY <1>1, <1>2, UserSettings
<1>7. /\ ApplyUserAlertSettings(shown, settings)
           = IF HasEnabledRules(settings) THEN ApplyAlertSettings(shown, settings)
             ELSE [shown EXCEPT !.alerts = {}]
      /\ ApplyUserAlertSettings(loaded, settings)
           = IF HasEnabledRules(settings) THEN ApplyAlertSettings(loaded, settings)
             ELSE [loaded EXCEPT !.alerts = {}]
  BY <1>1, <1>2, UserSettings
<1> HIDE DEF settings, shown
<1>8. CASE HasEnabledRules(settings)
  <2>1. shown.generatedAt = loaded.generatedAt
    BY <1>2, <1>6, SettingsKeep, Unalerted
  <2>2. AppliedAccounts(shown, settings) = AppliedAccounts(loaded, settings)
    <3>1. CASE HasEnabledRules(old)
      <4>1. shown.accounts = [i \in 1..n |-> Applied(loaded.accounts[i], old)]
        BY <1>3, <1>6, <3>1, SettingsKeep DEF AppliedAccounts
      <4>2. \A i \in 1..n : Applied(Applied(loaded.accounts[i], old), settings)
                              = Applied(loaded.accounts[i], settings)
        BY <1>1, <1>3, <1>4, <1>5, AppliedAgain
      <4>3. DOMAIN shown.accounts = 1..n
            /\ \A i \in 1..n : Applied(shown.accounts[i], settings) = Applied(loaded.accounts[i], settings)
        BY <4>1, <4>2
      <4> QED
        BY <1>3, <4>3 DEF AppliedAccounts
    <3>2. CASE ~HasEnabledRules(old)
      <4>1. shown.accounts = loaded.accounts
        BY <1>2, <1>6, <3>2, Unalerted
      <4> QED
        BY <4>1 DEF AppliedAccounts
    <3> QED
      BY <3>1, <3>2
  <2>3. ApplyAlertSettings(shown, settings) = ApplyAlertSettings(loaded, settings)
    BY <2>1, <2>2, SettingsOfAccounts
  <2> QED
    BY <1>7, <1>8, <2>3 DEF shown, settings
<1>9. CASE ~HasEnabledRules(settings)
  <2>1. DOMAIN settings = {}
    BY <1>1, <1>9 DEF IsStored, HasEnabledRules
  <2>2. \A i \in 1..n : RulesOf(settings, loaded.accounts[i]) = NoRules
    BY <2>1 DEF RulesOf
  <2>3. [shown EXCEPT !.alerts = {}] = [loaded EXCEPT !.alerts = {}]
    <3>1. CASE HasEnabledRules(old)
      <4> DEFINE alerts == CalculateAlerts(loaded, old)
      <4>1. \A i \in 1..n : Applied(loaded.accounts[i], old) = loaded.accounts[i]
        BY <1>3, <1>4, <1>5, <2>2, AppliedNothing
      <4>2. AppliedAccounts(loaded, old) = loaded.accounts
        BY <1>3, <4>1 DEF AppliedAccounts
      <4>3. BuildDashboard(loaded.generatedAt, loaded.accounts) = loaded
        BY DEF Loaded
      <4>4. shown = [loaded EXCEPT !.alerts = alerts]
        BY <1>6, <3>1, <4>2, <4>3, SettingsFields
      <4> HIDE DEF alerts
      <4> QED
        BY <4>4
    <3>2. CASE ~HasEnabledRules(old)
      BY <1>6, <3>2
    <3> QED
      BY <3>1, <3>2
  <2> QED
    BY <1>7, <1>9, <2>3 DEF shown, settings
<1> QED
  BY <1>8, <1>9

-----------------------------------------------------------------------------
(***************************************************************************)
(* The cards whose use reaches their line.                                  *)
(***************************************************************************)
Reached(account, rules) ==
    {Alert(account, "window", w.id) : w \in {v \in ToSet(account.allowances) :
        /\ v.percent # None /\ rules.at[v.meter] # None
        /\ v.percent.num >= rules.at[v.meter] * v.percent.den}}
      \cup {Alert(account, "budget", p) : p \in {q \in Periods :
        /\ rules.at[q] # None /\ rules.limits[q] # None
        /\ account.budget[q].spent # None
        /\ account.budget[q].spent.minor * 100 >= rules.at[q] * rules.limits[q]}}

\* A budget crosses its line when what was spent reaches that part of the limit.
LEMMA BudgetCrosses ==
    ASSUME NEW state \in BudgetStates, state.percent = None,
           NEW limit \in Option(Nat \ {0}), NEW at \in Option(Nat)
    PROVE  Crossed(LimitedTo(state, limit).percent, at) <=>
              /\ at # None /\ limit # None /\ state.spent # None
              /\ state.spent.minor * 100 >= at * limit
<1>1. CASE limit = None \/ state.spent = None
  BY <1>1 DEF LimitedTo, Crossed
<1>2. CASE ~(limit = None \/ state.spent = None)
  <2> DEFINE capped == [state.spent EXCEPT !.minor = limit]
             percent == Fraction(100 * state.spent.minor, limit)
  <2>1. state.spent \in Money /\ limit \in Nat \ {0}
    BY <1>2 DEF BudgetStates, Option
  <2>2. /\ capped \in Money /\ capped.minor = limit /\ capped.currency = state.spent.currency
        /\ state.spent.minor \in Int
    BY <2>1 DEF Money
  <2>3. capped # None /\ limit > 0
    BY <2>1, <2>2, NoneAssumption
  <2>4. LimitedTo(state, limit) = CalculateBudgetState(state.spent, capped, state.projected)
    BY <1>2 DEF LimitedTo
  <2> HIDE DEF capped
  <2>5. LimitedTo(state, limit).percent = percent
    BY <1>2, <2>2, <2>3, <2>4 DEF CalculateBudgetState
  <2>6. percent \in Percent /\ percent.num = 100 * state.spent.minor /\ percent.den = limit
    BY <2>1, <2>2 DEF Percent, Fraction
  <2>7. percent # None
    BY <2>6, NoneAssumption
  <2> HIDE DEF percent
  <2>8. Crossed(percent, at) <=> at # None /\ 100 * state.spent.minor >= at * limit
    BY <2>6, <2>7 DEF Crossed, Reaches
  <2>9. 100 * state.spent.minor = state.spent.minor * 100
    BY <2>2
  <2> QED
    BY <1>2, <2>5, <2>8, <2>9
<1> QED
  BY <1>1, <1>2

\* The alerts of an account are those of the cards whose use reaches the line.
LEMMA AlertsAreReached ==
    ASSUME NEW account, IsAccount(account), TellsApart(account), Limitless(account),
           NEW settings, IsStored(settings)
    PROVE  AlertsForAccount(Applied(account, settings), settings)
             = Reached(account, RulesOf(settings, account))
<1> DEFINE new == Applied(account, settings)
           rules == RulesOf(settings, account)
           windows == {Alert(new, "window", new.allowances[i].id) : i \in {j \in DOMAIN new.allowances :
                          Crossed(new.allowances[j].percent, rules.at[new.allowances[j].meter])}}
           budgets == {Alert(new, "budget", p) : p \in {q \in Periods :
                          Crossed(new.budget[q].percent, rules.at[q])}}
           spentWindows == {Alert(account, "window", w.id) : w \in {v \in ToSet(account.allowances) :
                              /\ v.percent # None /\ rules.at[v.meter] # None
                              /\ v.percent.num >= rules.at[v.meter] * v.percent.den}}
           spentBudgets == {Alert(account, "budget", p) : p \in {q \in Periods :
                              /\ rules.at[q] # None /\ rules.limits[q] # None
                              /\ account.budget[q].spent # None
                              /\ account.budget[q].spent.minor * 100 >= rules.at[q] * rules.limits[q]}}
<1>1. AppliedBy(new, account, rules)
  BY AppliedFields
<1>2. IsAccount(new) /\ Shows(new, account)
  BY AppliedShows DEF IsStored
<1>3. RulesOf(settings, new) = rules
  BY <1>2, SameRules DEF Shows
<1>4. rules \in Rules /\ \A p \in Periods : rules.limits[p] \in Option(Nat \ {0})
  <2>1. rules \in Rules
    BY RulesOfTypes DEF IsStored, IsSettings
  <2>2. \A p \in Periods : NoRules.limits[p] \in Option(Nat \ {0})
    BY DEF NoRules, Option
  <2> QED
    BY <2>1, <2>2 DEF RulesOf, IsStored
<1>5. AlertsForAccount(new, settings) = IF IsEnabled(rules) THEN budgets \cup windows ELSE {}
  BY <1>3 DEF AlertsForAccount
<1>6. Reached(account, rules) = spentWindows \cup spentBudgets
  BY DEF Reached
<1> HIDE DEF new, rules
<1>7. \A j \in DOMAIN account.allowances :
         /\ account.allowances[j].meter \in Meters
         /\ new.allowances[j].id = account.allowances[j].id
         /\ new.allowances[j].percent = account.allowances[j].percent
         /\ new.allowances[j].meter = account.allowances[j].meter
  <2> TAKE j \in DOMAIN account.allowances
  <2>1. IsAllowance(account.allowances[j])
    BY DEF IsAccount, ToSet
  <2>2. new.allowances[j] = Raised(account.allowances[j], rules.at[account.allowances[j].meter])
    BY <1>1 DEF AppliedBy
  <2> QED
    BY <2>1, <2>2, RaisedWindow DEF IsAllowance
<1>8. DOMAIN new.allowances = DOMAIN account.allowances /\ new.id = account.id
  BY <1>1, <1>2 DEF AppliedBy, Shows
<1>9. \A p \in Periods : Crossed(new.budget[p].percent, rules.at[p]) <=>
         /\ rules.at[p] # None /\ rules.limits[p] # None
         /\ account.budget[p].spent # None
         /\ account.budget[p].spent.minor * 100 >= rules.at[p] * rules.limits[p]
  <2> TAKE p \in Periods
  <2>1. new.budget[p] = Raised(LimitedTo(account.budget[p], rules.limits[p]), rules.at[p])
    BY <1>1 DEF AppliedBy
  <2>2. /\ account.budget[p] \in BudgetStates /\ account.budget[p].percent = None
        /\ rules.limits[p] \in Option(Nat \ {0}) /\ rules.limits[p] \in Option(Int)
        /\ rules.at[p] \in Option(Nat)
    BY <1>4 DEF IsAccount, Limitless, Rules
  <2>3. new.budget[p].percent = LimitedTo(account.budget[p], rules.limits[p]).percent
    BY <2>1, <2>2, LimitedTypes, RaisedBudget
  <2> QED
    BY <2>2, <2>3, BudgetCrosses
<1>10. budgets = spentBudgets
  BY <1>8, <1>9 DEF Alert
<1>11. windows = spentWindows
  <2>1. ASSUME NEW x \in windows
        PROVE  x \in spentWindows
    <3>1. PICK i \in DOMAIN account.allowances :
              /\ Crossed(new.allowances[i].percent, rules.at[new.allowances[i].meter])
              /\ x = Alert(new, "window", new.allowances[i].id)
      BY <1>8
    <3>2. x = Alert(account, "window", account.allowances[i].id)
      BY <1>7, <1>8, <3>1 DEF Alert
    <3>3. account.allowances[i] \in ToSet(account.allowances)
      BY DEF ToSet
    <3> QED
      BY <1>7, <3>1, <3>2, <3>3 DEF Crossed, Reaches
  <2>2. ASSUME NEW x \in spentWindows
        PROVE  x \in windows
    <3>1. PICK w \in ToSet(account.allowances) :
              /\ w.percent # None /\ rules.at[w.meter] # None
              /\ w.percent.num >= rules.at[w.meter] * w.percent.den
              /\ x = Alert(account, "window", w.id)
      OBVIOUS
    <3>2. PICK i \in DOMAIN account.allowances : w = account.allowances[i]
      BY DEF ToSet
    <3>3. x = Alert(new, "window", new.allowances[i].id)
      BY <1>7, <1>8, <3>1, <3>2 DEF Alert
    <3>4. Crossed(new.allowances[i].percent, rules.at[new.allowances[i].meter])
      BY <1>7, <3>1, <3>2 DEF Crossed, Reaches
    <3> QED
      BY <1>8, <3>3, <3>4
  <2> QED
    BY <2>1, <2>2
<1>12. ~IsEnabled(rules) => spentWindows = {} /\ spentBudgets = {}
  <2> SUFFICES ASSUME ~IsEnabled(rules)
               PROVE  spentWindows = {} /\ spentBudgets = {}
    OBVIOUS
  <2>1. \A x \in Meters \cup Periods : rules.at[x] = None
    BY DEF IsEnabled
  <2>2. \A w \in ToSet(account.allowances) : w.meter \in Meters
    BY <1>7 DEF ToSet
  <2> QED
    BY <2>1, <2>2
<1> HIDE DEF windows, budgets, spentWindows, spentBudgets
<1>13. AlertsForAccount(new, settings) = Reached(account, rules)
  BY <1>5, <1>6, <1>10, <1>11, <1>12
<1> QED
  BY <1>13 DEF new, rules

\* Shown with the settings, a dashboard's alerts are those of the cards that reach
\* their line.
LEMMA ShownReached ==
    ASSUME RefusalIsNoDashboard, NEW loaded, Built(loaded),
           \A account \in ToSet(loaded.accounts) : Limitless(account),
           NEW settings, IsStored(settings)
    PROVE  ApplyUserAlertSettings(loaded, settings).alerts
             = UNION {Reached(loaded.accounts[i], RulesOf(settings, loaded.accounts[i]))
                         : i \in DOMAIN loaded.accounts}
<1> DEFINE accounts == AppliedAccounts(loaded, settings)
           built == BuildDashboard(loaded.generatedAt, accounts)
           alerts == CalculateAlerts(built, settings)
           shown == ApplyUserAlertSettings(loaded, settings)
           Cards(i) == Reached(loaded.accounts[i], RulesOf(settings, loaded.accounts[i]))
<1>1. PICK n \in Nat : /\ DOMAIN loaded.accounts = 1..n
                       /\ loaded.accounts = [i \in 1..n |-> loaded.accounts[i]]
                       /\ \A i \in 1..n : IsAccount(loaded.accounts[i]) /\ TellsApart(loaded.accounts[i])
  BY BuiltSequences
<1>2. \A i \in 1..n : Limitless(loaded.accounts[i])
  BY <1>1 DEF ToSet
<1>3. shown = IF HasEnabledRules(settings) THEN ApplyAlertSettings(loaded, settings)
              ELSE [loaded EXCEPT !.alerts = {}]
  BY UserSettings DEF IsStored
<1>4. CASE HasEnabledRules(settings)
  <2>1. Follows(built, loaded.generatedAt, accounts)
    BY BuildFields
  <2>2. shown = [built EXCEPT !.alerts = alerts]
    BY <1>3, <1>4, SettingsFields
  <2>3. DOMAIN accounts = 1..n
        /\ \A i \in 1..n : accounts[i] = Applied(loaded.accounts[i], settings)
    BY <1>1 DEF AppliedAccounts
  <2>4. alerts = UNION {AlertsForAccount(accounts[i], settings) : i \in 1..n}
    BY <2>1, <2>3 DEF CalculateAlerts, Follows
  <2>5. \A i \in 1..n : AlertsForAccount(accounts[i], settings) = Cards(i)
    BY <1>1, <1>2, <2>3, AlertsAreReached
  <2> HIDE DEF built, alerts, accounts, shown, Cards
  <2>6. alerts = UNION {Cards(i) : i \in 1..n}
    BY <2>4, <2>5
  <2>7. shown.alerts = alerts
    BY <2>1, <2>2 DEF Follows, DashboardFields
  <2> QED
    BY <1>1, <2>6, <2>7 DEF shown, Cards
<1>5. CASE ~HasEnabledRules(settings)
  <2>1. DOMAIN settings = {}
    BY <1>5 DEF IsStored, HasEnabledRules
  <2>2. \A i \in 1..n : Cards(i) = {}
    <3>1. \A m \in Meters \cup Periods : NoRules.at[m] = None
      BY DEF NoRules
    <3>2. \A i \in 1..n : RulesOf(settings, loaded.accounts[i]) = NoRules
      BY <2>1 DEF RulesOf
    <3>3. \A i \in 1..n : \A w \in ToSet(loaded.accounts[i].allowances) : w.meter \in Meters
      BY <1>1 DEF IsAccount, IsAllowance
    <3> QED
      BY <3>1, <3>2, <3>3 DEF Reached
  <2> HIDE DEF Cards
  <2>3. UNION {Cards(i) : i \in 1..n} = {}
    BY <2>2
  <2>4. shown.alerts = {}
    BY <1>3, <1>5, SMTT(30) DEF Built, DashboardFields
  <2> QED
    BY <1>1, <2>3, <2>4 DEF Cards, shown
<1> QED
  BY <1>4, <1>5

\* The cards the board reaches are those its accounts reach with their rules.
LEMMA BoardReached ==
    ReachedCards = UNION {Reached(board.loaded.accounts[i], RulesOf(board.settings, board.loaded.accounts[i]))
                             : i \in DOMAIN board.loaded.accounts}
  BY RulesForAccount DEF ReachedCards, Reached

\* Until an edit relaxes them, what is shown is what the settings make of what was
\* loaded.
ConvergeInv ==
    board # None =>
       /\ ShownInv(board)
       /\ ~board.relaxed /\ board.loaded.accounts # <<>> =>
             board.shown = ApplyUserAlertSettings(board.loaded, board.settings)

LEMMA ConvergeInvHolds ==
    ASSUME RefusalIsNoDashboard, LimitlessBoards
    PROVE  BoardSpec => []ConvergeInv
<1>1. BoardInit => ConvergeInv
  BY DEF BoardInit, ConvergeInv
<1>2. ConvergeInv /\ [BoardNext]_boardVars => ConvergeInv'
  <2> SUFFICES ASSUME ConvergeInv, [BoardNext]_boardVars
               PROVE  ConvergeInv'
    OBVIOUS
  <2>1. CASE board' = board
    BY <2>1 DEF ConvergeInv
  <2>2. ASSUME NEW parts \in Boards, NEW c \in Owners, NEW rules \in RuleSets,
               LoadBoard(parts, c, rules)
        PROVE  ConvergeInv'
    <3>1. ShownInv(board')
      BY <2>2, LoadKeepsInv
    <3>2. board'.shown = ApplyUserAlertSettings(board'.loaded, board'.settings)
      BY <2>2 DEF LoadBoard
    <3> QED
      BY <3>1, <3>2 DEF ConvergeInv
  <2>3. ASSUME NEW c \in Owners, NEW rules \in RuleSets, Edit(c, rules)
        PROVE  ConvergeInv'
    <3> DEFINE settings == WithConnection(board.settings, c, rules)
    <3>1. board # None /\ ShownInv(board)
      BY <2>3 DEF Edit, ConvergeInv
    <3>2. BoardInv
      BY <3>1 DEF BoardInv
    <3>3. ShownInv(board') /\ board'.loaded = board.loaded
      BY <2>3, <3>2, EditKeepsInv
    <3>4. /\ board'.shown = ApplyUserAlertSettings(board.shown, settings)
          /\ board'.settings = settings
          /\ board'.relaxed = (board.relaxed \/ Relaxes(RulesFor(board.settings, c), rules))
      BY <2>3, <3>1 DEF Edit, ShownInv, BoardFields
    <3>5. ASSUME ~board'.relaxed, board.loaded.accounts # <<>>
          PROVE  board'.shown = ApplyUserAlertSettings(board'.loaded, board'.settings)
      <4>1. ~board.relaxed /\ ~Relaxes(RulesFor(board.settings, c), rules)
        BY <3>4, <3>5
      <4>2. board.shown = ApplyUserAlertSettings(board.loaded, board.settings)
        BY <3>1, <3>5, <4>1 DEF ConvergeInv
      <4>3. Loaded(board.loaded) /\ IsStored(board.settings)
        BY <3>1 DEF ShownInv
      <4>4. ApplyUserAlertSettings(ApplyUserAlertSettings(board.loaded, board.settings), settings)
              = ApplyUserAlertSettings(board.loaded, settings)
        BY <3>5, <4>1, <4>3, EditConverges
      <4> QED
        BY <3>3, <3>4, <4>2, <4>4
    <3> QED
      BY <3>3, <3>5 DEF ConvergeInv
  <2>4. CASE Replace
    BY <2>4 DEF Replace, ConvergeInv
  <2> QED
    BY <2>1, <2>2, <2>3, <2>4 DEF BoardNext, Ask, boardVars
<1> QED
  BY <1>1, <1>2, PTL DEF BoardSpec

\* Edits that only add or tighten show what a load with the last settings would show,
\* over whichever edits they were reached, and the alerts are those of the cards whose
\* use reaches the line: of dashboards whose providers report no limit of their own,
\* which none of the adapters does.
THEOREM EditsReachTheSameBoard ==
    RefusalIsNoDashboard /\ LimitlessBoards => (BoardSpec => []EditsConverge)
<1> SUFFICES ASSUME RefusalIsNoDashboard, LimitlessBoards
             PROVE  BoardSpec => []EditsConverge
  OBVIOUS
<1>1. ConvergeInv => EditsConverge
  <2> SUFFICES ASSUME ConvergeInv, board # None, ~board.relaxed, board.loaded.accounts # <<>>
               PROVE  /\ board.shown = ApplyUserAlertSettings(board.loaded, board.settings)
                      /\ board.shown.alerts = ReachedCards
    BY DEF EditsConverge
  <2>1. board.shown = ApplyUserAlertSettings(board.loaded, board.settings)
    BY DEF ConvergeInv
  <2>2. /\ Built(board.loaded) /\ IsStored(board.settings)
        /\ \A account \in ToSet(board.loaded.accounts) : Limitless(account)
    BY DEF ConvergeInv, ShownInv, Loaded
  <2> QED
    BY <2>1, <2>2, ShownReached, BoardReached
<1> QED
  BY <1>1, ConvergeInvHolds, PTL

-----------------------------------------------------------------------------
\* To load a board or to edit its rules asks no provider for anything.
LEMMA BoardsAsk == BoardSpec => Spec
<1>1. BoardInit => Init
  BY DEF BoardInit
<1>2. [BoardNext]_boardVars => [Next]_vars
  BY Zenon DEF BoardNext, Ask, LoadBoard, Edit, Replace, boardVars, vars
<1> QED
  BY <1>1, <1>2, PTL DEF BoardSpec, Spec

\* Reports asked for between the loads of boards show the instants their providers
\* meant, and plans limited exactly as they are spent.
THEOREM ReportsBesideBoards ==
    BoardSpec => [](InstantsAgree /\ SpentIsLimited)
  BY BoardsAsk, ShownInstantsAgree, SpentWindowsAreLimited, PTL
LEMMA ReportsTyped == ReportInv => TypeOK
<1> SUFFICES ASSUME ReportInv PROVE TypeOK
  OBVIOUS
<1>1. source \in Sources \cup {None}
  BY ReportAssumption DEF ReportInv, Sources
<1>2. ASSUME envelope # None PROVE envelope.status \in {"success", "error"}
  <2>1. \E result : envelope = Envelope(result)
    BY <1>2, Zenon DEF ReportInv, ReportEnvelope
  <2> QED
    BY <2>1 DEF Envelope
<1>3. ASSUME Accepted
      PROVE  /\ IsDashboard(envelope.payload)
             /\ \A b \in ToSet(Account.buckets) : b \in UsageBuckets
             /\ Account.budget \in [Periods -> SpendStates]
  <2>1. /\ IsAccount(Account)
        /\ \A b \in ToSet(Account.buckets) : b \in UsageBuckets
        /\ Account.budget \in [Periods -> SpendStates]
        /\ envelope.payload = BuildDashboard(0, <<Account>>)
    BY <1>3, ShownTyped, Zenon DEF TypedAccount
  <2> HIDE DEF Account
  <2>2. ToSet(<<Account>>) = {Account} /\ <<Account>> \in Seq(ToSet(<<Account>>))
    BY ListedOne DEF Listed
  <2>3. IsDashboard(BuildDashboard(0, <<Account>>))
    BY <2>1, <2>2, BuildTypes
  <2> QED
    BY <2>1, <2>3
<1> HIDE DEF Account
<1> QED
  BY <1>1, <1>2, <1>3, Zenon DEF TypeOK, SpendStates

\* Every adapter, for every report, answers an account of the types the core reads:
\* no limit and no percentage of a period, money that fits, counts that fit.
THEOREM ReportsAreTyped == Spec => []TypeOK
  BY ReportsTyped, ReportsStay, PTL

LEMMA ShownTypes ==
    ASSUME NEW b, ShownInv(b)
    PROVE  /\ IsDashboard(b.loaded) /\ IsDashboard(b.shown)
           /\ Len(b.shown.accounts) = Len(b.loaded.accounts)
           /\ b.settings \in [DOMAIN b.settings -> Rules] /\ DOMAIN b.settings \subseteq Owners
           /\ b.edits \in 0..MaxEdits /\ b.relaxed \in BOOLEAN
<1>1. IsDashboard(b.loaded) /\ IsDashboard(b.shown)
  BY DEF ShownInv, Loaded, Built
<1>2. DOMAIN b.shown.accounts = DOMAIN b.loaded.accounts
  BY DEF ShownInv, ShowsAll
<1>3. b.loaded.accounts \in Seq(ToSet(b.loaded.accounts)) /\ b.shown.accounts \in Seq(ToSet(b.shown.accounts))
  BY <1>1 DEF IsDashboard
<1>4. Len(b.shown.accounts) = Len(b.loaded.accounts)
  BY <1>2, <1>3
<1> QED
  BY <1>1, <1>4 DEF ShownInv, IsStored, IsSettings

\* The reports are typed, and the board keeps the dashboards it loaded and shows: as
\* many accounts shown as loaded, with the settings of connections that may be edited.
THEOREM BoardsAreTyped == RefusalIsNoDashboard => (BoardSpec => []BoardTypes)
<1> SUFFICES ASSUME RefusalIsNoDashboard
             PROVE  BoardSpec => []BoardTypes
  OBVIOUS
<1>1. TypeOK /\ BoardInv => BoardTypes
  <2> SUFFICES ASSUME TypeOK, BoardInv PROVE BoardTypes
    OBVIOUS
  <2> QED
    BY ShownTypes DEF BoardTypes, BoardInv
<1> QED
  BY <1>1, BoardsAsk, ReportsAreTyped, BoardInvHolds, PTL

===============================================================================

--------------------------- MODULE ProviderAdapter ---------------------------
(***************************************************************************)
(* What the provider adapters share.  An adapter turns the report the phone *)
(* fetched into one account, or refuses it as a whole; which error it names *)
(* is wording.  A page that does not parse is Refused itself.  The credit   *)
(* amounts shown beside a percentage are left out.                          *)
(***************************************************************************)
EXTENDS WardCore, Calendar

CONSTANTS
    MaxCount,       \* the largest count of tokens or requests, 2^64 - 1 in the source
    MaxCoefficient  \* the largest coefficient of a decimal, 2^127 - 1 in the source

ASSUME WidthAssumption == MaxCount \in Nat \ {0} /\ MaxCoefficient \in Nat \ {0}

\* An absent instant is no instant.
ASSUME InstantAssumption == None \notin Instants

\* i64 and u64 arithmetic that refuses, and u64 arithmetic that stops at the top.
IfFits(amount) == IF amount \in (-MaxMinor - 1)..MaxMinor THEN amount ELSE Refused

CheckedMinor(a, b) == IF Refused \in {a, b} THEN Refused ELSE IfFits(a + b)

CheckedCount(a, b) ==
    IF Refused \in {a, b} THEN Refused ELSE IF a + b <= MaxCount THEN a + b ELSE Refused

SaturatingCount(a, b) == IF a + b <= MaxCount THEN a + b ELSE MaxCount

OrZero(count) == IF count = None THEN 0 ELSE count

\* The buckets of a feed in the order its pages list them.
Rows(pages) == FlattenSeq(pages)
Results(buckets) == FlattenSeq([i \in DOMAIN buckets |-> buckets[i].results])
Parsed(pages) == Refused \notin ToSet(pages)

\* The elements that pass a test, and a set as the keys of an ordered map list
\* it.  TLAPS has no definition of the library's selection and sort.
Chosen(seq, Test(_)) ==
    FlattenSeq([i \in DOMAIN seq |-> IF Test(seq[i]) THEN <<seq[i]>> ELSE <<>>])

InOrder(S, Less(_, _)) ==
    CHOOSE order \in [1..Cardinality(S) -> S] :
        \A i, j \in DOMAIN order : i < j => Less(order[i], order[j])

\* A currency is checked without regard to case; only its being dollars is kept.
IsUsd(currency) == currency = "USD"

\* Mutant: a window is limited past its whole only.
PercentStatusPast(percent) ==
    IF percent = None THEN "unknown"
    ELSE IF percent.num > 100 * percent.den THEN "rateLimited"
    ELSE IF Reaches(percent, 80) THEN "warning" ELSE "ok"

PercentStatus(percent) ==
    IF percent = None THEN "unknown"
    ELSE IF Reaches(percent, 100) THEN "rateLimited"
    ELSE IF Reaches(percent, 80) THEN "warning" ELSE "ok"

WorstStatus(allowances) == Worst({allowances[i].status : i \in DOMAIN allowances})

NoBudgets == [p \in Periods |-> UnknownBudget]

\* A subscription plan reports windows and no money, an organization money and
\* no windows.
PlanAccount(id, provider, connection, allowances, buckets) ==
    [id |-> id, provider |-> provider, connection |-> connection,
     status |-> WorstStatus(allowances), budget |-> NoBudgets,
     allowances |-> allowances, buckets |-> buckets, models |-> <<>>]

PlatformAccount(id, provider, connection, budget, buckets, models) ==
    [id |-> id, provider |-> provider, connection |-> connection,
     status |-> "ok", budget |-> budget,
     allowances |-> <<>>, buckets |-> buckets, models |-> models]

\* A window that reports its use as a percentage.
Window(id, meter, label, percent, unlimited, resetsAt, status) ==
    [id |-> id, meter |-> meter, label |-> label, percent |-> percent,
     unlimited |-> unlimited, resetsAt |-> resetsAt, status |-> status]

Counts == Option(0..MaxCount)
UsageBuckets ==
    [start : Instants, end : Instants, cost : Option(Money), input : Counts, output : Counts,
     cached : Counts, total : Counts, requests : Counts]

\* A day's counts; a provider that does not report one leaves it absent.
Bucket(start, end, cost, input, output, cached, total, requests) ==
    [start |-> start, end |-> end, cost |-> cost, input |-> input, output |-> output,
     cached |-> cached, total |-> total, requests |-> requests]
=============================================================================

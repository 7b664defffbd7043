--------------------------- MODULE AnthropicReport ---------------------------
(***************************************************************************)
(* The Anthropic organization adapter: usage buckets are gathered by the day *)
(* they start on, cost buckets by their start; the spend of a period is      *)
(* known only when each of its days has a cost.                              *)
(***************************************************************************)
EXTENDS ProviderAdapter

\* What deserializes; a count the page leaves out is zero.
RawAmounts == {None, Refused} \cup [whole : Int, tenth : 0..9]
RawUsageResults ==
    [input : Nat, output : Nat, read : Nat, hourly : Nat, brief : Nat, model : Option(STRING)]
RawCostResults == [amount : RawAmounts, currency : Option(STRING)]
RawPages(feed) ==
    Seq([start : Instants, end : Instants,
         results : Seq(IF feed = "usage" THEN RawUsageResults ELSE RawCostResults)])

UsageFields == {"input", "output", "cached"}
NoUsage == [f \in UsageFields |-> 0]

\* Cached tokens are those read plus both kinds of those written.
AddUsage(totals, result) ==
    LET created == SaturatingCount(result.hourly, result.brief)
    IN [input |-> SaturatingCount(totals.input, result.input),
        output |-> SaturatingCount(totals.output, result.output),
        cached |-> SaturatingCount(SaturatingCount(totals.cached, result.read), created)]

UsageTotals(results) == FoldLeft(AddUsage, NoUsage, results)

\* An amount is cents: its sign and whole part, and the first digit after the
\* point.  A negative amount below one cent has no sign left to round by.
CentsFromDecimal(amount) ==
    IF amount = Refused THEN Refused
    ELSE IF amount.tenth < 5 THEN amount.whole
    ELSE IfFits(amount.whole + (IF amount.whole >= 0 THEN 1 ELSE -1))

AddCost(cents, result) ==
    IF result.currency # None /\ ~IsUsd(result.currency) THEN Refused
    ELSE IF result.amount = None THEN cents
    ELSE CheckedMinor(cents, CentsFromDecimal(result.amount))

BucketCents(bucket) == FoldLeft(AddCost, 0, bucket.results)

\* The start of the day a usage bucket begins on.
DayStart(bucket) == Midnight(bucket.start.date)
UsageOfDay(usage, day) == Chosen(usage, LAMBDA b : DayStart(b) = day)
CostsFrom(costs, start) == Chosen(costs, LAMBDA b : b.start = start)

UsageDays(usage) == {DayStart(b) : b \in ToSet(usage)}
CostDays(costs) == {b.start : b \in ToSet(costs)}

CentsFrom(costs, start) ==
    LET same == CostsFrom(costs, start)
    IN FoldLeft(CheckedMinor, 0, [i \in DOMAIN same |-> BucketCents(same[i])])

\* Mutant: the last bucket listed ends the day.
LastEndAsListed(buckets) == buckets[Len(buckets)].end

\* A day ends when the last of its buckets does.
LastEnd(buckets) == CHOOSE end \in {b.end : b \in ToSet(buckets)} :
                        \A b \in ToSet(buckets) : NotEarlier(end, b.end)

MergedBucket(usage, costs, start) ==
    LET used == UsageOfDay(usage, start)
        charged == CostsFrom(costs, start)
        totals == UsageTotals(Results(used))
        cents == CentsFrom(costs, start)
        Known(count) == IF used = <<>> THEN None ELSE count
    IN Bucket(start, LastEnd(used \o charged),
              IF charged = <<>> THEN None ELSE IF cents = Refused THEN Refused ELSE Dollars(cents),
              Known(totals.input), Known(totals.output), Known(totals.cached),
              Known(SaturatingCount(SaturatingCount(totals.input, totals.output), totals.cached)),
              None)

MergeBuckets(usage, costs) ==
    LET starts == InOrder(UsageDays(usage) \cup CostDays(costs), Earlier)
    IN [i \in DOMAIN starts |-> MergedBucket(usage, costs, starts[i])]

\* Mutant: the days without a cost are skipped.
BudgetForPriced(start, buckets) ==
    LET priced == Chosen(buckets, LAMBDA b : NotEarlier(b.start, start) /\ b.cost # None)
        total == FoldLeft(CheckedMinor, 0, [i \in DOMAIN priced |-> priced[i].cost.minor])
    IN IF total = Refused THEN Refused
       ELSE CalculateBudgetState(IF priced # <<>> THEN Dollars(total) ELSE None, None, None)

\* Refused when the sum overflows, None unless there are buckets and all have a cost.
BudgetFor(start, buckets) ==
    LET since == Chosen(buckets, LAMBDA b : NotEarlier(b.start, start))
        priced == Chosen(since, LAMBDA b : b.cost # None)
        total == FoldLeft(CheckedMinor, 0, [i \in DOMAIN priced |-> priced[i].cost.minor])
    IN IF total = Refused THEN Refused
       ELSE CalculateBudgetState(IF since # <<>> /\ priced = since THEN Dollars(total) ELSE None,
                                 None, None)

ModelBreakdown(results) ==
    LET models == {r.model : r \in ToSet(results)} \ {None}
        Of(m) == UsageTotals(Chosen(results, LAMBDA r : r.model = m))
    IN [m \in models |-> [f \in {"input", "output"} |-> Of(m)[f]]]

AnthropicAccount(report) ==
    LET usage == Rows(report.usage)
        costs == Rows(report.costs)
        buckets == MergeBuckets(usage, costs)
        budget == [p \in Periods |-> BudgetFor(report.starts[p], buckets)]
    IN IF \/ ~Parsed(report.usage) \/ ~Parsed(report.costs)
          \/ Refused \in {buckets[i].cost : i \in DOMAIN buckets}
          \/ Refused \in {budget[p] : p \in Periods}
       THEN Refused
       ELSE PlatformAccount("anthropic-local", "claude", "anthropic.platform", budget, buckets,
                            ModelBreakdown(Results(usage)))
=============================================================================

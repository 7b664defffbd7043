---------------------------- MODULE OpenAiReport ----------------------------
(***************************************************************************)
(* The OpenAI organization adapter: pages of usage and of costs, each a      *)
(* sequence of buckets with a start, an end (minutes since the epoch) and    *)
(* results.  Costs are exact decimals until a total is rounded to cents.     *)
(***************************************************************************)
EXTENDS ProviderAdapter

(***************************************************************************)
(* What deserializes.  An amount has a value with digits that parse or not  *)
(* (Refused), or lacks its value or its currency (None).                     *)
(***************************************************************************)
RawAmounts == {None, Refused} \cup [digits : Int, fraction : Nat, exponent : Int]
RawUsageResults ==
    [input : Nat, output : Nat, cached : Option(Nat), requests : Nat, model : Option(STRING)]
RawCostResults == [amount : RawAmounts, currency : Option(STRING)]
RawPages(feed) ==
    Seq([start : Int, end : Int,
         results : Seq(IF feed = "usage" THEN RawUsageResults ELSE RawCostResults)])

(***************************************************************************)
(* DecimalAmount: coefficient / 10^scale.                                   *)
(***************************************************************************)
Zero == [coefficient |-> 0, scale |-> 0]

PowerOfTen(exponent) == IF 10 ^ exponent <= MaxCoefficient THEN 10 ^ exponent ELSE Refused

Scaled(coefficient, exponent) ==
    LET power == PowerOfTen(exponent)
    IN IF power = Refused THEN Refused
       ELSE IF coefficient * power \in (-MaxCoefficient - 1)..MaxCoefficient
       THEN coefficient * power ELSE Refused

\* The canonical form has no trailing zeros in its fraction.
NewDecimal(coefficient, scale) ==
    LET zeros == Max({k \in 0..scale : coefficient % (10 ^ k) = 0})
    IN IF coefficient = 0 THEN Zero
       ELSE [coefficient |-> Quotient(coefficient, 10 ^ zeros), scale |-> scale - zeros]

\* A source amount is its digits, how many of them follow the point, and an exponent.
FromSource(source) ==
    LET places == source.fraction - source.exponent
        shifted == Scaled(source.digits, -places)
    IN IF source.digits = 0 THEN Zero
       ELSE IF places >= 0 THEN NewDecimal(source.digits, places)
       ELSE IF shifted = Refused THEN Refused ELSE NewDecimal(shifted, 0)

AddDecimal(a, b) ==
    IF Refused \in {a, b} THEN Refused
    ELSE IF a.coefficient = 0 THEN b
    ELSE IF b.coefficient = 0 THEN a
    ELSE LET scale == IF a.scale > b.scale THEN a.scale ELSE b.scale
             left == Scaled(a.coefficient, scale - a.scale)
             right == Scaled(b.coefficient, scale - b.scale)
         IN IF Refused \in {left, right} THEN Refused
            ELSE IF left + right \in (-MaxCoefficient - 1)..MaxCoefficient
            THEN NewDecimal(left + right, scale) ELSE Refused

\* A fraction with more digits than any power of ten has is less than half a cent.
TooFine(scale) == PowerOfTen(scale - 2) = Refused

ToMinorUnits(amount) ==
    LET divisor == PowerOfTen(amount.scale - 2)
        size == IF amount.coefficient < 0 THEN -amount.coefficient ELSE amount.coefficient
        sign == IF amount.coefficient < 0 THEN -1 ELSE 1
        away == IF size % divisor >= (divisor + 1) \div 2 THEN 1 ELSE 0
        cents == Scaled(amount.coefficient, 2 - amount.scale)
    IN IF amount = Refused THEN Refused
       ELSE IF amount.scale <= 2 THEN IF cents = Refused THEN Refused ELSE IfFits(cents)
       ELSE IF TooFine(amount.scale) THEN 0
       ELSE IfFits(sign * (size \div divisor + away))

(***************************************************************************)
(* The report.                                                              *)
(***************************************************************************)
UsageFields == {"input", "output", "cached", "requests"}
NoUsage == [f \in UsageFields |-> 0]

AddUsage(totals, result) ==
    [f \in UsageFields |-> CheckedCount(totals[f], OrZero(result[f]))]

UsageTotals(results) == FoldLeft(AddUsage, NoUsage, results)

Span(bucket) == <<bucket.start, bucket.end>>
SpanLess(a, b) == a[1] < b[1] \/ (a[1] = b[1] /\ a[2] < b[2])
Spans(buckets) == {Span(b) : b \in ToSet(buckets)}

\* Mutant: buckets that start together are one.
OfSpanByStart(buckets, span) == Chosen(buckets, LAMBDA b : b.start = span[1])

OfSpan(buckets, span) == Chosen(buckets, LAMBDA b : Span(b) = span)

\* Mutant: what is no amount in dollars costs nothing.
CostOfDollars(result) ==
    IF result.amount \in {None, Refused} \/ result.currency # "USD" THEN Zero
    ELSE FromSource(result.amount)

\* A result without an amount costs nothing; one in another currency, or whose
\* digits do not parse, refuses the report.
CostOf(result) ==
    IF result.amount = None \/ result.currency = None THEN Zero
    ELSE IF IsUsd(result.currency) /\ result.amount # Refused
    THEN FromSource(result.amount) ELSE Refused

SumDecimals(amounts) == FoldLeft(AddDecimal, Zero, amounts)

BucketCost(bucket) ==
    SumDecimals([i \in DOMAIN bucket.results |-> CostOf(bucket.results[i])])

CostOfSpan(buckets, span) ==
    LET same == OfSpan(buckets, span)
    IN SumDecimals([i \in DOMAIN same |-> BucketCost(same[i])])

\* Mutant: each bucket is rounded before the sum.
SpentSinceByBucket(start, costs) ==
    LET spans == InOrder({s \in Spans(costs) : s[1] >= start}, SpanLess)
    IN FoldLeft(CheckedMinor, 0, [i \in DOMAIN spans |-> ToMinorUnits(CostOfSpan(costs, spans[i]))])

\* Exact costs are summed over the buckets since a start, then rounded once.
SpentSince(start, costs) ==
    LET spans == InOrder({s \in Spans(costs) : s[1] >= start}, SpanLess)
    IN ToMinorUnits(SumDecimals([i \in DOMAIN spans |-> CostOfSpan(costs, spans[i])]))

MergedBucket(usage, costs, span) ==
    LET totals == IF span \in Spans(usage) THEN UsageTotals(Results(OfSpan(usage, span)))
                  ELSE [f \in UsageFields |-> None]
        cost == IF span \in Spans(costs) THEN ToMinorUnits(CostOfSpan(costs, span)) ELSE None
    IN Bucket(UnixToUtc(span[1]), UnixToUtc(span[2]),
              IF cost \in {None, Refused} THEN cost ELSE Dollars(cost),
              totals.input, totals.output, totals.cached, None, totals.requests)

MergeBuckets(usage, costs) ==
    LET spans == InOrder(Spans(usage) \cup Spans(costs), SpanLess)
    IN [i \in DOMAIN spans |-> MergedBucket(usage, costs, spans[i])]

\* The totals of every model, over all buckets.
ModelTotals(results) ==
    [m \in {r.model : r \in ToSet(results)} \ {None} |->
        UsageTotals(Chosen(results, LAMBDA r : r.model = m))]

ModelBreakdown(totals) ==
    [m \in DOMAIN totals |-> [f \in UsageFields \ {"cached"} |-> totals[m][f]]]

\* Whether a value of a bucket, or of a model, did not fit.
Broken(buckets, totals) ==
    \/ \E b \in ToSet(buckets) : Refused \in {b.cost, b.input, b.output, b.cached, b.requests}
    \/ \E m \in DOMAIN totals, f \in UsageFields : totals[m][f] = Refused

OpenAiAccount(report) ==
    LET usage == Rows(report.usage)
        costs == Rows(report.costs)
        buckets == MergeBuckets(usage, costs)
        models == ModelTotals(Results(usage))
        spent == [p \in Periods |-> SpentSince(report.starts[p], costs)]
        budget == [p \in Periods |-> CalculateBudgetState(Dollars(spent[p]), None, None)]
    IN IF \/ ~Parsed(report.usage) \/ ~Parsed(report.costs)
          \/ Broken(buckets, models)
          \/ Refused \in {spent[p] : p \in Periods}
       THEN Refused
       ELSE PlatformAccount("openai-local", "openai", "openai.platform", budget, buckets,
                            ModelBreakdown(models))
=============================================================================

--------------------------- MODULE ProviderReports ---------------------------
(***************************************************************************)
(* One provider at a time is asked for its report: a plan answers at once,   *)
(* an organization page by page, its usage and its costs at the same time.   *)
(* The report is then handed to the core, which answers an envelope, and     *)
(* the next provider is asked.                                               *)
(***************************************************************************)
EXTENDS WardFfi

CONSTANTS
    Summaries,  \* Summaries[p]: the reports plan p may answer
    Pages,      \* Pages[o][feed]: the pages organization o may answer
    Starts,     \* Starts[o]: when today, the week and the month started
    MaxPages    \* bound on the pages of one feed

Feeds == {"usage", "costs"}

ASSUME ReportAssumption ==
    /\ DOMAIN Summaries \subseteq Plans /\ DOMAIN Pages \subseteq Platforms
    /\ DOMAIN Starts = DOMAIN Pages
    /\ \A p \in DOMAIN Summaries : Summaries[p] \subseteq RawReports(p)
    /\ \A o \in DOMAIN Pages, feed \in Feeds :
          Pages[o][feed] \subseteq RawPages(o, feed) \cup {Refused}
    /\ MaxPages \in Nat \ {0}

VARIABLES
    source,     \* the provider that is asked, or None
    report,     \* what it has answered so far
    envelope    \* what the core made of it, or None

vars == <<source, report, envelope>>

Init == source = None /\ report = None /\ envelope = None

AskPlan(p) ==
    /\ source = None
    /\ source' = p
    /\ report' \in Summaries[p]
    /\ UNCHANGED envelope

AskPlatform(o) ==
    /\ source = None
    /\ source' = o
    /\ report' = [usage |-> <<>>, costs |-> <<>>, starts |-> Starts[o]]
    /\ UNCHANGED envelope

\* A page of either feed arrives; the two are fetched side by side.
Page(feed) ==
    /\ source \in DOMAIN Pages /\ envelope = None
    /\ Len(report[feed]) < MaxPages
    /\ \E page \in Pages[source][feed] : report' = [report EXCEPT ![feed] = Append(@, page)]
    /\ UNCHANGED <<source, envelope>>

Answer ==
    /\ source # None /\ envelope = None
    /\ envelope' = ReportEnvelope(source, 0, report)
    /\ UNCHANGED <<source, report>>

Close ==
    /\ envelope # None
    /\ source' = None /\ report' = None /\ envelope' = None

Next ==
    \/ \E p \in DOMAIN Summaries : AskPlan(p)
    \/ \E o \in DOMAIN Pages : AskPlatform(o)
    \/ \E feed \in Feeds : Page(feed)
    \/ Answer
    \/ Close

Spec == Init /\ [][Next]_vars

-----------------------------------------------------------------------------
(***************************************************************************)
(* Properties.                                                              *)
(***************************************************************************)
Accepted == envelope # None /\ envelope.status = "success"
Shown(s) == source = s /\ Accepted
Account == envelope.payload.accounts[1]

\* The results of a feed, each with the start and the end of its bucket.
Entries(feed) ==
    LET rows == Rows(report[feed])
    IN FlattenSeq([i \in DOMAIN rows |->
           [j \in DOMAIN rows[i].results |->
               [start |-> rows[i].start, end |-> rows[i].end, result |-> rows[i].results[j]]]])

SumOf(f(_), seq) == FoldLeft(LAMBDA total, x : total + x, 0, [i \in DOMAIN seq |-> f(seq[i])])

\* num / den rounded to the nearest whole number, halves away from zero.
Rounded(num, den) ==
    IF num >= 0 THEN (2 * num + den) \div (2 * den) ELSE -((den - 2 * num) \div (2 * den))

\* An amount in units of 10^-6 of its currency.
Micros(amount) == amount.digits * 10 ^ (6 - amount.fraction + amount.exponent)

IsAmount(result) == result.amount # None /\ result.currency # None

\* OpenAI spend is the exact sum of the amounts since the start, rounded once:
\* halves of a cent of many small charges are neither lost nor counted twice,
\* whatever pages and buckets they came in.
SpendExact ==
    Shown("openai") =>
        \A p \in Periods :
            LET since == Chosen(Entries("costs"), LAMBDA e : e.start >= report.starts[p])
                Value(e) == IF IsAmount(e.result) THEN Micros(e.result.amount) ELSE 0
            IN Account.budget[p].spent = Dollars(Rounded(SumOf(Value, since), 10000))

\* What Anthropic spend takes to be known: something was reported since the start
\* and no day with usage lacks a cost.
AnthropicKnown(p) ==
    LET start == report.starts[p]
        priced == {b.start : b \in {c \in ToSet(Rows(report.costs)) : NotEarlier(c.start, start)}}
        used == {Midnight(b.start.date) :
                    b \in {u \in ToSet(Rows(report.usage)) :
                              NotEarlier(Midnight(u.start.date), start)}}
    IN used \subseteq priced /\ priced # {}

\* Cents of a decimal by its size: negative amounts of a cent or more round away
\* from zero as positive ones do.
AnthropicCents(e) ==
    LET amount == e.result.amount
    IN IF amount = None THEN 0
       ELSE IF amount.whole >= 0 THEN Rounded(10 * amount.whole + amount.tenth, 10)
       ELSE Rounded(10 * amount.whole - amount.tenth, 10)

AnthropicComplete ==
    Shown("anthropic") =>
        \A p \in Periods :
            LET since == Chosen(Entries("costs"),
                                   LAMBDA e : NotEarlier(e.start, report.starts[p]))
            IN Account.budget[p].spent =
                   IF AnthropicKnown(p) THEN Dollars(SumOf(AnthropicCents, since)) ELSE None

\* Of a Cursor team: every page, member and row has to tell its part.
CursorComplete ==
    Shown("cursorPlatform") =>
        LET members == FlattenSeq(Chosen(report.costs, LAMBDA page : page # None))
            Told(m) == m.overall # None \/ (m.included # None /\ m.onDemand # None)
            Tenths(m) == IF m.overall # None THEN m.overall ELSE m.included + m.onDemand
            Cents(m) == Rounded(Tenths(m), 10)
            known == report.costs # <<>> /\ None \notin ToSet(report.costs)
                       /\ \A m \in ToSet(members) : Told(m)
            Whole(row) == row.included + row.usageBased + row.apiKey
        IN /\ Account.budget["month"].spent =
                 IF known THEN Dollars(SumOf(Cents, members)) ELSE None
           /\ \A b \in ToSet(Account.buckets) :
                 LET rows == Chosen(Rows(report.usage), LAMBDA r : r.day = b.start.date)
                     told == \A r \in ToSet(rows) : None \notin {r.included, r.usageBased, r.apiKey}
                 IN b.requests = IF told THEN Min({MaxCount, SumOf(Whole, rows)}) ELSE None

\* Spend and requests are the sum of the parts where every part is known, and
\* unknown otherwise, never smaller: a day nobody priced, a member or a row that
\* does not tell never reads as free.
CompleteOrUnknown == AnthropicComplete /\ CursorComplete

\* A moment of the report and one of the account, in minutes since the epoch.
RowMinute(moment) == IF source = "openai" THEN moment ELSE MinuteNumber(moment)

CountFields == {"input", "output", "cached"}
Count(f, result) ==
    IF source = "openai" THEN OrZero(result[f])
    ELSE IF f = "cached" THEN result.read + result.hourly + result.brief ELSE result[f]

\* Buckets come in order, once each, every usage result lies within a bucket that
\* counts it, and their counts add up to those of the results: nothing a page
\* said is dropped, counted in two buckets or wrapped around.
BucketsAddUp ==
    source \in {"openai", "anthropic"} /\ Accepted =>
        LET buckets == Account.buckets
            entries == Entries("usage")
            Total(f) == SumOf(LAMBDA b : OrZero(b[f]), buckets)
        IN /\ \A i \in 2..Len(buckets) :
                 \/ Earlier(buckets[i - 1].start, buckets[i].start)
                 \/ /\ buckets[i - 1].start = buckets[i].start
                    /\ Earlier(buckets[i - 1].end, buckets[i].end)
           /\ \A e \in ToSet(entries) : \E b \in ToSet(buckets) :
                 /\ MinuteNumber(b.start) <= RowMinute(e.start)
                 /\ RowMinute(e.end) <= MinuteNumber(b.end)
                 /\ b.input # None
           /\ \A f \in CountFields :
                 \/ Total(f) = SumOf(LAMBDA e : Count(f, e.result), entries)
                 \/ source = "anthropic" /\ \E b \in ToSet(buckets) : b[f] = MaxCount

\* The adapters' conversions agree with the calendar: an instant the account
\* shows is the one the provider meant, across month and year ends, leap days,
\* times before the epoch and offsets from UTC.
InstantsAgree ==
    Accepted =>
        /\ source = "openai" =>
              {<<MinuteNumber(b.start), MinuteNumber(b.end)>> : b \in ToSet(Account.buckets)}
                  = {<<r.start, r.end>> : r \in ToSet(Rows(report.usage \o report.costs))}
        /\ source = "codex" =>
              /\ \A b \in ToSet(Account.buckets) :
                    /\ IsDate(b.end.date)
                    /\ DayNumber(b.end.date) = DayNumber(b.start.date) + 1
              /\ {MinuteNumber(w.resetsAt) : w \in {v \in ToSet(Account.allowances) :
                                                     v.resetsAt # None}}
                  = UNION {{w.resetsAt : w \in {limit.primary, limit.secondary} \ {None}} \ {None}
                           : limit \in ToSet(Codex!RateLimits(report))}
        /\ source = "claude" =>
              \A w \in ToSet(Account.allowances) :
                  w.resetsAt # None =>
                      LET written == report.windows[w.id].resetsAt
                      IN /\ IsDate(w.resetsAt.date) /\ w.resetsAt.minute \in 0..(DayMinutes - 1)
                         /\ (DayNumber(w.resetsAt.date) - DayNumber(written.date)) * DayMinutes
                              + w.resetsAt.minute + written.offset = written.minute

\* The adapters' own limits agree with the rule the recoveries follow: a window is
\* shown rate limited exactly when it is remembered as spent, unless it has no
\* end, and an account with a spent window, or with none at all, is not healthy.
SpentIsLimited ==
    source \in Plans /\ Accepted =>
        /\ \A w \in ToSet(Account.allowances) :
              ~w.unlimited => (w.status = "rateLimited" <=> IsExhausted(w))
        /\ envelope.payload.status = "ok" =>
              ExhaustedWindows(envelope.payload) = {} /\ Account.allowances # <<>>

\* The windows of an account have keys of their own, and the two windows of a
\* limit labels of their own where their lengths are known to differ.
WindowsToldApart ==
    source \in Plans /\ Accepted =>
        /\ Cardinality(KeysOf(WindowsOf(envelope.payload))) = Len(Account.allowances)
        /\ source = "codex" =>
              \A limit \in ToSet(Codex!RateLimits(report)) :
                  LET Own(w) == w.meter = "plan" /\ w.id[1] = Codex!LimitId(limit)
                      durations == {w.duration : w \in {limit.primary, limit.secondary} \ {None}}
                  IN Cardinality(durations \ {None}) = 2 =>
                        Cardinality({w.label : w \in {v \in ToSet(Account.allowances) : Own(v)}}) = 2

\* What is wrong with a report, by its content alone.
Malformed ==
    CASE source \in {"openai", "anthropic"} ->
             \/ ~Parsed(report.usage) \/ ~Parsed(report.costs)
             \/ \E e \in ToSet(Entries("costs")) :
                    \/ e.result.amount = Refused
                         /\ (source = "openai" => e.result.currency # None)
                    \/ e.result.currency \notin {None, "USD"}
                         /\ (source = "openai" => e.result.amount # None)
      [] source = "cursorPlatform" ->
             \/ ~Parsed(report.usage) \/ ~Parsed(report.costs)
             \/ \E row \in ToSet(Rows(report.usage)) : row.day = None \/ ~IsDate(row.day)
      [] source = "codex" ->
             \/ \E row \in ToSet(report.days) : ~IsDate(row.date)
             \/ /\ report.main.credits # None
                /\ report.main.credits.balance = Refused
                /\ report.main.credits.has \/ report.main.credits.unlimited
      [] source = "claude" ->
             \E id \in DOMAIN report.windows :
                 /\ report.windows[id] # None /\ report.windows[id].resetsAt # None
                 /\ ParseTimestamp(report.windows[id].resetsAt) = Refused
      [] OTHER -> FALSE

\* Whether every sum of sizes the adapter could form fits its width.
Size(n) == IF n < 0 THEN -n ELSE n
Small ==
    CASE source = "openai" ->
             LET Cost(e) == IF IsAmount(e.result) THEN Size(Micros(e.result.amount)) ELSE 0
             IN /\ \A f \in CountFields \cup {"requests"} :
                      SumOf(LAMBDA e : OrZero(e.result[f]), Entries("usage")) <= MaxCount
                /\ SumOf(Cost, Entries("costs")) \div 10000 < MaxMinor
                /\ SumOf(Cost, Entries("costs")) <= MaxCoefficient
      [] source = "anthropic" ->
             SumOf(LAMBDA e : Size(AnthropicCents(e)), Entries("costs")) <= MaxMinor
      [] source = "cursorPlatform" ->
             LET members == FlattenSeq(Chosen(report.costs, LAMBDA page : page # None))
                 Tenths(m) == IF Cursor!MemberSpend(m) = None THEN 0
                              ELSE Size(Cursor!MemberSpend(m)) + 10
             IN SumOf(Tenths, members) <= 10 * MaxMinor
      [] OTHER -> TRUE

\* A report is shown whole or not at all: one malformed page, amount, date or
\* instant anywhere refuses all of it, and nothing else does while the sums fit.
AllOrNothing ==
    envelope # None =>
        /\ Malformed => envelope.status = "error"
        /\ envelope.status = "error" => Malformed \/ ~Small

\* A page that arrives later only adds: no bucket disappears, ends earlier or
\* counts less, and only a Cursor day may turn unknown.
AddsTo(before, after) ==
    \A b \in ToSet(before.buckets) : \E a \in ToSet(after.buckets) :
        /\ a.start = b.start /\ NotEarlier(a.end, b.end)
        /\ \A f \in CountFields : b[f] # None => a[f] # None /\ a[f] >= b[f]
        /\ b.requests # None /\ a.requests # None => a.requests >= b.requests
        /\ b.requests # None /\ a.requests = None => source = "cursorPlatform"

PagesOnlyAdd ==
    [][(\E feed \in Feeds : Page(feed)) =>
           LET before == Normalize(source, report)
               after == Normalize(source, report')
           IN Refused \notin {before, after} => AddsTo(before, after)]_vars

TypeOK ==
    /\ source \in Sources \cup {None}
    /\ envelope # None => envelope.status \in {"success", "error"}
    /\ Accepted => /\ IsDashboard(envelope.payload)
                   /\ \A b \in ToSet(Account.buckets) : b \in UsageBuckets
                   /\ Account.budget \in [Periods -> [spent : Option(Money), limit : {None},
                                                      remaining : {None}, percent : {None},
                                                      projected : {None}, status : {"unknown"}]]
=============================================================================

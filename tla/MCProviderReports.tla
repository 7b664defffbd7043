------------------------- MODULE MCProviderReports -------------------------
(***************************************************************************)
(* Reports for TLC: widths a few amounts can exceed, pages with one bucket   *)
(* or two, and dates around the ends of months, years and leap years.        *)
(***************************************************************************)
EXTENDS AlertBoard

Minutes(day) == day * DayMinutes
Percents == {Fraction(50, 1), Fraction(159, 2), Fraction(80, 1), Fraction(100, 1)}

\* OpenAI: days 10 to 12, the month since 10, today 12.
Use(input, cached, model) ==
    [input |-> input, output |-> 1, cached |-> cached, requests |-> 1, model |-> model]
Spent(digits, fraction, exponent) ==
    [amount |-> [digits |-> digits, fraction |-> fraction, exponent |-> exponent],
     currency |-> "USD"]
Row(start, end, results) == [start |-> start, end |-> end, results |-> results]
Day(day, results) == Row(Minutes(day), Minutes(day + 1), results)

OpenAiPages ==
    [usage |-> {<<Day(11, <<Use(3, None, "large"), Use(2, 4, None)>>)>>,
                <<Day(11, <<Use(4, 1, "small")>>), Day(12, <<Use(7, None, "large")>>)>>,
                <<Row(Minutes(11), Minutes(12) - 60, <<Use(1, 0, None)>>)>>,
                <<Day(10, <<>>)>>, Refused},
     costs |-> {<<Day(10, <<Spent(4, 3, 0)>>), Day(12, <<Spent(5, 3, 0)>>)>>,
                <<Day(11, <<Spent(4, 3, 0), Spent(125, 3, 0)>>)>>,
                <<Day(11, <<Spent(-7, 3, 0)>>)>>,
                <<Day(12, <<Spent(12, 1, 1), Spent(1, 0, -2)>>)>>,
                <<Day(12, <<Spent(3, 0, 1)>>)>>,
                <<Day(12, <<[amount |-> None, currency |-> "EUR"], [amount |-> Refused, currency |-> None]>>)>>,
                <<Day(12, <<[amount |-> Refused, currency |-> "USD"]>>)>>,
                <<Day(12, <<[Spent(1, 0, 0) EXCEPT !.currency = "EUR"]>>)>>}]

\* Anthropic: hours of 1 and 2 March, costs of whole days.
March(day) == Date(2024, 3, day)
Tokens(input, hourly) ==
    [input |-> input, output |-> 2, read |-> 1, hourly |-> hourly, brief |-> 1, model |-> "large"]
Charge(whole, tenth) == [amount |-> [whole |-> whole, tenth |-> tenth], currency |-> "USD"]
Hour(day, hour, results) ==
    Row(Instant(March(day), 60 * hour), Instant(March(day), 60 * hour + 60), results)
Whole(day, results) == Row(Midnight(March(day)), Midnight(March(day + 1)), results)

AnthropicPages ==
    [usage |-> {<<Hour(1, 9, <<Tokens(3, 0)>>), Hour(1, 8, <<Tokens(2, 5)>>)>>,
                <<Hour(2, 9, <<Tokens(1, 0), Tokens(4, 0)>>)>>,
                <<Hour(2, 9, <<>>)>>, <<Hour(1, 9, <<Tokens(7, 0)>>)>>, Refused},
     costs |-> {<<Whole(1, <<Charge(2, 5), Charge(1, 4)>>), Whole(2, <<Charge(0, 5)>>)>>,
                <<Whole(1, <<>>)>>, <<Whole(2, <<Charge(-3, 5)>>)>>,
                <<Whole(2, <<Charge(600, 4)>>)>>,
                <<Whole(2, <<[amount |-> None, currency |-> "EUR"]>>)>>,
                <<Whole(1, <<[amount |-> Refused, currency |-> None]>>)>>}]

\* A Cursor team: the last day of a year and the one after, and three members.
Requests(day, included, usage) ==
    [day |-> day, included |-> included, usageBased |-> usage, apiKey |-> 1]
Member(overall, included, onDemand) ==
    [overall |-> overall, included |-> included, onDemand |-> onDemand]

CursorPages ==
    [usage |-> {<<Requests(Date(2023, 12, 31), 2, 3), Requests(Date(2024, 1, 1), 0, 0)>>,
                <<Requests(Date(2023, 12, 31), None, 3)>>, <<Requests(Date(2023, 12, 31), 4, 4)>>,
                <<Requests(None, 1, 1)>>, <<Requests(Date(2023, 2, 29), 1, 1)>>, Refused},
     costs |-> {<<Member(15, None, None), Member(None, 14, 0)>>, <<Member(None, 5, None)>>,
                <<Member(-25, None, None)>>, <<Member(7000, 0, 0)>>, <<>>, None, Refused}]

InstancePages ==
    [openai |-> OpenAiPages, anthropic |-> AnthropicPages, cursorPlatform |-> CursorPages]
InstanceStarts ==
    [openai |-> [today |-> Minutes(12), week |-> Minutes(11), month |-> Minutes(10)],
     anthropic |-> [today |-> Midnight(March(2)), week |-> Midnight(March(1)),
                    month |-> Midnight(March(1))],
     cursorPlatform |-> [p \in Periods |-> None]]

\* Codex: lengths and names, resets on each day of a leap year and around the
\* other turns of the calendar, and dates with their neighbours.
Length(percent, duration, resetsAt) ==
    [percent |-> percent, duration |-> duration, resetsAt |-> resetsAt]
Limit(id, name, primary, secondary) ==
    [id |-> id, name |-> name, primary |-> primary, secondary |-> secondary, credits |-> None]
Names == {None, [text |-> "Spark", says |-> {}], [text |-> "Spark weekly", says |-> {<<0, "weekly">>}]}
Lengths == {None, 300, 1440, 2880, 10080, 45}
Turns == 10957..11322 \cup {-719529, -719528, -719469, -719468, -25509, -25508, -1, 0, 47540, 47541}
Main == Limit(None, None, None, None)
CodexReports ==
    LET CodexReport(main, byId, days) == [main |-> main, byId |-> byId, days |-> days]
        Long == Length(Fraction(20, 1), 10080, None)
        Tokened(date) == [date |-> date, tokens |-> 5]
    IN {CodexReport(Limit("codex", name, Length(percent, length, None), Long), byId, <<>>) :
            name \in Names, percent \in Percents, length \in Lengths,
            byId \in {None, <<>>, <<Limit("a", None, Long, None), Limit("b", None, Long, None)>>}}
       \cup {CodexReport(Limit(None, None, Length(Fraction(1, 1), 300, Minutes(day) + 1439), None),
                         None, <<>>) : day \in Turns}
       \cup {CodexReport(Main, None, <<Tokened(Date(y, m, d))>>) :
                y \in {1900, 2000, 2023, 2024}, m \in {0, 2, 4, 12, 13}, d \in {0, 1, 28, 29, 30, 31, 32}}
       \cup {CodexReport([Main EXCEPT !.credits = [has |-> has, unlimited |-> unlimited,
                                                   balance |-> balance]], None, <<>>) :
                has \in BOOLEAN, unlimited \in BOOLEAN, balance \in {None, "12.5", Refused}}

\* Claude: instants around midnight written with every kind of offset.
ClaudeReports ==
    LET Only(id, window) ==
            [i \in {"five_hour", "seven_day", "seven_day_opus", "seven_day_sonnet"} |->
                IF i = id THEN window ELSE None]
        Extra(enabled, percent) == [enabled |-> enabled, percent |-> percent]
    IN {[windows |-> Only("seven_day", [percent |-> Fraction(10, 1),
                                        resetsAt |-> Written(Date(y, m, d), minute, offset)]),
         extra |-> None] :
            y \in {0, 1900, 2000, 9999}, m \in {1, 2, 3, 12}, d \in {1, 28, 29, 31},
            minute \in {0, 1439, 1440}, offset \in {0, 330, -480, 1439, -1439, 1440}}
       \cup {[windows |-> [Only("five_hour", [percent |-> percent, resetsAt |-> None])
                              EXCEPT !["seven_day_opus"] = weekly],
              extra |-> extra] :
                percent \in Percents,
                weekly \in {None, [percent |-> Fraction(100, 1), resetsAt |-> None]},
                extra \in {None, Extra(FALSE, None), Extra(TRUE, None),
                           Extra(TRUE, Fraction(100, 1))}}
       \cup {[windows |-> Only("five_hour", None), extra |-> None]}

\* Cursor plans: pools, one bar by percentage or by amounts, on-demand use.
Meter(enabled, used, limit, auto, api, total) ==
    [enabled |-> enabled, used |-> used, limit |-> limit, auto |-> auto, api |-> api,
     total |-> total]
CursorPlans ==
    {[unlimited |-> unlimited, cycleEnd |-> None, plan |-> plan, onDemand |-> onDemand] :
        unlimited \in {None, TRUE, FALSE},
        plan \in {None} \cup {Meter(enabled, used, 40, auto, api, total) :
                                enabled \in {None, FALSE}, used \in {None, 40},
                                auto \in {None, Fraction(100, 1)}, api \in {None, Fraction(5, 1)},
                                total \in {None, Fraction(80, 1)}},
        onDemand \in {None} \cup {Meter(enabled, 10, limit, None, None, None) :
                                    enabled \in {None, TRUE}, limit \in {None, 0, 10, 20}}}

\* Dashboards of none to three parts, an account's last snapshot among them, and
\* rules for a plan's windows and an organization's month.
Part(provider, raw, stale) ==
    [dashboard |-> ReportEnvelope(provider, 0, raw).payload, stale |-> stale]
CodexPart(percent, stale) ==
    Part("codex", [main |-> [Main EXCEPT !.primary = Length(percent, 300, None),
                                         !.secondary = Length(Fraction(60, 1), 10080, None)],
                   byId |-> None, days |-> <<>>], stale)
OpenAiPart(costs, stale) ==
    Part("openai", [usage |-> <<>>, costs |-> costs,
                    starts |-> [today |-> Minutes(12), week |-> Minutes(11), month |-> Minutes(10)]],
         stale)
ExtraPart ==
    Part("claude",
         [windows |-> [i \in {"five_hour", "seven_day", "seven_day_opus", "seven_day_sonnet"} |->
                          IF i = "five_hour" THEN [percent |-> Fraction(85, 1), resetsAt |-> None]
                          ELSE None],
          extra |-> [enabled |-> TRUE, percent |-> Fraction(100, 1)]], FALSE)
EightCents == <<<<Day(12, <<Spent(8, 2, 0)>>)>>>>
InstanceBoards ==
    {<<>>, <<ExtraPart>>}
    \cup {<<CodexPart(percent, stale)>> : percent \in Percents, stale \in BOOLEAN}
    \cup {<<OpenAiPart(costs, stale)>> : costs \in {EightCents, <<>>}, stale \in BOOLEAN}
    \cup {<<CodexPart(percent, stale), OpenAiPart(EightCents, ~stale), ExtraPart>> :
             percent \in Percents, stale \in BOOLEAN}

InstanceRuleSets ==
    {[NoRules EXCEPT !.at["plan"] = line, !.at["purchased"] = line] : line \in {None, 50, 80, 100}}
    \cup {[NoRules EXCEPT !.at["month"] = line, !.limits["month"] = limit] :
             line \in {None, 50, 80}, limit \in {None, 5, 10, 20}}
InstanceOwners == {"openai.plan", "openai.platform", "anthropic.plan"}

InstanceSummaries == [codex |-> CodexReports, claude |-> ClaudeReports, cursorPlan |-> CursorPlans]
=============================================================================

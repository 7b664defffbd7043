----------------------------- MODULE CodexReport -----------------------------
(***************************************************************************)
(* The Codex adapter: the windows of one or several rate limits, purchased   *)
(* credits and tokens per day.  A label is kept as the words it is made of,  *)
(* and a limit's name as the window words it already says.                   *)
(***************************************************************************)
EXTENDS ProviderAdapter

\* What deserializes.
RawRateLimitWindows ==
    [percent : Percent, duration : Option(Nat), resetsAt : Option(Int)]
RawNames == [text : STRING, says : SUBSET (Nat \X STRING)]
RawCredits == [has : BOOLEAN, unlimited : BOOLEAN, balance : STRING \cup {None, Refused}]
RawRateLimits ==
    [id : Option(STRING), name : Option(RawNames), primary : Option(RawRateLimitWindows),
     secondary : Option(RawRateLimitWindows), credits : Option(RawCredits)]
RawUsageBuckets == [date : Dates, tokens : 0..MaxCount]
RawReports ==
    [main : RawRateLimits, byId : Option(Seq(RawRateLimits)), days : Seq(RawUsageBuckets)]

\* The short word for a window's length in minutes; OwnWord is all the word an
\* unnamed limit of unknown length gets.
OwnWord == <<0, "plan usage">>

WindowToken(duration) ==
    IF duration = DayMinutes THEN <<0, "daily">>
    ELSE IF duration = 7 * DayMinutes THEN <<0, "weekly">>
    ELSE IF duration % DayMinutes = 0 THEN <<duration \div DayMinutes, "d">>
    ELSE IF duration % 60 = 0 THEN <<duration \div 60, "h">>
    ELSE <<duration, "m">>

\* Mutant: any window word in the name stands for the length.
NamedLimitLabelUnlessAny(limit, duration) ==
    IF /\ limit.primary # None /\ limit.secondary # None /\ duration # None
       /\ limit.name.says = {}
    THEN <<limit.name.text, WindowToken(duration)>> ELSE <<limit.name.text>>

\* A name takes the token only where both windows share it and it does not say
\* that token itself.
NamedLimitLabel(limit, duration) ==
    IF /\ limit.primary # None /\ limit.secondary # None /\ duration # None
       /\ WindowToken(duration) \notin limit.name.says
    THEN <<limit.name.text, WindowToken(duration)>> ELSE <<limit.name.text>>

WindowLabel(duration) == <<IF duration = None THEN OwnWord ELSE WindowToken(duration)>>

LimitId(limit) == IF limit.id = None THEN "codex" ELSE limit.id

PlanAllowance(limit, window, source) ==
    Window(<<LimitId(limit), window>>, "plan",
           IF limit.name = None THEN WindowLabel(source.duration)
           ELSE NamedLimitLabel(limit, source.duration),
           source.percent, FALSE,
           IF source.resetsAt = None THEN None ELSE UnixToUtc(source.resetsAt),
           PercentStatus(source.percent))

LimitWindows(limit) ==
    (IF limit.primary = None THEN <<>> ELSE <<PlanAllowance(limit, "primary", limit.primary)>>)
      \o (IF limit.secondary = None THEN <<>>
          ELSE <<PlanAllowance(limit, "secondary", limit.secondary)>>)

\* The limits by id where the response has any, the main one otherwise.
RateLimits(report) ==
    IF report.byId = None \/ report.byId = <<>> THEN <<report.main>> ELSE report.byId

\* Credits are listed when there are some or no end of them.
CreditWindows(report) ==
    LET credits == report.main.credits
    IN IF credits = None THEN <<>>
       ELSE IF ~credits.has /\ ~credits.unlimited THEN <<>>
       ELSE <<Window(<<"codex", "purchased-credits">>, "purchased", <<"purchased credits">>, None,
                     credits.unlimited, None, "ok")>>

\* A balance has to be digits, with a point and more digits or without.
QuantityRefused(report) ==
    CreditWindows(report) # <<>> /\ report.main.credits.balance = Refused

UsageBucket(row) ==
    Bucket(Midnight(row.date), Midnight(NextDate(row.date)), None, None, None, None,
           row.tokens, None)

CodexAccount(report) ==
    LET limits == RateLimits(report)
        windows == FlattenSeq([i \in DOMAIN limits |-> LimitWindows(limits[i])])
    IN IF \/ QuantityRefused(report)
          \/ \E row \in ToSet(report.days) : ~IsDate(row.date)
       THEN Refused
       ELSE PlanAccount("codex-local", "codex", "openai.plan", windows \o CreditWindows(report),
                        [i \in DOMAIN report.days |-> UsageBucket(report.days[i])])
=============================================================================

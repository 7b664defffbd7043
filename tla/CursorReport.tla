---------------------------- MODULE CursorReport ----------------------------
(***************************************************************************)
(* The Cursor adapters: the summary of a plan, and the team pages with the   *)
(* requests of each day and the spend of each member.  Amounts a float may   *)
(* hold are whole tenths of a cent.                                          *)
(***************************************************************************)
EXTENDS ProviderAdapter

(***************************************************************************)
(* The plan.                                                                *)
(***************************************************************************)
RawMeters ==
    [enabled : Option(BOOLEAN), used : Option(Int), limit : Option(Int),
     auto : Option(Percent), api : Option(Percent), total : Option(Percent)]
RawPlanReports ==
    [unlimited : Option(BOOLEAN), cycleEnd : Option(Instants),
     plan : Option(RawMeters), onDemand : Option(RawMeters)]

PercentOf(meter) ==
    IF meter.used # None /\ meter.limit # None /\ meter.limit > 0
    THEN Fraction(100 * meter.used, meter.limit) ELSE None

MeterOn(meter, default) ==
    meter # None /\ (meter.enabled = TRUE \/ (meter.enabled = None /\ default))

Pool(report, id, percent) ==
    IF percent = None THEN <<>>
    ELSE <<Window(id, "plan", id, percent, report.unlimited = TRUE, report.cycleEnd,
                  PercentStatus(percent))>>

\* Two pools where the summary tells them apart, one bar for the plan otherwise.
PlanWindows(report) ==
    LET plan == report.plan
        percent == IF plan.total # None THEN plan.total ELSE PercentOf(plan)
    IN IF ~MeterOn(plan, TRUE) THEN <<>>
       ELSE IF plan.auto # None \/ plan.api # None
       THEN Pool(report, "cursor-plan-models", plan.auto) \o Pool(report, "cursor-plan-other", plan.api)
       ELSE <<Window("cursor-plan", "plan", "cursor-plan", percent, report.unlimited = TRUE,
                     report.cycleEnd, PercentStatus(percent))>>

\* On-demand use is off unless the summary says otherwise, and never unlimited.
OnDemandWindows(report) ==
    LET percent == PercentOf(report.onDemand)
    IN IF ~MeterOn(report.onDemand, FALSE) THEN <<>>
       ELSE <<Window("cursor-on-demand", "purchased", "cursor-on-demand", percent, FALSE,
                     report.cycleEnd, PercentStatus(percent))>>

CursorPlanAccount(report) ==
    PlanAccount("cursor-local", "cursor", "cursor.plan",
                PlanWindows(report) \o OnDemandWindows(report), <<>>)

(***************************************************************************)
(* The team.                                                                *)
(***************************************************************************)
RawDailyUsageRows ==
    [day : Option(Dates), included : Option(Nat), usageBased : Option(Nat), apiKey : Option(Nat)]
RawSpendMembers == [overall : Option(Int), included : Option(Int), onDemand : Option(Int)]
RawPages(feed) ==
    IF feed = "usage" THEN Seq(RawDailyUsageRows) ELSE Option(Seq(RawSpendMembers))

\* A row's requests are those of its three channels, unknown if one is.
RowRequests(row) ==
    IF None \in {row.included, row.usageBased, row.apiKey} THEN None
    ELSE SaturatingCount(SaturatingCount(row.included, row.usageBased), row.apiKey)

AddRequests(total, row) ==
    IF total = None \/ RowRequests(row) = None THEN None
    ELSE SaturatingCount(total, RowRequests(row))

\* The requests of a day start from zero, and stay unknown once a row was.
RequestsOf(rows, day) == FoldLeft(AddRequests, 0, Chosen(rows, LAMBDA r : r.day = day))

\* Half a cent is rounded away from zero.
RoundCents(tenths) == IF tenths >= 0 THEN (tenths + 5) \div 10 ELSE -((5 - tenths) \div 10)

MemberSpend(member) ==
    IF member.overall # None THEN member.overall
    ELSE IF None \in {member.included, member.onDemand} THEN None
    ELSE member.included + member.onDemand

\* A page that lists no members leaves the spend incomplete.
Members(pages) == FlattenSeq(Chosen(pages, LAMBDA page : page # None))

SpentCents(pages) ==
    LET spends == [i \in DOMAIN Members(pages) |-> MemberSpend(Members(pages)[i])]
        known == Chosen(spends, LAMBDA tenths : tenths # None)
    IN FoldLeft(CheckedMinor, 0, [i \in DOMAIN known |-> IfFits(RoundCents(known[i]))])

SpendComplete(pages) ==
    /\ pages # <<>> /\ None \notin ToSet(pages)
    /\ \A member \in ToSet(Members(pages)) : MemberSpend(member) # None

DayBucket(rows, day) ==
    Bucket(Midnight(day), Midnight(NextDate(day)), None, None, None, None, None, RequestsOf(rows, day))

CursorPlatformAccount(report) ==
    LET rows == Rows(report.usage)
        days == InOrder({r.day : r \in ToSet(rows)} \ {None}, Before)
        cents == SpentCents(report.costs)
        spent == IF SpendComplete(report.costs) THEN Dollars(cents) ELSE None
        buckets == [i \in DOMAIN days |-> DayBucket(rows, days[i])]
    IN IF \/ ~Parsed(report.usage) \/ ~Parsed(report.costs)
          \/ \E row \in ToSet(rows) : row.day = None \/ ~IsDate(row.day)
          \/ cents = Refused
       THEN Refused
       ELSE PlatformAccount("cursor-team-local", "cursor", "cursor.platform",
                            [NoBudgets EXCEPT !["month"] = CalculateBudgetState(spent, None, None)],
                            buckets, <<>>)
=============================================================================

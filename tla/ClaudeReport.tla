---------------------------- MODULE ClaudeReport ----------------------------
(***************************************************************************)
(* The Claude plan adapter: up to four windows, each with a reset instant a  *)
(* provider wrote with any offset, and extra usage when it is enabled.       *)
(***************************************************************************)
EXTENDS ProviderAdapter

WindowIds == <<"five_hour", "seven_day", "seven_day_opus", "seven_day_sonnet">>

\* What deserializes.
RawWindows == [percent : Percent, resetsAt : Option(WrittenInstants)]
RawExtraUsage == [enabled : BOOLEAN, percent : Option(Percent)]
RawReports ==
    [windows : [ToSet(WindowIds) -> Option(RawWindows)], extra : Option(RawExtraUsage)]

ResetsAt(window) == IF window.resetsAt = None THEN None ELSE ParseTimestamp(window.resetsAt)

PlanWindow(id, window) ==
    Window(id, "plan", id, window.percent, FALSE, ResetsAt(window), PercentStatus(window.percent))

\* The windows the report carries, in the source's order.
Reported(report) ==
    FlattenSeq([i \in DOMAIN WindowIds |->
        LET window == report.windows[WindowIds[i]]
        IN IF window = None THEN <<>> ELSE <<PlanWindow(WindowIds[i], window)>>])

ExtraUsage(report) ==
    LET extra == report.extra
    IN IF extra = None THEN <<>>
       ELSE IF ~extra.enabled THEN <<>>
       ELSE <<Window("extra-usage", "purchased", "extra-usage", extra.percent, FALSE, None,
                     PercentStatus(extra.percent))>>

ClaudeAccount(report) ==
    LET windows == Reported(report)
    IN IF Refused \in {windows[i].resetsAt : i \in DOMAIN windows} THEN Refused
       ELSE PlanAccount("claude-local", "claude", "anthropic.plan",
                        windows \o ExtraUsage(report), <<>>)
=============================================================================

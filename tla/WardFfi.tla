------------------------------- MODULE WardFfi -------------------------------
(***************************************************************************)
(* The entry points of the core the phone calls: one per provider report,    *)
(* the merge of snapshots and the alert settings.  Each answers an envelope, *)
(* a result or an error; the JSON around it is left out.                     *)
(***************************************************************************)
EXTENDS ProviderAdapter

OpenAi == INSTANCE OpenAiReport
Anthropic == INSTANCE AnthropicReport
Cursor == INSTANCE CursorReport
Codex == INSTANCE CodexReport
Claude == INSTANCE ClaudeReport

Plans == {"codex", "claude", "cursorPlan"}
Platforms == {"openai", "anthropic", "cursorPlatform"}
Sources == Plans \cup Platforms

Normalize(source, report) ==
    CASE source = "openai" -> OpenAi!OpenAiAccount(report)
      [] source = "anthropic" -> Anthropic!AnthropicAccount(report)
      [] source = "cursorPlatform" -> Cursor!CursorPlatformAccount(report)
      [] source = "cursorPlan" -> Cursor!CursorPlanAccount(report)
      [] source = "codex" -> Codex!CodexAccount(report)
      [] source = "claude" -> Claude!ClaudeAccount(report)

\* The reports, and the pages of a report, that deserialize.
RawReports(plan) ==
    CASE plan = "codex" -> Codex!RawReports
      [] plan = "claude" -> Claude!RawReports
      [] plan = "cursorPlan" -> Cursor!RawPlanReports

RawPages(platform, feed) ==
    CASE platform = "openai" -> OpenAi!RawPages(feed)
      [] platform = "anthropic" -> Anthropic!RawPages(feed)
      [] platform = "cursorPlatform" -> Cursor!RawPages(feed)

Envelope(result) ==
    IF result = Refused THEN [status |-> "error"]
    ELSE [status |-> "success", payload |-> result]

\* The alert settings and the two questions the recoveries ask take a dashboard
\* that deserializes; settings and keys left out are none.
ApplyAlertSettingsEnvelope(dashboard, settings) ==
    Envelope(IF dashboard = Refused \/ settings = Refused THEN Refused
             ELSE ApplyAlertSettings(dashboard, IF settings = None THEN <<>> ELSE settings))

ExhaustedWindowsEnvelope(dashboard) ==
    Envelope(IF dashboard = Refused THEN Refused ELSE ExhaustedWindows(dashboard))

PlanRecoveriesEnvelope(dashboard, exhausted) ==
    Envelope(IF dashboard = Refused \/ exhausted = Refused THEN Refused
             ELSE PlanRecoveries(IF exhausted = None THEN {} ELSE exhausted, dashboard))

\* A report becomes a dashboard of its one account.
ReportEnvelope(source, generatedAt, report) ==
    LET account == Normalize(source, report)
    IN Envelope(IF account = Refused THEN Refused
                ELSE BuildDashboard(generatedAt, <<account>>))

\* The merge keeps every account and the latest instant; there has to be one.
MergeDashboards(snapshots) ==
    IF snapshots = <<>> THEN Refused
    ELSE BuildDashboard(Max({s.generatedAt : s \in ToSet(snapshots)}),
                        FlattenSeq([i \in DOMAIN snapshots |-> snapshots[i].accounts]))
=============================================================================

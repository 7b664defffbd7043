# WardPulse in TLA+

TLA+ models of the parts of WardPulse whose correctness is hard to test: what happens
between two steps, with several Flutter engines, a process that may die, storage that
may refuse and calls that land late; and the pure rules that turn the reports of six
providers into one dashboard with its alerts. TLC checks the models on small instances;
TLAPS proves theorems about them for every value of their constants.

## The system

WardPulse reads AI provider usage with the user's own credentials and shows it
on a phone, a home-screen widget and a watch. The code is a Flutter app
(`src/apps/phone_flutter`), an Android plugin in Kotlin and Java under it, a
Wear OS app (`src/apps/wear_android`), and a Rust core (`src/core`) for
normalising reports and computing alerts.

| Component | State | Operations | Hard part | What makes it correct |
|---|---|---|---|---|
| `ConnectionCacheEngine` (Java, one per process) | one durable record per connection in SharedPreferences; leases, queues, fences, fetch reservations, abandoned slots in memory | acquire/start, prepareMigration, finish, acknowledgeCleanup, fetch acquire/release, snapshot write/clear, detach | commits with an unknown outcome, process death, owners that disappear | an active record selects a key that holds its account; nothing live is deleted; nothing is lost track of; every request is answered |
| `ConnectionCredentialStorage` (Dart) through `ConnectionCacheChannel` (Kotlin) | the secrets in `FlutterSecureStorage`; what each operation in flight carries | read, beginReconnect, completeReconnect, cancelReconnect, refresh, delete, serializeFetch | each operation is a dozen awaits; two engines interleave theirs | as above, and a rotated or refused token is never about a newer credential |
| `ConnectionSnapshotCache` (Dart) | the last good report of a connection, in the same record | capture, store, clear | a report fetched with a credential that was replaced meanwhile | a snapshot belongs to the selected account |
| `MergingConnectionRepository` and the live stack | last good snapshot in memory, load revision | load, loadObserved, invalidate, validity checks | overlapping loads; ownership re-checked after every await | only the newest load publishes, never data of a retired credential |
| Codex and Claude account services | a queue of operations, a sign-in attempt | startLogin, cancel, fetchReport, disconnect | cancelling races completing | one outcome per sign-in |
| Dashboard host (`ward_pulse_app.dart`) | current snapshot, load and surface revisions, thresholds | foreground load, scheduled load, threshold edit, demo switch | handlers that interleave at awaits | reader-visible data never goes back |
| Headless sync | nothing | one tick: load, watch, widget, recoveries | runs beside the app in another engine | one surface's failure does not stop another |
| Recovery watchlist | the windows that were spent, in storage; one booked wake | syncPlanRecoveries | two isolates without a lock, death between notify and write | a recovery is lost only to a look on an older snapshot |
| Watch delivery | latest summary on the watch, refresh request | sync, request refresh, launch | coalescing data layer, two senders | the newest summary wins |
| Phone widget | widget rows, stale flag | sync, mark stale | two writers, key by key | the payload is one writer's |
| Watch face consent (Kotlin) | consent history in preferences, controller state | check, install, update, use, permission result | activity recreated, result lost, process death | at most one activation attempt and one permission request |
| Rust core algorithms | none | statuses, budgets, the merge, alert rules, recoveries | boundaries, sums that do not exist, rules applied twice | alerts are of the cards that reach their line, and none looks healthy |
| Provider adapters and FFI | none | one report to one account, the result envelopes | exact sums, missing parts, calendars, malformed entries | spend is exact or unknown; a report is shown whole or not at all |
| CLI, UI, preferences | single keys with defaults | rendering, reading, writing | – | not a subject of these models, but for the alert rules and the demo switch |

They meet in three places. Every Dart engine of the process calls the one
`ConnectionCacheEngine` over a method channel. Repositories carry the
`CredentialVersion` they read through every await and ask the engine whether it
is still valid before they publish. The host and the headless tick push the
published snapshot to the watch, the widget and the watchlist, with no lock
between the two engines.

## Modules

| Module | Models | Contents |
|---|---|---|
| `CredentialRecord` | `ConnectionCacheEngine.java`, pure part | the durable record, versions, and the change each operation makes to it |
| `CredentialEngine` | `ConnectionCacheEngine.java`, `ConnectionCacheChannel.kt` | leases, queues, fence, fetch reservation, commits, detach, process death |
| `CredentialStorage` | `connection_lifecycle.dart` and its callers | the asynchronous operations over engine and secure storage; `Spec`, `FairSpec`, the properties |
| `MCCredentialStorage` | – | two Flutter engines or one, and the symmetry of accounts |
| `CredentialRecord_proofs` | – | the record functions keep records records |
| `CredentialStorage_proofs` | – | `TypeCorrect`, `CleanupSafe`, `FencedAnswers`, `VersionsDie`, `StaleTokens`, `ActiveUsable`, `CancelUsable`, `SnapshotsOwned`, `LegacySecretSpared`, `SecretsNamed` |
| `WatchFacePromise` | – | what the watch app promises: a request and an activation at most, never unasked, never after a refusal |
| `WatchFace` | `WatchFaceController.kt`, `WatchFaceConsentStore.kt`, the view model of `MainActivity.kt` | activities with their controllers over one consent history; implements `WatchFacePromise` |
| `MCWatchFace` | – | two activities |
| `WatchFace_proofs` | – | `WatchFaceTypes`, `PromiseKept` |
| `ConnectionLoad` | `merging_connection_repository.dart`, `connection_snapshot_cache.dart`, the fetch and sign-in calls of the account services | overlapping loads of several engines over `CredentialRecord`'s record |
| `ConnectionLoad_proofs` | – | `TypesCorrect`, `Answers`, `AnswersKept`, `NoReturn` |
| `MCConnectionLoad` | – | two loads of the foreground engine, one of the headless one |
| `RecoveryWatchlist` | `recovery_watchlist.dart` | the list of spent windows and the calls that look at it |
| `Phone` | `ward_pulse_app.dart`, `provider_sync_once.dart`, `phone_widget_sync.dart` | host, headless poll, watch, widget, over `RecoveryWatchlist` |
| `MCPhone` | – | the budgets of the run |
| `Phone_proofs` | – | `PhoneTypes`, `SavedRulesStay`, `OwedStaysRemembered`, `ModeIsFollowed`, `NothingOlderShown`, `GoodDataKept`, `WatchIsFollowed`, `WidgetIsFollowed` |
| `WardCore` | the crate `ward-pulse-core` | statuses, budgets, dashboards, alert settings, recoveries |
| `Calendar` | the date arithmetic of `openai`, `codex`, `claude` | conversions as the code writes them, and the calendar they are checked against |
| `ProviderAdapter`, `OpenAiReport`, `AnthropicReport`, `CursorReport`, `CodexReport`, `ClaudeReport` | the crate `ward-pulse-providers` | report to account, or refusal |
| `WardFfi` | `ward-pulse-ffi/src/lib.rs` | the entry points and their envelopes |
| `ProviderReports` | the reporting clients and the FFI calls | asking one provider, page by page; the adapters' properties |
| `AlertBoard` | `apply_alert_settings.dart`, `alert_threshold_preferences.dart`, the merge | a loaded dashboard and the edits of its alert rules |
| `ProviderReports_proofs` | – | `UtcIsTheInstant`, `TimestampIsTheInstant`, `EarlierIsEarlier`, `ShownInstantsAgree`, `SpentWindowsAreLimited` |
| `ReportSums_proofs` | – | `ShownBucketsAddUp`, `ShownCompleteOrUnknown`, `ShownAllOrNothing`, `ShownSpendExact` |
| `AlertBoard_proofs` | – | `ReportsAreTyped`, `BoardsAreTyped`, `AlertsAreBesideCards`, `EditsReachTheSameBoard`, `ReportsBesideBoards` |
| `MCProviderReports` | – | the reports, boards and rules of the run |

**State of the credential core.** `mem` is the record `SharedPreferences` shows to the process, `disk`
the one a restarted process will find; they differ only after a commit that
answered false. `prior` is `failedCommitPriorState`, and the connection is fenced
exactly while it is set. `lease`, `queue`, `fetch`, `fetchQueue` and `abandoned` are
the engine's maps, for one connection. `store` is the encrypted store: the
account whose secret a key holds. `op[c]` is where the Dart operation of client
`c` stands: `pc` is the await, `goal` the `finish` operation it heads for, `held`
the credential the last read answered, `ticket` the reconnect ticket. `late` holds
secure-storage calls made by a Flutter engine that is gone.

**Steps.** A method of the engine is `synchronized` and runs on the one executor
thread of the channel, so it is one step; the awaits of the Dart code are the
boundaries between steps. Two things refine this. `next()` starts queued requests
inside the call that freed the lease: each `start()` is a step of its own
(`Granted`, `Refused`, `RefusedByCommit`), and `Settled` makes every other call wait
for them. The deletions of a cleanup list are one step (`Clean`) that may delete
any part of the list if secure storage fails.

**Data.** Slots and ids are numbers drawn from a clock that only grows, for
`UUID.randomUUID()`. One drawn number serves as the generation, revision and epoch of
one barrier, which are compared field by field and drawn together in the code. A
secret is the account it belongs to, and its digest identity is that account: the model
does not distinguish two secrets of the same account but by the key they are
under. Several retired keys in one string are a set. An older release's secret is
under `LegacyKey`, present or not at the start.

**Watch face.** `saved` and `onDisk` are the consent history as `mem` and `disk` are
the record. `ui[k]` is the `WatchFaceState` of activity `k`'s controller, `op[k]` the
operation that holds its mutex, `asking` the view models' `permissionRequested`,
`dialogs` and `returned` the requests in front of the user and the results on their
way. `used`, `asked`, `attempted` and `refused` record what the outside has seen: they
are the variables of `WatchFacePromise`. `withFace()` is one step (`Look`): of all it
reads, only the history is shared; the permission, each compare-and-set, each install,
update and activation are steps of their own. The inventory, the active face and the
support of the platform belong to the system, so its answers are arbitrary. A closed
activity's operation goes on for as long as it likes (`Cancelled` ends it), since a
coroutine notices its cancellation only when it suspends. A dialog survives the death
of the process and answers to the activity recreated later, or is lost with it.

**Loads.** `ConnectionLoad` takes the record and its functions from `CredentialRecord`, one step for each
await of `_loadOwned`, `capture`, `store` and `_recover`: `load[l].pc` is the await, `ver` the version the
load began with, `token` the one its fetch ended with, `cached`, `live` and `kept` the snapshots it carries.
`revision` is `_cacheRevision`, `memory` is `_lastSuccessfulConnectionSnapshot`. The changes of the
credential happen as whole operations between the steps; how each of them goes is the matter of `CredentialStorage`.
A snapshot is whose account it reports, when it was generated, and its stamp. A failed check and a failed
call end a load alike; a valid record with a snapshot and its second reading are told apart only where the
second one may differ (`Reread`); the second capture after a refused store is one step.

**Phone.** `host` holds `_loadRevision`, `_surfaceRevision`, `_currentSnapshot` and the preferences in memory; `loads`
the running foreground and scheduled loads; `edits` and `queue` the chain of rule edits with what each
captured; `asked` the deliveries whose ownership check is out. Checks are answered in the order they were
asked, since one executor thread of the platform answers them (`ConnectionCacheChannel.kt:65`). A rule is the edit that made
it; `epoch` stands for the validity of all connections. The widget is its first and its last key, which is enough to see a
torn payload. Three variables are history. `owed`: the windows that were remembered when they came back, and have to be told. `overlapped`: those of them
that came back while a look that had read the list was going to write it without them. `crossed`, of an edit that ended: the latest load, if
it took the rules before the edit ended and is shown after it began. The preferences are read in
one step and without failure; edits are made, and ticks come, only after they were read; one demo switch or credential change is under
way at a time; the headless poll runs with live data. A notification that is refused counts as told.

**Reports.** A step asks a provider, receives a page of its usage or its costs, or has the core answer. The adapters are
operators over records with the fields that reach an account. Optional fields are `None`, and `Refused` is any error.
Money is whole minor units with the width of the source (`MaxMinor`, `MaxCount`, `MaxCoefficient` stand for 2^63-1, 2^64-1 and
2^127-1; `WardCore` wraps where the release build does, adapters refuse or saturate where they check), OpenAI amounts are decimals with scale
and exponent, Anthropic and Cursor ones are tenths of a cent, and instants are dates with a minute. A percentage is the exact
quotient the code holds as a float; at the lines the phone offers (50, 70, 80, 90, 100 of a hundred) the float product is exact as
well, since equal quotients are equal floats. `DayNumber` and `MinuteNumber` of `Calendar` are written independently of the code's
conversions, which are checked against them.

**Boards.** `AlertBoard` starts from what a load produced: snapshots of several connections, some of them stale, merged one after the
other, or none. `Edit` replaces the rules of one connection and applies all rules to the dashboard *as shown*, as the host does. Whether
an edit publishes at all is the matter of `Phone`. Reports are asked for and boards edited in separate parts of the behaviour, so that the run is a sum and not a product.

## Faults

`Faults` says which kinds an instance has, `MaxFaults` how many of them happen.

- `commit` – `SharedPreferences.commit()` answers false. The new record may be in the
  process, on disk, in both or in neither (`ConnectionCacheChannel.kt:74-78`).
- `store` – a secure-storage call throws; a failed write may have landed.
- `death` – the process dies: memory is gone, `disk` and `store` stay.
- `detach` – a Flutter engine is torn down at any await, with `detach()` queued.
- `late write`, `late delete` – the one secure-storage call that engine was awaiting
  lands at any later time.

In `WatchFace` they are `commit`, `death` (which a revoked permission causes as well) and
`close`, an activity that is finished with its view model. A platform call may fail at
any time; that needs no budget.

In `ConnectionLoad` a fault is a platform call that fails at the step where it is made, or a
process death, which keeps the record and loses the rest; `_cacheRevision` counts on over a death, since
only its differences matter. The wall clock may be set back at any time without being a fault. In `Phone` they are a failed
load, a failed ownership check, a store that does not answer a look, and the death of the process, after which the app is opened again.

## Runs

The first seven runs are of `MCCredentialStorage`: one client for the user's operations, one
for a sync. Five operations are enough for a sign-in superseded by another with a
cancellation and a read in between, and for a read, a whole sign-in, a disconnect
and another read; one or two faults are enough to leave any one commit unknown and
then restart from it. Two accounts are the least with which a wrong one can be
selected. `signin`, `fetches`, `snapshots` and `orphans` split the operations
because all of them together are past what TLC finishes in minutes; each keeps the
operations and faults its question is about. Each run explores all interleavings
of its instance, and between them they take every step of the model.

| Run | Question | Properties | Result |
|---|---|---|---|
| `signin` | reads, sign-ins, cancellations, disconnects; two faults of commit, store, death | `TypeOK`, `ActiveCredentialUsable`, `CancelRestoresUsable`, `CleanupSparesLive`, `LegacySpared`, `FencedAnswersNothing` | hold (1.6 million states) |
| `fetches` | refresh and expiry against a sign-in; one of commit, detach, late write | `ActiveCredentialUsable`, `StaleTokenRefused` | hold (1.3 million) |
| `snapshots` | reports stored and caches cleared around sign-ins; one of commit, death | `SnapshotOwned`, `NoRevival` | hold (0.9 million) |
| `orphans` | every operation but the completion of a sign-in; one of commit, store, death, detach | `NoOrphanSecret` | holds (1.8 million) |
| `answers` | all clients served, with fairness; one of commit, store, death, detach | `RequestsServed` | holds (0.13 million) |
| `watchface` | two activities, three taps besides their first checks; two of commit, close, death | `TypeOK`, `AlwaysAWayOn`, `KeepsPromise` | hold (1 million states) |
| `busy` | the same with fairness, two taps, one fault | `BusyEnds` | holds (0.24 million) |
| `loads` | two foreground loads and a headless one around rotations, sign-ins, cancellations and purges; one failed call or death | `TypeOK`, `ShownIsKept`, `AnswersOwned`, `NeverBack` | hold (3.6 million) |
| `phone` | loads, ticks, edits, demo switch, credential change, deliveries, headless polls, a window that runs out and comes back | `TypeOK`, `EditsKept`, `ModeFollows`, `WatchFollows`, `WidgetFollows`, `OwedIsRemembered`, `ShownForward`, `KeepsGoodData`, `OwedIsTold` | hold (1.6 million) |
| `reports` | six adapters over one report or up to two pages a feed; merged boards under two edits of the alert rules | `BoardTypes`, `SpendExact`, `CompleteOrUnknown`, `BucketsAddUp`, `InstantsAgree`, `SpentIsLimited`, `WindowsToldApart`, `AllOrNothing`, `PagesOnlyAdd`, `AlertsAreSeen`, `EditsConverge` | hold (0.14 million) |
| `late_delete` | a delete of a torn-down engine lands late | `ActiveCredentialUsable` | violated |
| `disconnect` | process death during a sign-in another engine reads through | `DisconnectErases` | violated |

Two activities are what it takes to race for the one opportunity; three taps are a Use
in each and one more operation, before or after a fault; two faults are a
commit that fails and the death that brings its old value back.

`loads` has two overlapping loads in one engine, the least with which one supersedes the other, and one in the other
engine, the least with which the two disagree about what is newest; two changes of the credential make a reconnect and its
completion. Its properties that speak of what a reader saw assume that nothing failed where a fault takes the promise away: `ShownIsKept`
is about behaviours without a fault, `NeverBack` holds with one.

`phone` runs one budget of `InstanceBudgets` at a time, chosen at the start: what they have in common would be out of TLC's reach together,
and each holds the actors of one kind of race (two edits and two loads; edits, a load and a fault; a switch with loads, an edit or
a delivery; polls with a load, a fault or a switch and the window). The looks of both engines and the providers run in the last three. The window is one because looks treat windows one by one; the theorem
`OwedStaysRemembered` is for any number.

The reports of `reports` are a list of cases and not all inputs: pages around the turn of a day, amounts that
round up or down at a half or overflow the widths, missing and malformed parts in every position, all days of a leap year and the turns of
months, years, centuries and eras. The rules of a connection are a line for its windows (none, 50, 80, 100) or for its month (none, 50, 80)
with a limit (none, 5, 10, 20) against eight cents; two edits are what it takes for the second to be applied to what the first has changed.

`answers` and `busy` have no symmetry, which would be unsound for a liveness property.
`answers` has three operations, enough for one to hold the lease, one to wait and one to come
after. No run turns deadlock checking off: the explicit `Quiet` step marks the states
in which every operation has ended, and any other state without a step would be
reported.

**Fairness.** `RequestsServed` assumes weak fairness of three kinds of step: the
executor thread serves what is queued (`Answering`), a platform call that was
made returns and the Dart code behind it goes on (`Working`), and a fetch ends, its
`finally` releasing the reservation (`EndFetch`). The user's requests, faults,
teardowns and landings are not fair: they need never happen. `BusyEnds` assumes weak
fairness of an operation's next step (a platform call returns or throws; the code has no
timeouts of its own) and of a result that waits for the mutex. The launch of a request
needs a resumed activity and the answer a user, so neither is fair, and the property excepts both.
`OwedIsTold` assumes weak fairness of `Poll` (WorkManager runs the periodic work again and again), of the poll's next step and of a running look.
Loads of the foreground, edits, faults and the providers are not fair.

### The two disagreements with the documentation

Both have one cause. `start("reconnect")` puts the new slot among the retired
keys (line 191) so that an abandoned sign-in can be cleaned up; the cleanup list of
an answer spares the selected, the previous and the lease's own slot (line 211),
but not the pending one. Between the two leases of a sign-in, a read by
another Flutter engine is told to delete, and then acknowledges, the slot the
sign-in is about to write.

- `late_delete`: that read's engine is torn down with the delete still under way.
  The sign-in completes into the slot, becomes active, and then the delete lands.
  SECURITY_MODEL.md says immutable key references keep abandoned operations "from
  clobbering a newer login".
- `disconnect`: the read acknowledges the deletion, so the record no longer lists
  the slot; the sign-in writes its secret there and the process dies before
  the activation. A later disconnect deletes all the record lists and reaches a state
  with nothing left to clean up and the secret still stored. SECURITY_MODEL.md
  says references persist "until deletion is acknowledged", PRIVACY_POLICY.md that
  remaining cleanup can be retried.

Without these two (`late delete` out of `Faults`, completions out of `orphans`) the
properties hold, which is what the passing runs show.

## Properties

- `ActiveCredentialUsable`: in every record an operation may still start from
  (memory or the fence's, and disk), an active record selects a key with the secret of
  its account.
- `CancelRestoresUsable`: the same of the credential a cancellation would restore.
- `CleanupSparesLive`: nothing on the list a lease holder is deleting is selected
  or kept by such a record.
- `LegacySpared`: the legacy secret survives as long as it may be needed.
- `FencedAnswersNothing`: no credential is answered while a commit is unknown.
- `StaleTokenRefused`: a refresh or an expiry under a fetch ticket is let through only
  about the very secret that was read.
- `SnapshotOwned`, `NoRevival`: a snapshot is of the selected account, and a
  version that became invalid stays invalid.
- `NoOrphanSecret`, `DisconnectErases`: secrets stay reachable, and a finished
  disconnect leaves none. (In `disconnect` there is no refresh, so that a deleted
  record comes from a disconnect or from a secret found missing.)
- `RequestsServed`: every operation ends.
- `KeepsPromise`: `WatchFace` implements `WatchFacePromise`, the claim of
  WEAR_GLANCE_DESIGN.md:216-218.
- `AlwaysAWayOn`: an idle watch-face screen never stays at Checking (its first check may
  have been turned away by a permission result), and an installed face can be updated, used, or
  its manual selection is explained.
- `BusyEnds`: a controller is not left busy by a request that is over.
- `AnswersOwned`: what a load answers was reported for the account the connection has now, under its present generation and epoch.
- `NeverBack`: while the credential stays, a reader never sees older data than before. `ShownIsKept`: what was seen, or something newer, survives a
  restart and a failed refresh.
- `EditsKept`: a saved alert rule stays, in storage and in memory.
- `ShownForward`: the screen never goes back to an older load, but by an edit that captured it while the newer one was under way (a disagreement, see below).
- `ModeFollows`: after a demo switch, what the latest load shows and the flag the watch is sent are of the mode that is on.
- `WatchFollows`, `WidgetFollows`: at rest, the watch and the widget hold what is on the screen, unless the headless engine wrote there since. The watch and the screen
  are under every stored rule, but for the rules of edits that the load that is shown has crossed (a disagreement, see below).
- `KeepsGoodData`: a failed automatic refresh does not replace good data by an error.
- `OwedIsRemembered`, `OwedIsTold`: a window that came back while it was remembered stays on the list until it is told, and is told. Excepted by name are the windows
  in `overlapped`, which a look on an older snapshot was about to forget (a disagreement, see below).
- `SpendExact`, `CompleteOrUnknown`: spend is the exact sum of its parts, rounded where the code means to, or unknown if a part is.
- `BucketsAddUp`, `PagesOnlyAdd`: every usage result is in a bucket that covers it, totals agree, and a later page takes nothing away.
- `InstantsAgree`: an instant shown is the one the provider meant.
- `SpentIsLimited`: an adapter shows a window rate limited exactly when the recoveries would remember it as spent.
- `WindowsToldApart`: windows have keys of their own, and the two of a limit labels of their own.
- `AllOrNothing`: a report is refused exactly if something in it is malformed, as long as its sums fit.
- `AlertsAreSeen`: after any edits no alert stands beside a healthy card, nothing looks better than its provider said, and spent windows, recoveries and totals are as loaded.
- `EditsConverge`: edits that only add or tighten show what a load with the last rules would show, with the alerts of exactly the cards that reach their line.

For each property of a passing run the modules hold a mutant: an operator, marked
as such, that changes one mapped definition the way a bug would (a protected
key left out, a fence not checked, a version compared by the wrong field, a slot
reused) and with which the same run finds the property violated.

## Proofs

The theorems hold for any sets of clients, Flutter engines, loads, repositories, activities, edits, windows and
accounts, and for any bounds. They rest on the named assumptions of the modules (`NoAccountAssumption`, `ClientAssumption`,
`WorkloadAssumption`, those of `ConnectionLoad`, `PhoneAssumption`, `SnapshotAssumption`, `MoneyAssumption`, `NoneAssumption`, `WidthAssumption`,
`InstantAssumption`, `ReportAssumption`, `BoardAssumption`, `SettingsAssumption`), which TLC evaluates in every run of those modules. Some have a hypothesis of their own, named below: faults without
`late delete`, a workload without completed sign-ins, at most one failure, and of the alert board that a refusal is no dashboard and that providers report no limits; of the reports, facts about what providers send or a number type holds.

### Credential storage

- `TypeCorrect == Spec => []TypeOK`. `TypeOK` alone is not inductive: a step of a holder reads
  fields of its lease. `TypeInv` adds `Links`: a client at work holds the
  lease, a waiting one has a request, and an operation that heads for an activation
  carries a secret.
- `CleanupSafe == Spec => []CleanupSparesLive`. The list is computed from memory when the
  lease is granted; the property is about disk and the fence as well. The
  invariant adds `RecordsAgree`: while a lease is held, memory, disk and the
  record behind the fence select the same keys. It is inductive because the only
  commits that can fail during a lease and let it continue (a cleanup
  acknowledgement, a snapshot, a migration's preparation) leave the selected keys alone,
  and the ones that move them, at the grant or the finish, are the first or
  the last step of a lease.
- `FencedAnswers == Spec => FencedAnswersNothing`. `HolderGivesUp`: under a fence the holder,
  which can only be one whose `prepareMigration()` failed, heads for its release.
- `VersionsDie == Spec => NoRevival` and `StaleTokens == Spec => StaleTokenRefused`, from `LifecycleInv`. Its parts: every record the engine
  could come back to (memory, disk, the fence's) is a sound one whose ids were drawn before (`RecordInv`); the slot, the view and the basis of a lease
  fit the record (`LeaseFits`), and so does what its holder is about to do (`WorkFits`); a version a client keeps, a ticket or a request is of the
  past, or fits the record of its generation (`KnowledgeFits`). A step either fences, starts a generation with a fresh id, or makes a record that
  *follows* the one before: within a generation, no epoch returns and the selected key changes only with the revision.
- `ActiveUsable`, `CancelUsable` and `SnapshotsOwned`, from `SecretsInv`: no late call and no cleanup list names a selected key, and every key a
  record selects, or a holder is about to select, has its account's secret in the store. They assume `"late delete" \notin Faults`, because with a
  late deletion the properties are false: `late_delete` is the run that shows it, and a finding. Late *writes* are allowed, as are all other faults.
- `LegacySecretSpared == Spec => LegacySpared`, without that hypothesis: cleanup lists and late deletions name the legacy key only when no basis
  needs it.
- `SecretsNamed == "complete" \notin Workload => (Spec => []NoOrphanSecret)`, from `OrphanInv`, with late writes and late deletions. Each record memory or disk may
  come back to names every key that holds a secret, or will when a late write lands (`StoredIsNamed`). Naming comes first: the key of a lease is on the record's
  list before its secret is written (`SlotIsNamed`). It ends last: what an acknowledgement takes off the list was deleted under the same lease and
  has not come back, except by calls of engines torn down, whose keys the acknowledgement spares (`CleanedIsGone`, `LateIsAbandoned`). The hypothesis is the
  boundary of the finding that `disconnect` shows: a sign-in that completes writes to a key which a cleanup in between may have taken off the list.

### Loads

- `TypesCorrect == Spec => []TypeOK` and `Answers == Spec => AnswersOwned`. `OwnedInv`: a version that was read is of a past generation or of the
  account the record has in its own (`Known`), a stamped snapshot is of the account of its stamp (`Owned`), and a load reads its token after the version it stamps
  with (`LoadFits`), so that a response under a newer token carries the older stamp, and is refused. The record only moves on (`Moved`), which keeps all of it.
- `AnswersKept == Spec => []ShownIsKept`, and `NoReturn == Spec => NeverBack` assuming `MaxFaults <= 1`. `KeptInv`: the latest load of a repository is alone
  with its revision (`Ranked`), holds what its repository remembers (`Matched`, `Linked`), will not answer anything older (`Ahead`), and what was answered
  is both remembered and on disk while nothing failed, one or the other after one failure (`Safe`). With two failures the property is false: the write
  of an answer fails, then the process dies that alone remembers it. `NeverBack` is documented for one failure, which is what the hypothesis says.

### Watch face

- `WatchFaceTypes == Spec => []TypeOK` and `PromiseKept == Spec => KeepsPromise`, assuming
  nothing of the constants. The permission request passes from hand to hand: view model, dialog, result,
  consuming operation. `PromiseInv` says that there is one hand at most (`OneHand`), that
  it may count on an activation not yet attempted and on no refusal (`HandIsGood`), that a history
  which is `Eligible` in memory *or* on disk means that nothing has happened yet
  (`EligibleIsUntouched`, what makes failed commits and restarts harmless), and that no history
  changes before a Use. Most steps only take hands away (`NoNewHandKeeps`); a won
  compare-and-set makes one from an untouched history.

- `WayOnHolds == Spec => []AlwaysAWayOn`. A screen may say Checking only before its first look has ended, and a result that arrives may turn
  that look away; then the screen shows what the result's own operation finds. `WayInv` says where each operation may be with which screen
  (`WayOn`), and `PassingIsPending`: while a request passes from hand to hand the history says so in memory and on disk, so that consuming its
  answer never ends on a screen that knows nothing. That part rests on `PromiseInv`.

### Phone

- `PhoneTypes`, `SavedRulesStay` and `OwedStaysRemembered`, from one invariant `PhoneInv` of three parts, assuming `PhoneAssumption`. `EditInv`: one edit at a time has begun, the one at the head of the queue; what it captured has
  every rule saved so far, and once it is written storage holds exactly that. This is what the chain of futures in `_updateAlertThresholds` is for. `WatchlistInv` adds `DueCoversOwed`:
  a look that has read the list is going to tell every owed window its snapshot reports usable, but those in `overlapped`, so the list it writes drops only those and what it told.
- `ModeIsFollowed`, `NothingOlderShown` and `GoodDataKept`, from `ScreenInv`. Loads have revisions of their own (`LoadsInv`), so at most one is the latest, and as
  long as it awaits its answer what is shown is older (`CurrentInv`). An edit that captured the screen under the latest revision holds what is shown, up to the rules, until that load
  publishes (`CapturedInv`); from then on what it holds is older, which is the one way back `ShownForward` excepts. A failed tick looked at what is shown
  (`FailedInv`). Outside the switch the latest load, what it shows and the host's flag are of one mode (`ModeInv`).
- `WatchIsFollowed` and `WidgetIsFollowed`, from `SurfaceInv` and, for the rules, `RulesInv`. `RulesInv`: memory holds what is stored, but for the rule an edit has written and not
  taken yet (`HostRules`); an edit writes the stored rules and its own (`WrittenRules`); what the latest load is about to show, and what it shows, miss at most
  that rule and those of edits it crossed (`LoadRules`, `ShownRules`). An edit ends without being crossed only if nothing of the latest load is
  published or about to be, or if what it captured is of the latest load, and then it publishes (`CapturedRules`).
   Deliveries wait in a queue and some are dropped when their turn comes, so the invariants speak of the last one that is *due*.
  `WatchInv`: it is of what is shown, or none is due and the watch has it. `WidgetInv`: a tick is on its way over the watch, or the last due
  delivery is good, or all are and so is what the coordinator writes last; a write interrupted by a death leaves keys of two snapshots, but then nothing is shown.

### Provider reports

The calendar comes first, as theorems about the conversions themselves, with no report in them:

- `UtcIsTheInstant`: for every integer `m`, `UnixToUtc(m)` is a real date and a minute of the day, and `m` minutes from the epoch. The code
  finds the date through eras of 400 years whose years start in March (`openai/mod.rs`, `codex/mod.rs`); the calendar it is compared with counts years, months
  and leap days. `EraOf` and `MarchYear` place a day in its era and its year, `ErasRepeat` says that an era is 146097 days whichever it is, and
  `DateOfPlace` that the month and the day found there are the calendar's.
- `TimestampIsTheInstant`: a written instant the parser accepts becomes the moment it was written for, its offset taken off. One day forward or back is enough,
  which is what the code tries, and `NextDay` and `PreviousDay` are right across ends of months, leap Februaries and years.
- `EarlierIsEarlier`: to compare instants by date and minute, as their texts compare, is to compare them by time.

Then what the accounts say, in any report the types let through, over any number of pages:

- `ShownInstantsAgree == Spec => []InstantsAgree` and `SpentWindowsAreLimited == Spec => []SpentIsLimited`, from `ReportInv`: what is asked is a plan with a report of its type, or
  an organization whose feeds hold pages of its type, and an envelope is the core's answer to that report. It is needed because neither property says where a
  report comes from. Each adapter has a lemma on what its account is made of (`CodexAccountIs`, `ClaudeAccountIs`, `CursorPlanIs`, `OpenAiAccountIs`).
  A window *fits* when it is rate limited exactly if it is spent (`Fits`); every window of every plan does, and the status of a plan is the worst of its windows' (`HealthyPlan`).
  For OpenAI, `InOrderIs` says that a finite set of spans is listed in full by its order, so that merging loses and adds no bucket (`BucketSpans`).
- `ShownWindowsToldApart == LimitsToldApart => (Spec => []WindowsToldApart)`. Sequences whose windows have ids of their own (`Keyed`) still have when they are laid end to end, if no two
  share one (`Apart`, `KeyedFlat`), and such a sequence has as many keys as windows (`KeysCounted`). `ClaudeKeyed` and `CursorPlanKeyed` need nothing else. For Codex, tokens of different
  lengths differ (`TokensDiffer`), so labels do (`LabelsDiffer`). `KnownSummary` joins the invariant: a plan's report is one it may answer, of which the hypothesis speaks.
- `ReportsAreTyped == Spec => []TypeOK`, in `AlertBoard_proofs`: the account of every adapter has money and counts of their width, instants, windows the core can read and no limit of a
  period. The sums behind it are folds over pages of any length; a fold goes through a chain of values (`TotalChain`, `RequestsChain`, `AnthropicUsageChain`), and what holds of the
  first and is kept by a step holds of the last (`Stepwise`).
- `ShownBucketsAddUp == RealDates => (Spec => []BucketsAddUp)`, in `ReportSums_proofs`. What a sequence is *worth* is the sum of a number of each element (`Worth`). Sequences laid end to end are
  worth what they are one by one (`WorthFlat`), and a sequence that is grouped by a key is worth its groups together (`WorthGroups`, from exchanging two sums, `TotalExchange`). So the
  rows are worth their results, and the buckets, which are groups of rows by span (OpenAI) or by day (Anthropic), are worth the rows. That a bucket counts its group exactly needs that no sum stopped: OpenAI's are refused
  where they do not fit, Anthropic's saturate, and saturating sums that end below the largest count were exact all along (`AnthropicUsageExact`).
  The invariant adds `KnownPages` to `ReportInv`: the pages read are pages the provider may give. It is needed for `RealDates`, which says of those pages that
  Anthropic's instants lie on real days; the adapter takes the ten characters of a date as they are (`claude/platform.rs:83-86`), so that a day `2026-02-31` would sort after, and cover, what it should not.
- `ShownCompleteOrUnknown == Spec => []CompleteOrUnknown`, without hypothesis. A checked sum that is not refused is exact (`MinorExact`), and so is each of its parts
  (`CentsFromExact`). For Anthropic the days since a start all have a cost exactly if no day with usage lacks one and there is one (`DaysKnownIs`); then what was spent is the cents of the results that lie on them,
  which are picked from the rows by their start (`WorthKept`, `WorthChosen`, `CostsSince`), while the adapter picks merged days. For a Cursor team every page, member and row must tell its part
  (`TeamSpendExact`, `RequestsExact`); requests that would not fit read as the largest count (`CappedIsMin`).
- `ShownAllOrNothing == RefusalIsApart => (Spec => [](source # "openai" => AllOrNothing))`. That what is malformed refuses the report follows a refusal through the folds. The other half says that
  nothing else does: a sum of parts whose sizes fit together stays within them at every step (`SumsGrow`, `TotalWithin`), whatever the order and the signs, so no sum is refused on the way (`SmallSumFits`,
  `TeamSpendFits`, `CentsFromFits`, `BudgetFits`); and the sizes of the days an adapter makes are those of the rows the property adds up (`BucketsSized`, `AnthropicSmall`).
- `ShownSpendExact == PowersOfTen /\ RefusalIsApart /\ RoomToRound /\ FineCosts => (Spec => []SpendExact)`. A decimal is a coefficient and a scale; what it is in millionths (`DecimalMicros`) is what stripping zeros
  (`NewDecimalIs`), bringing two decimals to one scale (`AddDecimalIs`) and reading an amount with an exponent (`FromSourceIs`) keep, wherever they refuse nothing. So a fold of decimals, through its chain
  (`DecimalChain`), is exact (`DecimalExact`), and the one rounding to cents at its end is that of the sum (`MinorUnitsRound`), because the halves that are rounded away from zero at any scale are the halves of the
  same number of millionths (`HalvesRound`). What a row of results costs, in which bucket it lies and which rows lie since a start is then counted as for Anthropic (`BucketCostIs`, `SpentSinceIs`, `MicrosSinceAre`).
- `ReportsBesideBoards == BoardSpec => [](InstantsAgree /\ SpentIsLimited)`, in `AlertBoard_proofs`: loading and editing boards asks no provider for anything.

An adapter is an instance of its module, with copies of the operators it shares with the others; lemmas such as `CodexInstant` say that a copy is the operator.
`ReportAssumption` says that the reports and pages of an instance are of the types that deserialize, `InstantAssumption` that an absent instant is none, as `Option` has it.
Three definitions are written so that they can be reasoned about: the keys of the ordered maps are listed by `InOrder` and rows are picked by `Chosen`, since the prover has no
definitions of the library's sort and selection, and the windows of a Claude report are concatenated as the code pushes them.

### Alert board

- `BoardsAreTyped == RefusalIsNoDashboard => (BoardSpec => []BoardTypes)`: reports stay typed beside boards, and a board keeps a dashboard of as many accounts shown as were loaded.
- `AlertsAreBesideCards == RefusalIsNoDashboard => (BoardSpec => []AlertsAreSeen)`, from `BoardInv`. `ShownInv`: what is shown is a dashboard of the core
  (`Built`: typed, its totals those of its accounts), it is what was loaded with worse statuses at most and budgets measured against other limits (`ShowsAll`), and every
  alert has a card that looks no better than a warning (`AlertsBeside`). `ShowsAll` is transitive, so it survives edits applied over edits; that a merge of
  any number of snapshots, stale ones among them, is again such a dashboard is `MergeAllIsLoaded`.
- `EditsReachTheSameBoard == RefusalIsNoDashboard /\ LimitlessBoards => (BoardSpec => []EditsConverge)`, from `ConvergeInv`, which adds that until an edit relaxes the rules,
  what is shown is what the settings make of what was loaded. One lemma carries it: settings applied to an account that looser ones were applied to give what
  they give of the account alone (`AppliedAgain`), because a raised status is raised again to the same (`RaisedAgain`) and a budget is measured again from what was spent (`LimitedAgain`).
  `AlertsAreReached` then says which alerts there are: those whose percentage, or whose spending against the user's limit, reaches the line.

Their hypotheses are of the inputs. `RefusalIsNoDashboard`: the value that stands for a refusal is told apart from dashboards, as `Err` is from `Ok`.
`LimitlessBoards`: no budget comes with a limit of the provider. It holds of all six adapters (`mock/demo.rs:243-245` says so); only the fixture of the demo has
limits, and there a period reaches a line without any limit of the user's, which `ReachedCards` does not count. `LimitsToldApart`: the limits of a Codex report have ids of their own, and no name of one says two window words. The provider lists limits in a map by their id
(`codex/mod.rs:357`) and names them after at most one window, which the adapter relies on without a check; without it the property is false. TLC confirms it of the run's reports.
`RefusalIsApart`: a refusal is neither a value nor absent, as `Err` is not.
`PowersOfTen`: the next power of ten is ten times the one before, of which the provers know the values only. `RoomToRound`: the largest coefficient is at least 10000, the power by which a millionth
is rounded to cents; it is 2^127 - 1 in the source. `FineCosts`: no amount is finer than a millionth, which is what `SpendExact` counts in. The code reads finer ones too; they are beyond both the run and the theorem.
`BoardAssumption`: a loaded dashboard is what `BuildDashboard` makes of
typed accounts with distinct window keys (which `WindowsToldApart` checks of the adapters), and limits of rules are positive, as
`alert_threshold_preferences.dart:73` and `alert_threshold_dialogs.dart:241` make them. `NoneAssumption`: none is neither a number nor an amount.

The prover does not induct over data with the library's theorems, which take an operator as a parameter. Sums over accounts and merges of snapshots are proved of any
length nevertheless: a set of natural numbers has a least element (`LeastNumber`, from well-foundedness), so the shortest list for which a statement
fails leads to a contradiction. For this `MergeAll` is a recursive function.

`CredentialRecord_proofs` holds the lemmas about the record functions. The strengthened
invariants were checked by TLC before they were proved.

Only model-checked: `DisconnectErases`, which a run shows violated; of the properties of a single report, `AllOrNothing` for OpenAI; and `PagesOnlyAdd`, which compares the accounts of two reports;
and `RequestsServed`, `BusyEnds` and `OwedIsTold`, since liveness under fairness is out of the prover's reach.

## Further disagreements met while modelling

The properties are stated around these; each is named where it is excepted.

- An edit of the alert rules that begins while the latest load is under way, and ends after it, publishes the snapshot it captured over the newer
  one: the load revision it compares was raised when the load began (`ward_pulse_app.dart:394-415`). DEVELOPMENT_PLAN.md:1483 says
  otherwise. `ShownForward` excepts exactly this edit.
- An alert rule is saved and neither the screen nor the watch has it: a load takes the rules (`ward_pulse_app.dart:461-464`) before an edit that is under way ends, and publishes
  after the edit began (`ward_pulse_app.dart:465-471`). Either the edit publishes first and the load then puts its own snapshot over it, or the edit sees that the revision it captured is
  over and publishes nothing (`ward_pulse_app.dart:417-431`). The rule is in memory and in storage, and counts from the next load. The comment at `ward_pulse_app.dart:399-400` only
  keeps the store from getting ahead of the alerts if the core fails. `WatchFollows` excepts the rules of such edits (`crossed`); stated without the exception TLC finds it violated. A load that
  began meanwhile and fails as a tick leaves the screen without the rule too; `WatchFollows` speaks of screens of the latest load.
- A scheduled load delivers to the widget after the watch without looking at the load revision again (`ward_pulse_app.dart:605-606`), so a reload that published
  meanwhile can be overwritten on the widget. `WidgetFollows` excepts a tick's delivery.
- A poll whose snapshot does not report a spent window rewrites the list without it (`recovery_watchlist.dart:115`), and its recovery is never
  told, against the plan's "exactly once per crossing". `owed` leaves such a window out.
- The comment at `recovery_watchlist.dart:65-68` says the two paths need no lock when they overlap: "they read the same list, report the same windows, and write the same answer". They do on snapshots of the same
  age. On different ones a recovery may be told twice, or for a window that is spent again, and it may be lost. A look whose snapshot is of before a window ran out reads
  the list; the window runs out, and another look remembers it; the window comes back; the first look writes its list without the window (`recovery_watchlist.dart:115-116`), and nobody is told. A look
  whose return of the same window was told already, or that read while the switch was off, does the same. `OwedIsRemembered` and `OwedIsTold` except these windows (`overlapped`) and
  no other; without the exception TLC finds the first violated. If such a write comes before the window comes back, the window is not remembered then, and not owed.
- Raising or removing an alert line, or removing a limit, applies the rules to the dashboard that already carries the old ones: raised statuses and removed
  limits stay until the next load (`ward_pulse_app.dart:401`); `alerts/mod.rs:112-114` says percentages stay "in step with the limits the user just set". `EditsConverge` is about edits that add or tighten.
- With stored rules and no connected provider the core turns the overall status `ok` of the empty dashboard into `unknown`, against
  `dashboard_models.dart:232-233`. `EditsConverge` leaves dashboards without accounts aside.
- `claude/platform.rs:243` says "Round half away from zero", and rounds -0.5 cents to +1. `SpendExact`'s counterpart for Anthropic has no amount between -1 and 0.
- A store that cannot be read gives empty alert rules, and the next edit then writes over the stored ones; `Phone` has no failed reads.
- A ring-preference sync or a tick during a demo switch captures the raised revision and can deliver the old snapshot with the new flag; `ModeFollows` and
  `WatchFollows` speak of when the switch is over and nothing is under way.
- A headless poll sends live data to the watch while demo data is on.
- A Codex limit whose name already says the only known window length gives its two windows the same label if the other length is unknown; `WindowsToldApart` asks for two known lengths.
  A name that says both lengths (`Spark 5h Weekly`) leaves both labels as the name (`codex/mod.rs:219-226`); the names of the run say one at most.

## What is not modelled

- Credential core: `queueLegacyCleanup` with `deleteLegacyPastedSecret`, `validAll`
  over several connections; the further keys `openai.plan` and `anthropic.plan` retire on delete; malformed records, for which `state()` throws.
  A secret that fails to parse is treated by `read()` as a missing one, and the model
  has only the missing one. Faults during a retry of secure storage after teardown land one call per teardown.
- Loads: fences and teardown of an engine in the middle of a load, which `CredentialStorage` has; corrupt payloads, the payload version check and the upgrade of old
  timestamps; reporting outcomes and observers; the account services' operation queue and revocation at the provider.
- Phone: refresh intervals, poll floors and cadence, the manual refresh window, the booked wake of a recovery, ring and widget preferences,
  reporting updates, marking widget rows stale, what the data layer of the watch coalesces and its refresh request. Wall-clock comparisons against a floor are
  single expressions with unit tests of their own.
- Codex: dates as they are written in a bucket's start, which the adapter keeps as text and whose parts need no leading zeros (`codex/mod.rs:253-257`); buckets of the model start on dates of the calendar.
- Claude: that the account id may be missing (`claude/mod.rs:148-150`); it is a constant here.
- Rust: the demo and fixture adapters (random numbers and constants), projection (no caller in the repository), the credit quantities shown beside a
  percentage, the wording of labels, alerts and errors, JSON and C strings, the command-line tool.
- The bundle file of the watch face and its checks; all rendering.

`PROJECT.json` lists each component with what is left out of it.

## Plan

What would come next, in this order:

1. A proof of `PagesOnlyAdd`.
2. An abstract credential contract (sign-in, cancel, refresh and disconnect as atomic steps), implemented by `CredentialStorage`
   and used by `ConnectionLoad` in place of its whole operations.
3. The account services' operation queue over that contract; watch delivery with a data layer that coalesces.

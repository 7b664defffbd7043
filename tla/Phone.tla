--------------------------------- MODULE Phone ---------------------------------
(***************************************************************************)
(* The phone around the repositories: the DashboardHost of the foreground     *)
(* engine with its loads, scheduled ticks, rule edits, demo switch and watch   *)
(* deliveries, the poll of the headless engine, and the watchlist both share.   *)
(*                                                                          *)
(* Each action ends where the code awaits a store, the network or the          *)
(* platform.  Checks of a snapshot's ownership are answered in the order they   *)
(* were asked, as the one executor thread of the platform does.                *)
(***************************************************************************)
EXTENDS Naturals, Sequences, RecoveryWatchlist

CONSTANTS
    Edits,     \* edits of the alert rules; each adds a rule of its own
    NoSnapshot,
    Budgets,   \* bounds of a run: its loads, raises, deliveries asked for and faults, the
               \* edits that are made, and the plans whose windows run out and come back
    MaxAsked   \* bound on the deliveries that wait for their check

BudgetStates == [loads : Nat, raises : Nat, resyncs : Nat, faults : Nat,
                 editable : SUBSET Edits, plans : SUBSET Windows]

ASSUME PhoneAssumption == Budgets \subseteq BudgetStates

VARIABLES
    stored,   \* the preferences in secure storage: alert rules, demo data
    epoch,    \* the validity of live data, as the platform keeps it
    host,     \* _loadRevision, _surfaceRevision, _currentSnapshot, rules and demo
    loads,    \* the running loads of the host, ticks included
    edits,    \* the edits of the rules, and what each captured
    queue,    \* the edits in the order they were made
    switch,   \* where the demo switch is
    asked,    \* deliveries that wait for the check of their snapshot
    watch,    \* what the watch was last sent, and by which engine
    widget,   \* the keys of the home widget, and the host's coordinator
    poll,     \* the headless poll
    left      \* what is left of the budget

device == <<stored, epoch, switch>>
screen == <<host, loads, edits, queue, asked>>
surfaces == <<watch, widget>>
vars == <<watchlist, device, screen, surfaces, poll, left>>

Rules == SUBSET Edits
Snapshots == [load : Nat, demo : BOOLEAN, epoch : Nat, rules : Rules, report : Reports]
MaybeSnapshot == Snapshots \cup {NoSnapshot}

ASSUME SnapshotAssumption == NoSnapshot \notin Snapshots

HostStates == [revision : Nat, surface : Nat, current : MaybeSnapshot, rules : Rules,
               demo : BOOLEAN, ready : BOOLEAN]
LoadPlaces == {"preferences", "ask", "answer", "publish", "failed", "failure", "surfaces"}
LoadRecords == [rev : Nat, tick : BOOLEAN, pc : LoadPlaces, demo : BOOLEAN, snap : MaybeSnapshot]
EditRecords == [pc : {"none", "queued", "write", "check", "saved", "lost"}, rules : Rules,
                snap : MaybeSnapshot, load : Nat, surface : Nat, crossed : Nat]
NoEdit == [pc |-> "none", rules |-> {}, snap |-> NoSnapshot, load |-> 0, surface |-> 0,
           crossed |-> 0]
Deliveries == [to : {"watch", "widget", "recoveries"}, snap : Snapshots, surface : Nat, tick : BOOLEAN]
WatchStates == [by : {"host", "poll"}, snap : MaybeSnapshot, demo : BOOLEAN]
Written == [by : {"host", "poll", "none"}, load : Nat, tick : BOOLEAN]
WidgetStates == [first : Written, last : Written, latest : Written, writing : Written]
SwitchPlaces == {"idle", "clear", "write", "end", "replaced"}
PollStates == [pc : {"idle", "watch", "widget", "rows", "recoveries", "look"}, snap : MaybeSnapshot]
NoPoll == [pc |-> "idle", snap |-> NoSnapshot]

TypeOK ==
    /\ WatchlistTypeOK
    /\ stored \in [rules : Rules, demo : BOOLEAN]
    /\ epoch \in Nat
    /\ host \in HostStates
    /\ loads \subseteq LoadRecords
    /\ edits \in [Edits -> EditRecords]
    /\ queue \in Seq(Edits)
    /\ switch \in SwitchPlaces
    /\ asked \in Seq(Deliveries)
    /\ watch \in WatchStates /\ widget \in WidgetStates
    /\ poll \in PollStates
    /\ left \in BudgetStates

-----------------------------------------------------------------------------
\* Mutant: a load does not know its revision.
NewLoadUnknown(rev) == [tick |-> FALSE, pc |-> "preferences", demo |-> FALSE, snap |-> NoSnapshot]

NewLoad(rev) == [rev |-> rev, tick |-> FALSE, pc |-> "preferences", demo |-> FALSE,
                 snap |-> NoSnapshot]
NewTick(rev) == [NewLoad(rev) EXCEPT !.tick = TRUE, !.pc = "ask"]
Move(l, next) == loads' = (loads \ {l}) \cup {next}
Owned(snap) == snap.demo \/ snap.epoch = epoch
Delivery(to, snap) == [to |-> to, snap |-> snap, surface |-> host.surface, tick |-> FALSE]
ByHost(load, tick) == [by |-> "host", load |-> load, tick |-> tick]
ByPoll == [by |-> "poll", load |-> 0, tick |-> FALSE]
Nothing == [by |-> "none", load |-> 0, tick |-> FALSE]
Spend(what) == left[what] > 0 /\ left' = [left EXCEPT ![what] = @ - 1]

Init ==
    /\ WatchlistInit
    /\ left \in Budgets /\ spent \subseteq left.plans
    /\ epoch = 1 /\ switch = "idle"
    /\ \E demo \in BOOLEAN :
          LET snap == [load |-> 1, demo |-> demo, epoch |-> 1, rules |-> {}, report |-> Truth({})]
          IN /\ stored = [rules |-> {}, demo |-> demo]
             /\ host = [revision |-> 1, surface |-> 0, current |-> snap, rules |-> {},
                        demo |-> demo, ready |-> TRUE]
             /\ watch = [by |-> "host", snap |-> snap, demo |-> demo]
    /\ widget = [first |-> ByHost(1, FALSE), last |-> ByHost(1, FALSE), latest |-> Nothing,
                  writing |-> Nothing]
    /\ loads = {} /\ asked = <<>>
    /\ edits = [e \in Edits |-> NoEdit] /\ queue = <<>>
    /\ poll = NoPoll

(***************************************************************************)
(* Loads and ticks.                                                         *)
(***************************************************************************)
Reload ==
    /\ Spend("loads")
    /\ host' = [host EXCEPT !.revision = @ + 1]
    /\ loads' = loads \cup {NewLoad(host.revision + 1)}
    /\ UNCHANGED <<watchlist, device, edits, queue, asked, surfaces, poll>>

\* Ticks are scheduled once the preferences are read, and one runs at a time.
Tick ==
    /\ Spend("loads") /\ host.ready /\ \A l \in loads : ~l.tick
    /\ host' = [host EXCEPT !.revision = @ + 1]
    /\ loads' = loads \cup {NewTick(host.revision + 1)}
    /\ UNCHANGED <<watchlist, device, edits, queue, asked, surfaces, poll>>

\* A superseded load reads them too, and then goes no further.
ReadPreferences(l) ==
    /\ l.pc = "preferences"
    /\ host' = [host EXCEPT !.rules = stored.rules, !.demo = stored.demo, !.ready = TRUE]
    /\ IF l.rev = host.revision THEN Move(l, [l EXCEPT !.pc = "ask"]) ELSE loads' = loads \ {l}
    /\ UNCHANGED <<watchlist, device, edits, queue, asked, surfaces, poll, left>>

Ask(l) ==
    /\ l.pc = "ask"
    /\ Move(l, [l EXCEPT !.pc = "answer", !.demo = stored.demo])
    /\ UNCHANGED <<watchlist, device, host, edits, queue, asked, surfaces, poll, left>>

\* What a live snapshot of this moment is, and what a demo one is.
Answered(l, hidden) ==
    [load |-> l.rev, demo |-> l.demo, epoch |-> epoch, rules |-> host.rules,
     report |-> Truth(IF l.demo THEN Windows ELSE hidden)]

\* A reload that fails while it is the latest leaves an error; a tick looks first
\* whether what is shown still is good.
Failed(l) ==
    IF l.tick
    THEN /\ IF host.current = NoSnapshot THEN Move(l, [l EXCEPT !.pc = "failure"])
            ELSE Move(l, [l EXCEPT !.pc = "failed", !.snap = host.current])
         /\ UNCHANGED host
    ELSE /\ loads' = loads \ {l}
         /\ host' = IF l.rev = host.revision THEN [host EXCEPT !.current = NoSnapshot] ELSE host

Answer(l) ==
    /\ l.pc = "answer"
    /\ \/ /\ l.rev = host.revision
          /\ \E hidden \in SUBSET left.plans :
                Move(l, [l EXCEPT !.pc = "publish", !.snap = Answered(l, hidden)])
          /\ UNCHANGED <<host, left>>
       \/ l.rev # host.revision /\ Failed(l) /\ UNCHANGED left
       \/ Spend("faults") /\ Failed(l)
    /\ UNCHANGED <<watchlist, device, edits, queue, asked, surfaces, poll>>

\* A reload delivers to all three; a tick to the watch and then to the widget.
Publish(l) ==
    /\ l.pc = "publish"
    /\ IF l.rev = host.revision /\ Owned(l.snap)
       THEN /\ host' = [host EXCEPT !.current = l.snap]
            /\ IF l.tick
               THEN /\ Move(l, [l EXCEPT !.pc = "surfaces"])
                    /\ asked' = Append(asked, [Delivery("watch", l.snap) EXCEPT !.tick = TRUE])
               ELSE /\ loads' = loads \ {l}
                    /\ asked' = asked \o <<Delivery("recoveries", l.snap), Delivery("watch", l.snap),
                                        Delivery("widget", l.snap)>>
       ELSE /\ loads' = loads \ {l}
            /\ host' = IF ~l.tick /\ l.rev = host.revision
                       THEN [host EXCEPT !.current = NoSnapshot] ELSE host
            /\ UNCHANGED asked
    /\ UNCHANGED <<watchlist, device, edits, queue, surfaces, poll, left>>

\* Mutant: the failed tick clears whatever is shown.
CheckShownAnyway(l) ==
    /\ l.pc = "failed"
    /\ Move(l, [l EXCEPT !.pc = "failure"])
    /\ UNCHANGED <<watchlist, device, host, edits, queue, asked, surfaces, poll, left>>

CheckShown(l) ==
    /\ l.pc = "failed"
    /\ IF Owned(l.snap) THEN loads' = loads \ {l} ELSE Move(l, [l EXCEPT !.pc = "failure"])
    /\ UNCHANGED <<watchlist, device, host, edits, queue, asked, surfaces, poll, left>>

ShowFailure(l) ==
    /\ l.pc = "failure"
    /\ loads' = loads \ {l}
    /\ host' = IF l.rev = host.revision THEN [host EXCEPT !.current = NoSnapshot] ELSE host
    /\ UNCHANGED <<watchlist, device, edits, queue, asked, surfaces, poll, left>>

LoadStep(l) ==
    \/ ReadPreferences(l) \/ Ask(l) \/ Answer(l) \/ Publish(l)
    \/ CheckShown(l) \/ ShowFailure(l)

(***************************************************************************)
(* Edits of the alert rules, one after the other.                            *)
(***************************************************************************)
MakeEdit(e) ==
    /\ host.ready /\ e \in left.editable /\ edits[e].pc = "none"
    /\ edits' = [edits EXCEPT ![e].pc = "queued"]
    /\ queue' = Append(queue, e)
    /\ UNCHANGED <<watchlist, device, host, loads, asked, surfaces, poll, left>>

Captured(e) ==
    [pc |-> "write", rules |-> host.rules \cup {e}, snap |-> host.current,
     load |-> host.revision, surface |-> host.surface, crossed |-> 0]

\* Mutant: an edit does not wait for the one before it.
BeginEditAtOnce(e) ==
    /\ edits[e].pc = "queued"
    /\ edits' = [edits EXCEPT ![e] = Captured(e)]
    /\ UNCHANGED <<watchlist, device, host, loads, queue, asked, surfaces, poll, left>>

BeginEdit(e) ==
    /\ edits[e].pc = "queued" /\ queue # <<>> /\ e = Head(queue)
    /\ edits' = [edits EXCEPT ![e] = Captured(e)]
    /\ UNCHANGED <<watchlist, device, host, loads, queue, asked, surfaces, poll, left>>

\* A write that fails ends the edit, and changes nothing.
WriteEdit(e) ==
    /\ edits[e].pc = "write"
    /\ \/ /\ stored' = [stored EXCEPT !.rules = edits[e].rules]
          /\ edits' = [edits EXCEPT ![e].pc = "check"]
          /\ UNCHANGED <<queue, left>>
       \/ /\ Spend("faults")
          /\ edits' = [edits EXCEPT ![e] = [NoEdit EXCEPT !.pc = "lost"]]
          /\ queue' = Tail(queue)
          /\ UNCHANGED stored
    /\ UNCHANGED <<watchlist, epoch, switch, host, loads, asked, surfaces, poll>>

\* History: the latest load, when it took the rules before the edit ended and is
\* shown after the edit began; the edit's rule may be missing from what it shows.
CrossedBy(e) ==
    IF \/ \E l \in loads : l.rev = host.revision /\ l.pc = "publish"
       \/ /\ host.current # NoSnapshot /\ host.current.load = host.revision
          /\ edits[e].snap # NoSnapshot => edits[e].snap.load # host.revision
    THEN host.revision ELSE 0

EndedEdit(e) == [NoEdit EXCEPT !.pc = "saved", !.crossed = CrossedBy(e)]

\* Mutant: an edit publishes whatever has started since.
FinishEditStale(e) ==
    LET edit == edits[e]
        snap == [edit.snap EXCEPT !.rules = edit.rules]
        publish == edit.snap # NoSnapshot /\ Owned(edit.snap)
    IN /\ edit.pc = "check"
       /\ host' = [host EXCEPT !.rules = edit.rules, !.current = IF publish THEN snap ELSE @]
       /\ asked' = IF publish THEN Append(asked, Delivery("watch", snap)) ELSE asked
       /\ edits' = [edits EXCEPT ![e] = EndedEdit(e)]
       /\ queue' = Tail(queue)
       /\ UNCHANGED <<watchlist, device, loads, surfaces, poll, left>>

\* Mutant: an edit tells the watch nothing.
FinishEditQuietly(e) ==
    LET edit == edits[e]
        snap == [edit.snap EXCEPT !.rules = edit.rules]
        publish == /\ edit.snap # NoSnapshot /\ Owned(edit.snap)
                   /\ edit.load = host.revision /\ edit.surface = host.surface
    IN /\ edit.pc = "check"
       /\ host' = [host EXCEPT !.rules = edit.rules, !.current = IF publish THEN snap ELSE @]
       /\ edits' = [edits EXCEPT ![e] = EndedEdit(e)]
       /\ queue' = Tail(queue)
       /\ UNCHANGED <<watchlist, device, loads, asked, surfaces, poll, left>>

\* The snapshot the rules were applied to replaces what is shown when it is still
\* owned and nothing started since; the rules count in any case.
FinishEdit(e) ==
    LET edit == edits[e]
        snap == [edit.snap EXCEPT !.rules = edit.rules]
        publish == /\ edit.snap # NoSnapshot /\ Owned(edit.snap)
                   /\ edit.load = host.revision /\ edit.surface = host.surface
    IN /\ edit.pc = "check"
       /\ host' = [host EXCEPT !.rules = edit.rules, !.current = IF publish THEN snap ELSE @]
       /\ asked' = IF publish THEN Append(asked, Delivery("watch", snap)) ELSE asked
       /\ edits' = [edits EXCEPT ![e] = EndedEdit(e)]
       /\ queue' = Tail(queue)
       /\ UNCHANGED <<watchlist, device, loads, surfaces, poll, left>>

EditStep(e) == BeginEdit(e) \/ WriteEdit(e) \/ FinishEdit(e)

(***************************************************************************)
(* The demo switch, and a credential that changes.                           *)
(***************************************************************************)
Raised == [host EXCEPT !.revision = @ + 1, !.surface = @ + 1]

BeginSwitch ==
    /\ switch = "idle" /\ Spend("raises")
    /\ host' = Raised
    /\ switch' = "clear"
    /\ UNCHANGED <<watchlist, stored, epoch, loads, edits, queue, asked, surfaces, poll>>

ClearPersistentSnapshots ==
    /\ switch = "clear" /\ switch' = "write"
    /\ epoch' = epoch + 1
    /\ UNCHANGED <<watchlist, stored, screen, surfaces, poll, left>>

WriteDemo ==
    /\ switch = "write" /\ switch' = "end"
    /\ stored' = [stored EXCEPT !.demo = ~@]
    /\ UNCHANGED <<watchlist, epoch, screen, surfaces, poll, left>>

\* Mutant: the switch ends without a load of its own.
EndSwitchAlone ==
    /\ switch = "end" /\ switch' = "idle"
    /\ host' = [host EXCEPT !.demo = stored.demo]
    /\ UNCHANGED <<watchlist, stored, epoch, loads, edits, queue, asked, surfaces, poll, left>>

EndSwitch ==
    /\ switch = "end" /\ switch' = "idle"
    /\ host' = [host EXCEPT !.demo = stored.demo, !.revision = @ + 1]
    /\ loads' = loads \cup {NewLoad(host.revision + 1)}
    /\ UNCHANGED <<watchlist, stored, epoch, edits, queue, asked, surfaces, poll, left>>

\* The record of a credential changes before the host is told.
ReplaceCredential ==
    /\ switch = "idle" /\ Spend("raises")
    /\ epoch' = epoch + 1 /\ switch' = "replaced"
    /\ UNCHANGED <<watchlist, stored, screen, surfaces, poll>>

\* The reload after the raise is one more.
CredentialsChanged ==
    /\ switch = "replaced" /\ switch' = "idle"
    /\ host' = [host EXCEPT !.revision = @ + 2, !.surface = @ + 1, !.current = NoSnapshot]
    /\ loads' = loads \cup {NewLoad(host.revision + 2)}
    /\ UNCHANGED <<watchlist, stored, epoch, edits, queue, asked, surfaces, poll, left>>

SwitchStep == ClearPersistentSnapshots \/ WriteDemo \/ EndSwitch \/ CredentialsChanged

(***************************************************************************)
(* Deliveries.                                                              *)
(***************************************************************************)
\* Ring preferences changed, the watch asked, or Settings sent it again.
Resync ==
    /\ host.current # NoSnapshot /\ Len(asked) < MaxAsked /\ Spend("resyncs")
    /\ asked' = Append(asked, Delivery("watch", host.current))
    /\ UNCHANGED <<watchlist, device, host, loads, edits, queue, surfaces, poll>>

\* What was asked for before a raise, or is no longer owned, goes nowhere.  The
\* coordinator of the widget keeps the latest of what it is given while it writes.
Deliver ==
    LET d == Head(asked)
        sent == Owned(d.snap) /\ d.surface = host.surface
        next == IF d.tick /\ d.to = "watch"
                THEN <<[Delivery("widget", d.snap) EXCEPT !.tick = TRUE]>> ELSE <<>>
    IN /\ asked # <<>>
       /\ asked' = Tail(asked) \o next
       /\ watch' = IF sent /\ d.to = "watch"
                   THEN [by |-> "host", snap |-> d.snap, demo |-> host.demo] ELSE watch
       /\ widget' = IF sent /\ d.to = "widget"
                    THEN [widget EXCEPT !.latest = ByHost(d.snap.load, d.tick)] ELSE widget
       /\ looks' = IF sent /\ d.to = "recoveries"
                   THEN looks \cup {NewLook(d.snap.load, d.snap.report, host.demo)} ELSE looks
       /\ loads' = IF d.tick /\ d.to = "widget" THEN {l \in loads : l.pc # "surfaces"} ELSE loads
       /\ UNCHANGED <<spent, remembered, owed, overlapped, device, host, edits, queue, poll, left>>

\* A write of the widget saves its keys one by one.
BeginWidget ==
    /\ widget.latest # Nothing /\ widget.writing = Nothing
    /\ widget' = [widget EXCEPT !.first = widget.latest, !.writing = widget.latest,
                                !.latest = Nothing]
    /\ UNCHANGED <<watchlist, device, screen, watch, poll, left>>

\* Mutant: a write that ends also ends what was asked for while it ran.
EndWidgetForgetful ==
    /\ widget.writing # Nothing
    /\ widget' = [widget EXCEPT !.last = widget.writing, !.writing = Nothing, !.latest = Nothing]
    /\ UNCHANGED <<watchlist, device, screen, watch, poll, left>>

EndWidget ==
    /\ widget.writing # Nothing
    /\ widget' = [widget EXCEPT !.last = widget.writing, !.writing = Nothing]
    /\ UNCHANGED <<watchlist, device, screen, watch, poll, left>>

(***************************************************************************)
(* The headless poll: the watch, the widget, and the recoveries last.         *)
(***************************************************************************)
Poll ==
    /\ left.plans # {} /\ poll.pc = "idle"
    /\ \E hidden \in SUBSET left.plans :
          poll' = [pc |-> "watch",
                   snap |-> [load |-> 0, demo |-> FALSE, epoch |-> epoch, rules |-> stored.rules,
                             report |-> Truth(hidden)]]
    /\ UNCHANGED <<watchlist, device, screen, surfaces, left>>

PollWatch ==
    /\ poll.pc = "watch"
    /\ watch' = IF Owned(poll.snap) THEN [by |-> "poll", snap |-> poll.snap, demo |-> FALSE] ELSE watch
    /\ poll' = [poll EXCEPT !.pc = "widget"]
    /\ UNCHANGED <<watchlist, device, screen, widget, left>>

PollWidget ==
    /\ \/ /\ poll.pc = "widget" /\ Owned(poll.snap)
          /\ widget' = [widget EXCEPT !.first = ByPoll]
          /\ poll' = [poll EXCEPT !.pc = "rows"]
       \/ /\ poll.pc = "widget" /\ ~Owned(poll.snap)
          /\ poll' = [poll EXCEPT !.pc = "recoveries"]
          /\ UNCHANGED widget
       \/ /\ poll.pc = "rows"
          /\ widget' = [widget EXCEPT !.last = ByPoll]
          /\ poll' = [poll EXCEPT !.pc = "recoveries"]
    /\ UNCHANGED <<watchlist, device, screen, watch, left>>

PollRecoveries ==
    /\ poll.pc = "recoveries"
    /\ IF Owned(poll.snap)
       THEN /\ looks' = looks \cup {NewLook(0, poll.snap.report, FALSE)}
            /\ poll' = [pc |-> "look", snap |-> NoSnapshot]
       ELSE poll' = NoPoll /\ UNCHANGED looks
    /\ UNCHANGED <<spent, remembered, owed, overlapped, device, screen, surfaces, left>>

EndPoll ==
    /\ poll.pc = "look" /\ \A k \in looks : k.of # 0
    /\ poll' = NoPoll
    /\ UNCHANGED <<watchlist, device, screen, surfaces, left>>

PollStep == PollWatch \/ PollWidget \/ PollRecoveries \/ EndPoll

(***************************************************************************)
(* What the providers do, and what fails.                                    *)
(***************************************************************************)
Providers ==
    /\ \E w \in left.plans : ComesBack(w) \/ RunsOut(w)
    /\ UNCHANGED <<device, screen, surfaces, poll, left>>

Look ==
    /\ \E k \in looks : LookStep(k)
    /\ UNCHANGED <<device, screen, surfaces, poll, left>>

LoseLook ==
    /\ Spend("faults")
    /\ \E k \in looks : LookFails(k)
    /\ UNCHANGED <<device, screen, surfaces, poll>>

\* The process dies and the app is opened again.
Die ==
    /\ Spend("faults")
    /\ host' = [revision |-> 1, surface |-> 0, current |-> NoSnapshot, rules |-> {},
                demo |-> FALSE, ready |-> FALSE]
    /\ loads' = {NewLoad(1)}
    /\ edits' = [e \in Edits |-> IF edits[e].pc \in {"queued", "write", "check"}
                                 THEN [NoEdit EXCEPT !.pc = "lost"]
                                 ELSE [edits[e] EXCEPT !.crossed = 0]]
    /\ queue' = <<>> /\ asked' = <<>>
    /\ switch' = "idle" /\ poll' = NoPoll /\ looks' = {}
    /\ widget' = [widget EXCEPT !.latest = Nothing, !.writing = Nothing]
    /\ UNCHANGED <<spent, remembered, owed, overlapped, stored, epoch, watch>>

\* Nothing is under way: the instance may end here.
Quiet ==
    /\ loads = {} /\ queue = <<>> /\ asked = <<>> /\ switch = "idle" /\ looks = {}
    /\ widget.latest = Nothing /\ widget.writing = Nothing /\ poll.pc = "idle"
    /\ UNCHANGED vars

Next ==
    \/ Reload \/ Tick \/ \E l \in loads : LoadStep(l)
    \/ \E e \in Edits : MakeEdit(e) \/ EditStep(e)
    \/ BeginSwitch \/ ReplaceCredential \/ SwitchStep
    \/ Resync \/ Deliver \/ BeginWidget \/ EndWidget
    \/ Poll \/ PollStep
    \/ Providers \/ Look \/ LoseLook
    \/ Die \/ Quiet

\* WorkManager polls again and again, and what was begun goes on.
Fairness ==
    WF_vars(Poll) /\ WF_vars(PollStep) /\ WF_vars(Look)

Spec == Init /\ [][Next]_vars /\ Fairness

-----------------------------------------------------------------------------
Saved == {e \in Edits : edits[e].pc = "saved"}

\* A saved rule stays, in memory and in storage, whatever edits, loads and deaths
\* come in between.
EditsKept ==
    /\ Saved \subseteq stored.rules
    /\ host.ready => Saved \subseteq host.rules

\* Once the demo switch is over, what the latest load shows is of the mode that is
\* on, and so is the flag the watch is sent, whatever was under way before it.
ModeFollows ==
    switch = "idle" /\ host.current # NoSnapshot /\ host.current.load = host.revision =>
        host.current.demo = stored.demo /\ host.demo = stored.demo

\* What is shown never goes back to an older load, but for one edit: the one that
\* captured it while the load that is shown now was still under way.
ShownForward ==
    [][/\ host.current # NoSnapshot /\ host'.current # NoSnapshot
       /\ host'.current.load < host.current.load
       => \E e \in Edits : /\ edits[e].pc = "check" /\ edits'[e].pc = "saved"
                          /\ edits[e].load = host.current.load]_vars

\* An automatic refresh that fails takes nothing from the reader that still is
\* good, though edits and reloads publish while it fails.
KeepsGoodData ==
    [][\A l \in loads \ loads' :
          l.tick /\ host.current # NoSnapshot /\ Owned(host.current) =>
              host'.current # NoSnapshot \/ host'.revision < host.revision]_vars

AtRest ==
    /\ loads = {} /\ queue = <<>> /\ asked = <<>> /\ switch = "idle"

\* When nothing is under way and the latest load was shown, the watch has what is on
\* the screen and its mode, unless the headless engine sent it something since; and
\* both are under every stored rule, but for edits the load that is shown has crossed:
\* it took the rules before they ended, and was shown after they began.
WatchFollows ==
    /\ AtRest /\ host.current # NoSnapshot /\ watch.by = "host"
    /\ host.current.load = host.revision /\ Owned(host.current)
    => /\ watch.snap = host.current /\ watch.demo = host.current.demo
       /\ \A e \in stored.rules \ watch.snap.rules : edits[e].crossed = host.revision

\* And so has the home widget, with keys of one snapshot, unless the headless engine
\* wrote it since.  A tick may leave an older one there: it delivers to the widget
\* after the watch, whatever a reload has delivered meanwhile.
WidgetFollows ==
    /\ AtRest /\ widget.latest = Nothing /\ widget.writing = Nothing
    /\ host.current # NoSnapshot /\ host.current.load = host.revision /\ Owned(host.current)
    => LET keys == {key \in {widget.first, widget.last} : key.by = "host"}
       IN /\ Cardinality(keys) <= 1
          /\ \A key \in keys : key.load = host.current.load \/ key.tick
=============================================================================

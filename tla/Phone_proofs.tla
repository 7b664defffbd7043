----------------------------- MODULE Phone_proofs -----------------------------
(***************************************************************************)
(* What holds of the phone for any number of loads, edits, windows, raises   *)
(* and deaths: its types; that a saved rule stays; that a window that came   *)
(* back is remembered until it is told, but for looks of before it ran out;  *)
(* that what is shown is of the mode that is on, goes back for nothing but   *)
(* an edit, and is not lost to a tick that failed; that it has the rules     *)
(* that are stored, but for edits that a load crossed; and that the watch    *)
(* and the widget get it.                                                   *)
(***************************************************************************)
EXTENDS Phone, SequenceTheorems, FiniteSetTheorems, TLAPS

\* What no look under way was going to forget when it came back.
OwedKept == owed \ overlapped

\* A look that has read the list tells at least what is kept and has room.
DueCoversOwed ==
    \A k \in looks : k.pc = "tell" => OwedKept \cap ReportedAs(k.report, "room") \subseteq k.due

WatchlistInv == WatchlistTypeOK /\ OwedIsRemembered /\ DueCoversOwed

-----------------------------------------------------------------------------
(***************************************************************************)
(* The watchlist on its own.                                                *)
(***************************************************************************)
LEMMA ReportedWindows ==
    ASSUME NEW report, NEW view
    PROVE  ReportedAs(report, view) \subseteq Windows
BY DEF ReportedAs

\* The looks that steps make.
LEMMA LookTypes ==
    ASSUME NEW k \in LookStates, NEW due \in SUBSET Windows
    PROVE  /\ [k EXCEPT !.pc = "tell"] \in LookStates
           /\ [k EXCEPT !.pc = "tell", !.due = due] \in LookStates
           /\ [k EXCEPT !.due = due] \in LookStates
BY DEF LookStates

LEMMA LookFields ==
    ASSUME NEW k \in LookStates, NEW due
    PROVE  /\ [k EXCEPT !.pc = "tell"].report = k.report
           /\ [k EXCEPT !.pc = "tell"].due = k.due
           /\ [k EXCEPT !.pc = "tell", !.due = due].report = k.report
           /\ [k EXCEPT !.pc = "tell", !.due = due].due = due
           /\ [k EXCEPT !.due = due].report = k.report
           /\ [k EXCEPT !.due = due].due = due
           /\ [k EXCEPT !.due = due].pc = k.pc
           /\ k.due \subseteq Windows
BY DEF LookStates

LEMMA NewLookType ==
    ASSUME NEW of \in Nat, NEW report \in Reports, NEW demo \in BOOLEAN
    PROVE  /\ NewLook(of, report, demo) \in LookStates
           /\ NewLook(of, report, demo).pc = "read"
BY DEF NewLook, LookStates

\* What only owes less, and only ends looks, keeps the invariant.
LEMMA OwesLess ==
    ASSUME WatchlistInv, spent' \subseteq Windows, remembered' = remembered, owed' \subseteq Windows,
           overlapped' \subseteq Windows, OwedKept' \subseteq OwedKept, looks' \subseteq looks
    PROVE  WatchlistInv'
BY DEF WatchlistInv, WatchlistTypeOK, OwedIsRemembered, DueCoversOwed, OwedKept

\* A window that comes back is kept if every look that has read the list will tell it.
LEMMA ComesBackKeeps ==
    ASSUME WatchlistInv, NEW w \in Windows, ComesBack(w)
    PROVE  WatchlistInv'
<1>1. /\ spent' \subseteq Windows /\ owed' \subseteq Windows /\ overlapped' \subseteq Windows
      /\ UNCHANGED <<remembered, looks>>
  BY DEF ComesBack, WatchlistInv, WatchlistTypeOK
<1>2. CASE w \in remembered /\ ~ \E k \in looks : Overlaps(k, w)
  <2>1. OwedKept' \subseteq OwedKept \cup {w}
    BY <1>2 DEF ComesBack, OwedKept
  <2>2. OwedKept' \subseteq remembered'
    BY <1>1, <1>2, <2>1 DEF OwedKept, WatchlistInv, OwedIsRemembered
  <2>3. \A k \in looks : k.pc = "tell" => {w} \cap ReportedAs(k.report, "room") \subseteq k.due
    BY <1>2 DEF Overlaps, ReportedAs
  <2>4. DueCoversOwed'
    BY <1>1, <2>1, <2>3 DEF WatchlistInv, DueCoversOwed
  <2> QED
    BY <1>1, <2>2, <2>4 DEF OwedKept, WatchlistInv, WatchlistTypeOK, OwedIsRemembered
<1>3. CASE ~(w \in remembered /\ ~ \E k \in looks : Overlaps(k, w))
  <2>1. OwedKept' \subseteq OwedKept
    BY <1>3 DEF ComesBack, OwedKept
  <2> QED
    BY <1>1, <2>1, OwesLess
<1> QED
  BY <1>2, <1>3

LEMMA RunsOutKeeps ==
    ASSUME WatchlistInv, NEW w \in Windows, RunsOut(w)
    PROVE  WatchlistInv'
BY OwesLess DEF RunsOut, WatchlistInv, WatchlistTypeOK, OwedKept

\* A new look has told nothing yet.
LEMMA NewLookKeeps ==
    ASSUME WatchlistInv, NEW k \in LookStates, k.pc = "read",
           looks' = looks \cup {k}, UNCHANGED <<spent, remembered, owed, overlapped>>
    PROVE  WatchlistInv'
BY DEF WatchlistInv, WatchlistTypeOK, OwedIsRemembered, DueCoversOwed, OwedKept

LEMMA ReadListKeeps ==
    ASSUME WatchlistInv, NEW k \in looks, ReadList(k)
    PROVE  WatchlistInv'
<1>1. k \in LookStates
  BY DEF WatchlistInv, WatchlistTypeOK
<1>2. CASE k.demo /\ remembered' = {} /\ owed' = {} /\ looks' = looks \ {k}
  BY <1>2 DEF ReadList, WatchlistInv, WatchlistTypeOK, OwedIsRemembered, DueCoversOwed, OwedKept
<1>3. CASE /\ ~k.demo
           /\ Replace(k, [k EXCEPT !.pc = "tell", !.due = PlanRecoveries(remembered, k.report)])
           /\ UNCHANGED <<remembered, owed>>
  <2> DEFINE due == PlanRecoveries(remembered, k.report)
             next == [k EXCEPT !.pc = "tell", !.due = due]
  <2>1. due \subseteq Windows
    BY ReportedWindows DEF PlanRecoveries
  <2>2. next \in LookStates /\ next.report = k.report /\ next.due = due
    BY <1>1, <2>1, LookTypes, LookFields
  <2>3. OwedKept \cap ReportedAs(k.report, "room") \subseteq due
    BY DEF WatchlistInv, OwedIsRemembered, PlanRecoveries, OwedKept
  <2> HIDE DEF next, due
  <2>4. looks' = (looks \ {k}) \cup {next} /\ UNCHANGED <<spent, remembered, owed, overlapped>>
    BY <1>3 DEF Replace, next, due, ReadList
  <2> QED
    BY <2>2, <2>3, <2>4 DEF WatchlistInv, WatchlistTypeOK, OwedIsRemembered, DueCoversOwed, OwedKept
<1>4. CASE /\ ~k.demo
           /\ Replace(k, [k EXCEPT !.pc = "tell"])
           /\ owed' = owed \ ReportedAs(k.report, "room")
           /\ UNCHANGED remembered
  <2> DEFINE next == [k EXCEPT !.pc = "tell"]
  <2>1. next \in LookStates /\ next.report = k.report
    BY <1>1, LookTypes, LookFields
  <2> HIDE DEF next
  <2>2. looks' = (looks \ {k}) \cup {next} /\ UNCHANGED <<spent, overlapped>>
    BY <1>4 DEF Replace, next, ReadList
  <2> QED
    BY <1>4, <2>1, <2>2 DEF WatchlistInv, WatchlistTypeOK, OwedIsRemembered, DueCoversOwed, OwedKept
<1> QED
  BY <1>2, <1>3, <1>4 DEF ReadList

LEMMA TellKeeps ==
    ASSUME WatchlistInv, NEW k \in looks, Tell(k)
    PROVE  WatchlistInv'
<1>1. PICK w \in k.due : /\ Replace(k, [k EXCEPT !.due = @ \ {w}])
                         /\ owed' = owed \ {w}
  BY DEF Tell
<1> DEFINE next == [k EXCEPT !.due = k.due \ {w}]
<1>2. k \in LookStates
  BY DEF WatchlistInv, WatchlistTypeOK
<1>3. k.due \subseteq Windows
  BY <1>2, LookFields
<1>4. next \in LookStates /\ next.report = k.report /\ next.due = k.due \ {w}
  BY <1>2, <1>3, LookTypes, LookFields
<1> HIDE DEF next
<1>5. looks' = (looks \ {k}) \cup {next} /\ UNCHANGED <<spent, remembered, overlapped>> /\ k.pc = "tell"
  BY <1>1 DEF Replace, next, Tell
<1>6. OwedKept \cap ReportedAs(k.report, "room") \subseteq k.due
  BY <1>5 DEF WatchlistInv, DueCoversOwed
<1> QED
  BY <1>1, <1>4, <1>5, <1>6 DEF WatchlistInv, WatchlistTypeOK, OwedIsRemembered, DueCoversOwed, OwedKept

\* Every window is reported spent, with room, or not at all; what is owed and has
\* room would still be due.
LEMMA WriteListKeeps ==
    ASSUME WatchlistInv, NEW k \in looks, WriteList(k)
    PROVE  WatchlistInv'
<1>1. k.report \in [Windows -> Views]
  BY DEF WatchlistInv, WatchlistTypeOK, LookStates, Reports
<1>2. \A w \in OwedKept : w \in Windows /\ k.report[w] # "room"
  BY DEF WatchlistInv, WatchlistTypeOK, DueCoversOwed, OwedKept, WriteList, ReportedAs
<1>3. OwedKept' \subseteq remembered'
  BY <1>1, <1>2 DEF WriteList, ExhaustedWindows, ReportedAs, Views, OwedKept
<1>4. remembered' \subseteq Windows
  BY ReportedWindows DEF WriteList, ExhaustedWindows
<1> QED
  BY <1>3, <1>4 DEF WriteList, WatchlistInv, WatchlistTypeOK, OwedIsRemembered, DueCoversOwed, OwedKept

LEMMA LookFailsKeeps ==
    ASSUME WatchlistInv, NEW k \in looks, LookFails(k)
    PROVE  WatchlistInv'
BY OwesLess DEF LookFails, WatchlistInv, WatchlistTypeOK, OwedKept

-----------------------------------------------------------------------------
(***************************************************************************)
(* The types of the phone, apart from the watchlist's.                       *)
(***************************************************************************)
DeviceOK ==
    /\ stored \in [rules : Rules, demo : BOOLEAN] /\ epoch \in Nat /\ switch \in SwitchPlaces
HostOK == host \in HostStates
\* A load that is about to publish has a snapshot, and so has a running poll.
GoodLoads == {l \in LoadRecords : l.pc = "publish" => l.snap \in Snapshots}
LoadsOK == loads \subseteq GoodLoads
EditsOK == edits \in [Edits -> EditRecords] /\ queue \in Seq(Edits)
AskedOK == asked \in Seq(Deliveries)
SurfacesOK == watch \in WatchStates /\ widget \in WidgetStates
PollOK == poll \in PollStates /\ (poll.pc \notin {"idle", "look"} => poll.snap \in Snapshots)
LeftOK == left \in BudgetStates

RestOK ==
    DeviceOK /\ HostOK /\ LoadsOK /\ EditsOK /\ AskedOK /\ SurfacesOK /\ PollOK /\ LeftOK

LEMMA TypeParts == WatchlistTypeOK /\ RestOK => TypeOK
BY DEF GoodLoads, TypeOK, RestOK, DeviceOK, HostOK, LoadsOK, EditsOK, AskedOK, SurfacesOK, PollOK, LeftOK

LEMMA HostFields ==
    ASSUME HostOK
    PROVE  /\ host.revision \in Nat /\ host.surface \in Nat /\ host.current \in MaybeSnapshot
           /\ host.rules \in Rules /\ host.demo \in BOOLEAN /\ host.ready \in BOOLEAN
BY DEF HostOK, HostStates

LEMMA HostRevised ==
    ASSUME HostOK, NEW n \in Nat
    PROVE  [host EXCEPT !.revision = n] \in HostStates
BY DEF HostOK, HostStates

LEMMA HostShows ==
    ASSUME HostOK, NEW s \in MaybeSnapshot
    PROVE  [host EXCEPT !.current = s] \in HostStates
BY DEF HostOK, HostStates

LEMMA HostEdited ==
    ASSUME HostOK, NEW r \in Rules, NEW s \in MaybeSnapshot
    PROVE  [host EXCEPT !.rules = r, !.current = s] \in HostStates
BY DEF HostOK, HostStates

LEMMA HostReads ==
    ASSUME HostOK, NEW r \in Rules, NEW d \in BOOLEAN
    PROVE  [host EXCEPT !.rules = r, !.demo = d, !.ready = TRUE] \in HostStates
BY DEF HostOK, HostStates

LEMMA HostSwitched ==
    ASSUME HostOK, NEW d \in BOOLEAN, NEW n \in Nat
    PROVE  [host EXCEPT !.demo = d, !.revision = n] \in HostStates
BY DEF HostOK, HostStates

LEMMA HostRaised ==
    ASSUME HostOK, NEW n \in Nat, NEW m \in Nat, NEW s \in MaybeSnapshot
    PROVE  /\ [host EXCEPT !.revision = n, !.surface = m] \in HostStates
           /\ [host EXCEPT !.revision = n, !.surface = m, !.current = s] \in HostStates
BY DEF HostOK, HostStates

LEMMA NoSnapshotType == NoSnapshot \in MaybeSnapshot
BY DEF MaybeSnapshot

LEMMA RealSnapshot ==
    ASSUME NEW s \in MaybeSnapshot, s # NoSnapshot
    PROVE  s \in Snapshots
BY DEF MaybeSnapshot

LEMMA LoadFields ==
    ASSUME NEW l \in GoodLoads
    PROVE  /\ l \in LoadRecords
           /\ l.rev \in Nat /\ l.tick \in BOOLEAN /\ l.demo \in BOOLEAN /\ l.snap \in MaybeSnapshot
           /\ l.pc = "publish" => l.snap \in Snapshots
BY DEF GoodLoads, LoadRecords

LEMMA LoadTypes ==
    ASSUME NEW l \in GoodLoads, NEW pc \in LoadPlaces \ {"publish"}, NEW d \in BOOLEAN,
           NEW s \in MaybeSnapshot
    PROVE  /\ [l EXCEPT !.pc = pc] \in GoodLoads
           /\ [l EXCEPT !.pc = pc, !.demo = d] \in GoodLoads
           /\ [l EXCEPT !.pc = pc, !.snap = s] \in GoodLoads
BY DEF GoodLoads, LoadRecords

LEMMA PublishingType ==
    ASSUME NEW l \in GoodLoads, NEW s \in Snapshots
    PROVE  [l EXCEPT !.pc = "publish", !.snap = s] \in GoodLoads
BY DEF GoodLoads, LoadRecords, LoadPlaces, MaybeSnapshot

LEMMA NewLoadType ==
    ASSUME NEW rev \in Nat
    PROVE  NewLoad(rev) \in GoodLoads /\ NewTick(rev) \in GoodLoads
BY NoSnapshotType DEF NewLoad, NewTick, LoadRecords, LoadPlaces, GoodLoads

LEMMA TruthType ==
    ASSUME NEW hidden
    PROVE  Truth(hidden) \in Reports
BY DEF Truth, Reports, Views

LEMMA SnapshotFields ==
    ASSUME NEW s \in Snapshots, NEW r \in Rules
    PROVE  /\ s.load \in Nat /\ s.demo \in BOOLEAN /\ s.report \in Reports /\ s.rules \in Rules
           /\ [s EXCEPT !.rules = r] \in Snapshots
BY DEF Snapshots

LEMMA AnsweredType ==
    ASSUME RestOK, NEW l \in GoodLoads, NEW hidden
    PROVE  Answered(l, hidden) \in Snapshots
BY TruthType, LoadFields DEF RestOK, DeviceOK, HostOK, HostStates, Answered, Snapshots

LEMMA DeliveryType ==
    ASSUME HostOK, NEW to \in {"watch", "widget", "recoveries"}, NEW s \in Snapshots
    PROVE  /\ Delivery(to, s) \in Deliveries
           /\ [Delivery(to, s) EXCEPT !.tick = TRUE] \in Deliveries
BY DEF HostOK, HostStates, Delivery, Deliveries

LEMMA AskOneMore ==
    ASSUME AskedOK, NEW d \in Deliveries, asked' = Append(asked, d)
    PROVE  AskedOK'
BY DEF AskedOK

LEMMA SpendType ==
    ASSUME LeftOK, NEW what \in {"loads", "raises", "resyncs", "faults"}, Spend(what)
    PROVE  LeftOK'
BY DEF LeftOK, BudgetStates, Spend

\* An edit that ended remembers at most the load that is the latest.
LEMMA EndedEditIs ==
    ASSUME HostOK, NEW e
    PROVE  /\ EndedEdit(e) \in EditRecords /\ EndedEdit(e).pc = "saved"
           /\ EndedEdit(e).crossed = CrossedBy(e)
<1>1. CrossedBy(e) \in Nat
  BY DEF CrossedBy, HostOK, HostStates
<1> QED
  BY <1>1, NoSnapshotType DEF EndedEdit, EditRecords, NoEdit, Rules

LEMMA EditTypes ==
    ASSUME NEW e \in EditRecords, NEW pc \in {"none", "queued", "write", "check", "saved", "lost"}
    PROVE  /\ e.rules \in Rules /\ e.snap \in MaybeSnapshot /\ e.load \in Nat /\ e.surface \in Nat
           /\ [e EXCEPT !.pc = pc] \in EditRecords
           /\ [NoEdit EXCEPT !.pc = pc] \in EditRecords
           /\ NoEdit \in EditRecords
           /\ [e EXCEPT !.crossed = 0] \in EditRecords
BY NoSnapshotType DEF EditRecords, NoEdit, Rules

-----------------------------------------------------------------------------
\* Actions that move one load and the host.
LEMMA ReloadType == ASSUME RestOK, Reload \/ Tick PROVE RestOK'
<1> USE DEF RestOK
<1>1. HostOK'
  BY HostFields, HostRevised DEF Reload, Tick, HostOK
<1>2. LoadsOK'
  BY HostFields, NewLoadType DEF Reload, Tick, LoadsOK
<1>3. LeftOK'
  BY SpendType DEF Reload, Tick
<1> QED
  BY <1>1, <1>2, <1>3 DEF Reload, Tick, DeviceOK, EditsOK, AskedOK, SurfacesOK, PollOK, device, surfaces

LEMMA MoveType ==
    ASSUME LoadsOK, NEW l, NEW next \in GoodLoads, Move(l, next)
    PROVE  LoadsOK'
BY DEF LoadsOK, Move

LEMMA ReadPreferencesType ==
    ASSUME RestOK, NEW l \in loads, ReadPreferences(l)
    PROVE  RestOK'
<1> USE DEF RestOK
<1>1. l \in GoodLoads
  BY DEF LoadsOK
<1>2. HostOK'
  BY HostReads DEF ReadPreferences, HostOK, DeviceOK
<1>3. LoadsOK'
  <2>1. [l EXCEPT !.pc = "ask"] \in GoodLoads
    BY <1>1, LoadTypes, NoSnapshotType DEF LoadPlaces
  <2> QED
    BY <2>1, MoveType DEF ReadPreferences, LoadsOK
<1> QED
  BY <1>2, <1>3 DEF ReadPreferences, DeviceOK, EditsOK, AskedOK, SurfacesOK, PollOK, LeftOK, device, surfaces

LEMMA AskType ==
    ASSUME RestOK, NEW l \in loads, Ask(l)
    PROVE  RestOK'
<1> USE DEF RestOK
<1>1. [l EXCEPT !.pc = "answer", !.demo = stored.demo] \in GoodLoads
  BY LoadTypes, NoSnapshotType DEF LoadsOK, LoadPlaces, DeviceOK
<1>2. LoadsOK'
  BY <1>1, MoveType DEF Ask
<1> QED
  BY <1>2 DEF Ask, DeviceOK, HostOK, EditsOK, AskedOK, SurfacesOK, PollOK, LeftOK, device, surfaces

LEMMA FailedType ==
    ASSUME RestOK, NEW l \in loads, Failed(l)
    PROVE  HostOK' /\ LoadsOK'
<1> USE DEF RestOK
<1>1. /\ [l EXCEPT !.pc = "failure"] \in GoodLoads
      /\ [l EXCEPT !.pc = "failed", !.snap = host.current] \in GoodLoads
  BY LoadTypes, HostFields, NoSnapshotType DEF LoadsOK, LoadPlaces
<1>2. LoadsOK'
  BY <1>1, MoveType DEF Failed, LoadsOK
<1>3. [host EXCEPT !.current = NoSnapshot] \in HostStates
  BY HostShows, NoSnapshotType
<1>4. HostOK'
  BY <1>3 DEF Failed, HostOK
<1> QED
  BY <1>2, <1>4

LEMMA AnswerType ==
    ASSUME RestOK, NEW l \in loads, Answer(l)
    PROVE  RestOK'
<1> USE DEF RestOK
<1>1. l \in GoodLoads
  BY DEF LoadsOK
<1>2. DeviceOK' /\ EditsOK' /\ AskedOK' /\ SurfacesOK' /\ PollOK'
  BY DEF Answer, DeviceOK, EditsOK, AskedOK, SurfacesOK, PollOK, device, surfaces
<1>3. CASE UNCHANGED <<host, left>> /\ \E hidden \in SUBSET left.plans :
                Move(l, [l EXCEPT !.pc = "publish", !.snap = Answered(l, hidden)])
  <2>1. PICK hidden \in SUBSET left.plans :
                Move(l, [l EXCEPT !.pc = "publish", !.snap = Answered(l, hidden)])
    BY <1>3
  <2>2. Answered(l, hidden) \in Snapshots
    BY <1>1, AnsweredType
  <2>3. [l EXCEPT !.pc = "publish", !.snap = Answered(l, hidden)] \in GoodLoads
    BY <1>1, <2>2, PublishingType
  <2>4. LoadsOK'
    BY <2>1, <2>3, MoveType
  <2> QED
    BY <1>2, <1>3, <2>4 DEF HostOK, LeftOK
<1>4. CASE Failed(l) /\ UNCHANGED left
  BY <1>2, <1>4, FailedType DEF LeftOK
<1>5. CASE Failed(l) /\ Spend("faults")
  BY <1>2, <1>5, FailedType, SpendType
<1> QED
  BY <1>3, <1>4, <1>5 DEF Answer

LEMMA PublishType ==
    ASSUME RestOK, NEW l \in loads, Publish(l)
    PROVE  RestOK'
<1> USE DEF RestOK
<1>1. l \in GoodLoads
  BY DEF LoadsOK
<1>2. l.snap \in Snapshots
  BY <1>1, LoadFields DEF Publish
<1>3. DeviceOK' /\ EditsOK' /\ SurfacesOK' /\ PollOK' /\ LeftOK'
  BY DEF Publish, DeviceOK, EditsOK, SurfacesOK, PollOK, LeftOK, device, surfaces
<1>4. HostOK'
  <2>1. [host EXCEPT !.current = l.snap] \in HostStates /\ [host EXCEPT !.current = NoSnapshot] \in HostStates
    BY <1>2, HostShows, NoSnapshotType DEF MaybeSnapshot
  <2> QED
    BY <2>1 DEF Publish, HostOK
<1>5. LoadsOK'
  <2>1. [l EXCEPT !.pc = "surfaces"] \in GoodLoads
    BY <1>1, LoadTypes, NoSnapshotType DEF LoadPlaces
  <2> QED
    BY <2>1, MoveType DEF Publish, LoadsOK
<1>6. AskedOK'
  <2>1. /\ [Delivery("watch", l.snap) EXCEPT !.tick = TRUE] \in Deliveries
        /\ Delivery("recoveries", l.snap) \in Deliveries
        /\ Delivery("watch", l.snap) \in Deliveries
        /\ Delivery("widget", l.snap) \in Deliveries
    BY <1>2, DeliveryType
  <2>2. <<Delivery("recoveries", l.snap), Delivery("watch", l.snap), Delivery("widget", l.snap)>>
            \in Seq(Deliveries)
    BY <2>1
  <2>3. CASE asked' = Append(asked, [Delivery("watch", l.snap) EXCEPT !.tick = TRUE])
    BY <2>1, <2>3, AskOneMore
  <2>4. CASE asked' = asked \o <<Delivery("recoveries", l.snap), Delivery("watch", l.snap),
                                Delivery("widget", l.snap)>>
    BY <2>2, <2>4, ConcatProperties DEF AskedOK
  <2>5. CASE UNCHANGED asked
    BY <2>5 DEF AskedOK
  <2> QED
    BY <2>3, <2>4, <2>5 DEF Publish
<1> QED
  BY <1>3, <1>4, <1>5, <1>6

LEMMA CheckType ==
    ASSUME RestOK, NEW l \in loads, CheckShown(l) \/ ShowFailure(l)
    PROVE  RestOK'
<1> USE DEF RestOK
<1>1. [l EXCEPT !.pc = "failure"] \in GoodLoads
  BY LoadTypes, NoSnapshotType DEF LoadsOK, LoadPlaces
<1>2. LoadsOK'
  BY <1>1, MoveType DEF CheckShown, ShowFailure, LoadsOK
<1>3. HostOK'
  BY HostShows, NoSnapshotType DEF CheckShown, ShowFailure, HostOK
<1> QED
  BY <1>2, <1>3 DEF CheckShown, ShowFailure, DeviceOK, EditsOK, AskedOK, SurfacesOK, PollOK, LeftOK,
                    device, surfaces

\* Edits.
LEMMA OneEdit ==
    ASSUME EditsOK, NEW e, NEW x \in EditRecords, edits' = [edits EXCEPT ![e] = x],
           queue' \in Seq(Edits)
    PROVE  EditsOK'
BY DEF EditsOK

LEMMA EditOf ==
    ASSUME EditsOK, NEW e \in Edits
    PROVE  edits[e] \in EditRecords
BY DEF EditsOK

LEMMA QueueTypes ==
    ASSUME EditsOK, NEW e \in Edits
    PROVE  /\ Append(queue, e) \in Seq(Edits)
           /\ queue # <<>> => Tail(queue) \in Seq(Edits) /\ Head(queue) \in Edits
BY DEF EditsOK

LEMMA MakeEditType ==
    ASSUME RestOK, NEW e \in Edits, MakeEdit(e)
    PROVE  RestOK'
<1> USE DEF RestOK
<1>1. [edits[e] EXCEPT !.pc = "queued"] \in EditRecords
  BY EditOf, EditTypes
<1>2. edits' = [edits EXCEPT ![e] = [edits[e] EXCEPT !.pc = "queued"]]
  BY DEF MakeEdit
<1>3. EditsOK'
  BY <1>1, <1>2, OneEdit, QueueTypes DEF MakeEdit
<1> QED
  BY <1>3 DEF MakeEdit, DeviceOK, HostOK, LoadsOK, AskedOK, SurfacesOK, PollOK, LeftOK, device, surfaces

LEMMA BeginEditType ==
    ASSUME RestOK, NEW e \in Edits, BeginEdit(e)
    PROVE  RestOK'
<1> USE DEF RestOK
<1>1. host.rules \cup {e} \in Rules
  BY HostFields DEF Rules
<1>2. Captured(e) \in EditRecords
  BY <1>1, HostFields DEF Captured, EditRecords
<1>3. EditsOK'
  BY <1>2, OneEdit DEF BeginEdit, EditsOK
<1> QED
  BY <1>3 DEF BeginEdit, DeviceOK, HostOK, LoadsOK, AskedOK, SurfacesOK, PollOK, LeftOK, device, surfaces

\* An edit that has begun is at the head of the queue.
LEMMA WriteEditType ==
    ASSUME RestOK, NEW e \in Edits, WriteEdit(e), queue # <<>>
    PROVE  RestOK'
<1> USE DEF RestOK
<1>1. edits[e] \in EditRecords
  BY EditOf
<1>2. /\ edits[e].rules \in Rules
      /\ [edits[e] EXCEPT !.pc = "check"] \in EditRecords
      /\ [NoEdit EXCEPT !.pc = "lost"] \in EditRecords
  BY <1>1, EditTypes
<1>3. HostOK' /\ LoadsOK' /\ AskedOK' /\ SurfacesOK' /\ PollOK'
  BY DEF WriteEdit, HostOK, LoadsOK, AskedOK, SurfacesOK, PollOK, surfaces
<1>4. CASE /\ stored' = [stored EXCEPT !.rules = edits[e].rules]
           /\ edits' = [edits EXCEPT ![e].pc = "check"]
           /\ UNCHANGED <<queue, left>>
  <2>1. edits' = [edits EXCEPT ![e] = [edits[e] EXCEPT !.pc = "check"]] /\ queue' \in Seq(Edits)
    BY <1>4 DEF EditsOK
  <2>2. EditsOK'
    BY <2>1, <1>2, OneEdit
  <2>3. DeviceOK'
    BY <1>2, <1>4 DEF DeviceOK, WriteEdit
  <2> QED
    BY <1>3, <1>4, <2>2, <2>3 DEF LeftOK
<1>5. CASE /\ Spend("faults")
           /\ edits' = [edits EXCEPT ![e] = [NoEdit EXCEPT !.pc = "lost"]]
           /\ queue' = Tail(queue)
           /\ UNCHANGED stored
  <2>1. EditsOK'
    BY <1>2, <1>5, OneEdit, QueueTypes
  <2>2. LeftOK'
    BY <1>5, SpendType
  <2> QED
    BY <1>3, <1>5, <2>1, <2>2 DEF DeviceOK, WriteEdit
<1> QED
  BY <1>4, <1>5 DEF WriteEdit

LEMMA FinishEditType ==
    ASSUME RestOK, NEW e \in Edits, FinishEdit(e), queue # <<>>
    PROVE  RestOK'
<1> USE DEF RestOK
<1> DEFINE edit == edits[e]
           snap == [edit.snap EXCEPT !.rules = edit.rules]
           publish == /\ edit.snap # NoSnapshot /\ Owned(edit.snap)
                      /\ edit.load = host.revision /\ edit.surface = host.surface
<1>1. edit.rules \in Rules /\ edit.snap \in MaybeSnapshot
  BY EditOf, EditTypes
<1>2. EndedEdit(e) \in EditRecords
  BY EndedEditIs
<1>3. publish => snap \in Snapshots
  BY <1>1, RealSnapshot, SnapshotFields
<1>4. publish => Delivery("watch", snap) \in Deliveries
  BY <1>3, DeliveryType
<1>5. /\ host' = [host EXCEPT !.rules = edit.rules, !.current = IF publish THEN snap ELSE host.current]
      /\ asked' = IF publish THEN Append(asked, Delivery("watch", snap)) ELSE asked
      /\ edits' = [edits EXCEPT ![e] = EndedEdit(e)]
      /\ queue' = Tail(queue)
      /\ UNCHANGED <<device, loads, surfaces, poll, left>>
  BY DEF FinishEdit
<1> HIDE DEF publish, snap, edit
<1>6. HostOK'
  <2>1. (IF publish THEN snap ELSE host.current) \in MaybeSnapshot
    BY <1>3, HostFields DEF MaybeSnapshot
  <2> QED
    BY <1>1, <1>5, <2>1, HostEdited DEF HostOK
<1>7. AskedOK'
  BY <1>4, <1>5, AskOneMore DEF AskedOK
<1>8. EditsOK'
  BY <1>2, <1>5, OneEdit, QueueTypes
<1> QED
  BY <1>5, <1>6, <1>7, <1>8 DEF DeviceOK, LoadsOK, SurfacesOK, PollOK, LeftOK, device, surfaces

\* The demo switch and the credential.
LEMMA SwitchType ==
    ASSUME RestOK, BeginSwitch \/ ReplaceCredential \/ ClearPersistentSnapshots \/ WriteDemo
    PROVE  RestOK'
<1> USE DEF RestOK
<1>1. HostOK'
  <2>1. host.revision + 1 \in Nat /\ host.surface + 1 \in Nat
    BY HostFields
  <2>2. [host EXCEPT !.revision = host.revision + 1, !.surface = host.surface + 1] \in HostStates
    BY <2>1, HostRaised, NoSnapshotType
  <2>3. Raised \in HostStates
    BY <2>2 DEF Raised
  <2> QED
    BY <2>3 DEF BeginSwitch, ReplaceCredential, ClearPersistentSnapshots, WriteDemo, HostOK, screen
<1>2. LeftOK'
  BY SpendType DEF BeginSwitch, ReplaceCredential, ClearPersistentSnapshots, WriteDemo, LeftOK
<1>3. DeviceOK'
  <2>1. CASE BeginSwitch \/ ReplaceCredential \/ ClearPersistentSnapshots
    BY <2>1 DEF BeginSwitch, ReplaceCredential, ClearPersistentSnapshots, DeviceOK, SwitchPlaces
  <2>2. CASE WriteDemo
    <3>1. (~stored.demo) \in BOOLEAN
      OBVIOUS
    <3>2. [stored EXCEPT !.demo = ~stored.demo] \in [rules : Rules, demo : BOOLEAN]
      BY <3>1 DEF DeviceOK
    <3> QED
      BY <2>2, <3>2 DEF WriteDemo, DeviceOK, SwitchPlaces
  <2> QED
    BY <2>1, <2>2
<1> QED
  BY <1>1, <1>2, <1>3
  DEF BeginSwitch, ReplaceCredential, ClearPersistentSnapshots, WriteDemo, LoadsOK, EditsOK, AskedOK,
      SurfacesOK, PollOK, screen, surfaces

LEMMA SwitchEndType ==
    ASSUME RestOK, EndSwitch \/ CredentialsChanged
    PROVE  RestOK'
<1> USE DEF RestOK
<1>1. DeviceOK'
  BY DEF EndSwitch, CredentialsChanged, DeviceOK, SwitchPlaces
<1>2. HostOK'
  <2>1. host.revision + 1 \in Nat /\ host.revision + 2 \in Nat /\ host.surface + 1 \in Nat
        /\ stored.demo \in BOOLEAN
    BY HostFields DEF DeviceOK
  <2>2. /\ [host EXCEPT !.demo = stored.demo, !.revision = host.revision + 1] \in HostStates
        /\ [host EXCEPT !.revision = host.revision + 2, !.surface = host.surface + 1,
                        !.current = NoSnapshot] \in HostStates
    BY <2>1, HostSwitched, HostRaised, NoSnapshotType
  <2> QED
    BY <2>2 DEF EndSwitch, CredentialsChanged, HostOK
<1>3. LoadsOK'
  BY HostFields, NewLoadType DEF EndSwitch, CredentialsChanged, LoadsOK
<1> QED
  BY <1>1, <1>2, <1>3 DEF EndSwitch, CredentialsChanged, EditsOK, AskedOK, SurfacesOK, PollOK, LeftOK, surfaces

\* Deliveries.
LEMMA NextAsked ==
    ASSUME AskedOK, asked # <<>>
    PROVE  /\ Head(asked) \in Deliveries /\ Tail(asked) \in Seq(Deliveries)
           /\ Head(asked).snap \in Snapshots
<1>1. Head(asked) \in Deliveries /\ Tail(asked) \in Seq(Deliveries)
  BY HeadTailProperties DEF AskedOK
<1> QED
  BY <1>1 DEF Deliveries

LEMMA ResyncType ==
    ASSUME RestOK, Resync
    PROVE  RestOK'
<1> USE DEF RestOK
<1>1. Delivery("watch", host.current) \in Deliveries
  BY HostFields, RealSnapshot, DeliveryType DEF Resync
<1>2. AskedOK'
  BY <1>1, AskOneMore DEF Resync
<1>3. LeftOK'
  BY SpendType DEF Resync
<1> QED
  BY <1>2, <1>3 DEF Resync, DeviceOK, HostOK, LoadsOK, EditsOK, SurfacesOK, PollOK, device, surfaces

LEMMA WrittenTypes ==
    /\ ByPoll \in Written /\ Nothing \in Written
    /\ \A n \in Nat, b \in BOOLEAN : ByHost(n, b) \in Written
BY DEF ByPoll, Nothing, ByHost, Written

LEMMA WidgetTypes ==
    ASSUME SurfacesOK, NEW x \in Written
    PROVE  /\ widget.first \in Written /\ widget.last \in Written
           /\ widget.latest \in Written /\ widget.writing \in Written
           /\ [widget EXCEPT !.first = x] \in WidgetStates
           /\ [widget EXCEPT !.last = x] \in WidgetStates
           /\ [widget EXCEPT !.latest = x] \in WidgetStates
           /\ [widget EXCEPT !.latest = Nothing, !.writing = Nothing] \in WidgetStates
           /\ [widget EXCEPT !.last = x, !.writing = Nothing] \in WidgetStates
           /\ [widget EXCEPT !.first = x, !.writing = x, !.latest = Nothing] \in WidgetStates
BY WrittenTypes DEF SurfacesOK, WidgetStates

LEMMA DeliverType ==
    ASSUME RestOK, Deliver
    PROVE  RestOK'
<1> USE DEF RestOK
<1> DEFINE d == Head(asked)
           sent == Owned(d.snap) /\ d.surface = host.surface
<1>1. d \in Deliveries /\ Tail(asked) \in Seq(Deliveries) /\ d.snap \in Snapshots
  BY NextAsked DEF Deliver
<1>2. d.tick \in BOOLEAN /\ d.snap.load \in Nat
  BY <1>1, SnapshotFields DEF Deliveries, Rules
<1>3. AskedOK'
  <2>1. [Delivery("widget", d.snap) EXCEPT !.tick = TRUE] \in Deliveries
    BY <1>1, DeliveryType
  <2>2. <<[Delivery("widget", d.snap) EXCEPT !.tick = TRUE]>> \in Seq(Deliveries) /\ <<>> \in Seq(Deliveries)
    BY <2>1
  <2>3. \/ asked' = Tail(asked) \o <<[Delivery("widget", d.snap) EXCEPT !.tick = TRUE]>>
        \/ asked' = Tail(asked) \o <<>>
    BY DEF Deliver
  <2> QED
    BY <1>1, <2>2, <2>3, ConcatProperties DEF AskedOK
<1>4. SurfacesOK'
  <2>1. [by |-> "host", snap |-> d.snap, demo |-> host.demo] \in WatchStates
    BY <1>1, HostFields DEF WatchStates, MaybeSnapshot
  <2>2. [widget EXCEPT !.latest = ByHost(d.snap.load, d.tick)] \in WidgetStates
    BY <1>2, WrittenTypes, WidgetTypes
  <2>3. watch' = watch \/ watch' = [by |-> "host", snap |-> d.snap, demo |-> host.demo]
    BY DEF Deliver
  <2>4. widget' = widget \/ widget' = [widget EXCEPT !.latest = ByHost(d.snap.load, d.tick)]
    BY DEF Deliver
  <2> QED
    BY <2>1, <2>2, <2>3, <2>4 DEF SurfacesOK
<1>5. LoadsOK'
  BY DEF Deliver, LoadsOK
<1> QED
  BY <1>3, <1>4, <1>5 DEF Deliver, DeviceOK, HostOK, EditsOK, PollOK, LeftOK, device

LEMMA WidgetStepType ==
    ASSUME RestOK, BeginWidget \/ EndWidget
    PROVE  RestOK'
<1> USE DEF RestOK
<1>1. SurfacesOK'
  BY WidgetTypes, WrittenTypes DEF BeginWidget, EndWidget, SurfacesOK
<1> QED
  BY <1>1 DEF BeginWidget, EndWidget, DeviceOK, HostOK, LoadsOK, EditsOK, AskedOK, PollOK, LeftOK, device, screen

\* The headless poll.
LEMMA PollTypes ==
    ASSUME PollOK, NEW pc \in {"watch", "widget", "rows", "recoveries"}, poll.pc \notin {"idle", "look"}
    PROVE  /\ poll.snap \in Snapshots
           /\ [poll EXCEPT !.pc = pc] \in PollStates
           /\ [poll EXCEPT !.pc = pc].snap = poll.snap
BY DEF PollOK, PollStates

LEMMA PollType ==
    ASSUME RestOK, Poll
    PROVE  RestOK'
<1> USE DEF RestOK
<1>1. PICK hidden \in SUBSET left.plans :
          poll' = [pc |-> "watch",
                   snap |-> [load |-> 0, demo |-> FALSE, epoch |-> epoch, rules |-> stored.rules,
                             report |-> Truth(hidden)]]
  BY DEF Poll
<1>2. [load |-> 0, demo |-> FALSE, epoch |-> epoch, rules |-> stored.rules, report |-> Truth(hidden)]
          \in Snapshots
  BY TruthType DEF Snapshots, DeviceOK
<1>3. PollOK'
  BY <1>1, <1>2 DEF PollOK, PollStates, MaybeSnapshot
<1> QED
  BY <1>3 DEF Poll, DeviceOK, HostOK, LoadsOK, EditsOK, AskedOK, SurfacesOK, LeftOK, device, screen, surfaces

LEMMA PollStepType ==
    ASSUME RestOK, PollStep
    PROVE  RestOK'
<1> USE DEF RestOK
<1>1. NoPoll \in PollStates /\ NoPoll.pc = "idle"
      /\ [pc |-> "look", snap |-> NoSnapshot] \in PollStates
  BY NoSnapshotType DEF NoPoll, PollStates
<1>2. CASE PollWatch
  <2>1. poll.snap \in Snapshots /\ [poll EXCEPT !.pc = "widget"] \in PollStates
        /\ [poll EXCEPT !.pc = "widget"].snap = poll.snap
    BY <1>2, PollTypes DEF PollWatch
  <2>2. PollOK'
    BY <1>2, <2>1 DEF PollWatch, PollOK
  <2>3. [by |-> "poll", snap |-> poll.snap, demo |-> FALSE] \in WatchStates
    BY <2>1 DEF WatchStates, MaybeSnapshot
  <2>4. SurfacesOK'
    BY <1>2, <2>3 DEF PollWatch, SurfacesOK
  <2> QED
    BY <1>2, <2>2, <2>4 DEF PollWatch, DeviceOK, HostOK, LoadsOK, EditsOK, AskedOK, LeftOK, device, screen
<1>3. CASE PollWidget
  <2>1. poll.pc \in {"widget", "rows"}
    BY <1>3 DEF PollWidget
  <2>2. /\ poll.snap \in Snapshots
        /\ [poll EXCEPT !.pc = "rows"] \in PollStates
        /\ [poll EXCEPT !.pc = "rows"].snap = poll.snap
        /\ [poll EXCEPT !.pc = "recoveries"] \in PollStates
        /\ [poll EXCEPT !.pc = "recoveries"].snap = poll.snap
    BY <2>1, PollTypes
  <2>3. PollOK'
    BY <1>3, <2>2 DEF PollWidget, PollOK
  <2>4. [widget EXCEPT !.first = ByPoll] \in WidgetStates /\ [widget EXCEPT !.last = ByPoll] \in WidgetStates
    BY WrittenTypes, WidgetTypes
  <2>5. SurfacesOK'
    BY <1>3, <2>4 DEF PollWidget, SurfacesOK
  <2> QED
    BY <1>3, <2>3, <2>5 DEF PollWidget, DeviceOK, HostOK, LoadsOK, EditsOK, AskedOK, LeftOK, device, screen
<1>4. CASE PollRecoveries \/ EndPoll
  <2>1. poll' = NoPoll \/ poll' = [pc |-> "look", snap |-> NoSnapshot]
    BY <1>4 DEF PollRecoveries, EndPoll
  <2>2. poll' \in PollStates /\ poll'.pc \in {"idle", "look"}
    BY <1>1, <2>1
  <2>3. PollOK'
    BY <2>2 DEF PollOK
  <2> QED
    BY <1>4, <2>3 DEF PollRecoveries, EndPoll, DeviceOK, HostOK, LoadsOK, EditsOK, AskedOK, SurfacesOK, LeftOK,
                      device, screen, surfaces
<1> QED
  BY <1>2, <1>3, <1>4 DEF PollStep

LEMMA DieType ==
    ASSUME RestOK, Die
    PROVE  RestOK'
<1> USE DEF RestOK
<1>1. HostOK'
  BY NoSnapshotType DEF Die, HostOK, HostStates, Rules
<1>2. LoadsOK'
  BY NewLoadType DEF Die, LoadsOK
<1>3. EditsOK'
  <2>1. \A e \in Edits : [edits[e] EXCEPT !.crossed = 0] \in EditRecords
                         /\ [NoEdit EXCEPT !.pc = "lost"] \in EditRecords
    BY EditOf, EditTypes
  <2>2. edits' = [e \in Edits |-> IF edits[e].pc \in {"queued", "write", "check"}
                                 THEN [NoEdit EXCEPT !.pc = "lost"]
                                 ELSE [edits[e] EXCEPT !.crossed = 0]]
        /\ queue' = <<>>
    BY DEF Die
  <2> QED
    BY <2>1, <2>2 DEF EditsOK
<1>4. DeviceOK' /\ AskedOK'
  BY DEF Die, DeviceOK, SwitchPlaces, AskedOK
<1>5. SurfacesOK'
  BY WidgetTypes, WrittenTypes DEF Die, SurfacesOK
<1>6. PollOK'
  BY NoSnapshotType DEF Die, PollOK, PollStates, NoPoll
<1>7. LeftOK'
  BY SpendType DEF Die
<1> QED
  BY <1>1, <1>2, <1>3, <1>4, <1>5, <1>6, <1>7

-----------------------------------------------------------------------------
(***************************************************************************)
(* Edits: one has begun at a time, the one at the head of the queue; what it  *)
(* captured has every rule saved so far, and once written it is what storage   *)
(* holds.                                                                   *)
(***************************************************************************)
Begun(e) == edits[e].pc \in {"write", "check"}
EditInv ==
    /\ EditsKept
    /\ \A e \in Edits : edits[e].pc \in {"queued", "write", "check"} => host.ready
    /\ \A e \in Edits : Begun(e) => queue # <<>> /\ e = Head(queue)
    /\ \A e \in Edits : Begun(e) => Saved \cup {e} \subseteq edits[e].rules
    /\ \A e \in Edits : edits[e].pc = "check" => stored.rules = edits[e].rules

\* What touches no edit, and the rules only to read them.
LEMMA QuietKeeps ==
    ASSUME EditInv, UNCHANGED <<edits, queue>>, stored'.rules = stored.rules,
           \/ host'.rules = host.rules /\ host'.ready = host.ready
           \/ host'.rules = stored.rules /\ host'.ready
    PROVE  EditInv'
BY DEF EditInv, EditsKept, Begun, Saved

SameRules(h) == h.rules = host.rules /\ h.ready = host.ready

LEMMA HostKeeps ==
    ASSUME HostOK
    PROVE  /\ \A n : SameRules([host EXCEPT !.revision = n])
           /\ \A s : SameRules([host EXCEPT !.current = s])
           /\ \A n, d : SameRules([host EXCEPT !.demo = d, !.revision = n])
           /\ \A n, m : SameRules([host EXCEPT !.revision = n, !.surface = m])
           /\ \A n, m, s : SameRules([host EXCEPT !.revision = n, !.surface = m, !.current = s])
BY DEF HostOK, HostStates, SameRules

LEMMA HostChanges ==
    ASSUME HostOK, NEW r, NEW d, NEW s
    PROVE  /\ [host EXCEPT !.rules = r, !.demo = d, !.ready = TRUE].rules = r
           /\ [host EXCEPT !.rules = r, !.demo = d, !.ready = TRUE].ready
           /\ [host EXCEPT !.rules = r, !.current = s].rules = r
           /\ [host EXCEPT !.rules = r, !.current = s].ready = host.ready
BY DEF HostOK, HostStates

LEMMA LoadsKeepEdits ==
    ASSUME RestOK, EditInv, Reload \/ Tick \/ \E l \in loads : LoadStep(l)
    PROVE  EditInv'
<1>1. HostOK
  BY DEF RestOK
<1>2. UNCHANGED <<edits, queue>> /\ stored' = stored
  BY DEF Reload, Tick, LoadStep, ReadPreferences, Ask, Answer, Publish, CheckShown, ShowFailure, device
<1>3. CASE \E l \in loads : ReadPreferences(l)
  <2>1. host' = [host EXCEPT !.rules = stored.rules, !.demo = stored.demo, !.ready = TRUE]
    BY <1>3 DEF ReadPreferences
  <2>2. host'.rules = stored.rules /\ host'.ready
    BY <1>1, <2>1, HostChanges
  <2> QED
    BY <1>2, <2>2, QuietKeeps
<1>4. CASE ~ \E l \in loads : ReadPreferences(l)
  <2>1. \/ host' = host
        \/ host' = [host EXCEPT !.revision = host.revision + 1]
        \/ host' = [host EXCEPT !.current = NoSnapshot]
        \/ \E l \in loads : host' = [host EXCEPT !.current = l.snap]
    BY <1>4 DEF Reload, Tick, LoadStep, Ask, Answer, Failed, Publish, CheckShown, ShowFailure
  <2>2. SameRules(host')
    <3>1. SameRules(host)
      BY DEF SameRules
    <3> QED
      BY <1>1, <2>1, <3>1, HostKeeps
  <2> QED
    BY <1>2, <2>2, QuietKeeps DEF SameRules
<1> QED
  BY <1>3, <1>4

LEMMA OthersKeepEdits ==
    ASSUME RestOK, EditInv,
           BeginSwitch \/ ReplaceCredential \/ SwitchStep \/ Resync \/ Deliver
           \/ BeginWidget \/ EndWidget \/ Poll \/ PollStep \/ Providers \/ Look \/ LoseLook
    PROVE  EditInv'
<1>1. HostOK
  BY DEF RestOK
<1>2. UNCHANGED <<edits, queue>>
  BY DEF BeginSwitch, ReplaceCredential, SwitchStep, ClearPersistentSnapshots, WriteDemo, EndSwitch,
         CredentialsChanged, Resync, Deliver, BeginWidget, EndWidget, Poll, PollStep, PollWatch, PollWidget,
         PollRecoveries, EndPoll, Providers, Look, LoseLook, screen
<1>3. stored'.rules = stored.rules
  <2>1. stored' = stored \/ stored' = [stored EXCEPT !.demo = ~stored.demo]
    BY DEF BeginSwitch, ReplaceCredential, SwitchStep, ClearPersistentSnapshots, WriteDemo, EndSwitch,
           CredentialsChanged, Resync, Deliver, BeginWidget, EndWidget, Poll, PollStep, PollWatch, PollWidget,
           PollRecoveries, EndPoll, Providers, Look, LoseLook, device
  <2>2. [stored EXCEPT !.demo = ~stored.demo].rules = stored.rules
    BY DEF RestOK, DeviceOK
  <2> QED
    BY <2>1, <2>2
<1>4. \/ host' = host
      \/ host' = [host EXCEPT !.revision = host.revision + 1, !.surface = host.surface + 1]
      \/ host' = [host EXCEPT !.demo = stored.demo, !.revision = host.revision + 1]
      \/ host' = [host EXCEPT !.revision = host.revision + 2, !.surface = host.surface + 1, !.current = NoSnapshot]
  BY DEF BeginSwitch, ReplaceCredential, SwitchStep, ClearPersistentSnapshots, WriteDemo, EndSwitch,
         CredentialsChanged, Resync, Deliver, BeginWidget, EndWidget, Poll, PollStep, PollWatch, PollWidget,
         PollRecoveries, EndPoll, Providers, Look, LoseLook, screen, Raised
<1>5. SameRules(host')
  <2>1. SameRules(host)
    BY DEF SameRules
  <2>2. /\ SameRules([host EXCEPT !.revision = host.revision + 1, !.surface = host.surface + 1])
        /\ SameRules([host EXCEPT !.demo = stored.demo, !.revision = host.revision + 1])
        /\ SameRules([host EXCEPT !.revision = host.revision + 2, !.surface = host.surface + 1,
                                  !.current = NoSnapshot])
    BY <1>1, HostKeeps, Zenon
  <2> QED
    BY <1>4, <2>1, <2>2, Zenon
<1> QED
  BY <1>2, <1>3, <1>5, QuietKeeps DEF SameRules

LEMMA EditFields ==
    ASSUME NEW e \in EditRecords, NEW pc
    PROVE  /\ [e EXCEPT !.pc = pc].pc = pc
           /\ [e EXCEPT !.pc = pc].rules = e.rules
           /\ [NoEdit EXCEPT !.pc = pc].pc = pc
           /\ [e EXCEPT !.crossed = 0].pc = e.pc
           /\ [e EXCEPT !.crossed = 0].crossed = 0
           /\ [e EXCEPT !.pc = pc].crossed = e.crossed
           /\ [NoEdit EXCEPT !.pc = pc].crossed = 0
BY DEF EditRecords, NoEdit

LEMMA MakeEditKeeps ==
    ASSUME RestOK, EditInv, NEW e \in Edits, MakeEdit(e)
    PROVE  EditInv'
<1>1. edits' = [edits EXCEPT ![e] = [edits[e] EXCEPT !.pc = "queued"]] /\ host.ready
      /\ queue' = Append(queue, e) /\ UNCHANGED <<stored, host>> /\ edits[e].pc = "none"
  BY DEF MakeEdit, device
<1>2. edits'[e].pc = "queued" /\ \A f \in Edits \ {e} : edits'[f] = edits[f]
  BY <1>1, EditOf, EditFields DEF RestOK, EditsOK
<1>3. Saved' = Saved
  BY <1>1, <1>2 DEF Saved
<1>4. queue # <<>> => queue' # <<>> /\ Head(queue') = Head(queue)
  BY <1>1, HeadTailAppend, AppendProperties DEF RestOK, EditsOK
<1>5. \A f \in Edits : edits'[f].pc \in {"write", "check"} => f # e /\ edits'[f] = edits[f]
  BY <1>2
<1>6. \A f \in Edits : Begun(f)' => f # e /\ Begun(f) /\ edits'[f] = edits[f]
  BY <1>5 DEF Begun
<1>7. \A f \in Edits : Begun(f)' => queue' # <<>> /\ f = Head(queue')
  BY <1>4, <1>6 DEF EditInv
<1>8. \A f \in Edits : Begun(f)' => Saved' \cup {f} \subseteq edits'[f].rules
  BY <1>3, <1>6 DEF EditInv
<1>9. \A f \in Edits : edits'[f].pc = "check" => stored'.rules = edits'[f].rules
  BY <1>1, <1>5 DEF EditInv
<1>10. host'.ready /\ EditsKept'
  BY <1>1, <1>3 DEF EditInv, EditsKept
<1> QED
  BY <1>7, <1>8, <1>9, <1>10 DEF EditInv

LEMMA BeginEditKeeps ==
    ASSUME RestOK, EditInv, NEW e \in Edits, BeginEdit(e)
    PROVE  EditInv'
<1>1. edits' = [edits EXCEPT ![e] = Captured(e)] /\ UNCHANGED <<stored, host, queue>>
      /\ edits[e].pc = "queued" /\ e = Head(queue)
  BY DEF BeginEdit, device
<1>2. edits'[e].pc = "write" /\ edits'[e].rules = host.rules \cup {e}
      /\ \A f \in Edits \ {e} : edits'[f] = edits[f]
  BY <1>1 DEF RestOK, EditsOK, Captured
<1>3. Saved' = Saved
  BY <1>1, <1>2 DEF Saved
<1>4. Saved \subseteq host.rules
  BY <1>1 DEF EditInv, EditsKept
<1>5. \A f \in Edits \ {e} : ~Begun(f)
  BY <1>1 DEF EditInv, Begun
<1>6. \A f \in Edits : Begun(f)' => f = e
  BY <1>2, <1>5 DEF Begun
<1>7. \A f \in Edits : Begun(f)' => queue' # <<>> /\ f = Head(queue')
  BY <1>1, <1>6 DEF BeginEdit
<1>8. \A f \in Edits : Begun(f)' => Saved' \cup {f} \subseteq edits'[f].rules
  BY <1>2, <1>3, <1>4, <1>6
<1>9. \A f \in Edits : edits'[f].pc # "check"
  BY <1>2, <1>5 DEF Begun
<1>10. host'.ready /\ EditsKept'
  BY <1>1, <1>3 DEF EditInv, EditsKept
<1> QED
  BY <1>7, <1>8, <1>9, <1>10 DEF EditInv

LEMMA WriteEditKeeps ==
    ASSUME RestOK, EditInv, NEW e \in Edits, WriteEdit(e)
    PROVE  EditInv'
<1>1. e = Head(queue) /\ edits[e].pc = "write" /\ UNCHANGED host
  BY DEF EditInv, Begun, WriteEdit
<1>2. \A f \in Edits \ {e} : ~Begun(f)
  BY <1>1 DEF EditInv
<1>3. CASE /\ stored' = [stored EXCEPT !.rules = edits[e].rules]
           /\ edits' = [edits EXCEPT ![e].pc = "check"]
           /\ UNCHANGED <<queue, left>>
  <2>1. edits' = [edits EXCEPT ![e] = [edits[e] EXCEPT !.pc = "check"]]
    BY <1>3
  <2>2. edits'[e].pc = "check" /\ edits'[e].rules = edits[e].rules
        /\ \A f \in Edits \ {e} : edits'[f] = edits[f]
    BY <2>1, EditOf, EditFields DEF RestOK, EditsOK
  <2>3. Saved' = Saved
    BY <1>1, <2>2 DEF Saved
  <2>4. stored'.rules = edits[e].rules
    BY <1>3 DEF RestOK, DeviceOK
  <2>5. Saved \cup {e} \subseteq edits[e].rules
    BY <1>1 DEF EditInv, Begun
  <2> QED
    BY <1>1, <1>2, <1>3, <2>2, <2>3, <2>4, <2>5 DEF EditInv, EditsKept, Begun
<1>4. CASE /\ edits' = [edits EXCEPT ![e] = [NoEdit EXCEPT !.pc = "lost"]]
           /\ queue' = Tail(queue)
           /\ UNCHANGED stored
  <2>1. edits'[e].pc = "lost" /\ \A f \in Edits \ {e} : edits'[f] = edits[f]
    BY <1>4, EditOf, EditFields DEF RestOK, EditsOK
  <2>2. Saved' = Saved
    BY <1>1, <2>1 DEF Saved
  <2> QED
    BY <1>1, <1>2, <1>4, <2>1, <2>2 DEF EditInv, EditsKept, Begun
<1> QED
  BY <1>3, <1>4 DEF WriteEdit

LEMMA FinishEditKeeps ==
    ASSUME RestOK, EditInv, NEW e \in Edits, FinishEdit(e)
    PROVE  EditInv'
<1>1. e = Head(queue) /\ edits[e].pc = "check" /\ UNCHANGED stored
  BY DEF EditInv, Begun, FinishEdit, device
<1>2. \A f \in Edits \ {e} : ~Begun(f)
  BY <1>1 DEF EditInv
<1>3. edits' = [edits EXCEPT ![e] = EndedEdit(e)]
  BY DEF FinishEdit
<1>4. edits'[e].pc = "saved" /\ \A f \in Edits \ {e} : edits'[f] = edits[f]
  BY <1>3, EditOf, EndedEditIs DEF RestOK, EditsOK
<1>5. Saved' = Saved \cup {e}
  BY <1>4 DEF Saved
<1>6. host'.rules = edits[e].rules /\ host'.ready = host.ready
  <2>1. PICK s : host' = [host EXCEPT !.rules = edits[e].rules, !.current = s]
    BY DEF FinishEdit
  <2> QED
    BY <2>1, HostChanges DEF RestOK
<1>7. stored.rules = edits[e].rules /\ Saved \cup {e} \subseteq edits[e].rules
  BY <1>1 DEF EditInv, Begun
<1> QED
  BY <1>1, <1>2, <1>4, <1>5, <1>6, <1>7 DEF EditInv, EditsKept, Begun

LEMMA DieKeepsEdits ==
    ASSUME RestOK, EditInv, Die
    PROVE  EditInv'
<1>1. \A f \in Edits : /\ edits'[f].pc \notin {"queued", "write", "check"}
                       /\ edits'[f].pc = "saved" <=> edits[f].pc = "saved"
  BY EditOf, EditFields DEF RestOK, EditsOK, Die
<1>2. Saved' = Saved
  BY <1>1 DEF Saved
<1>3. UNCHANGED stored /\ ~host'.ready
  BY DEF Die
<1> QED
  BY <1>1, <1>2, <1>3 DEF EditInv, EditsKept, Begun

-----------------------------------------------------------------------------
(***************************************************************************)
(* The watchlist inside the phone.                                          *)
(***************************************************************************)
\* Most actions leave it alone.
LEMMA WatchlistUntouched ==
    ASSUME WatchlistInv, UNCHANGED watchlist
    PROVE  WatchlistInv'
BY DEF WatchlistInv, WatchlistTypeOK, OwedIsRemembered, DueCoversOwed, OwedKept, watchlist

LEMMA PhoneLeavesWatchlist ==
    ASSUME \/ Reload \/ Tick \/ \E l \in loads : LoadStep(l)
           \/ \E e \in Edits : MakeEdit(e) \/ EditStep(e)
           \/ BeginSwitch \/ ReplaceCredential \/ SwitchStep
           \/ Resync \/ BeginWidget \/ EndWidget
           \/ Poll \/ PollWatch \/ PollWidget \/ EndPoll
    PROVE  UNCHANGED watchlist
BY DEF Reload, Tick, LoadStep, ReadPreferences, Ask, Answer, Publish, CheckShown, ShowFailure,
       MakeEdit, EditStep, BeginEdit, WriteEdit, FinishEdit, BeginSwitch, ReplaceCredential, SwitchStep,
       ClearPersistentSnapshots, WriteDemo, EndSwitch, CredentialsChanged, Resync, BeginWidget, EndWidget,
       Poll, PollWatch, PollWidget, EndPoll

\* A delivery, or a poll, starts a look of its own.
LEMMA LooksBegin ==
    ASSUME RestOK, WatchlistInv, Deliver \/ PollRecoveries
    PROVE  WatchlistInv'
<1>1. UNCHANGED <<spent, remembered, owed, overlapped>>
  BY DEF Deliver, PollRecoveries
<1>2. CASE UNCHANGED looks
  BY <1>1, <1>2, WatchlistUntouched DEF watchlist
<1>3. CASE Deliver /\ ~UNCHANGED looks
  <2> DEFINE d == Head(asked)
  <2>1. looks' = looks \cup {NewLook(d.snap.load, d.snap.report, host.demo)}
    BY <1>3 DEF Deliver
  <2>2. d.snap \in Snapshots
    BY <1>3, NextAsked DEF Deliver, RestOK
  <2>3. d.snap.load \in Nat /\ d.snap.report \in Reports /\ host.demo \in BOOLEAN
    BY <2>2, SnapshotFields, HostFields DEF RestOK, Rules
  <2> HIDE DEF d
  <2> QED
    BY <1>1, <2>1, <2>3, NewLookType, NewLookKeeps
<1>4. CASE PollRecoveries /\ ~UNCHANGED looks
  <2>1. looks' = looks \cup {NewLook(0, poll.snap.report, FALSE)}
    BY <1>4 DEF PollRecoveries
  <2>2. poll.snap \in Snapshots
    BY <1>4 DEF PollRecoveries, RestOK, PollOK
  <2>3. poll.snap.report \in Reports
    BY <2>2, SnapshotFields DEF Rules
  <2> QED
    BY <1>1, <2>1, <2>3, NewLookType, NewLookKeeps
<1> QED
  BY <1>2, <1>3, <1>4

LEMMA WindowsMove ==
    ASSUME RestOK, WatchlistInv, Providers \/ Look \/ LoseLook \/ Die
    PROVE  WatchlistInv'
<1>1. CASE Providers
  <2>1. PICK w \in Windows : ComesBack(w) \/ RunsOut(w)
    BY <1>1 DEF Providers, RestOK, LeftOK, BudgetStates
  <2> QED
    BY <2>1, ComesBackKeeps, RunsOutKeeps
<1>2. CASE Look
  BY <1>2, ReadListKeeps, TellKeeps, WriteListKeeps DEF Look, LookStep
<1>3. CASE LoseLook
  BY <1>3, LookFailsKeeps DEF LoseLook
<1>4. CASE Die
  BY <1>4, OwesLess DEF Die, WatchlistInv, WatchlistTypeOK, OwedKept
<1> QED
  BY <1>1, <1>2, <1>3, <1>4

-----------------------------------------------------------------------------
PhoneInv == RestOK /\ WatchlistInv /\ EditInv

LEMMA PhoneInitInv == Init => PhoneInv
<1> SUFFICES ASSUME Init PROVE PhoneInv
  OBVIOUS
<1>1. PICK demo \in BOOLEAN :
          LET snap == [load |-> 1, demo |-> demo, epoch |-> 1, rules |-> {}, report |-> Truth({})]
          IN /\ stored = [rules |-> {}, demo |-> demo]
             /\ host = [revision |-> 1, surface |-> 0, current |-> snap, rules |-> {},
                        demo |-> demo, ready |-> TRUE]
             /\ watch = [by |-> "host", snap |-> snap, demo |-> demo]
  BY DEF Init
<1> DEFINE snap == [load |-> 1, demo |-> demo, epoch |-> 1, rules |-> {}, report |-> Truth({})]
<1>2. snap \in Snapshots
  BY TruthType DEF Snapshots, Rules
<1> HIDE DEF snap
<1>3. /\ stored = [rules |-> {}, demo |-> demo]
      /\ host = [revision |-> 1, surface |-> 0, current |-> snap, rules |-> {},
                 demo |-> demo, ready |-> TRUE]
      /\ watch = [by |-> "host", snap |-> snap, demo |-> demo]
  BY <1>1 DEF snap
<1>4. DeviceOK /\ HostOK
  BY <1>2, <1>3 DEF Init, DeviceOK, SwitchPlaces, HostOK, HostStates, MaybeSnapshot, Rules
<1>5. LoadsOK /\ AskedOK
  BY DEF Init, LoadsOK, AskedOK
<1>6. EditsOK /\ \A e \in Edits : edits[e].pc = "none"
  BY NoSnapshotType DEF Init, EditsOK, EditRecords, NoEdit, Rules
<1>7. SurfacesOK
  BY <1>2, <1>3, WrittenTypes DEF Init, SurfacesOK, WatchStates, WidgetStates, MaybeSnapshot
<1>8. PollOK
  BY NoSnapshotType DEF Init, PollOK, PollStates, NoPoll
<1>9. LeftOK
  BY PhoneAssumption DEF Init, LeftOK
<1>10. WatchlistInv
  BY <1>9 DEF Init, WatchlistInit, WatchlistInv, WatchlistTypeOK, OwedIsRemembered, DueCoversOwed
<1>11. EditInv
  BY <1>6 DEF EditInv, EditsKept, Begun, Saved
<1> QED
  BY <1>4, <1>5, <1>6, <1>7, <1>8, <1>9, <1>10, <1>11 DEF PhoneInv, RestOK

LEMMA PhoneStepInv == PhoneInv /\ [Next]_vars => PhoneInv'
<1> SUFFICES ASSUME PhoneInv, [Next]_vars PROVE PhoneInv'
  OBVIOUS
<1> USE DEF PhoneInv
<1>1. CASE Reload \/ Tick \/ \E l \in loads : LoadStep(l)
  <2>1. RestOK'
    BY <1>1, ReloadType, ReadPreferencesType, AskType, AnswerType, PublishType, CheckType DEF LoadStep
  <2> QED
    BY <1>1, <2>1, LoadsKeepEdits, PhoneLeavesWatchlist, WatchlistUntouched
<1>2. CASE \E e \in Edits : MakeEdit(e) \/ EditStep(e)
  <2>1. PICK e \in Edits : MakeEdit(e) \/ BeginEdit(e) \/ WriteEdit(e) \/ FinishEdit(e)
    BY <1>2 DEF EditStep
  <2>2. WriteEdit(e) \/ FinishEdit(e) => queue # <<>>
    BY DEF WriteEdit, FinishEdit, EditInv, Begun
  <2>3. RestOK'
    BY <2>1, <2>2, MakeEditType, BeginEditType, WriteEditType, FinishEditType
  <2>4. EditInv'
    BY <2>1, MakeEditKeeps, BeginEditKeeps, WriteEditKeeps, FinishEditKeeps
  <2> QED
    BY <1>2, <2>3, <2>4, PhoneLeavesWatchlist, WatchlistUntouched
<1>3. CASE BeginSwitch \/ ReplaceCredential \/ SwitchStep \/ Resync \/ BeginWidget \/ EndWidget
  <2>1. RestOK'
    BY <1>3, SwitchType, SwitchEndType, ResyncType, WidgetStepType DEF SwitchStep
  <2> QED
    BY <1>3, <2>1, OthersKeepEdits, PhoneLeavesWatchlist, WatchlistUntouched
<1>4. CASE Poll \/ PollStep \/ Deliver
  <2>1. RestOK'
    BY <1>4, PollType, PollStepType, DeliverType
  <2>2. EditInv'
    BY <1>4, OthersKeepEdits
  <2>3. WatchlistInv'
    BY <1>4, LooksBegin, PhoneLeavesWatchlist, WatchlistUntouched DEF PollStep
  <2> QED
    BY <2>1, <2>2, <2>3
<1>5. CASE Providers \/ Look \/ LoseLook
  <2>1. RestOK'
    <3>1. LeftOK'
      BY <1>5, SpendType DEF Providers, Look, LoseLook, LeftOK, RestOK
    <3> QED
      BY <1>5, <3>1 DEF Providers, Look, LoseLook, RestOK, DeviceOK, HostOK, LoadsOK, EditsOK, AskedOK,
                        SurfacesOK, PollOK, device, screen, surfaces
  <2> QED
    BY <1>5, <2>1, OthersKeepEdits, WindowsMove
<1>6. CASE Die
  BY <1>6, DieType, DieKeepsEdits, WindowsMove
<1>7. CASE UNCHANGED vars
  BY <1>7, QuietKeeps, WatchlistUntouched
  DEF vars, device, screen, surfaces, RestOK, DeviceOK, HostOK, LoadsOK, EditsOK, AskedOK, SurfacesOK, PollOK, LeftOK
<1> QED
  BY <1>1, <1>2, <1>3, <1>4, <1>5, <1>6, <1>7 DEF Next, Quiet

LEMMA PhoneInvariant == Spec => []PhoneInv
BY PhoneInitInv, PhoneStepInv, PTL DEF Spec

\* The types of the phone and of the watchlist hold in every state.
THEOREM PhoneTypes == Spec => []TypeOK
<1>1. PhoneInv => TypeOK
  BY TypeParts DEF PhoneInv, WatchlistInv
<1> QED
  BY <1>1, PhoneInvariant, PTL

\* A saved rule stays in memory and in storage, whatever edits, loads, failed
\* writes and deaths come in between (_updateAlertThresholds).
THEOREM SavedRulesStay == Spec => []EditsKept
<1>1. PhoneInv => EditsKept
  BY DEF PhoneInv, EditInv
<1> QED
  BY <1>1, PhoneInvariant, PTL

\* A window that came back while it was remembered is remembered until it is told,
\* however many looks overlap without a lock (syncPlanRecoveries), unless one of them
\* was going to forget it when it came back: a look whose snapshot is of before the
\* window ran out, which has read the list and writes it without the window.
THEOREM OwedStaysRemembered == Spec => []OwedIsRemembered
<1>1. PhoneInv => OwedIsRemembered
  BY DEF PhoneInv, WatchlistInv
<1> QED
  BY <1>1, PhoneInvariant, PTL

-----------------------------------------------------------------------------
(***************************************************************************)
(* Invariant: the loads of the host, what it shows, and what edits captured.   *)
(***************************************************************************)
Latest(l) == l.rev = host.revision
Awaited(l) == Latest(l) /\ l.pc # "surfaces"

\* Snapshots that differ in the rules they are under, at most, or none.
Alike(s, t) ==
    \/ s = NoSnapshot /\ t = NoSnapshot
    \/ /\ s # NoSnapshot /\ t # NoSnapshot
       /\ s.load = t.load /\ s.demo = t.demo /\ s.epoch = t.epoch

\* No snapshot is of a coming epoch.
Dated(s) == s # NoSnapshot => s.epoch <= epoch

\* Every load has a revision of its own, none of the future.
LoadsInv ==
    /\ host.revision >= 1
    /\ \A l \in loads :
          /\ l.rev <= host.revision /\ Dated(l.snap)
          /\ l.tick => l.rev > 1
          /\ l.pc # "preferences" => host.ready
          /\ l.pc = "publish" => l.snap.load = l.rev
    /\ \A l, m \in loads : l.rev = m.rev => l = m

\* What is shown; the load it is of is over, but for its deliveries.
CurrentInv ==
    /\ Dated(host.current)
    /\ host.current # NoSnapshot =>
          /\ host.ready /\ host.current.load <= host.revision
          /\ host.current.load = host.revision => \A l \in loads : ~Awaited(l)

\* The mode outside a switch: of the flag, of what the latest load shows, and of
\* what it is going to show.
ModeInv ==
    switch \in {"idle", "replaced"} =>
        /\ host.ready => host.demo = stored.demo
        /\ host.current # NoSnapshot /\ host.current.load = host.revision =>
              host.current.demo = stored.demo
        /\ \A l \in loads : Latest(l) =>
              /\ l.pc = "answer" => l.demo = stored.demo
              /\ l.pc = "publish" => l.snap.demo = stored.demo

\* Of the edit under way: as long as the load it captured is the latest, what it
\* captured is what is shown, unless that load has published since or shown an error.
Captive(e) ==
    LET edit == edits[e]
    IN  /\ edit.load <= host.revision /\ Dated(edit.snap)
        /\ edit.load = host.revision =>
              /\ (\E l \in loads : Awaited(l)) => Alike(edit.snap, host.current)
              /\ edit.snap # NoSnapshot =>
                    \/ Alike(edit.snap, host.current)
                    \/ /\ edit.snap.load < host.revision
                       /\ host.current # NoSnapshot => host.current.load = host.revision
CapturedInv == \A e \in Edits : Begun(e) => Captive(e)

\* A tick that failed, while nothing newer has begun: what it looks at is what is
\* shown, and once it was found bad, that is.
FailedInv ==
    \A l \in loads : Latest(l) =>
        /\ l.pc = "failed" => Alike(l.snap, host.current)
        /\ l.pc = "failure" /\ l.tick => host.current = NoSnapshot \/ ~Owned(host.current)

ScreenInv == LoadsInv /\ CurrentInv /\ ModeInv /\ CapturedInv /\ FailedInv

(***************************************************************************)
(* Invariant: the surfaces, and the deliveries under way to them.            *)
(***************************************************************************)
\* The latest load is what is shown, outside a switch, and may be delivered.
Shown ==
    /\ switch = "idle" /\ host.current # NoSnapshot
    /\ host.current.load = host.revision /\ Owned(host.current)

Due(d, to) == d.to = to /\ Owned(d.snap) /\ d.surface = host.surface

\* The watch has what is shown, or the last delivery due to it has.
WatchInv ==
    Shown =>
        \/ /\ \A i \in DOMAIN asked : ~Due(asked[i], "watch")
           /\ watch.by = "host" => watch.snap = host.current /\ watch.demo = host.current.demo
        \/ \E i \in DOMAIN asked :
              /\ Due(asked[i], "watch") /\ asked[i].snap = host.current
              /\ \A j \in DOMAIN asked :
                    j > i /\ Due(asked[j], "watch") => asked[j].snap = host.current

\* What the widget may be left with: what is shown, or a tick's.
Good(key) == key.by = "host" => key.load = host.current.load \/ key.tick
GoodDelivery(d) == d.snap.load = host.current.load \/ d.tick

\* A tick is on its way to the widget, by the watch.
TickComes ==
    \E i \in DOMAIN asked : asked[i].to = "watch" /\ asked[i].tick /\ Owned(asked[i].snap)

\* The last delivery due to the widget leaves it good.
GoodComes ==
    \E i \in DOMAIN asked :
        /\ Due(asked[i], "widget") /\ GoodDelivery(asked[i])
        /\ \A j \in DOMAIN asked : j > i /\ Due(asked[j], "widget") => GoodDelivery(asked[j])

\* No delivery does harm, and what is written last is good.
GoodArrived ==
    /\ \A i \in DOMAIN asked : Due(asked[i], "widget") => GoodDelivery(asked[i])
    /\ IF widget.latest # Nothing THEN Good(widget.latest)
       ELSE IF widget.writing # Nothing THEN Good(widget.writing)
       ELSE /\ Good(widget.first) /\ Good(widget.last)
            /\ \/ widget.first = widget.last
               \/ widget.first.by # "host" \/ widget.last.by # "host"

WidgetInv ==
    /\ widget.writing # Nothing =>
          widget.first = widget.writing \/ widget.first.by # "host"
    /\ Shown => TickComes \/ GoodComes \/ GoodArrived

SurfaceInv == WatchInv /\ WidgetInv

-----------------------------------------------------------------------------
(***************************************************************************)
(* The screen, kind of step by kind of step.                                 *)
(***************************************************************************)
LEMMA RealSnapshots == \A s \in Snapshots : s # NoSnapshot
BY SnapshotAssumption

\* The fields of what is shown and of what a load holds.
LEMMA ScreenTypes ==
    ASSUME RestOK
    PROVE  /\ host.revision \in Nat /\ host.surface \in Nat /\ epoch \in Nat
           /\ host.current # NoSnapshot => host.current.load \in Nat /\ host.current.epoch \in Nat
           /\ \A l \in loads : l \in GoodLoads /\ l.rev \in Nat
           /\ \A e \in Edits :
                 /\ edits[e].load \in Nat /\ edits[e].snap \in MaybeSnapshot
                 /\ edits[e].snap # NoSnapshot => edits[e].snap.load \in Nat /\ edits[e].snap.epoch \in Nat
<1>1. \A s \in MaybeSnapshot : s # NoSnapshot => s.load \in Nat /\ s.epoch \in Nat
  BY DEF MaybeSnapshot, Snapshots
<1>2. \A l \in loads : l \in GoodLoads /\ l.rev \in Nat
  BY LoadFields DEF RestOK, LoadsOK
<1>3. \A e \in Edits : edits[e].load \in Nat /\ edits[e].snap \in MaybeSnapshot
  BY EditOf, EditTypes DEF RestOK, EditsOK
<1> QED
  BY <1>1, <1>2, <1>3, HostFields DEF RestOK, DeviceOK

\* Edits that began, and no more, with what they captured.
SameCaptives ==
    \A e \in Edits : Begun(e)' =>
        Begun(e) /\ edits'[e].load = edits[e].load /\ edits'[e].snap = edits[e].snap

SameMode == epoch' = epoch /\ switch' = switch /\ stored'.demo = stored.demo

\* The host may read the preferences, and shows what it showed.
SameShown ==
    /\ host'.revision = host.revision /\ host'.current = host.current
    /\ host.ready => host'.ready
    /\ \/ host'.ready = host.ready /\ host'.demo = host.demo
       \/ host'.demo = stored.demo

\* A load may go on to n, which is what the invariant asks of it.
Fits(n) ==
    /\ Dated(n.snap)
    /\ n.pc # "preferences" => host'.ready
    /\ n.pc = "publish" => n.snap.load = n.rev
    /\ Latest(n) =>
          /\ n.pc = "answer" => n.demo = stored.demo \/ switch \notin {"idle", "replaced"}
          /\ n.pc = "publish" => n.snap.demo = stored.demo \/ switch \notin {"idle", "replaced"}
          /\ n.pc = "failed" => Alike(n.snap, host.current)
          /\ n.pc = "failure" /\ n.tick => host.current = NoSnapshot \/ ~Owned(host.current)

LEMMA LoadGoesOn ==
    ASSUME RestOK, ScreenInv, SameMode, SameShown, SameCaptives,
           NEW l \in loads, NEW n, loads' \subseteq (loads \ {l}) \cup {n},
           n.rev = l.rev, n.tick = l.tick, n.pc # "surfaces" => l.pc # "surfaces", Fits(n)
    PROVE  ScreenInv'
<1> USE DEF SameMode, SameShown
<1>1. LoadsInv'
  BY DEF ScreenInv, LoadsInv, Fits, Dated
<1>2. \A m \in loads' : Awaited(m)' => (Awaited(l) /\ m = n) \/ (m \in loads /\ Awaited(m))
  BY DEF Awaited, Latest
<1>3. CurrentInv'
  BY <1>2 DEF ScreenInv, CurrentInv, Dated
<1>4. ModeInv'
  BY DEF ScreenInv, ModeInv, Fits, Latest
<1>5. CapturedInv'
  <2> SUFFICES ASSUME NEW e \in Edits, Begun(e)' PROVE Captive(e)'
    BY DEF CapturedInv
  <2>1. Captive(e) /\ edits'[e].load = edits[e].load /\ edits'[e].snap = edits[e].snap
    BY DEF ScreenInv, CapturedInv, SameCaptives
  <2> QED
    BY <1>2, <2>1 DEF Captive, Dated, Alike
<1>6. FailedInv'
  BY DEF ScreenInv, FailedInv, Fits, Latest, Alike, Owned
<1> QED
  BY <1>1, <1>3, <1>4, <1>5, <1>6 DEF ScreenInv

\* Loads that end, with nothing shown for it.
LEMMA LoadsEnd ==
    ASSUME RestOK, ScreenInv, SameMode, SameShown, SameCaptives, loads' \subseteq loads
    PROVE  ScreenInv'
<1> USE DEF SameMode, SameShown
<1>1. LoadsInv'
  BY DEF ScreenInv, LoadsInv, Dated
<1>2. \A m \in loads' : m \in loads /\ (Awaited(m)' => Awaited(m))
  BY DEF Awaited, Latest
<1>3. CurrentInv'
  BY <1>2 DEF ScreenInv, CurrentInv, Dated
<1>4. ModeInv'
  BY DEF ScreenInv, ModeInv, Latest
<1>5. CapturedInv'
  <2> SUFFICES ASSUME NEW e \in Edits, Begun(e)' PROVE Captive(e)'
    BY DEF CapturedInv
  <2>1. Captive(e) /\ edits'[e].load = edits[e].load /\ edits'[e].snap = edits[e].snap
    BY DEF ScreenInv, CapturedInv, SameCaptives
  <2> QED
    BY <1>2, <2>1 DEF Captive, Dated, Alike
<1>6. FailedInv'
  BY DEF ScreenInv, FailedInv, Latest, Alike, Owned
<1> QED
  BY <1>1, <1>3, <1>4, <1>5, <1>6 DEF ScreenInv

\* A load of a coming revision begins, or a raise begins none; what is shown is
\* kept or cleared.
NewerLoad(n) ==
    /\ n.rev = host'.revision /\ n.snap = NoSnapshot
    /\ n.pc \in {"preferences", "ask"} /\ (n.pc = "ask" => host.ready)

LEMMA RevisionRises ==
    ASSUME RestOK, RestOK', ScreenInv, SameCaptives, epoch' = epoch, stored' = stored,
           host'.revision > host.revision, host'.current \in {host.current, NoSnapshot},
           host'.ready = host.ready,
           switch' \in {"idle", "replaced"} /\ host.ready => host'.demo = stored.demo,
           NEW n, loads' \subseteq loads \cup {n}, NewerLoad(n)
    PROVE  ScreenInv'
<1> USE DEF NewerLoad
<1>1. /\ host.revision \in Nat /\ host'.revision \in Nat
      /\ host.current # NoSnapshot => host.current.load \in Nat
      /\ \A l \in loads : l.rev \in Nat
  BY ScreenTypes DEF RestOK, HostOK, HostStates
<1>2. LoadsInv'
  BY <1>1 DEF ScreenInv, LoadsInv, Dated
<1>3. host'.current # NoSnapshot => host'.current = host.current /\ host.current.load < host'.revision
  BY <1>1 DEF ScreenInv, CurrentInv
<1>4. CurrentInv'
  BY <1>1, <1>3 DEF ScreenInv, CurrentInv, Dated
<1>5. \A l \in loads' : Latest(l)' => l = n
  BY <1>1 DEF Latest, ScreenInv, LoadsInv
<1>6. ModeInv'
  BY <1>1, <1>3, <1>5 DEF ModeInv
<1>7. CapturedInv'
  <2> SUFFICES ASSUME NEW e \in Edits, Begun(e)' PROVE Captive(e)'
    BY DEF CapturedInv
  <2>1. Captive(e) /\ edits'[e].load = edits[e].load /\ edits'[e].snap = edits[e].snap
    BY DEF ScreenInv, CapturedInv, SameCaptives
  <2>2. edits[e].load \in Nat
    BY ScreenTypes
  <2> QED
    BY <1>1, <2>1, <2>2 DEF Captive, Dated
<1>8. FailedInv'
  BY <1>5 DEF FailedInv
<1> QED
  BY <1>2, <1>4, <1>6, <1>7, <1>8 DEF ScreenInv

\* The latest load fails and what is shown is cleared.
LEMMA LatestFails ==
    ASSUME RestOK, ScreenInv, SameMode, SameCaptives,
           NEW l \in loads, Awaited(l), loads' = loads \ {l},
           host' = [host EXCEPT !.current = NoSnapshot]
    PROVE  ScreenInv'
<1> USE DEF SameMode
<1>1. /\ host'.revision = host.revision /\ host'.ready = host.ready /\ host'.demo = host.demo
      /\ host'.current = NoSnapshot
  BY DEF RestOK, HostOK, HostStates
<1>2. LoadsInv'
  BY <1>1 DEF ScreenInv, LoadsInv, Dated
<1>3. \A m \in loads' : ~Latest(m)'
  BY <1>1 DEF ScreenInv, LoadsInv, Awaited, Latest
<1>4. CurrentInv' /\ ModeInv' /\ FailedInv'
  BY <1>1, <1>3 DEF ScreenInv, CurrentInv, ModeInv, FailedInv, Dated
<1>5. CapturedInv'
  <2> SUFFICES ASSUME NEW e \in Edits, Begun(e)' PROVE Captive(e)'
    BY DEF CapturedInv
  <2>1. Captive(e) /\ edits'[e].load = edits[e].load /\ edits'[e].snap = edits[e].snap
    BY DEF ScreenInv, CapturedInv, SameCaptives
  <2>2. edits[e].load = host.revision => Alike(edits[e].snap, host.current)
    BY <2>1 DEF Captive
  <2>3. host.current # NoSnapshot => /\ host.current.load <= host.revision
                                     /\ host.current.load # host.revision
    BY DEF ScreenInv, CurrentInv
  <2>4. edits[e].load = host.revision /\ edits[e].snap # NoSnapshot =>
            edits[e].snap.load < host.revision
    BY <2>2, <2>3, ScreenTypes DEF Alike
  <2> QED
    BY <1>1, <1>3, <2>1, <2>4 DEF Captive, Dated, Awaited
<1> QED
  BY <1>2, <1>4, <1>5 DEF ScreenInv

\* The latest load is shown; a tick goes on to its deliveries.
LEMMA LatestShows ==
    ASSUME RestOK, ScreenInv, SameMode, SameCaptives,
           NEW l \in loads, Latest(l), l.pc = "publish",
           NEW n, n.rev = l.rev, n.tick = l.tick, n.snap = l.snap, n.pc = "surfaces",
           loads' \subseteq (loads \ {l}) \cup {n},
           host' = [host EXCEPT !.current = l.snap]
    PROVE  ScreenInv'
<1> USE DEF SameMode
<1>1. /\ host'.revision = host.revision /\ host'.ready = host.ready /\ host'.demo = host.demo
      /\ host'.current = l.snap
  BY DEF RestOK, HostOK, HostStates
<1>2. host.ready /\ l.snap.load = host.revision /\ l.snap # NoSnapshot /\ Dated(l.snap)
  BY RealSnapshots, ScreenTypes, LoadFields DEF ScreenInv, LoadsInv, Latest
<1>3. LoadsInv'
  BY <1>1, <1>2 DEF ScreenInv, LoadsInv, Dated
<1>4. \A m \in loads' : Latest(m)' => m = n
  BY <1>1 DEF ScreenInv, LoadsInv, Latest
<1>5. CurrentInv' /\ FailedInv'
  BY <1>1, <1>2, <1>4, ScreenTypes DEF CurrentInv, FailedInv, Dated, Awaited
<1>6. ModeInv'
  BY <1>1, <1>2, <1>4 DEF ScreenInv, ModeInv
<1>7. CapturedInv'
  <2> SUFFICES ASSUME NEW e \in Edits, Begun(e)' PROVE Captive(e)'
    BY DEF CapturedInv
  <2>1. Captive(e) /\ edits'[e].load = edits[e].load /\ edits'[e].snap = edits[e].snap
    BY DEF ScreenInv, CapturedInv, SameCaptives
  <2>2. edits[e].load = host.revision => Alike(edits[e].snap, host.current)
    BY <2>1 DEF Captive, Awaited
  <2>3. host.current # NoSnapshot => /\ host.current.load <= host.revision
                                     /\ host.current.load # host.revision
    BY DEF ScreenInv, CurrentInv, Awaited
  <2>4. edits[e].load = host.revision /\ edits[e].snap # NoSnapshot =>
            edits[e].snap.load < host.revision
    BY <2>2, <2>3, ScreenTypes DEF Alike
  <2> QED
    BY <1>1, <1>2, <1>4, <2>1, <2>4 DEF Captive, Dated, Awaited
<1> QED
  BY <1>3, <1>5, <1>6, <1>7 DEF ScreenInv

\* An edit begins, and captures what is shown.
LEMMA CapturesShown ==
    ASSUME RestOK, EditInv, ScreenInv, NEW e \in Edits, BeginEdit(e)
    PROVE  ScreenInv'
<1>1. edits' = [edits EXCEPT ![e] = Captured(e)] /\ UNCHANGED <<host, loads, epoch, switch, stored>>
      /\ edits[e].pc = "queued" /\ e = Head(queue)
  BY DEF BeginEdit, device
<1>2. edits'[e].load = host.revision /\ edits'[e].snap = host.current
  BY <1>1 DEF RestOK, EditsOK, Captured
<1>3. \A f \in Edits : Begun(f)' => f = e
  BY <1>1 DEF EditInv, Begun, RestOK, EditsOK
<1>4. LoadsInv' /\ CurrentInv' /\ ModeInv' /\ FailedInv'
  BY <1>1 DEF ScreenInv, LoadsInv, CurrentInv, ModeInv, FailedInv, Dated, Awaited, Latest, Alike, Owned
<1>5. Captive(e)'
  BY <1>1, <1>2, ScreenTypes DEF Captive, Alike, Dated, ScreenInv, CurrentInv
<1> QED
  BY <1>3, <1>4, <1>5 DEF ScreenInv, CapturedInv

\* When an edit may publish, what it captured is not older than what is shown, or
\* the load it captured the screen under has published since.
Publishes(e) ==
    /\ edits[e].snap # NoSnapshot /\ Owned(edits[e].snap)
    /\ edits[e].load = host.revision /\ edits[e].surface = host.surface
Edited(e) == [edits[e].snap EXCEPT !.rules = edits[e].rules]

LEMMA FinishEditParts ==
    ASSUME RestOK, EditInv, NEW e \in Edits, FinishEdit(e)
    PROVE  /\ edits[e].pc = "check" /\ Begun(e) /\ host.ready
           /\ edits' = [edits EXCEPT ![e] = EndedEdit(e)]
           /\ \A f \in Edits : ~Begun(f)'
           /\ UNCHANGED <<loads, epoch, switch, stored>>
           /\ host'.revision = host.revision /\ host'.surface = host.surface
           /\ host'.ready = host.ready /\ host'.demo = host.demo
           /\ IF Publishes(e)
              THEN host'.current = Edited(e) /\ asked' = Append(asked, Delivery("watch", Edited(e)))
              ELSE host'.current = host.current /\ asked' = asked
           /\ edits[e].snap # NoSnapshot =>
                 /\ Edited(e) \in Snapshots /\ Edited(e) # NoSnapshot
                 /\ Alike(Edited(e), edits[e].snap)
<1>1. edits[e].pc = "check" /\ Begun(e) /\ host.ready
  BY DEF FinishEdit, EditInv, Begun
<1>2. edits' = [edits EXCEPT ![e] = EndedEdit(e)]
      /\ UNCHANGED <<loads, epoch, switch, stored>>
  BY DEF FinishEdit, device
<1>3. \A f \in Edits : ~Begun(f)'
  <2>1. \A f \in Edits \ {e} : ~Begun(f)
    BY <1>1 DEF EditInv
  <2> QED
    BY <1>2, <2>1, EditOf, EndedEditIs DEF RestOK, EditsOK, Begun
<1>4. host' = [host EXCEPT !.rules = edits[e].rules,
                           !.current = IF Publishes(e) THEN Edited(e) ELSE host.current]
      /\ asked' = IF Publishes(e) THEN Append(asked, Delivery("watch", Edited(e))) ELSE asked
  BY DEF FinishEdit, Publishes, Edited
<1>5. \A r, s : LET h == [host EXCEPT !.rules = r, !.current = s]
                IN  /\ h.revision = host.revision /\ h.surface = host.surface
                    /\ h.ready = host.ready /\ h.demo = host.demo /\ h.current = s
  BY DEF RestOK, HostOK, HostStates
<1>6. host'.revision = host.revision /\ host'.surface = host.surface
      /\ host'.ready = host.ready /\ host'.demo = host.demo
      /\ host'.current = IF Publishes(e) THEN Edited(e) ELSE host.current
  <2> DEFINE s == IF Publishes(e) THEN Edited(e) ELSE host.current
  <2>1. host' = [host EXCEPT !.rules = edits[e].rules, !.current = s]
    BY <1>4
  <2> HIDE DEF s
  <2>2. host'.revision = host.revision /\ host'.surface = host.surface
        /\ host'.ready = host.ready /\ host'.demo = host.demo /\ host'.current = s
    BY <1>5, <2>1
  <2> QED
    BY <2>2 DEF s
<1>7. ASSUME edits[e].snap # NoSnapshot
      PROVE  /\ Edited(e) \in Snapshots /\ Edited(e) # NoSnapshot
             /\ Alike(Edited(e), edits[e].snap)
  <2>1. edits[e].snap \in Snapshots /\ edits[e].rules \in Rules
    BY <1>7, EditOf, EditTypes, RealSnapshot DEF RestOK, EditsOK
  <2>2. Edited(e) \in Snapshots
    BY <2>1, SnapshotFields DEF Edited
  <2>3. Edited(e).load = edits[e].snap.load /\ Edited(e).demo = edits[e].snap.demo
        /\ Edited(e).epoch = edits[e].snap.epoch
    BY <2>1 DEF Edited, Snapshots
  <2> QED
    BY <1>7, <2>2, <2>3, RealSnapshots DEF Alike
<1> QED
  BY <1>1, <1>2, <1>3, <1>4, <1>6, <1>7

LEMMA EditShows ==
    ASSUME RestOK, EditInv, ScreenInv, NEW e \in Edits, FinishEdit(e)
    PROVE  ScreenInv'
<1> DEFINE s == Edited(e)
<1>1. /\ Begun(e) /\ host.ready /\ \A f \in Edits : ~Begun(f)'
      /\ UNCHANGED <<loads, epoch, switch, stored>>
      /\ host'.revision = host.revision
      /\ host'.ready = host.ready /\ host'.demo = host.demo
  BY FinishEditParts
<1>2. Captive(e)
  BY <1>1 DEF ScreenInv, CapturedInv
<1>3. LoadsInv' /\ CapturedInv'
  BY <1>1 DEF ScreenInv, LoadsInv, CapturedInv, Dated
<1>4. CASE ~Publishes(e)
  <2>1. host'.current = host.current
    BY <1>4, FinishEditParts
  <2>2. CurrentInv' /\ ModeInv' /\ FailedInv'
    BY <1>1, <2>1 DEF ScreenInv, CurrentInv, ModeInv, FailedInv, Dated, Awaited, Latest, Alike, Owned
  <2> QED
    BY <1>3, <2>2 DEF ScreenInv
<1>5. CASE Publishes(e)
  <2>1. host'.current = s /\ s # NoSnapshot /\ Alike(s, edits[e].snap) /\ edits[e].snap # NoSnapshot
        /\ edits[e].load = host.revision /\ Owned(edits[e].snap)
    BY <1>5, FinishEditParts DEF Publishes
  <2> HIDE DEF s
  <2>2. \/ Alike(s, host.current)
        \/ s.load < host.revision /\ (host.current # NoSnapshot => host.current.load = host.revision)
    BY <1>2, <2>1 DEF Captive, Alike
  <2>3. \A l \in loads : Awaited(l) => Alike(s, host.current)
    BY <1>2, <2>1 DEF Captive, Alike
  <2>4. CurrentInv'
    BY <1>1, <1>2, <2>1, <2>2, ScreenTypes DEF ScreenInv, CurrentInv, Captive, Dated, Awaited, Latest, Alike
  <2>5. ModeInv'
    BY <1>1, <2>1, <2>2, ScreenTypes DEF ScreenInv, ModeInv, Latest, Alike
  <2>6. FailedInv'
    BY <1>1, <2>1, <2>3 DEF ScreenInv, FailedInv, Awaited, Latest, Alike, Owned
  <2> QED
    BY <1>3, <2>4, <2>5, <2>6 DEF ScreenInv
<1> QED
  BY <1>4, <1>5

\* A switch clears the snapshots or writes the mode, and a credential is replaced,
\* while the screen stays.
LEMMA DeviceMoves ==
    ASSUME RestOK, ScreenInv, ClearPersistentSnapshots \/ WriteDemo \/ ReplaceCredential
    PROVE  ScreenInv'
<1>1. UNCHANGED <<host, loads, edits>> /\ epoch \in Nat /\ (epoch' = epoch \/ epoch' = epoch + 1)
      /\ (switch' \in {"idle", "replaced"} => stored' = stored /\ switch = "idle")
  BY DEF ClearPersistentSnapshots, WriteDemo, ReplaceCredential, screen, RestOK, DeviceOK
<1>2. /\ host.current # NoSnapshot => host.current.epoch \in Nat
      /\ \A e \in Edits : edits[e].snap # NoSnapshot => edits[e].snap.epoch \in Nat
      /\ \A l \in loads : l.snap # NoSnapshot => l.snap.epoch \in Nat
  <2>1. \A l \in loads : l.snap \in MaybeSnapshot
    BY ScreenTypes, LoadFields
  <2> QED
    BY <2>1, ScreenTypes DEF MaybeSnapshot, Snapshots
<1>3. LoadsInv' /\ CurrentInv' /\ ModeInv'
  BY <1>1, <1>2 DEF ScreenInv, LoadsInv, CurrentInv, ModeInv, Dated, Awaited, Latest
<1>4. CapturedInv'
  BY <1>1, <1>2 DEF ScreenInv, CapturedInv, Captive, Begun, Dated, Awaited, Latest, Alike
<1>5. ~Owned(host.current) /\ host.current # NoSnapshot => ~Owned(host.current)'
  BY <1>1, <1>2 DEF Owned, ScreenInv, CurrentInv, Dated
<1>6. FailedInv'
  BY <1>1, <1>5 DEF ScreenInv, FailedInv, Latest, Alike
<1> QED
  BY <1>3, <1>4, <1>6 DEF ScreenInv

LEMMA DeathClears ==
    ASSUME RestOK, ScreenInv, Die
    PROVE  ScreenInv'
<1>1. /\ host'.revision = 1 /\ host'.current = NoSnapshot /\ ~host'.ready /\ loads' = {NewLoad(1)}
      /\ NewLoad(1).rev = 1 /\ NewLoad(1).pc = "preferences" /\ NewLoad(1).snap = NoSnapshot
      /\ ~NewLoad(1).tick
  BY DEF Die, NewLoad
<1>2. \A e \in Edits : ~Begun(e)'
  BY EditFields DEF Die, Begun, RestOK, EditsOK, NoEdit
<1> QED
  BY <1>1, <1>2 DEF ScreenInv, LoadsInv, CurrentInv, ModeInv, CapturedInv, FailedInv, Dated

\* The loads that steps make.
LEMMA LoadAfter ==
    ASSUME NEW l \in LoadRecords, NEW pc, NEW d, NEW s
    PROVE  /\ LET n == [l EXCEPT !.pc = pc]
              IN  n.rev = l.rev /\ n.tick = l.tick /\ n.pc = pc /\ n.demo = l.demo /\ n.snap = l.snap
           /\ LET n == [l EXCEPT !.pc = pc, !.demo = d]
              IN  n.rev = l.rev /\ n.tick = l.tick /\ n.pc = pc /\ n.demo = d /\ n.snap = l.snap
           /\ LET n == [l EXCEPT !.pc = pc, !.snap = s]
              IN  n.rev = l.rev /\ n.tick = l.tick /\ n.pc = pc /\ n.demo = l.demo /\ n.snap = s
BY DEF LoadRecords

LEMMA SameEdits ==
    ASSUME UNCHANGED edits
    PROVE  SameCaptives
BY DEF SameCaptives, Begun

\* What each step of a load leaves alone.
LEMMA LoadStepParts ==
    ASSUME RestOK, NEW l \in loads, LoadStep(l)
    PROVE  SameMode /\ SameCaptives /\ l \in LoadRecords
<1>1. UNCHANGED <<edits, stored, epoch, switch>>
  BY DEF LoadStep, ReadPreferences, Ask, Answer, Publish, CheckShown, ShowFailure, device
<1> QED
  BY <1>1, SameEdits, LoadFields, ScreenTypes DEF SameMode

LEMMA PreferencesKeep ==
    ASSUME RestOK, ScreenInv, NEW l \in loads, ReadPreferences(l)
    PROVE  ScreenInv'
<1>1. SameMode /\ SameCaptives /\ l \in LoadRecords
  BY LoadStepParts DEF LoadStep
<1>2. /\ host'.revision = host.revision /\ host'.current = host.current
      /\ host'.ready /\ host'.demo = stored.demo
  BY DEF ReadPreferences, RestOK, HostOK, HostStates
<1>3. SameShown
  BY <1>2 DEF SameShown
<1>4. CASE l.rev = host.revision
  <2> DEFINE n == [l EXCEPT !.pc = "ask"]
  <2>1. loads' = (loads \ {l}) \cup {n}
    BY <1>4 DEF ReadPreferences, Move
  <2>2. n.rev = l.rev /\ n.tick = l.tick /\ n.pc = "ask" /\ n.snap = l.snap
    BY <1>1, LoadAfter
  <2> HIDE DEF n
  <2>3. Fits(n) /\ l.pc # "surfaces"
    BY <1>2, <2>2 DEF Fits, ScreenInv, LoadsInv, ReadPreferences
  <2> QED
    BY <1>1, <1>3, <2>1, <2>2, <2>3, LoadGoesOn
<1>5. CASE l.rev # host.revision
  BY <1>1, <1>3, <1>5, LoadsEnd DEF ReadPreferences
<1> QED
  BY <1>4, <1>5

LEMMA AskKeeps ==
    ASSUME RestOK, ScreenInv, NEW l \in loads, Ask(l)
    PROVE  ScreenInv'
<1> DEFINE n == [l EXCEPT !.pc = "answer", !.demo = stored.demo]
<1>1. SameMode /\ SameCaptives /\ l \in LoadRecords
  BY LoadStepParts DEF LoadStep
<1>2. loads' = (loads \ {l}) \cup {n} /\ host' = host /\ l.pc = "ask"
  BY DEF Ask, Move
<1>3. n.rev = l.rev /\ n.tick = l.tick /\ n.pc = "answer" /\ n.snap = l.snap /\ n.demo = stored.demo
  BY <1>1, LoadAfter
<1> HIDE DEF n
<1>4. Fits(n) /\ SameShown
  BY <1>2, <1>3 DEF Fits, SameShown, ScreenInv, LoadsInv
<1> QED
  BY <1>1, <1>2, <1>3, <1>4, LoadGoesOn

\* A load that fails has nothing to show: a tick goes on to look at what is shown.
LEMMA FailedKeeps ==
    ASSUME RestOK, ScreenInv, SameMode, SameCaptives, NEW l \in loads, l.pc = "answer", Failed(l)
    PROVE  ScreenInv'
<1>1. l \in LoadRecords
  BY LoadFields, ScreenTypes
<1>2. CASE l.tick
  <2> DEFINE n == IF host.current = NoSnapshot THEN [l EXCEPT !.pc = "failure"]
                  ELSE [l EXCEPT !.pc = "failed", !.snap = host.current]
  <2>1. loads' = (loads \ {l}) \cup {n} /\ host' = host
    BY <1>2 DEF Failed, Move
  <2>2. /\ n.rev = l.rev /\ n.tick = l.tick
        /\ IF host.current = NoSnapshot THEN n.pc = "failure" /\ n.snap = l.snap
           ELSE n.pc = "failed" /\ n.snap = host.current
    BY <1>1, LoadAfter
  <2> HIDE DEF n
  <2>3. Fits(n) /\ SameShown
    BY <2>1, <2>2 DEF Fits, SameShown, ScreenInv, LoadsInv, CurrentInv, Alike
  <2> QED
    BY <2>1, <2>2, <2>3, LoadGoesOn
<1>3. CASE ~l.tick /\ l.rev = host.revision
  <2>1. Awaited(l) /\ loads' = loads \ {l} /\ host' = [host EXCEPT !.current = NoSnapshot]
    BY <1>3 DEF Failed, Awaited, Latest
  <2> QED
    BY <2>1, LatestFails
<1>4. CASE ~l.tick /\ l.rev # host.revision
  BY <1>4, LoadsEnd DEF Failed, SameShown
<1> QED
  BY <1>2, <1>3, <1>4

LEMMA AnswerKeeps ==
    ASSUME RestOK, ScreenInv, NEW l \in loads, Answer(l)
    PROVE  ScreenInv'
<1>1. SameMode /\ SameCaptives /\ l \in LoadRecords /\ l.pc = "answer"
  BY LoadStepParts DEF LoadStep, Answer
<1>2. CASE Failed(l)
  BY <1>1, <1>2, FailedKeeps
<1>3. CASE ~Failed(l)
  <2>1. PICK hidden \in SUBSET left.plans :
            Move(l, [l EXCEPT !.pc = "publish", !.snap = Answered(l, hidden)])
    BY <1>3 DEF Answer
  <2> DEFINE s == Answered(l, hidden)
             n == [l EXCEPT !.pc = "publish", !.snap = s]
  <2>2. loads' = (loads \ {l}) \cup {n} /\ host' = host
    BY <1>3, <2>1 DEF Move, Answer
  <2>3. s.load = l.rev /\ s.demo = l.demo /\ s.epoch = epoch
    BY DEF Answered
  <2> HIDE DEF s
  <2>4. n.rev = l.rev /\ n.tick = l.tick /\ n.pc = "publish" /\ n.snap = s
    BY <1>1, LoadAfter
  <2> HIDE DEF n
  <2>5. Fits(n) /\ SameShown
    BY <1>1, <2>2, <2>3, <2>4, ScreenTypes
    DEF Fits, SameShown, ScreenInv, LoadsInv, ModeInv, Dated, Latest
  <2> QED
    BY <1>1, <2>2, <2>4, <2>5, LoadGoesOn
<1> QED
  BY <1>2, <1>3

LEMMA PublishKeeps ==
    ASSUME RestOK, ScreenInv, NEW l \in loads, Publish(l)
    PROVE  ScreenInv'
<1>1. SameMode /\ SameCaptives /\ l \in LoadRecords /\ l.pc = "publish"
  BY LoadStepParts DEF LoadStep, Publish
<1>2. CASE l.rev = host.revision /\ Owned(l.snap)
  <2> DEFINE n == [l EXCEPT !.pc = "surfaces"]
  <2>1. n.rev = l.rev /\ n.tick = l.tick /\ n.pc = "surfaces" /\ n.snap = l.snap
    BY <1>1, LoadAfter
  <2>2. loads' \subseteq (loads \ {l}) \cup {n} /\ host' = [host EXCEPT !.current = l.snap]
    BY <1>2 DEF Publish, Move
  <2> HIDE DEF n
  <2> QED
    BY <1>1, <1>2, <2>1, <2>2, LatestShows DEF Latest
<1>3. CASE ~(l.rev = host.revision /\ Owned(l.snap)) /\ ~l.tick /\ l.rev = host.revision
  <2>1. Awaited(l) /\ loads' = loads \ {l} /\ host' = [host EXCEPT !.current = NoSnapshot]
    BY <1>1, <1>3 DEF Publish, Awaited, Latest
  <2> QED
    BY <1>1, <2>1, LatestFails
<1>4. CASE ~(l.rev = host.revision /\ Owned(l.snap)) /\ ~(~l.tick /\ l.rev = host.revision)
  BY <1>1, <1>4, LoadsEnd DEF Publish, SameShown
<1> QED
  BY <1>2, <1>3, <1>4

LEMMA ChecksKeep ==
    ASSUME RestOK, ScreenInv, NEW l \in loads, CheckShown(l) \/ ShowFailure(l)
    PROVE  ScreenInv'
<1>1. SameMode /\ SameCaptives /\ l \in LoadRecords
  BY LoadStepParts DEF LoadStep
<1>2. CASE CheckShown(l) /\ Owned(l.snap)
  BY <1>1, <1>2, LoadsEnd DEF CheckShown, SameShown
<1>3. CASE CheckShown(l) /\ ~Owned(l.snap)
  <2> DEFINE n == [l EXCEPT !.pc = "failure"]
  <2>1. loads' = (loads \ {l}) \cup {n} /\ host' = host /\ l.pc = "failed"
    BY <1>3 DEF CheckShown, Move
  <2>2. n.rev = l.rev /\ n.tick = l.tick /\ n.pc = "failure" /\ n.snap = l.snap
    BY <1>1, LoadAfter
  <2> HIDE DEF n
  <2>3. Latest(l) => Alike(l.snap, host.current)
    BY <2>1 DEF ScreenInv, FailedInv
  <2>4. Fits(n) /\ SameShown
    BY <1>3, <2>1, <2>2, <2>3 DEF Fits, SameShown, ScreenInv, LoadsInv, Latest, Alike, Owned
  <2> QED
    BY <1>1, <2>1, <2>2, <2>4, LoadGoesOn
<1>4. CASE ShowFailure(l) /\ l.rev = host.revision
  <2>1. Awaited(l) /\ loads' = loads \ {l} /\ host' = [host EXCEPT !.current = NoSnapshot]
    BY <1>4 DEF ShowFailure, Awaited, Latest
  <2> QED
    BY <1>1, <2>1, LatestFails
<1>5. CASE ShowFailure(l) /\ l.rev # host.revision
  BY <1>1, <1>5, LoadsEnd DEF ShowFailure, SameShown
<1> QED
  BY <1>2, <1>3, <1>4, <1>5

LEMMA NewLoadFields ==
    ASSUME NEW rev
    PROVE  /\ NewLoad(rev).rev = rev /\ NewLoad(rev).pc = "preferences" /\ NewLoad(rev).snap = NoSnapshot
           /\ NewTick(rev).rev = rev /\ NewTick(rev).pc = "ask" /\ NewTick(rev).snap = NoSnapshot
BY DEF NewLoad, NewTick

\* A new revision is higher, and shows what was shown, or nothing.
LEMMA RevisionBegins ==
    ASSUME RestOK, Reload \/ Tick \/ BeginSwitch \/ EndSwitch \/ CredentialsChanged
    PROVE  /\ host'.revision > host.revision /\ host'.current \in {host.current, NoSnapshot}
           /\ host'.ready = host.ready
<1>1. CASE Reload \/ Tick
  BY <1>1 DEF Reload, Tick, RestOK, HostOK, HostStates
<1>2. CASE BeginSwitch
  BY <1>2 DEF BeginSwitch, Raised, RestOK, HostOK, HostStates
<1>3. CASE EndSwitch
  BY <1>3 DEF EndSwitch, RestOK, HostOK, HostStates
<1>4. CASE CredentialsChanged
  BY <1>4 DEF CredentialsChanged, RestOK, HostOK, HostStates
<1> QED
  BY <1>1, <1>2, <1>3, <1>4

\* Reloads, ticks, the switch and a changed credential each begin a revision.
LEMMA RisesKeep ==
    ASSUME RestOK, RestOK', ScreenInv,
           Reload \/ Tick \/ BeginSwitch \/ EndSwitch \/ CredentialsChanged
    PROVE  ScreenInv'
<1>1. UNCHANGED <<edits, epoch, stored>> /\ SameCaptives
  BY SameEdits DEF Reload, Tick, BeginSwitch, EndSwitch, CredentialsChanged, device
<1>2. PICK n : /\ loads' \subseteq loads \cup {n} /\ n \in {NewLoad(host'.revision), NewTick(host'.revision)}
               /\ n = NewTick(host'.revision) => host.ready
  <2>1. CASE Reload \/ EndSwitch \/ CredentialsChanged
    <3>1. loads' = loads \cup {NewLoad(host'.revision)}
      BY <2>1 DEF Reload, EndSwitch, CredentialsChanged, RestOK, HostOK, HostStates
    <3>2. NewLoad(host'.revision) # NewTick(host'.revision)
      BY NewLoadFields
    <3> QED
      BY <3>1, <3>2
  <2>2. CASE Tick
    <3>1. loads' = loads \cup {NewTick(host'.revision)} /\ host.ready
      BY <2>2 DEF Tick, RestOK, HostOK, HostStates
    <3> QED
      BY <3>1
  <2>3. CASE BeginSwitch
    <3>1. NewLoad(host'.revision) # NewTick(host'.revision)
      BY NewLoadFields
    <3> QED
      BY <2>3, <3>1 DEF BeginSwitch
  <2> QED
    BY <2>1, <2>2, <2>3
<1>3. NewerLoad(n)
  BY <1>2, NewLoadFields DEF NewerLoad
<1>4. /\ host'.revision > host.revision /\ host'.current \in {host.current, NoSnapshot}
      /\ host'.ready = host.ready
  BY RevisionBegins
<1>5. switch' \in {"idle", "replaced"} /\ host.ready => host'.demo = stored.demo
  <2>1. CASE EndSwitch
    BY <2>1 DEF EndSwitch, RestOK, HostOK, HostStates
  <2>2. CASE BeginSwitch
    BY <2>2 DEF BeginSwitch
  <2>3. CASE Reload \/ Tick \/ CredentialsChanged
    <3>1. switch' \in {"idle", "replaced"} => switch \in {"idle", "replaced"}
      BY <2>3 DEF Reload, Tick, CredentialsChanged, device
    <3>2. host'.demo = host.demo
      BY <2>3 DEF Reload, Tick, CredentialsChanged, RestOK, HostOK, HostStates
    <3> QED
      BY <3>1, <3>2 DEF ScreenInv, ModeInv
  <2> QED
    BY <2>1, <2>2, <2>3
<1> QED
  BY <1>1, <1>2, <1>3, <1>4, <1>5, RevisionRises

\* What leaves the screen and the device alone, but for loads and edits that end.
LEMMA OthersKeepScreen ==
    ASSUME RestOK, EditInv, ScreenInv,
           \/ \E e \in Edits : MakeEdit(e) \/ WriteEdit(e)
           \/ Resync \/ Deliver \/ BeginWidget \/ EndWidget \/ Poll \/ PollStep
           \/ Providers \/ Look \/ LoseLook \/ UNCHANGED vars
    PROVE  ScreenInv'
<1>1. host' = host /\ loads' \subseteq loads /\ epoch' = epoch /\ switch' = switch
  BY DEF MakeEdit, WriteEdit, Resync, Deliver, BeginWidget, EndWidget, Poll, PollStep, PollWatch, PollWidget,
         PollRecoveries, EndPoll, Providers, Look, LoseLook, vars, device, screen
<1>2. stored'.demo = stored.demo
  <2>1. stored' = stored \/ \E r : stored' = [stored EXCEPT !.rules = r]
    BY DEF MakeEdit, WriteEdit, Resync, Deliver, BeginWidget, EndWidget, Poll, PollStep, PollWatch, PollWidget,
           PollRecoveries, EndPoll, Providers, Look, LoseLook, vars, device
  <2> QED
    BY <2>1 DEF RestOK, DeviceOK
<1>3. SameCaptives
  <2>1. CASE UNCHANGED edits
    BY <2>1, SameEdits
  <2>2. ASSUME NEW e \in Edits, MakeEdit(e) \/ WriteEdit(e) PROVE SameCaptives
    <3>1. PICK x : /\ edits' = [edits EXCEPT ![e] = x]
                   /\ \/ x = [edits[e] EXCEPT !.pc = "queued"] /\ edits[e].pc = "none"
                      \/ x = [edits[e] EXCEPT !.pc = "check"] /\ edits[e].pc = "write"
                      \/ x = [NoEdit EXCEPT !.pc = "lost"]
      BY <2>2 DEF MakeEdit, WriteEdit
    <3>2. x.pc \in {"write", "check"} =>
              edits[e].pc = "write" /\ x.load = edits[e].load /\ x.snap = edits[e].snap
      BY <3>1 DEF RestOK, EditsOK, EditRecords, NoEdit
    <3>3. edits'[e] = x /\ \A f \in Edits \ {e} : edits'[f] = edits[f]
      BY <3>1 DEF RestOK, EditsOK
    <3> QED
      BY <3>2, <3>3 DEF SameCaptives, Begun
  <2>3. UNCHANGED edits \/ \E e \in Edits : MakeEdit(e) \/ WriteEdit(e)
    BY DEF Resync, Deliver, BeginWidget, EndWidget, Poll, PollStep, PollWatch, PollWidget,
           PollRecoveries, EndPoll, Providers, Look, LoseLook, vars, screen
  <2> QED
    BY <2>1, <2>2, <2>3
<1> QED
  BY <1>1, <1>2, <1>3, LoadsEnd DEF SameMode, SameShown

LEMMA ScreenInit == Init => ScreenInv
<1> SUFFICES ASSUME Init PROVE ScreenInv
  OBVIOUS
<1>1. PICK demo \in BOOLEAN :
          LET snap == [load |-> 1, demo |-> demo, epoch |-> 1, rules |-> {}, report |-> Truth({})]
          IN /\ stored = [rules |-> {}, demo |-> demo]
             /\ host = [revision |-> 1, surface |-> 0, current |-> snap, rules |-> {},
                        demo |-> demo, ready |-> TRUE]
  BY DEF Init
<1>2. loads = {} /\ epoch = 1 /\ \A e \in Edits : ~Begun(e)
  BY DEF Init, Begun, NoEdit
<1> QED
  BY <1>1, <1>2 DEF ScreenInv, LoadsInv, CurrentInv, ModeInv, CapturedInv, FailedInv, Dated, Awaited

LEMMA ScreenStep ==
    ASSUME PhoneInv, PhoneInv', ScreenInv, [Next]_vars
    PROVE  ScreenInv'
<1> USE DEF PhoneInv
<1>1. CASE \E l \in loads : LoadStep(l)
  BY <1>1, PreferencesKeep, AskKeeps, AnswerKeeps, PublishKeeps, ChecksKeep DEF LoadStep
<1>2. CASE \E e \in Edits : MakeEdit(e) \/ EditStep(e)
  BY <1>2, CapturesShown, EditShows, OthersKeepScreen DEF EditStep
<1>3. CASE Reload \/ Tick \/ BeginSwitch \/ ReplaceCredential \/ SwitchStep
  BY <1>3, RisesKeep, DeviceMoves DEF SwitchStep
<1>4. CASE \/ Resync \/ Deliver \/ BeginWidget \/ EndWidget \/ Poll \/ PollStep
           \/ Providers \/ Look \/ LoseLook \/ UNCHANGED vars
  BY <1>4, OthersKeepScreen
<1>5. CASE Die
  BY <1>5, DeathClears
<1> QED
  BY <1>1, <1>2, <1>3, <1>4, <1>5 DEF Next, Quiet

LEMMA ScreenInvariant == Spec => [](PhoneInv /\ ScreenInv)
<1>1. Init => PhoneInv /\ ScreenInv
  BY PhoneInitInv, ScreenInit
<1>2. PhoneInv /\ ScreenInv /\ [Next]_vars => (PhoneInv /\ ScreenInv)'
  BY PhoneStepInv, ScreenStep
<1> QED
  BY <1>1, <1>2, PTL DEF Spec

\* Once the demo switch is over, what the latest load shows and the flag the watch is
\* sent are of the mode that is on (_setDemoData): a load of before the switch is of an
\* older revision, however late it answers, and so is what an edit captured.
THEOREM ModeIsFollowed == Spec => []ModeFollows
<1>1. ScreenInv => ModeFollows
  BY DEF ScreenInv, CurrentInv, ModeInv, ModeFollows
<1> QED
  BY <1>1, ScreenInvariant, PTL

\* How something else comes to be shown: the latest load publishes it, or an edit.
LEMMA ShownChanges ==
    ASSUME PhoneInv, [Next]_vars, host'.current # NoSnapshot
    PROVE  \/ host'.current = host.current
           \/ \E l \in loads : Latest(l) /\ l.pc = "publish" /\ host'.current = l.snap
           \/ \E e \in Edits : FinishEdit(e) /\ Publishes(e)
<1> USE DEF PhoneInv, RestOK
<1>1. CASE \E l \in loads : LoadStep(l)
  <2>1. PICK l \in loads : LoadStep(l)
    BY <1>1
  <2>2. \/ host' = host
        \/ host' = [host EXCEPT !.rules = stored.rules, !.demo = stored.demo, !.ready = TRUE]
        \/ host' = [host EXCEPT !.current = NoSnapshot]
        \/ host' = [host EXCEPT !.current = l.snap] /\ Latest(l) /\ l.pc = "publish"
    BY <2>1 DEF LoadStep, ReadPreferences, Ask, Answer, Failed, Publish, CheckShown, ShowFailure, Latest
  <2> QED
    BY <2>2 DEF HostOK, HostStates
<1>2. CASE \E e \in Edits : MakeEdit(e) \/ EditStep(e)
  <2>1. PICK e \in Edits : MakeEdit(e) \/ BeginEdit(e) \/ WriteEdit(e) \/ FinishEdit(e)
    BY <1>2 DEF EditStep
  <2>2. CASE FinishEdit(e)
    BY <2>2, FinishEditParts
  <2>3. CASE MakeEdit(e) \/ BeginEdit(e) \/ WriteEdit(e)
    BY <2>3 DEF MakeEdit, BeginEdit, WriteEdit
  <2> QED
    BY <2>1, <2>2, <2>3
<1>3. CASE Reload \/ Tick \/ BeginSwitch \/ EndSwitch \/ CredentialsChanged
  BY <1>3 DEF Reload, Tick, BeginSwitch, EndSwitch, CredentialsChanged, Raised, HostOK, HostStates
<1>4. CASE Die
  BY <1>4 DEF Die
<1>5. CASE ~ \/ \E l \in loads : LoadStep(l)
             \/ \E e \in Edits : MakeEdit(e) \/ EditStep(e)
             \/ Reload \/ Tick \/ BeginSwitch \/ EndSwitch \/ CredentialsChanged \/ Die
  BY <1>5 DEF Next, Quiet, SwitchStep, ClearPersistentSnapshots, WriteDemo, ReplaceCredential,
              Resync, Deliver, BeginWidget, EndWidget, Poll, PollStep, PollWatch, PollWidget,
              PollRecoveries, EndPoll, Providers, Look, LoseLook, vars, device, screen
<1> QED
  BY <1>1, <1>2, <1>3, <1>4, <1>5

\* What is shown never goes back to an older load, but for the edit that captured it
\* while the load that is shown now was under way (_loadRevision,
\* _updateAlertThresholds).
THEOREM NothingOlderShown == Spec => ShownForward
<1>1. PhoneInv /\ ScreenInv /\ [Next]_vars =>
          [/\ host.current # NoSnapshot /\ host'.current # NoSnapshot
           /\ host'.current.load < host.current.load
           => \E e \in Edits : /\ edits[e].pc = "check" /\ edits'[e].pc = "saved"
                              /\ edits[e].load = host.current.load]_vars
  <2> SUFFICES ASSUME PhoneInv, ScreenInv, [Next]_vars,
                      host.current # NoSnapshot, host'.current # NoSnapshot,
                      host'.current.load < host.current.load
               PROVE  \E e \in Edits : /\ edits[e].pc = "check" /\ edits'[e].pc = "saved"
                                      /\ edits[e].load = host.current.load
    OBVIOUS
  <2> USE DEF PhoneInv
  <2>1. host'.current # host.current
    BY ScreenTypes
  <2>2. ASSUME NEW l \in loads, Latest(l), l.pc = "publish", host'.current = l.snap PROVE FALSE
    <3>1. l.snap.load = host.revision /\ host.current.load <= host.revision
      BY <2>2 DEF ScreenInv, LoadsInv, CurrentInv, Latest
    <3> QED
      BY <2>2, <3>1, ScreenTypes
  <2>3. PICK e \in Edits : FinishEdit(e) /\ Publishes(e)
    BY <2>1, <2>2, ShownChanges
  <2>4. /\ edits[e].pc = "check" /\ Begun(e) /\ host'.current = Edited(e)
        /\ edits[e].snap # NoSnapshot /\ Alike(Edited(e), edits[e].snap)
        /\ edits[e].load = host.revision
    BY <2>3, FinishEditParts DEF Publishes
  <2>5. edits'[e].pc = "saved"
    BY <2>3, FinishEditParts, EndedEditIs DEF RestOK, EditsOK
  <2>6. ~Alike(edits[e].snap, host.current)
    BY <2>4, ScreenTypes DEF Alike
  <2>7. host.current.load = host.revision
    BY <2>4, <2>6 DEF ScreenInv, CapturedInv, Captive
  <2> QED
    BY <2>4, <2>5, <2>7
<1> QED
  BY <1>1, ScreenInvariant, PTL DEF Spec, ShownForward

\* A tick that fails takes nothing from the reader that still is good
\* (_runScheduledRefresh): while it is the latest, what it looked at is what is shown,
\* but for its rules.
THEOREM GoodDataKept == Spec => KeepsGoodData
<1> DEFINE Kept(l) ==
        l.tick /\ host.current # NoSnapshot /\ Owned(host.current) =>
            host'.current # NoSnapshot \/ host'.revision < host.revision
<1>1. PhoneInv /\ ScreenInv /\ [Next]_vars => [\A l \in loads \ loads' : Kept(l)]_vars
  <2> SUFFICES ASSUME PhoneInv, ScreenInv, [Next]_vars, NEW l \in loads \ loads',
                      l.tick, host.current # NoSnapshot, Owned(host.current)
               PROVE  host'.current # NoSnapshot \/ host'.revision < host.revision
    BY DEF vars, screen
  <2> USE DEF PhoneInv
  <2>1. CASE \E m \in loads : LoadStep(m)
    <3>1. PICK m \in loads : LoadStep(m)
      BY <2>1
    <3>2. l = m
      BY <3>1 DEF LoadStep, ReadPreferences, Ask, Answer, Failed, Publish, CheckShown, ShowFailure, Move
    <3>3. \/ host' = host
          \/ host' = [host EXCEPT !.rules = stored.rules, !.demo = stored.demo, !.ready = TRUE]
          \/ host' = [host EXCEPT !.current = l.snap] /\ l.pc = "publish"
          \/ ShowFailure(l) /\ Latest(l)
      BY <3>1, <3>2
      DEF LoadStep, ReadPreferences, Ask, Answer, Failed, Publish, CheckShown, ShowFailure, Latest
    <3>4. ~(ShowFailure(l) /\ Latest(l))
      BY DEF ScreenInv, FailedInv, ShowFailure
    <3>5. l.pc = "publish" => l.snap # NoSnapshot
      BY ScreenTypes, LoadFields, RealSnapshots
    <3> QED
      BY <3>3, <3>4, <3>5 DEF RestOK, HostOK, HostStates
  <2>2. CASE Die
    <3>1. host'.revision = 1
      BY <2>2 DEF Die
    <3>2. l.rev > 1 /\ l.rev <= host.revision
      BY DEF ScreenInv, LoadsInv
    <3> QED
      BY <3>1, <3>2, ScreenTypes
  <2>3. CASE ~((\E m \in loads : LoadStep(m)) \/ Die)
    <3>1. loads \subseteq loads' \/ host' = host
      BY <2>3, Zenon DEF Next, Quiet, Reload, Tick, MakeEdit, EditStep, BeginEdit, WriteEdit, FinishEdit,
                  BeginSwitch, SwitchStep, ClearPersistentSnapshots, WriteDemo, EndSwitch,
                  CredentialsChanged, ReplaceCredential,
                  Resync, Deliver, BeginWidget, EndWidget, Poll, PollStep, PollWatch, PollWidget,
                  PollRecoveries, EndPoll, Providers, Look, LoseLook, vars, device, screen
    <3> QED
      BY <3>1, SMTT(30)
  <2> QED
    BY <2>1, <2>2, <2>3
<1> QED
  BY <1>1, ScreenInvariant, PTL DEF Spec, KeepsGoodData

-----------------------------------------------------------------------------
(***************************************************************************)
(* The surfaces.                                                            *)
(***************************************************************************)
\* A delivery asked for last.
LEMMA AskedLast ==
    ASSUME AskedOK, NEW d, asked' = Append(asked, d)
    PROVE  /\ Len(asked) \in Nat /\ DOMAIN asked = 1..Len(asked)
           /\ DOMAIN asked' = 1..(Len(asked) + 1)
           /\ asked'[Len(asked) + 1] = d
           /\ \A i \in DOMAIN asked : i \in DOMAIN asked' /\ asked'[i] = asked[i]
BY DEF AskedOK

\* The three deliveries of a reload.
LEMMA AskedThree ==
    ASSUME AskedOK, NEW a \in Deliveries, NEW b \in Deliveries, NEW c \in Deliveries,
           asked' = asked \o <<a, b, c>>
    PROVE  LET n == Len(asked)
           IN  /\ n \in Nat /\ DOMAIN asked' = 1..(n + 3)
               /\ asked'[n + 2] = b /\ asked'[n + 3] = c
BY DEF AskedOK

DeliveryFields(d, to, s) ==
    d.to = to /\ d.snap = s /\ d.surface = host.surface

LEMMA DeliveryHas ==
    ASSUME NEW to, NEW s
    PROVE  /\ DeliveryFields(Delivery(to, s), to, s)
           /\ LET d == [Delivery(to, s) EXCEPT !.tick = TRUE]
              IN  DeliveryFields(d, to, s) /\ d.tick
BY DEF DeliveryFields, Delivery

\* The same is shown, or nothing that counts.
SameOrHidden ==
    Shown' => /\ Shown /\ epoch' = epoch /\ host'.surface = host.surface
              /\ host'.current.load = host.current.load

LEMMA SurfacesUntouched ==
    ASSUME SurfaceInv, UNCHANGED <<asked, watch, widget>>,
           SameOrHidden, Shown' => host'.current = host.current
    PROVE  SurfaceInv'
BY DEF SurfaceInv, WatchInv, WidgetInv, TickComes, GoodComes, GoodArrived, Good, GoodDelivery,
       Due, Owned, SameOrHidden

\* A delivery to the watch concerns the widget only if it is a tick's.
LEMMA WatchAsked ==
    ASSUME AskedOK, WidgetInv, SameOrHidden, UNCHANGED widget,
           NEW d, d.to = "watch", asked' = Append(asked, d)
    PROVE  WidgetInv'
<1>1. widget.writing # Nothing => widget.first = widget.writing \/ widget.first.by # "host"
  BY DEF WidgetInv
<1> SUFFICES ASSUME Shown' PROVE (TickComes \/ GoodComes \/ GoodArrived)'
  BY <1>1 DEF WidgetInv
<1>2. /\ Shown /\ epoch' = epoch /\ host'.surface = host.surface
      /\ host'.current.load = host.current.load
  BY DEF SameOrHidden
<1>3. /\ \A i \in DOMAIN asked : i \in DOMAIN asked' /\ asked'[i] = asked[i]
      /\ \A i \in DOMAIN asked' : i \in DOMAIN asked \/ asked'[i] = d
  BY AskedLast
<1>4. CASE TickComes
  BY <1>2, <1>3, <1>4 DEF TickComes, Owned
<1>5. CASE GoodComes
  <2>1. PICK i \in DOMAIN asked :
            /\ Due(asked[i], "widget") /\ GoodDelivery(asked[i])
            /\ \A j \in DOMAIN asked : j > i /\ Due(asked[j], "widget") => GoodDelivery(asked[j])
    BY <1>5 DEF GoodComes
  <2>2. Due(asked[i], "widget")' /\ GoodDelivery(asked[i])'
    BY <1>2, <1>3, <2>1 DEF Due, GoodDelivery, Owned
  <2>3. ASSUME NEW j \in DOMAIN asked', j > i, Due(asked[j], "widget")'
        PROVE  GoodDelivery(asked[j])'
    BY <1>2, <1>3, <2>1, <2>3 DEF Due, GoodDelivery, Owned
  <2> QED
    BY <1>3, <2>2, <2>3 DEF GoodComes
<1>6. CASE GoodArrived
  BY <1>2, <1>3, <1>6 DEF GoodArrived, Good, GoodDelivery, Due, Owned
<1> QED
  BY <1>2, <1>4, <1>5, <1>6 DEF WidgetInv

\* A delivery of what is shown, last to the watch, settles what it is going to have.
LEMMA WatchSettled ==
    ASSUME NEW i \in DOMAIN asked', Due(asked[i], "watch")', asked'[i].snap = host'.current,
           \A j \in DOMAIN asked' : j > i => asked'[j].to # "watch"
    PROVE  WatchInv'
BY DEF WatchInv, Due

LEMMA ResyncReaches ==
    ASSUME RestOK, SurfaceInv, Resync
    PROVE  SurfaceInv'
<1> DEFINE d == Delivery("watch", host.current)
<1>1. asked' = Append(asked, d) /\ UNCHANGED <<host, epoch, switch, watch, widget>>
  BY DEF Resync, device, surfaces
<1>2. DeliveryFields(d, "watch", host.current)
  BY DeliveryHas
<1> HIDE DEF d
<1>3. SameOrHidden
  BY <1>1 DEF SameOrHidden, Shown, Owned
<1>4. WidgetInv'
  BY <1>1, <1>2, <1>3, WatchAsked DEF SurfaceInv, RestOK, DeliveryFields
<1>5. WatchInv'
  <2> SUFFICES ASSUME Shown' PROVE WatchInv'
    BY DEF WatchInv
  <2>1. Owned(host.current)'
    BY DEF Shown
  <2>2. PICK n \in DOMAIN asked' : asked'[n] = d /\ \A j \in DOMAIN asked' : ~(j > n)
    BY <1>1, AskedLast DEF RestOK
  <2>3. Due(asked[n], "watch")' /\ asked'[n].snap = host'.current
    BY <1>1, <1>2, <2>1, <2>2 DEF Due, DeliveryFields
  <2> QED
    BY <2>2, <2>3, WatchSettled
<1> QED
  BY <1>4, <1>5 DEF SurfaceInv

\* What is published is delivered: at once, or by a tick to the watch and on.
LEMMA PublishReaches ==
    ASSUME RestOK, ScreenInv, SurfaceInv, NEW l \in loads, Publish(l)
    PROVE  SurfaceInv'
<1>1. UNCHANGED <<watch, widget, epoch, switch>>
  BY DEF Publish, device, surfaces
<1>2. \A s : LET h == [host EXCEPT !.current = s]
             IN  h.revision = host.revision /\ h.surface = host.surface /\ h.current = s
  BY DEF RestOK, HostOK, HostStates
<1>3. CASE ~(l.rev = host.revision /\ Owned(l.snap))
  <2>1. asked' = asked /\ (host' = host \/ host' = [host EXCEPT !.current = NoSnapshot])
    BY <1>3 DEF Publish
  <2>2. Shown' => host' = host
    BY <1>2, <2>1 DEF Shown
  <2>3. SameOrHidden /\ (Shown' => host'.current = host.current)
    BY <1>1, <2>2 DEF SameOrHidden, Shown, Owned
  <2> QED
    BY <1>1, <2>1, <2>3, SurfacesUntouched
<1>4. ASSUME l.rev = host.revision, Owned(l.snap)
      PROVE  /\ host'.current = l.snap /\ host'.surface = host.surface /\ l.snap \in Snapshots
             /\ Owned(l.snap)'
  BY <1>1, <1>2, <1>4, ScreenTypes, LoadFields DEF Publish, Owned
<1>5. widget'.writing # Nothing => widget'.first = widget'.writing \/ widget'.first.by # "host"
  BY <1>1 DEF SurfaceInv, WidgetInv
<1>6. CASE l.rev = host.revision /\ Owned(l.snap) /\ l.tick
  <2> DEFINE d == [Delivery("watch", l.snap) EXCEPT !.tick = TRUE]
  <2>1. asked' = Append(asked, d)
    BY <1>6 DEF Publish
  <2>2. DeliveryFields(d, "watch", l.snap) /\ d.tick
    BY DeliveryHas
  <2> HIDE DEF d
  <2>3. PICK n \in DOMAIN asked' : asked'[n] = d /\ \A j \in DOMAIN asked' : ~(j > n)
    BY <2>1, AskedLast DEF RestOK
  <2>4. Due(asked[n], "watch")' /\ asked'[n].snap = host'.current
    BY <1>4, <1>6, <2>2, <2>3 DEF Due, DeliveryFields
  <2>5. WatchInv'
    BY <2>3, <2>4, WatchSettled
  <2>6. TickComes'
    BY <1>4, <1>6, <2>2, <2>3 DEF TickComes, DeliveryFields
  <2> QED
    BY <1>5, <2>5, <2>6 DEF SurfaceInv, WidgetInv
<1>7. CASE l.rev = host.revision /\ Owned(l.snap) /\ ~l.tick
  <2> DEFINE a == Delivery("recoveries", l.snap)
             b == Delivery("watch", l.snap)
             c == Delivery("widget", l.snap)
  <2>1. asked' = asked \o <<a, b, c>>
    BY <1>7 DEF Publish
  <2>2. DeliveryFields(b, "watch", l.snap) /\ DeliveryFields(c, "widget", l.snap)
    BY DeliveryHas
  <2>3. a \in Deliveries /\ b \in Deliveries /\ c \in Deliveries
    BY <1>4, <1>7, DeliveryType DEF RestOK
  <2> HIDE DEF a, b, c
  <2>4. PICK n \in Nat : /\ DOMAIN asked' = 1..(n + 3)
                         /\ asked'[n + 2] = b /\ asked'[n + 3] = c
    BY <2>1, <2>3, AskedThree DEF RestOK
  <2>5. /\ Due(asked[n + 2], "watch")' /\ asked'[n + 2].snap = host'.current
        /\ Due(asked[n + 3], "widget")' /\ asked'[n + 3].snap = host'.current
        /\ asked'[n + 3].to # "watch"
    BY <1>4, <1>7, <2>2, <2>4 DEF Due, DeliveryFields
  <2>6. /\ n + 2 \in DOMAIN asked' /\ n + 3 \in DOMAIN asked'
        /\ \A j \in DOMAIN asked' : j > n + 2 => j = n + 3
        /\ \A j \in DOMAIN asked' : ~(j > n + 3)
    BY <2>4
  <2>7. WatchInv'
    BY <2>5, <2>6 DEF WatchInv
  <2>8. GoodComes'
    BY <2>5, <2>6 DEF GoodComes, GoodDelivery
  <2> QED
    BY <1>5, <2>7, <2>8 DEF SurfaceInv, WidgetInv
<1> QED
  BY <1>3, <1>6, <1>7

LEMMA EditReaches ==
    ASSUME RestOK, EditInv, ScreenInv, SurfaceInv, NEW e \in Edits, FinishEdit(e)
    PROVE  SurfaceInv'
<1>1. /\ Begun(e) /\ UNCHANGED <<epoch, switch>>
      /\ host'.revision = host.revision /\ host'.surface = host.surface
  BY FinishEditParts
<1>2. UNCHANGED <<watch, widget>>
  BY DEF FinishEdit, surfaces
<1>3. CASE ~Publishes(e)
  <2>1. host'.current = host.current /\ asked' = asked
    BY <1>3, FinishEditParts
  <2>2. SameOrHidden
    BY <1>1, <2>1 DEF SameOrHidden, Shown, Owned
  <2> QED
    BY <1>2, <2>1, <2>2, SurfacesUntouched
<1>4. CASE Publishes(e)
  <2> DEFINE s == Edited(e)
             d == Delivery("watch", s)
  <2>1. /\ host'.current = s /\ asked' = Append(asked, d) /\ s # NoSnapshot
        /\ edits[e].snap # NoSnapshot /\ Alike(s, edits[e].snap)
    BY <1>4, FinishEditParts DEF Publishes
  <2>2. Owned(s) /\ edits[e].load = host.revision
    BY <1>4, <2>1 DEF Publishes, Alike, Owned
  <2>3. DeliveryFields(d, "watch", s)
    BY DeliveryHas
  <2> HIDE DEF s, d
  <2>4. \/ Alike(s, host.current)
        \/ s.load < host.revision
    BY <1>1, <2>1, <2>2 DEF ScreenInv, CapturedInv, Captive, Alike
  <2>5. SameOrHidden
    BY <1>1, <2>1, <2>2, <2>4, ScreenTypes DEF SameOrHidden, Shown, Owned, Alike
  <2>6. WidgetInv'
    BY <1>2, <2>1, <2>3, <2>5, WatchAsked DEF SurfaceInv, RestOK, DeliveryFields
  <2>7. PICK n \in DOMAIN asked' : asked'[n] = d /\ \A j \in DOMAIN asked' : ~(j > n)
    BY <2>1, AskedLast DEF RestOK
  <2>8. Due(asked[n], "watch")' /\ asked'[n].snap = host'.current
    BY <1>1, <2>1, <2>2, <2>3, <2>7 DEF Due, DeliveryFields, Owned
  <2> QED
    BY <2>6, <2>7, <2>8, WatchSettled DEF SurfaceInv
<1> QED
  BY <1>3, <1>4

\* Steps that leave deliveries and surfaces alone, and show nothing new.
LEMMA NothingDelivered ==
    ASSUME RestOK, RestOK', ScreenInv, SurfaceInv,
           \/ \E l \in loads : ReadPreferences(l) \/ Ask(l) \/ Answer(l) \/ CheckShown(l) \/ ShowFailure(l)
           \/ \E e \in Edits : MakeEdit(e) \/ BeginEdit(e) \/ WriteEdit(e)
           \/ Reload \/ Tick \/ BeginSwitch \/ ReplaceCredential \/ SwitchStep
           \/ Poll \/ PollRecoveries \/ EndPoll \/ Providers \/ Look \/ LoseLook \/ UNCHANGED vars
    PROVE  SurfaceInv'
<1>1. UNCHANGED <<asked, watch, widget>>
  BY DEF ReadPreferences, Ask, Answer, CheckShown, ShowFailure, MakeEdit, BeginEdit, WriteEdit, Reload,
         Tick, BeginSwitch, ReplaceCredential, SwitchStep, ClearPersistentSnapshots, WriteDemo, EndSwitch,
         CredentialsChanged, Poll, PollRecoveries, EndPoll, Providers, Look, LoseLook,
         vars, screen, surfaces
<1>2. CASE Reload \/ Tick \/ BeginSwitch \/ EndSwitch \/ CredentialsChanged
  <2>1. /\ host'.revision > host.revision /\ host'.current \in {host.current, NoSnapshot}
    BY <1>2, RevisionBegins
  <2>2. ~Shown'
    BY <2>1, ScreenTypes DEF Shown, ScreenInv, CurrentInv
  <2> QED
    BY <1>1, <2>2, SurfacesUntouched DEF SameOrHidden
<1>3. CASE ReplaceCredential \/ ClearPersistentSnapshots \/ WriteDemo
  <2>1. ~Shown'
    BY <1>3 DEF ReplaceCredential, ClearPersistentSnapshots, WriteDemo, Shown
  <2> QED
    BY <1>1, <2>1, SurfacesUntouched DEF SameOrHidden
<1>4. CASE ~ \/ Reload \/ Tick \/ BeginSwitch \/ EndSwitch \/ CredentialsChanged
             \/ ReplaceCredential \/ ClearPersistentSnapshots \/ WriteDemo
  <2>1. epoch' = epoch /\ switch' = switch
    BY <1>4 DEF ReadPreferences, Ask, Answer, CheckShown, ShowFailure, MakeEdit, BeginEdit, WriteEdit,
                SwitchStep, Poll, PollRecoveries, EndPoll, Providers, Look, LoseLook, vars, device
  <2>2. \/ host' = host
        \/ host' = [host EXCEPT !.rules = stored.rules, !.demo = stored.demo, !.ready = TRUE]
        \/ host' = [host EXCEPT !.current = NoSnapshot]
    BY <1>4 DEF ReadPreferences, Ask, Answer, Failed, CheckShown, ShowFailure, MakeEdit, BeginEdit,
                WriteEdit, SwitchStep, Poll, PollRecoveries, EndPoll, Providers, Look, LoseLook, vars, screen
  <2>3. Shown' => /\ host'.current = host.current /\ host'.revision = host.revision
                  /\ host'.surface = host.surface
    BY <2>2 DEF Shown, RestOK, HostOK, HostStates
  <2> QED
    BY <1>1, <2>1, <2>3, SurfacesUntouched DEF SameOrHidden, Shown, Owned
<1> QED
  BY <1>2, <1>3, <1>4

\* A tick's delivery to the widget comes last.
TickDelivery(d, s) == DeliveryFields(d, "widget", s) /\ d.tick

LEMMA DeliverParts ==
    ASSUME RestOK, Deliver
    PROVE  LET d == asked[1]
           IN  /\ 1 \in DOMAIN asked /\ DOMAIN asked \subseteq Nat /\ DOMAIN asked' \subseteq Nat \ {0}
               /\ \A i \in DOMAIN asked : i # 1 => i > 1 /\ i - 1 \in DOMAIN asked' /\ asked'[i - 1] = asked[i]
               /\ \A j \in DOMAIN asked' :
                     \/ j + 1 \in DOMAIN asked /\ asked'[j] = asked[j + 1]
                     \/ TickDelivery(asked'[j], d.snap)
               /\ d.tick /\ d.to = "watch" =>
                     \E n \in DOMAIN asked' : /\ TickDelivery(asked'[n], d.snap)
                                             /\ \A j \in DOMAIN asked' : ~(j > n)
               /\ UNCHANGED <<host, epoch, switch>>
               /\ watch' = IF Due(d, "watch")
                           THEN [by |-> "host", snap |-> d.snap, demo |-> host.demo] ELSE watch
               /\ widget' = IF Due(d, "widget")
                            THEN [widget EXCEPT !.latest = ByHost(d.snap.load, d.tick)] ELSE widget
<1> DEFINE d == asked[1]
           t == [Delivery("widget", d.snap) EXCEPT !.tick = TRUE]
<1>1. asked \in Seq(Deliveries) /\ asked # <<>> /\ Head(asked) = d
  BY DEF RestOK, AskedOK, Deliver
<1>2. /\ Tail(asked) \in Seq(Deliveries) /\ Len(Tail(asked)) = Len(asked) - 1
      /\ Len(asked) \in Nat /\ Len(asked) >= 1 /\ DOMAIN asked = 1..Len(asked)
      /\ \A i \in 1..(Len(asked) - 1) : Tail(asked)[i] = asked[i + 1]
  BY <1>1, HeadTailProperties
<1>3. TickDelivery(t, d.snap)
  BY DeliveryHas DEF TickDelivery, DeliveryFields, Delivery
<1>4. d \in Deliveries /\ t \in Deliveries
  BY <1>1, NextAsked, DeliveryType DEF RestOK
<1>5. asked' = IF d.tick /\ d.to = "watch" THEN Tail(asked) \o <<t>> ELSE Tail(asked) \o <<>>
  BY <1>1 DEF Deliver
<1>6. /\ UNCHANGED <<host, epoch, switch>>
      /\ watch' = IF Due(d, "watch")
                  THEN [by |-> "host", snap |-> d.snap, demo |-> host.demo] ELSE watch
      /\ widget' = IF Due(d, "widget")
                   THEN [widget EXCEPT !.latest = ByHost(d.snap.load, d.tick)] ELSE widget
  BY <1>1 DEF Deliver, Due, device
<1> HIDE DEF d, t
<1>7. CASE d.tick /\ d.to = "watch"
  <2>1. asked' = Tail(asked) \o <<t>>
    BY <1>5, <1>7
  <2>2. <<t>> \in Seq(Deliveries) /\ Len(<<t>>) = 1 /\ <<t>>[1] = t
    BY <1>4, SMTT(30)
  <2>3. /\ asked' \in Seq(Deliveries) /\ Len(asked') = Len(asked)
        /\ \A i \in 1..Len(asked) :
              asked'[i] = IF i <= Len(asked) - 1 THEN Tail(asked)[i] ELSE <<t>>[i - (Len(asked) - 1)]
    <3> DEFINE q == Tail(asked)
               w == <<t>>
    <3>1. asked' = q \o w /\ q \in Seq(Deliveries) /\ w \in Seq(Deliveries)
          /\ Len(q) = Len(asked) - 1 /\ Len(w) = 1 /\ Len(asked) \in Nat
      BY <1>2, <2>1, <2>2
    <3> HIDE DEF q, w
    <3>2. /\ q \o w \in Seq(Deliveries) /\ Len(q \o w) = Len(q) + Len(w)
          /\ \A i \in 1..(Len(q) + Len(w)) :
                (q \o w)[i] = IF i <= Len(q) THEN q[i] ELSE w[i - Len(q)]
      BY <3>1, ConcatProperties
    <3>3. Len(q) + Len(w) = Len(asked)
      BY <3>1
    <3> QED
      BY <3>1, <3>2, <3>3 DEF q, w
  <2>4. /\ DOMAIN asked' = 1..Len(asked) /\ asked'[Len(asked)] = t
        /\ \A i \in 1..(Len(asked) - 1) : asked'[i] = asked[i + 1]
    BY <1>2, <2>2, <2>3
  <2> QED
    BY <1>2, <1>3, <1>6, <2>4 DEF d
<1>8. CASE ~(d.tick /\ d.to = "watch")
  <2>1. asked' = Tail(asked)
    BY <1>2, <1>5, <1>8, ConcatEmptySeq
  <2> QED
    BY <1>2, <1>6, <1>8, <2>1, SMTT(30) DEF d
<1> QED
  BY <1>7, <1>8

LEMMA WatchDelivered ==
    ASSUME RestOK, ScreenInv, WatchInv, Deliver
    PROVE  WatchInv'
<1> DEFINE d == asked[1]
<1>1. /\ 1 \in DOMAIN asked /\ DOMAIN asked \subseteq Nat /\ DOMAIN asked' \subseteq Nat \ {0}
      /\ \A i \in DOMAIN asked : i # 1 => i > 1 /\ i - 1 \in DOMAIN asked' /\ asked'[i - 1] = asked[i]
      /\ \A j \in DOMAIN asked' :
            \/ j + 1 \in DOMAIN asked /\ asked'[j] = asked[j + 1]
            \/ TickDelivery(asked'[j], d.snap)
      /\ UNCHANGED <<host, epoch, switch>>
      /\ watch' = IF Due(d, "watch")
                  THEN [by |-> "host", snap |-> d.snap, demo |-> host.demo] ELSE watch
  BY DeliverParts
<1> HIDE DEF d
<1> SUFFICES ASSUME Shown' PROVE WatchInv'
  BY DEF WatchInv
<1>2. Shown
  BY <1>1 DEF Shown, Owned
<1>3. \A j \in DOMAIN asked' : Due(asked[j], "watch")' =>
          j + 1 \in DOMAIN asked /\ asked'[j] = asked[j + 1] /\ Due(asked[j + 1], "watch")
  BY <1>1 DEF Due, Owned, TickDelivery, DeliveryFields
<1>4. CASE \A i \in DOMAIN asked : ~Due(asked[i], "watch")
  <2>1. watch' = watch
    BY <1>1, <1>4 DEF d
  <2>2. watch.by = "host" => watch.snap = host.current /\ watch.demo = host.current.demo
    BY <1>2, <1>4 DEF WatchInv
  <2> QED
    BY <1>1, <1>3, <1>4, <2>1, <2>2 DEF WatchInv
<1>5. CASE \E i \in DOMAIN asked :
              /\ Due(asked[i], "watch") /\ asked[i].snap = host.current
              /\ \A j \in DOMAIN asked :
                    j > i /\ Due(asked[j], "watch") => asked[j].snap = host.current
  <2>1. PICK i \in DOMAIN asked :
              /\ Due(asked[i], "watch") /\ asked[i].snap = host.current
              /\ \A j \in DOMAIN asked :
                    j > i /\ Due(asked[j], "watch") => asked[j].snap = host.current
    BY <1>5
  <2>2. CASE i # 1
    <3>1. i - 1 \in DOMAIN asked' /\ asked'[i - 1] = asked[i] /\ i \in Nat
      BY <1>1, <2>2
    <3>2. Due(asked[i - 1], "watch")' /\ asked'[i - 1].snap = host'.current
      BY <1>1, <2>1, <3>1 DEF Due, Owned
    <3>3. ASSUME NEW j \in DOMAIN asked', j > i - 1, Due(asked[j], "watch")'
          PROVE  asked'[j].snap = host'.current
      <4>1. j + 1 > i
        BY <1>1, <3>1, <3>3
      <4> QED
        BY <1>1, <1>3, <2>1, <3>3, <4>1
    <3> QED
      BY <3>1, <3>2, <3>3 DEF WatchInv
  <2>3. CASE i = 1
    <3>1. /\ watch' = [by |-> "host", snap |-> d.snap, demo |-> host.demo]
          /\ d.snap = host.current
      BY <1>1, <2>1, <2>3 DEF d
    <3>2. host.demo = host.current.demo
      BY <1>2 DEF Shown, ScreenInv, CurrentInv, ModeInv
    <3>3. watch'.snap = host'.current /\ watch'.demo = host'.current.demo
      BY <1>1, <3>1, <3>2
    <3>4. ASSUME NEW j \in DOMAIN asked', Due(asked[j], "watch")'
          PROVE  asked'[j].snap = host'.current
      <4>1. j + 1 > i
        BY <1>1, <1>3, <2>3, <3>4
      <4> QED
        BY <1>1, <1>3, <2>1, <3>4, <4>1
    <3> QED
      BY <3>3, <3>4 DEF WatchInv
  <2> QED
    BY <2>2, <2>3
<1> QED
  BY <1>2, <1>4, <1>5 DEF WatchInv

LEMMA WidgetDelivered ==
    ASSUME RestOK, WidgetInv, Deliver
    PROVE  WidgetInv'
<1> DEFINE d == asked[1]
<1>1. /\ 1 \in DOMAIN asked /\ DOMAIN asked \subseteq Nat /\ DOMAIN asked' \subseteq Nat \ {0}
      /\ \A i \in DOMAIN asked : i # 1 => i > 1 /\ i - 1 \in DOMAIN asked' /\ asked'[i - 1] = asked[i]
      /\ \A j \in DOMAIN asked' :
            \/ j + 1 \in DOMAIN asked /\ asked'[j] = asked[j + 1]
            \/ TickDelivery(asked'[j], d.snap)
      /\ d.tick /\ d.to = "watch" =>
            \E n \in DOMAIN asked' : /\ TickDelivery(asked'[n], d.snap)
                                    /\ \A j \in DOMAIN asked' : ~(j > n)
      /\ UNCHANGED <<host, epoch, switch>>
      /\ widget' = IF Due(d, "widget")
                   THEN [widget EXCEPT !.latest = ByHost(d.snap.load, d.tick)] ELSE widget
  BY DeliverParts
<1>2. /\ Due(d, "widget") =>
            /\ widget'.latest = ByHost(d.snap.load, d.tick) /\ widget'.latest # Nothing
            /\ GoodDelivery(d) => Good(widget'.latest)
      /\ ~Due(d, "widget") => widget' = widget
      /\ widget'.first = widget.first /\ widget'.last = widget.last
      /\ widget'.writing = widget.writing
  BY <1>1 DEF RestOK, SurfacesOK, WidgetStates, ByHost, Nothing, Good, GoodDelivery
<1>3. widget'.writing # Nothing => widget'.first = widget'.writing \/ widget'.first.by # "host"
  BY <1>2 DEF WidgetInv
<1> SUFFICES ASSUME Shown' PROVE (TickComes \/ GoodComes \/ GoodArrived)'
  BY <1>3 DEF WidgetInv
<1>4. Shown
  BY <1>1 DEF Shown, Owned
\* Whatever is due afterwards was due before, or is a tick's.
<1>5. \A j \in DOMAIN asked' : Due(asked[j], "widget")' =>
          \/ GoodDelivery(asked[j])'
          \/ /\ j + 1 \in DOMAIN asked /\ asked'[j] = asked[j + 1] /\ Due(asked[j + 1], "widget")
             /\ GoodDelivery(asked[j + 1]) => GoodDelivery(asked[j])'
  BY <1>1 DEF Due, Owned, TickDelivery, GoodDelivery
<1>6. CASE TickComes
  <2>1. PICK i \in DOMAIN asked : asked[i].to = "watch" /\ asked[i].tick /\ Owned(asked[i].snap)
    BY <1>6 DEF TickComes
  <2>2. CASE i # 1
    BY <1>1, <2>1, <2>2 DEF TickComes, Owned
  <2>3. CASE i = 1
    <3>1. PICK n \in DOMAIN asked' : /\ TickDelivery(asked'[n], d.snap)
                                    /\ \A j \in DOMAIN asked' : ~(j > n)
      BY <1>1, <2>1, <2>3
    <3>2. Due(asked[n], "widget")' /\ GoodDelivery(asked[n])'
      BY <1>1, <2>1, <2>3, <3>1 DEF TickDelivery, DeliveryFields, Due, Owned, GoodDelivery
    <3> QED
      BY <3>1, <3>2 DEF GoodComes
  <2> QED
    BY <2>2, <2>3
<1>7. CASE GoodComes
  <2>1. PICK i \in DOMAIN asked :
            /\ Due(asked[i], "widget") /\ GoodDelivery(asked[i])
            /\ \A j \in DOMAIN asked : j > i /\ Due(asked[j], "widget") => GoodDelivery(asked[j])
    BY <1>7 DEF GoodComes
  <2>2. CASE i # 1
    <3>1. i - 1 \in DOMAIN asked' /\ asked'[i - 1] = asked[i] /\ i \in Nat
      BY <1>1, <2>2
    <3>2. Due(asked[i - 1], "widget")' /\ GoodDelivery(asked[i - 1])'
      BY <1>1, <2>1, <3>1 DEF Due, Owned, GoodDelivery
    <3>3. ASSUME NEW j \in DOMAIN asked', j > i - 1, Due(asked[j], "widget")'
          PROVE  GoodDelivery(asked[j])'
      <4>1. j + 1 > i
        BY <1>1, <3>1, <3>3
      <4> QED
        BY <1>5, <2>1, <3>3, <4>1
    <3> QED
      BY <3>1, <3>2, <3>3 DEF GoodComes
  <2>3. CASE i = 1
    <3>1. \A j \in DOMAIN asked' : Due(asked[j], "widget")' => GoodDelivery(asked[j])'
      <4>1. \A j \in DOMAIN asked' : j + 1 > i
        BY <1>1, <2>3
      <4> QED
        BY <1>5, <2>1, <4>1
    <3>2. widget'.latest # Nothing /\ Good(widget'.latest)
      BY <1>2, <2>1, <2>3
    <3>3. Good(widget.latest)'
      BY <1>1, <3>2 DEF Good
    <3> QED
      BY <3>1, <3>2, <3>3 DEF GoodArrived
  <2> QED
    BY <2>2, <2>3
<1>8. CASE GoodArrived
  <2>1. \A j \in DOMAIN asked' : Due(asked[j], "widget")' => GoodDelivery(asked[j])'
    BY <1>5, <1>8 DEF GoodArrived
  <2>2. CASE Due(d, "widget")
    <3>1. widget'.latest # Nothing /\ Good(widget'.latest)
      BY <1>1, <1>2, <1>8, <2>2 DEF GoodArrived
    <3>2. Good(widget.latest)'
      BY <1>1, <3>1 DEF Good
    <3> QED
      BY <2>1, <3>1, <3>2 DEF GoodArrived
  <2>3. CASE ~Due(d, "widget")
    <3>1. widget' = widget
      BY <1>2, <2>3
    <3> QED
      BY <1>1, <1>8, <2>1, <3>1 DEF GoodArrived, Good
  <2> QED
    BY <2>2, <2>3
<1> QED
  BY <1>4, <1>6, <1>7, <1>8 DEF WidgetInv

\* The writes of the widget, of the host and of the poll.
LEMMA WidgetWrites ==
    ASSUME RestOK, WidgetInv, BeginWidget \/ EndWidget \/ PollWidget
    PROVE  WidgetInv'
<1>1. UNCHANGED <<host, epoch, switch, asked>>
  BY DEF BeginWidget, EndWidget, PollWidget, device, screen
<1>2. \/ widget' = widget
      \/ /\ widget.latest # Nothing /\ widget.writing = Nothing
         /\ widget'.first = widget.latest /\ widget'.last = widget.last
         /\ widget'.writing = widget.latest /\ widget'.latest = Nothing
      \/ /\ widget.writing # Nothing
         /\ widget'.first = widget.first /\ widget'.last = widget.writing
         /\ widget'.writing = Nothing /\ widget'.latest = widget.latest
      \/ /\ widget'.first.by # "host" /\ widget'.last = widget.last
         /\ widget'.writing = widget.writing /\ widget'.latest = widget.latest
      \/ /\ widget'.last.by # "host" /\ widget'.first = widget.first
         /\ widget'.writing = widget.writing /\ widget'.latest = widget.latest
  <2>1. CASE BeginWidget
    BY <2>1 DEF BeginWidget, RestOK, SurfacesOK, WidgetStates
  <2>2. CASE EndWidget
    BY <2>2 DEF EndWidget, RestOK, SurfacesOK, WidgetStates
  <2>3. CASE PollWidget
    <3>1. \/ widget' = widget
          \/ widget' = [widget EXCEPT !.first = ByPoll]
          \/ widget' = [widget EXCEPT !.last = ByPoll]
      BY <2>3 DEF PollWidget
    <3>2. ByPoll.by # "host"
      BY DEF ByPoll
    <3> QED
      BY <3>1, <3>2 DEF RestOK, SurfacesOK, WidgetStates
  <2> QED
    BY <2>1, <2>2, <2>3
<1>3. widget'.writing # Nothing => widget'.first = widget'.writing \/ widget'.first.by # "host"
  BY <1>2 DEF WidgetInv
<1>4. TickComes' = TickComes /\ GoodComes' = GoodComes /\ Shown' = Shown
  BY <1>1 DEF TickComes, GoodComes, Shown, Due, GoodDelivery, Owned
<1>5. ASSUME GoodArrived PROVE GoodArrived'
  <2>1. \A k : Good(k)' <=> Good(k)
    BY <1>1 DEF Good
  <2>2. \A i \in DOMAIN asked' : Due(asked[i], "widget")' => GoodDelivery(asked[i])'
    BY <1>1, <1>5 DEF GoodArrived, Due, GoodDelivery, Owned
  <2>3. \/ widget.latest # Nothing /\ Good(widget.latest)
        \/ widget.latest = Nothing /\ widget.writing # Nothing /\ Good(widget.writing)
        \/ /\ widget.latest = Nothing /\ widget.writing = Nothing
           /\ Good(widget.first) /\ Good(widget.last)
           /\ \/ widget.first = widget.last
              \/ widget.first.by # "host" \/ widget.last.by # "host"
    BY <1>5 DEF GoodArrived
  <2>4. \/ widget'.latest # Nothing /\ Good(widget'.latest)
        \/ widget'.latest = Nothing /\ widget'.writing # Nothing /\ Good(widget'.writing)
        \/ /\ widget'.latest = Nothing /\ widget'.writing = Nothing
           /\ Good(widget'.first) /\ Good(widget'.last)
           /\ \/ widget'.first = widget'.last
              \/ widget'.first.by # "host" \/ widget'.last.by # "host"
    <3>1. \A k : k.by # "host" => Good(k)
      BY DEF Good
    <3>2. widget.writing # Nothing => widget.first = widget.writing \/ widget.first.by # "host"
      BY DEF WidgetInv
    <3> QED
      BY <1>2, <2>3, <3>1, <3>2
  <2> QED
    BY <1>1, <2>2, <2>4 DEF GoodArrived, Good
<1> QED
  BY <1>3, <1>4, <1>5 DEF WidgetInv

\* What the poll sends to the watch is its own.
LEMMA PollReaches ==
    ASSUME RestOK, SurfaceInv, PollWatch
    PROVE  SurfaceInv'
<1>1. UNCHANGED <<host, epoch, switch, asked, widget>>
  BY DEF PollWatch, device, screen
<1>2. watch' = watch \/ watch'.by = "poll"
  BY DEF PollWatch
<1>3. WidgetInv'
  BY <1>1 DEF SurfaceInv, WidgetInv, TickComes, GoodComes, GoodArrived, Shown, Due, Good, GoodDelivery, Owned
<1>4. WatchInv'
  BY <1>1, <1>2 DEF SurfaceInv, WatchInv, Shown, Due, Owned
<1> QED
  BY <1>3, <1>4 DEF SurfaceInv

LEMMA WritesKeepWatch ==
    ASSUME WatchInv, BeginWidget \/ EndWidget \/ PollWidget
    PROVE  WatchInv'
BY DEF WatchInv, Shown, Due, Owned, BeginWidget, EndWidget, PollWidget, device, screen

LEMMA SurfaceInit == Init => SurfaceInv
<1> SUFFICES ASSUME Init PROVE SurfaceInv
  OBVIOUS
<1>1. PICK demo \in BOOLEAN :
          LET snap == [load |-> 1, demo |-> demo, epoch |-> 1, rules |-> {}, report |-> Truth({})]
          IN /\ host = [revision |-> 1, surface |-> 0, current |-> snap, rules |-> {},
                        demo |-> demo, ready |-> TRUE]
             /\ watch = [by |-> "host", snap |-> snap, demo |-> demo]
  BY DEF Init
<1>2. asked = <<>> /\ widget = [first |-> ByHost(1, FALSE), last |-> ByHost(1, FALSE),
                               latest |-> Nothing, writing |-> Nothing]
  BY DEF Init
<1>3. WatchInv
  BY <1>1, <1>2 DEF WatchInv
<1>4. WidgetInv
  BY <1>1, <1>2 DEF WidgetInv, GoodArrived, Good, ByHost
<1> QED
  BY <1>3, <1>4 DEF SurfaceInv

LEMMA DeathHides ==
    ASSUME RestOK, Die
    PROVE  SurfaceInv'
<1>1. host'.current = NoSnapshot /\ widget'.writing = Nothing
  BY DEF Die, RestOK, SurfacesOK, WidgetStates
<1> QED
  BY <1>1 DEF SurfaceInv, WatchInv, WidgetInv, Shown

LEMMA SurfaceStep ==
    ASSUME PhoneInv, PhoneInv', ScreenInv, SurfaceInv, [Next]_vars
    PROVE  SurfaceInv'
<1> USE DEF PhoneInv
<1>1. CASE \E l \in loads : LoadStep(l)
  BY <1>1, PublishReaches, NothingDelivered DEF LoadStep
<1>2. CASE \E e \in Edits : MakeEdit(e) \/ EditStep(e)
  BY <1>2, EditReaches, NothingDelivered DEF EditStep
<1>3. CASE \/ Reload \/ Tick \/ BeginSwitch \/ ReplaceCredential \/ SwitchStep
           \/ Poll \/ Providers \/ Look \/ LoseLook \/ UNCHANGED vars
  BY <1>3, NothingDelivered
<1>4. CASE Resync
  BY <1>4, ResyncReaches
<1>5. CASE Deliver
  BY <1>5, WatchDelivered, WidgetDelivered DEF SurfaceInv
<1>6. CASE BeginWidget \/ EndWidget
  BY <1>6, WidgetWrites, WritesKeepWatch DEF SurfaceInv
<1>7. CASE PollStep
  BY <1>7, PollReaches, WidgetWrites, WritesKeepWatch, NothingDelivered DEF PollStep, SurfaceInv
<1>8. CASE Die
  BY <1>8, DeathHides
<1> QED
  BY <1>1, <1>2, <1>3, <1>4, <1>5, <1>6, <1>7, <1>8 DEF Next, Quiet

LEMMA SurfaceInvariant == Spec => []SurfaceInv
<1>1. Init => SurfaceInv
  BY SurfaceInit
<1>2. (PhoneInv /\ ScreenInv) /\ (PhoneInv /\ ScreenInv)' /\ SurfaceInv /\ [Next]_vars => SurfaceInv'
  BY SurfaceStep
<1> QED
  BY <1>1, <1>2, ScreenInvariant, PTL DEF Spec

-----------------------------------------------------------------------------
(***************************************************************************)
(* Invariant: the rules, in memory, in storage and on the screen.  What is    *)
(* stored and not shown is an edit under way, or one that the load that is    *)
(* shown has crossed.                                                        *)
(***************************************************************************)
\* The rule of an edit that has been written only, or that the latest load crossed.
Missed(r) ==
    \/ edits[r].pc = "check"
    \/ edits[r].pc = "saved" /\ edits[r].crossed = host.revision

\* In memory is what is stored, but for the rule of the edit that was written.
HostRules ==
    host.ready =>
        /\ host.rules \subseteq stored.rules
        /\ \A r \in stored.rules \ host.rules : edits[r].pc = "check"

\* An edit writes its rule and those that are stored.
WrittenRules ==
    \A e \in Edits : edits[e].pc = "write" =>
        stored.rules \subseteq edits[e].rules /\ edits[e].rules \subseteq stored.rules \cup {e}

\* What an edit captured is no later than its revision, and of the surfaces of it.
CapturedRules ==
    \A e \in Edits : Begun(e) =>
        /\ edits[e].snap # NoSnapshot => edits[e].snap.load <= edits[e].load
        /\ edits[e].load = host.revision => edits[e].surface = host.surface

\* What the latest load is going to show, and what it shows, miss only such rules.
LoadRules ==
    \A l \in loads : Latest(l) /\ l.pc = "publish" =>
        \A r \in stored.rules \ l.snap.rules : Missed(r)

ShownRules ==
    host.current # NoSnapshot /\ host.current.load = host.revision /\ Owned(host.current) =>
        \A r \in stored.rules \ host.current.rules : Missed(r)

RulesInv == HostRules /\ WrittenRules /\ CapturedRules /\ LoadRules /\ ShownRules

\* The rules are edits.
LEMMA RulesAreEdits ==
    ASSUME RestOK
    PROVE  /\ stored.rules \subseteq Edits
           /\ \A e \in Edits : edits[e].rules \subseteq Edits /\ edits[e].surface \in Nat
  BY EditOf, EditTypes DEF RestOK, DeviceOK, EditsOK, Rules

\* A step of one revision that leaves edits and storage alone: the host may read the
\* preferences, a load may come to publish, and what is shown may be its snapshot.
SameRevision ==
    /\ UNCHANGED <<edits, epoch>> /\ stored'.rules = stored.rules
    /\ host'.revision = host.revision /\ host'.surface = host.surface
RulesRead ==
    \/ host'.rules = host.rules /\ host'.ready = host.ready
    \/ host'.rules = stored.rules
AllSeen(s) == \A r \in stored.rules \ s.rules : Missed(r)
LoadsSee == \A m \in loads' : Latest(m) /\ m.pc = "publish" => m \in loads \/ AllSeen(m.snap)
ScreenSees ==
    host'.current \in {host.current, NoSnapshot} \/ AllSeen(host'.current)

LEMMA RulesStay ==
    ASSUME RulesInv, SameRevision, RulesRead, LoadsSee, ScreenSees
    PROVE  RulesInv'
<1>1. \A r : Missed(r)' <=> Missed(r)
  BY DEF Missed, SameRevision
<1>2. HostRules'
  BY DEF RulesInv, HostRules, SameRevision, RulesRead
<1>3. WrittenRules' /\ CapturedRules'
  BY DEF RulesInv, WrittenRules, CapturedRules, Begun, SameRevision
<1>4. LoadRules'
  <2>1. \A m \in loads' : Latest(m)' /\ m.pc = "publish" => AllSeen(m.snap)
    BY DEF RulesInv, LoadRules, LoadsSee, Latest, SameRevision, AllSeen
  <2> QED
    BY <1>1, <2>1 DEF LoadRules, AllSeen, SameRevision
<1>5. ShownRules'
  <2>1. /\ host'.current # NoSnapshot /\ host'.current.load = host'.revision
        /\ host'.current.demo \/ host'.current.epoch = epoch'
        => AllSeen(host'.current)
    BY DEF RulesInv, ShownRules, ScreenSees, AllSeen, Owned, SameRevision
  <2> QED
    BY <1>1, <2>1 DEF ShownRules, AllSeen, Owned, SameRevision
<1> QED
  BY <1>2, <1>3, <1>4, <1>5 DEF RulesInv

\* A new revision has shown nothing yet, and no edit has captured it.
LEMMA RulesRise ==
    ASSUME RestOK, RestOK', ScreenInv, RulesInv,
           Reload \/ Tick \/ BeginSwitch \/ EndSwitch \/ CredentialsChanged
    PROVE  RulesInv'
<1>1. UNCHANGED <<edits, stored>>
  BY DEF Reload, Tick, BeginSwitch, EndSwitch, CredentialsChanged, device
<1>2. /\ host'.revision > host.revision /\ host'.current \in {host.current, NoSnapshot}
      /\ host'.ready = host.ready
  BY RevisionBegins
<1>3. host'.rules = host.rules
  <2>1. \A n, m, d :
            /\ [host EXCEPT !.revision = n].rules = host.rules
            /\ [host EXCEPT !.revision = n, !.surface = m].rules = host.rules
            /\ [host EXCEPT !.demo = d, !.revision = n].rules = host.rules
            /\ [host EXCEPT !.revision = n, !.surface = m, !.current = NoSnapshot].rules = host.rules
    BY HostKeeps DEF SameRules, RestOK
  <2>2. \/ host' = [host EXCEPT !.revision = host.revision + 1]
        \/ host' = [host EXCEPT !.revision = host.revision + 1, !.surface = host.surface + 1]
        \/ host' = [host EXCEPT !.demo = stored.demo, !.revision = host.revision + 1]
        \/ host' = [host EXCEPT !.revision = host.revision + 2, !.surface = host.surface + 1,
                                !.current = NoSnapshot]
    BY DEF Reload, Tick, BeginSwitch, EndSwitch, CredentialsChanged, Raised
  <2>3. CASE host' = [host EXCEPT !.revision = host.revision + 1]
    BY <2>1, <2>3
  <2>4. CASE host' = [host EXCEPT !.revision = host.revision + 1, !.surface = host.surface + 1]
    BY <2>1, <2>4
  <2>5. CASE host' = [host EXCEPT !.demo = stored.demo, !.revision = host.revision + 1]
    BY <2>1, <2>5
  <2>6. CASE host' = [host EXCEPT !.revision = host.revision + 2, !.surface = host.surface + 1,
                                 !.current = NoSnapshot]
    BY <2>1, <2>6
  <2> QED
    BY <2>2, <2>3, <2>4, <2>5, <2>6
<1>4. \A l \in loads' : l \in loads \/ l.pc # "publish"
  <2>1. PICK n : loads' \subseteq loads \cup {NewLoad(n), NewTick(n)}
    BY DEF Reload, Tick, BeginSwitch, EndSwitch, CredentialsChanged
  <2> QED
    BY <2>1, NewLoadFields
<1>5. host.revision \in Nat /\ host'.revision \in Nat
  BY HostFields DEF RestOK, HostOK, HostStates
<1>6. HostRules' /\ WrittenRules'
  BY <1>1, <1>2, <1>3 DEF RulesInv, HostRules, WrittenRules
<1>7. CapturedRules'
  <2>1. \A e \in Edits : Begun(e) => edits[e].load <= host.revision /\ edits[e].load \in Nat
    BY ScreenTypes DEF ScreenInv, CapturedInv, Captive
  <2>2. \A e \in Edits : Begun(e) => edits[e].load # host'.revision
    BY <1>2, <1>5, <2>1
  <2> QED
    BY <1>1, <2>2 DEF RulesInv, CapturedRules, Begun
<1>8. LoadRules'
  <2>1. \A l \in loads : l.rev <= host.revision /\ l.rev \in Nat
    BY ScreenTypes DEF ScreenInv, LoadsInv
  <2> QED
    BY <1>2, <1>4, <1>5, <2>1 DEF LoadRules, Latest
<1>9. ShownRules'
  <2>1. host.current # NoSnapshot => host.current.load <= host.revision /\ host.current.load \in Nat
    BY ScreenTypes DEF ScreenInv, CurrentInv
  <2> QED
    BY <1>2, <1>5, <2>1 DEF ShownRules
<1> QED
  BY <1>6, <1>7, <1>8, <1>9 DEF RulesInv

\* A load of the host leaves revision, storage and edits alone.
LEMMA LoadSameRevision ==
    ASSUME RestOK, NEW l \in loads, LoadStep(l)
    PROVE  SameRevision /\ l \in LoadRecords
<1>1. UNCHANGED <<edits, stored, epoch>> /\ l \in LoadRecords
  BY LoadFields, ScreenTypes DEF LoadStep, ReadPreferences, Ask, Answer, Publish, CheckShown, ShowFailure, device
<1>2. \/ host' = host
      \/ host' = [host EXCEPT !.rules = stored.rules, !.demo = stored.demo, !.ready = TRUE]
      \/ host' = [host EXCEPT !.current = NoSnapshot]
      \/ host' = [host EXCEPT !.current = l.snap]
  BY DEF LoadStep, ReadPreferences, Ask, Answer, Failed, Publish, CheckShown, ShowFailure
<1>3. host'.revision = host.revision /\ host'.surface = host.surface
  BY <1>2 DEF RestOK, HostOK, HostStates
<1> QED
  BY <1>1, <1>3 DEF SameRevision

\* What showing something, or nothing, leaves alone.
LEMMA ShowsOnly ==
    ASSUME RestOK, NEW s, host' = host \/ host' = [host EXCEPT !.current = s]
    PROVE  RulesRead /\ host'.current \in {host.current, s}
BY DEF RestOK, HostOK, HostStates, RulesRead

\* Loads that end, and one that goes on without a snapshot to publish.
LEMMA MovesOn ==
    ASSUME NEW n, n.pc # "publish", loads' \subseteq loads \cup {n}
    PROVE  LoadsSee
BY DEF LoadsSee

\* A load that fails shows nothing, or what was shown.
LEMMA FailedSees ==
    ASSUME RestOK, NEW l \in loads, l \in LoadRecords, Failed(l)
    PROVE  RulesRead /\ LoadsSee /\ ScreenSees
<1>1. host' = host \/ host' = [host EXCEPT !.current = NoSnapshot]
  BY DEF Failed
<1>2. PICK n : n.pc # "publish" /\ loads' \subseteq loads \cup {n}
  <2> DEFINE a == [l EXCEPT !.pc = "failure"]
             b == [l EXCEPT !.pc = "failed", !.snap = host.current]
  <2>1. a.pc = "failure" /\ b.pc = "failed"
    BY LoadAfter
  <2>2. loads' \subseteq loads \cup {a} \/ loads' \subseteq loads \cup {b}
    BY DEF Failed, Move
  <2> HIDE DEF a, b
  <2> QED
    BY <2>1, <2>2
<1>3. LoadsSee
  BY <1>2, MovesOn
<1>4. RulesRead /\ host'.current \in {host.current, NoSnapshot}
  BY <1>1, ShowsOnly
<1> QED
  BY <1>3, <1>4 DEF ScreenSees

\* A load answers with the rules of the host, and shows what it answered.
LEMMA LoadsKeepRules ==
    ASSUME RestOK, ScreenInv, RulesInv, NEW l \in loads, LoadStep(l)
    PROVE  RulesInv'
<1>1. SameRevision /\ l \in LoadRecords
  BY LoadSameRevision
<1>2. CASE ReadPreferences(l)
  <2>1. host' = [host EXCEPT !.rules = stored.rules, !.demo = stored.demo, !.ready = TRUE]
    BY <1>2 DEF ReadPreferences
  <2>2. host'.rules = stored.rules /\ host'.current = host.current
    BY <2>1 DEF RestOK, HostOK, HostStates
  <2>3. LoadsSee
    <3> DEFINE n == [l EXCEPT !.pc = "ask"]
    <3>1. n.pc = "ask"
      BY <1>1, LoadAfter
    <3>2. loads' \subseteq loads \cup {n}
      BY <1>2 DEF ReadPreferences, Move
    <3> HIDE DEF n
    <3> QED
      BY <3>1, <3>2, MovesOn
  <2> QED
    BY <1>1, <2>2, <2>3, RulesStay DEF RulesRead, ScreenSees
<1>3. CASE Ask(l)
  <2>1. LoadsSee
    <3> DEFINE n == [l EXCEPT !.pc = "answer", !.demo = stored.demo]
    <3>1. n.pc = "answer"
      BY <1>1, LoadAfter
    <3>2. loads' \subseteq loads \cup {n}
      BY <1>3 DEF Ask, Move
    <3> HIDE DEF n
    <3> QED
      BY <3>1, <3>2, MovesOn
  <2>2. host' = host
    BY <1>3 DEF Ask
  <2> QED
    BY <1>1, <2>1, <2>2, RulesStay DEF RulesRead, ScreenSees
<1>4. CASE Answer(l) /\ Failed(l)
  BY <1>1, <1>4, FailedSees, RulesStay
<1>5. CASE Answer(l) /\ ~Failed(l)
  <2>1. PICK hidden : Move(l, [l EXCEPT !.pc = "publish", !.snap = Answered(l, hidden)])
    BY <1>5 DEF Answer
  <2> DEFINE s == Answered(l, hidden)
             n == [l EXCEPT !.pc = "publish", !.snap = s]
  <2>2. loads' = (loads \ {l}) \cup {n} /\ host' = host /\ host.ready
    BY <1>5, <2>1 DEF Move, Answer, ScreenInv, LoadsInv
  <2>3. s.rules = host.rules
    BY DEF Answered
  <2> HIDE DEF s
  <2>4. n.snap = s
    BY <1>1, LoadAfter
  <2> HIDE DEF n
  <2>5. AllSeen(s)
    BY <2>2, <2>3 DEF RulesInv, HostRules, Missed, AllSeen
  <2>6. LoadsSee
    BY <2>2, <2>4, <2>5 DEF LoadsSee
  <2> QED
    BY <1>1, <2>2, <2>6, RulesStay DEF RulesRead, ScreenSees
<1>6. CASE Publish(l)
  <2>1. LoadsSee
    <3> DEFINE n == [l EXCEPT !.pc = "surfaces"]
    <3>1. n.pc = "surfaces"
      BY <1>1, LoadAfter
    <3>2. loads' \subseteq loads \cup {n}
      BY <1>6 DEF Publish, Move
    <3> HIDE DEF n
    <3> QED
      BY <3>1, <3>2, MovesOn
  <2>2. \/ host' = host \/ host' = [host EXCEPT !.current = NoSnapshot]
        \/ host' = [host EXCEPT !.current = l.snap] /\ Latest(l) /\ l.pc = "publish"
    BY <1>6 DEF Publish, Latest
  <2>3. RulesRead
    BY <2>2, ShowsOnly
  <2>4. Latest(l) /\ l.pc = "publish" => AllSeen(l.snap)
    BY DEF RulesInv, LoadRules, AllSeen
  <2>5. ScreenSees
    BY <2>2, <2>4, ShowsOnly DEF ScreenSees
  <2> QED
    BY <1>1, <2>1, <2>3, <2>5, RulesStay
<1>7. CASE CheckShown(l) \/ ShowFailure(l)
  <2>1. LoadsSee
    <3> DEFINE n == [l EXCEPT !.pc = "failure"]
    <3>1. n.pc = "failure"
      BY <1>1, LoadAfter
    <3>2. loads' \subseteq loads \cup {n}
      BY <1>7 DEF CheckShown, ShowFailure, Move
    <3> HIDE DEF n
    <3> QED
      BY <3>1, <3>2, MovesOn
  <2>2. host' = host \/ host' = [host EXCEPT !.current = NoSnapshot]
    BY <1>7 DEF CheckShown, ShowFailure
  <2> QED
    BY <1>1, <2>1, <2>2, ShowsOnly, RulesStay DEF ScreenSees
<1> QED
  BY <1>2, <1>3, <1>4, <1>5, <1>6, <1>7 DEF LoadStep

\* What moves neither host, loads, edits nor storage.
LEMMA OthersKeepRules ==
    ASSUME RulesInv,
           \/ Resync \/ Deliver \/ BeginWidget \/ EndWidget \/ Poll \/ PollStep
           \/ Providers \/ Look \/ LoseLook \/ UNCHANGED vars
    PROVE  RulesInv'
<1>1. UNCHANGED <<host, edits, stored, epoch>> /\ loads' \subseteq loads
  BY DEF Resync, Deliver, BeginWidget, EndWidget, Poll, PollStep, PollWatch, PollWidget,
         PollRecoveries, EndPoll, Providers, Look, LoseLook, vars, device, screen
<1>2. SameRevision /\ RulesRead /\ LoadsSee /\ ScreenSees
  BY <1>1 DEF SameRevision, RulesRead, LoadsSee, ScreenSees
<1> QED
  BY <1>2, RulesStay

\* A snapshot that is not owned does not come to be.
LEMMA DeviceKeepsRules ==
    ASSUME RestOK, ScreenInv, RulesInv, ClearPersistentSnapshots \/ WriteDemo \/ ReplaceCredential
    PROVE  RulesInv'
<1>1. UNCHANGED <<host, loads, edits>> /\ (epoch' = epoch \/ epoch' = epoch + 1)
  BY DEF ClearPersistentSnapshots, WriteDemo, ReplaceCredential, screen
<1>2. stored'.rules = stored.rules
  <2>1. stored' = stored \/ stored' = [stored EXCEPT !.demo = ~stored.demo]
    BY DEF ClearPersistentSnapshots, WriteDemo, ReplaceCredential
  <2> QED
    BY <2>1 DEF RestOK, DeviceOK
<1>3. host.current # NoSnapshot /\ Owned(host.current)' => Owned(host.current)
  BY <1>1, ScreenTypes DEF Owned, ScreenInv, CurrentInv, Dated
<1>4. HostRules' /\ WrittenRules' /\ CapturedRules'
  BY <1>1, <1>2 DEF RulesInv, HostRules, WrittenRules, CapturedRules, Begun
<1>5. LoadRules'
  BY <1>1, <1>2 DEF RulesInv, LoadRules, Latest, Missed
<1>6. ShownRules'
  BY <1>1, <1>2, <1>3 DEF RulesInv, ShownRules, Missed
<1> QED
  BY <1>4, <1>5, <1>6 DEF RulesInv

\* An edit that nothing missed moves.
LEMMA EditMoves ==
    ASSUME RestOK, RulesInv, NEW e \in Edits, edits[e].pc \in {"none", "queued", "write"},
           \A f \in Edits \ {e} : edits'[f] = edits[f],
           UNCHANGED <<host, loads, epoch>>, stored'.rules = stored.rules
    PROVE  HostRules' /\ LoadRules' /\ ShownRules'
<1>1. stored.rules \subseteq Edits
  BY RulesAreEdits
<1>2. \A r \in Edits : Missed(r) => Missed(r)'
  BY DEF Missed
<1>3. HostRules'
  BY <1>1 DEF RulesInv, HostRules
<1>4. LoadRules'
  BY <1>1, <1>2 DEF RulesInv, LoadRules, Latest
<1>5. ShownRules'
  BY <1>1, <1>2 DEF RulesInv, ShownRules, Owned
<1> QED
  BY <1>3, <1>4, <1>5

\* An edit is made, or its write fails.
LEMMA EditComesOrGoes ==
    ASSUME RestOK, RulesInv, NEW e \in Edits, NEW x \in EditRecords,
           edits[e].pc \in {"none", "write"}, edits' = [edits EXCEPT ![e] = x],
           x.pc \in {"queued", "lost"}, UNCHANGED <<host, loads, epoch, stored>>
    PROVE  RulesInv'
<1>1. edits'[e] = x /\ \A f \in Edits \ {e} : edits'[f] = edits[f]
  BY DEF RestOK, EditsOK
<1>2. HostRules' /\ LoadRules' /\ ShownRules'
  BY <1>1, EditMoves
<1>3. \A f \in Edits : Begun(f)' => Begun(f) /\ edits'[f] = edits[f]
  BY <1>1 DEF Begun
<1>4. WrittenRules' /\ CapturedRules'
  BY <1>3 DEF RulesInv, WrittenRules, CapturedRules, Begun
<1> QED
  BY <1>2, <1>4 DEF RulesInv

\* An edit begins with the rules that are stored, for none is under way.
LEMMA BeginKeepsRules ==
    ASSUME RestOK, EditInv, ScreenInv, RulesInv, NEW e \in Edits, BeginEdit(e)
    PROVE  RulesInv'
<1>1. edits' = [edits EXCEPT ![e] = Captured(e)] /\ UNCHANGED <<stored, host, loads, epoch>>
      /\ edits[e].pc = "queued" /\ e = Head(queue)
  BY DEF BeginEdit, device
<1>2. /\ edits'[e].rules = host.rules \cup {e} /\ edits'[e].snap = host.current
      /\ edits'[e].load = host.revision /\ edits'[e].surface = host.surface
      /\ \A f \in Edits \ {e} : edits'[f] = edits[f]
  BY <1>1 DEF RestOK, EditsOK, Captured
<1>3. \A f \in Edits : ~Begun(f)
  BY <1>1 DEF EditInv, Begun
<1>4. \A f \in Edits : Begun(f)' => f = e
  BY <1>2, <1>3 DEF Begun
<1>5. HostRules' /\ LoadRules' /\ ShownRules'
  BY <1>1, <1>2, EditMoves
<1>6. stored.rules = host.rules
  <2>1. host.ready
    BY <1>1 DEF EditInv
  <2>2. \A r \in stored.rules : edits[r].pc # "check"
    BY <1>3, RulesAreEdits DEF Begun
  <2> QED
    BY <2>1, <2>2 DEF RulesInv, HostRules
<1>7. WrittenRules'
  BY <1>1, <1>2, <1>4, <1>6 DEF WrittenRules, Begun
<1>8. CapturedRules'
  <2>1. host.current # NoSnapshot => host.current.load <= host.revision
    BY DEF ScreenInv, CurrentInv
  <2> QED
    BY <1>1, <1>2, <1>4, <2>1 DEF CapturedRules
<1> QED
  BY <1>5, <1>7, <1>8 DEF RulesInv

\* An edit writes its rule, and no other.
LEMMA WriteKeepsRules ==
    ASSUME RestOK, EditInv, RulesInv, NEW e \in Edits, WriteEdit(e)
    PROVE  RulesInv'
<1>1. edits[e].pc = "write" /\ UNCHANGED <<host, loads, epoch>> /\ edits[e] \in EditRecords
  BY EditOf DEF WriteEdit, RestOK
<1>2. CASE /\ stored' = [stored EXCEPT !.rules = edits[e].rules]
           /\ edits' = [edits EXCEPT ![e].pc = "check"]
  <2>1. edits' = [edits EXCEPT ![e] = [edits[e] EXCEPT !.pc = "check"]]
    BY <1>2
  <2>2. /\ edits'[e].pc = "check" /\ edits'[e].snap = edits[e].snap
        /\ edits'[e].load = edits[e].load /\ edits'[e].surface = edits[e].surface
        /\ \A f \in Edits \ {e} : edits'[f] = edits[f]
    <3>1. \A x \in EditRecords :
              LET y == [x EXCEPT !.pc = "check"]
              IN  y.pc = "check" /\ y.snap = x.snap /\ y.load = x.load /\ y.surface = x.surface
      BY DEF EditRecords
    <3> QED
      BY <1>1, <2>1, <3>1 DEF RestOK, EditsOK
  <2>3. stored'.rules = edits[e].rules
    BY <1>2 DEF RestOK, DeviceOK
  <2>4. stored.rules \subseteq stored'.rules /\ stored'.rules \subseteq stored.rules \cup {e}
    BY <1>1, <2>3 DEF RulesInv, WrittenRules
  <2>5. \A f \in Edits \ {e} : ~Begun(f) /\ ~Begun(f)'
    BY <1>1, <2>2 DEF EditInv, Begun
  <2>6. stored.rules \subseteq Edits
    BY RulesAreEdits
  <2>7. Missed(e)' /\ \A r \in Edits : Missed(r) => Missed(r)'
    BY <1>1, <2>2 DEF Missed
  <2>8. HostRules'
    BY <1>1, <2>2, <2>4, <2>6 DEF RulesInv, HostRules
  <2>9. WrittenRules' /\ CapturedRules'
    BY <1>1, <2>2, <2>5 DEF RulesInv, WrittenRules, CapturedRules, Begun
  <2>10. LoadRules'
    BY <1>1, <2>4, <2>6, <2>7 DEF RulesInv, LoadRules, Latest
  <2>11. ShownRules'
    BY <1>1, <2>4, <2>6, <2>7 DEF RulesInv, ShownRules, Owned
  <2> QED
    BY <2>8, <2>9, <2>10, <2>11 DEF RulesInv
<1>3. CASE /\ edits' = [edits EXCEPT ![e] = [NoEdit EXCEPT !.pc = "lost"]]
           /\ UNCHANGED stored
  <2>1. [NoEdit EXCEPT !.pc = "lost"] \in EditRecords /\ [NoEdit EXCEPT !.pc = "lost"].pc = "lost"
    BY <1>1, EditTypes, EditFields
  <2> QED
    BY <1>1, <1>3, <2>1, EditComesOrGoes
<1> QED
  BY <1>2, <1>3 DEF WriteEdit

\* An edit ends: the host takes what is stored; what is shown has it, or was crossed.
LEMMA FinishKeepsRules ==
    ASSUME RestOK, EditInv, ScreenInv, RulesInv, NEW e \in Edits, FinishEdit(e)
    PROVE  RulesInv'
<1>1. /\ edits[e].pc = "check" /\ Begun(e) /\ \A f \in Edits : ~Begun(f)'
      /\ UNCHANGED <<loads, epoch, stored>> /\ edits' = [edits EXCEPT ![e] = EndedEdit(e)]
      /\ host'.revision = host.revision
      /\ host'.current = IF Publishes(e) THEN Edited(e) ELSE host.current
  BY FinishEditParts
<1>2. /\ edits'[e].pc = "saved" /\ edits'[e].crossed = CrossedBy(e)
      /\ \A f \in Edits \ {e} : edits'[f] = edits[f]
  BY <1>1, EndedEditIs DEF RestOK, EditsOK
<1>3. stored.rules = edits[e].rules /\ stored.rules \subseteq Edits
  BY <1>1, RulesAreEdits DEF EditInv
<1>4. host'.rules = stored.rules
  <2>1. PICK s : host' = [host EXCEPT !.rules = edits[e].rules, !.current = s]
    BY DEF FinishEdit
  <2> QED
    BY <1>3, <2>1, HostChanges DEF RestOK
<1>5. HostRules' /\ WrittenRules' /\ CapturedRules'
  BY <1>1, <1>4 DEF HostRules, WrittenRules, CapturedRules, Begun
<1>6. \A r \in Edits \ {e} : Missed(r) => Missed(r)'
  BY <1>1, <1>2 DEF Missed
<1>7. CrossedBy(e) = host.revision => Missed(e)'
  BY <1>1, <1>2 DEF Missed
<1>8. LoadRules'
  <2> SUFFICES ASSUME NEW l \in loads, Latest(l), l.pc = "publish" PROVE \A r \in stored.rules \ l.snap.rules : Missed(r)'
    BY <1>1 DEF LoadRules, Latest
  <2>1. CrossedBy(e) = host.revision
    BY DEF CrossedBy, Latest
  <2>2. \A r \in stored.rules \ l.snap.rules : Missed(r)
    BY DEF RulesInv, LoadRules
  <2> QED
    BY <1>3, <1>6, <1>7, <2>1, <2>2
<1>9. ShownRules'
  <2>1. CASE Publishes(e)
    <3>1. edits[e].snap \in Snapshots
      BY <2>1, EditOf, EditTypes, RealSnapshot DEF RestOK, Publishes
    <3>2. Edited(e).rules = stored.rules
      BY <1>3, <3>1 DEF Edited, Snapshots
    <3> QED
      BY <1>1, <2>1, <3>2 DEF ShownRules
  <2>2. CASE ~Publishes(e)
    <3> SUFFICES ASSUME host.current # NoSnapshot, host.current.load = host.revision, Owned(host.current)
                 PROVE  \A r \in stored.rules \ host.current.rules : Missed(r)'
      BY <1>1, <2>2 DEF ShownRules, Owned
    <3>1. CrossedBy(e) = host.revision
      <4>1. CASE edits[e].snap # NoSnapshot /\ edits[e].snap.load = host.revision
        <5>1. edits[e].load = host.revision /\ edits[e].surface = host.surface
          <6>1. edits[e].load <= host.revision /\ host.revision <= edits[e].load
            BY <1>1, <4>1 DEF RulesInv, CapturedRules, ScreenInv, CapturedInv, Captive
          <6>2. edits[e].load = host.revision
            BY <6>1, ScreenTypes
          <6> QED
            BY <1>1, <6>2 DEF RulesInv, CapturedRules
        <5>2. Alike(edits[e].snap, host.current)
          <6>1. ~(edits[e].snap.load < host.revision)
            BY <4>1, ScreenTypes
          <6> QED
            BY <1>1, <4>1, <5>1, <6>1 DEF ScreenInv, CapturedInv, Captive
        <5>3. Owned(edits[e].snap)
          BY <5>2, <4>1 DEF Owned, Alike
        <5> QED
          BY <2>2, <4>1, <5>1, <5>3 DEF Publishes
      <4>2. CASE edits[e].snap # NoSnapshot => edits[e].snap.load # host.revision
        BY <4>2 DEF CrossedBy
      <4> QED
        BY <4>1, <4>2
    <3>2. \A r \in stored.rules \ host.current.rules : Missed(r)
      BY DEF RulesInv, ShownRules
    <3> QED
      BY <1>3, <1>6, <1>7, <3>1, <3>2
  <2> QED
    BY <2>1, <2>2
<1> QED
  BY <1>5, <1>8, <1>9 DEF RulesInv

\* A new process has read nothing yet, and no edit is under way.
LEMMA DeathKeepsRules ==
    ASSUME RestOK, Die
    PROVE  RulesInv'
<1>1. host'.current = NoSnapshot /\ ~host'.ready /\ loads' = {NewLoad(1)}
      /\ NewLoad(1).pc = "preferences"
  BY DEF Die, NewLoad
<1>2. \A e \in Edits : ~Begun(e)'
  BY EditFields, EditOf DEF Die, Begun, RestOK, EditsOK
<1> QED
  BY <1>1, <1>2 DEF RulesInv, HostRules, WrittenRules, CapturedRules, LoadRules, ShownRules, Begun

LEMMA RulesInit == Init => RulesInv
<1> SUFFICES ASSUME Init PROVE RulesInv
  OBVIOUS
<1>1. stored.rules = {} /\ host.rules = {} /\ loads = {} /\ \A e \in Edits : ~Begun(e)
  BY DEF Init, Begun, NoEdit
<1> QED
  BY <1>1 DEF RulesInv, HostRules, WrittenRules, CapturedRules, LoadRules, ShownRules, Begun

LEMMA RulesStep ==
    ASSUME PhoneInv, PhoneInv', ScreenInv, RulesInv, [Next]_vars
    PROVE  RulesInv'
<1> USE DEF PhoneInv
<1>1. CASE \E l \in loads : LoadStep(l)
  BY <1>1, LoadsKeepRules
<1>2. ASSUME NEW e \in Edits, MakeEdit(e) PROVE RulesInv'
  <2>1. edits' = [edits EXCEPT ![e] = [edits[e] EXCEPT !.pc = "queued"]] /\ edits[e].pc = "none"
        /\ UNCHANGED <<host, loads, epoch, stored>>
    BY <1>2 DEF MakeEdit, device
  <2>2. [edits[e] EXCEPT !.pc = "queued"] \in EditRecords /\ [edits[e] EXCEPT !.pc = "queued"].pc = "queued"
    <3>1. edits[e] \in EditRecords
      BY EditOf DEF RestOK
    <3> QED
      BY <3>1, EditTypes, EditFields
  <2> QED
    BY <2>1, <2>2, EditComesOrGoes
<1>3. CASE \E e \in Edits : EditStep(e)
  BY <1>3, BeginKeepsRules, WriteKeepsRules, FinishKeepsRules DEF EditStep
<1>4. CASE Reload \/ Tick \/ BeginSwitch \/ ReplaceCredential \/ SwitchStep
  BY <1>4, RulesRise, DeviceKeepsRules DEF SwitchStep
<1>5. CASE \/ Resync \/ Deliver \/ BeginWidget \/ EndWidget \/ Poll \/ PollStep
           \/ Providers \/ Look \/ LoseLook \/ UNCHANGED vars
  BY <1>5, OthersKeepRules
<1>6. CASE Die
  BY <1>6, DeathKeepsRules
<1> QED
  BY <1>1, <1>2, <1>3, <1>4, <1>5, <1>6 DEF Next, Quiet

LEMMA RulesInvariant == Spec => []RulesInv
<1>1. Init => RulesInv
  BY RulesInit
<1>2. (PhoneInv /\ ScreenInv) /\ (PhoneInv /\ ScreenInv)' /\ RulesInv /\ [Next]_vars => RulesInv'
  BY RulesStep
<1> QED
  BY <1>1, <1>2, ScreenInvariant, PTL DEF Spec

\* At rest the watch has what is on the screen, with its mode, unless the poll wrote
\* there since (WatchSyncService): the last delivery that still is due to it, of those
\* that wait for their check, is of what is shown.  And both have every stored rule
\* (_updateAlertThresholds), but those of edits that the load that is shown has crossed.
THEOREM WatchIsFollowed == Spec => []WatchFollows
<1>1. PhoneInv /\ RulesInv /\ SurfaceInv => WatchFollows
  <2> SUFFICES ASSUME PhoneInv, RulesInv, SurfaceInv, AtRest, host.current # NoSnapshot, watch.by = "host",
                      host.current.load = host.revision, Owned(host.current)
               PROVE  /\ watch.snap = host.current /\ watch.demo = host.current.demo
                      /\ \A e \in stored.rules \ watch.snap.rules : edits[e].crossed = host.revision
    BY DEF WatchFollows
  <2>1. watch.snap = host.current /\ watch.demo = host.current.demo
    BY DEF SurfaceInv, WatchInv, AtRest, Shown
  <2>2. \A e \in Edits : edits[e].pc # "check"
    BY DEF PhoneInv, EditInv, Begun, AtRest
  <2>3. stored.rules \subseteq Edits
    BY RulesAreEdits DEF PhoneInv
  <2> QED
    BY <2>1, <2>2, <2>3 DEF RulesInv, ShownRules, Missed
<1> QED
  BY <1>1, ScreenInvariant, RulesInvariant, SurfaceInvariant, PTL

\* At rest the widget has keys of one snapshot, of the load that is shown or of a tick,
\* but for those the poll wrote (PhoneWidgetSyncCoordinator).
THEOREM WidgetIsFollowed == Spec => []WidgetFollows
<1>1. SurfaceInv => WidgetFollows
  <2> DEFINE keys == {key \in {widget.first, widget.last} : key.by = "host"}
  <2> SUFFICES ASSUME SurfaceInv, AtRest, Shown, widget.latest = Nothing, widget.writing = Nothing
               PROVE  /\ Cardinality(keys) <= 1
                      /\ \A key \in keys : key.load = host.current.load \/ key.tick
    BY DEF WidgetFollows, AtRest, Shown
  <2>1. GoodArrived
    BY DEF SurfaceInv, WidgetInv, TickComes, GoodComes, AtRest
  <2>2. /\ Good(widget.first) /\ Good(widget.last)
        /\ \/ widget.first = widget.last
           \/ widget.first.by # "host" \/ widget.last.by # "host"
    BY <2>1 DEF GoodArrived
  <2>3. keys = {} \/ \E key : keys = {key}
    BY <2>2
  <2>4. Cardinality(keys) <= 1
    <3> HIDE DEF keys
    <3>1. CASE keys = {}
      <4>1. Cardinality(keys) = 0
        BY <3>1, FS_EmptySet
      <4> QED
        BY <4>1
    <3>2. ASSUME NEW key, keys = {key} PROVE Cardinality(keys) = 1
      BY <3>2, FS_Singleton
    <3> QED
      BY <2>3, <3>1, <3>2
  <2> QED
    BY <2>2, <2>4 DEF Good
<1> QED
  BY <1>1, SurfaceInvariant, PTL
=============================================================================

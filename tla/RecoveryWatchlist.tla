--------------------------- MODULE RecoveryWatchlist ---------------------------
(***************************************************************************)
(* The phone's memory of spent plan windows.  Every fresh snapshot is held    *)
(* against it: what came back is told, then what is spent now is remembered.   *)
(* The foreground and the headless engine do this with no lock between them,   *)
(* each on a snapshot of its own.                                            *)
(***************************************************************************)
EXTENDS Naturals, FiniteSets

CONSTANT Windows    \* plan windows, by account and allowance

VARIABLES
    spent,       \* the windows the provider has nothing left in, right now
    remembered,  \* the stored watchlist
    looks,       \* the running calls of syncPlanRecoveries
    owed,        \* history: windows that were remembered when they came back, and are untold
    overlapped   \* history: windows that came back while an earlier look was going to forget them

watchlist == <<spent, remembered, looks, owed, overlapped>>

\* What a snapshot says of a window; it need not report it at all.
Views == {"spent", "room", "unreported"}
Reports == [Windows -> Views]
ReportedAs(report, view) == {w \in Windows : report[w] = view}

\* A look is named after the load its snapshot is of.
LookStates == [of : Nat, pc : {"read", "tell", "write"}, report : Reports,
               demo : BOOLEAN, due : SUBSET Windows]

WatchlistTypeOK ==
    /\ spent \subseteq Windows /\ remembered \subseteq Windows
    /\ owed \subseteq Windows /\ overlapped \subseteq Windows
    /\ looks \subseteq LookStates

WatchlistInit ==
    /\ spent \in SUBSET Windows
    /\ remembered = spent
    /\ looks = {} /\ owed = {} /\ overlapped = {}

-----------------------------------------------------------------------------
ExhaustedWindows(report) == ReportedAs(report, "spent")

\* Mutant: what is spent is told, again and again.
PlanRecoveriesSpent(list, report) == list \cap ReportedAs(report, "spent")

PlanRecoveries(list, report) == list \cap ReportedAs(report, "room")

\* What a provider would report at this moment, some windows left out.
Truth(hidden) ==
    [w \in Windows |-> IF w \in hidden THEN "unreported"
                       ELSE IF w \in spent THEN "spent" ELSE "room"]

NewLook(of, report, demo) ==
    [of |-> of, pc |-> "read", report |-> report, demo |-> demo, due |-> {}]
Replace(k, next) == looks' = (looks \ {k}) \cup {next}

\* A look that will write the list without the window and not tell it: its snapshot is
\* of before the window ran out, and it has read the list.  The window was not in it
\* yet, or an earlier return was told, or the switch was off.
Overlaps(k, w) == k.pc = "tell" /\ k.report[w] = "room" /\ w \notin k.due

\* A window comes back, and is owed to the reader if it is remembered.
ComesBack(w) ==
    /\ w \in spent /\ spent' = spent \ {w}
    /\ owed' = IF w \in remembered THEN owed \cup {w} ELSE owed
    /\ overlapped' = IF \E k \in looks : Overlaps(k, w) THEN overlapped \cup {w} ELSE overlapped
    /\ UNCHANGED <<remembered, looks>>

RunsOut(w) ==
    /\ w \in Windows \ spent /\ spent' = spent \cup {w}
    /\ owed' = owed \ {w} /\ overlapped' = overlapped \ {w}
    /\ UNCHANGED <<remembered, looks>>

\* Mutant: what is spent now is remembered before anything is told.
ReadListAndForget(k) ==
    /\ k.pc = "read"
    /\ Replace(k, [k EXCEPT !.pc = "tell", !.due = PlanRecoveries(remembered, k.report)])
    /\ remembered' = ExhaustedWindows(k.report)
    /\ UNCHANGED <<spent, owed, overlapped>>

\* Demo data empties the list, and reports nothing.  With the switch off nothing
\* is told, or owed any longer.
ReadList(k) ==
    /\ k.pc = "read"
    /\ \/ /\ k.demo
          /\ remembered' = {} /\ owed' = {} /\ looks' = looks \ {k}
       \/ /\ ~k.demo
          /\ Replace(k, [k EXCEPT !.pc = "tell", !.due = PlanRecoveries(remembered, k.report)])
          /\ UNCHANGED <<remembered, owed>>
       \/ /\ ~k.demo
          /\ Replace(k, [k EXCEPT !.pc = "tell"])
          /\ owed' = owed \ ReportedAs(k.report, "room")
          /\ UNCHANGED remembered
    /\ UNCHANGED <<spent, overlapped>>

\* A notification that is refused counts as told.
Tell(k) ==
    /\ k.pc = "tell"
    /\ \E w \in k.due :
          /\ Replace(k, [k EXCEPT !.due = @ \ {w}])
          /\ owed' = owed \ {w}
    /\ UNCHANGED <<spent, remembered, overlapped>>

\* The list is replaced.  What the snapshot did not report is forgotten, and owed
\* no longer.
WriteList(k) ==
    /\ k.pc = "tell" /\ k.due = {}
    /\ remembered' = ExhaustedWindows(k.report)
    /\ owed' = owed \ ReportedAs(k.report, "unreported")
    /\ looks' = looks \ {k}
    /\ UNCHANGED <<spent, overlapped>>

\* The store does not answer: this call ends, and the next one writes the list.
LookFails(k) ==
    /\ looks' = looks \ {k}
    /\ UNCHANGED <<spent, remembered, owed, overlapped>>

LookStep(k) == ReadList(k) \/ Tell(k) \/ WriteList(k)

-----------------------------------------------------------------------------
\* A window that came back while it was remembered is not forgotten before it is told,
\* though processes die between any two steps and looks overlap; but for a look that
\* began before it ran out and writes after it came back, which forgets it.
OwedIsRemembered == owed \ overlapped \subseteq remembered

\* And it is told: some look, of this process or of a later one, gets there.
OwedIsTold == \A w \in Windows : w \in owed \ overlapped ~> w \notin owed
=============================================================================

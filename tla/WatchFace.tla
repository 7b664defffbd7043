------------------------------ MODULE WatchFace ------------------------------
(***************************************************************************)
(* The watch-face utility of the Wear app: the activities of one process,   *)
(* each with its WatchFaceController, over the one consent history in       *)
(* SharedPreferences.  The inventory and the faces belong to the system, so *)
(* its answers are arbitrary; so are those of the permission dialog.        *)
(*                                                                          *)
(* A tap, a platform call and an access to the consent history are steps of *)
(* their own; what a controller does with its own state around them goes    *)
(* with them, since the mutex keeps every other operation of it out.        *)
(***************************************************************************)
EXTENDS Naturals, FiniteSets

CONSTANTS
    Activities, \* activities that can exist at a time
    Faults,     \* kinds of fault of the instance
    MaxTaps,    \* bound on the user's actions
    MaxFaults   \* bound on the faults

ASSUME BoundAssumption ==
    /\ Faults \subseteq {"commit", "close", "death"}
    /\ MaxTaps \in Nat /\ MaxFaults \in Nat

VARIABLES
    saved,      \* the consent history the process reads
    onDisk,     \* the one a restarted process will read
    granted,    \* whether the app holds the activation permission
    alive,      \* activities that exist, each with its view model
    visited,    \* those that opened the watch-face screen
    ui,         \* WatchFaceState of each controller
    op,         \* the operation that holds the controller's mutex
    asking,     \* permissionRequested of the view models
    dialogs,    \* activities with a permission dialog in front
    returned,   \* results of dialogs nobody took yet
    used, asked, attempted, refused,    \* what the outside has seen
    taps, faults

records == <<saved, onDisk>>
requests == <<asking, dialogs, returned>>
seen == <<used, asked, attempted, refused>>
bounds == <<taps, faults>>
vars == <<records, granted, alive, visited, ui, op, requests, seen, bounds>>

Consents == {"Eligible", "PermissionPending", "PermissionDeclined", "ActivationAttempted"}
Statuses == {"Checking", "CheckFailed", "Unsupported", "Missing", "NoCapacity",
             "Installed", "InUse", "InstallFailed", "UpdateFailed"}
Guidances == {"none", "PermissionDeclined", "ActivationUnavailable"}
Kinds == {"none", "check", "install", "update", "use", "result"}
Places == {"idle", "look", "install", "update", "permit", "claim", "mark",
           "activate", "consume", "resolve"}

State == [status : Statuses, busy : BOOLEAN, update : BOOLEAN, use : BOOLEAN,
          manual : Guidances, awaiting : BOOLEAN]
Operation == [kind : Kinds, pc : Places, answer : BOOLEAN]
Result == [to : Activities, answer : BOOLEAN]

\* What list() may find: our face, older than the bundle or not, a free slot, or
\* the slot taken by another face.
Faces == {"current", "old", "free", "taken"}
Ours == {"current", "old"}

Blank == [status |-> "Checking", busy |-> FALSE, update |-> FALSE, use |-> FALSE,
          manual |-> "none", awaiting |-> FALSE]
NoOperation == [kind |-> "none", pc |-> "idle", answer |-> FALSE]

-----------------------------------------------------------------------------
(* The states a controller shows.                                           *)

\* Mutant: a dismissed request is shown as if nothing had happened.
GuidanceForgets(history) ==
    IF history = "ActivationAttempted" THEN "ActivationUnavailable" ELSE "none"

Guidance(history) ==
    CASE history = "Eligible" -> "none"
      [] history = "PermissionDeclined" -> "PermissionDeclined"
      [] OTHER -> "ActivationUnavailable"

FoundStatus(face, active) ==
    CASE active -> "InUse"
      [] ~active /\ face \in Ours -> "Installed"
      [] ~active /\ face = "free" -> "Missing"
      [] OTHER -> "NoCapacity"

\* The fresh state withFace() shows.
Found(face, active, history) ==
    [status |-> FoundStatus(face, active), busy |-> TRUE, update |-> face = "old",
     use |-> face \in Ours /\ ~active /\ history = "Eligible",
     manual |-> Guidance(history), awaiting |-> FALSE]

ShowInstalled(state) ==
    [state EXCEPT !.status = "Installed", !.update = FALSE,
                  !.use = state.manual = "none"]

ManualSelection(state, reason) ==
    [state EXCEPT !.use = FALSE, !.manual = reason, !.awaiting = FALSE]

\* The catch of operation(): every failure but a cancellation.
Failed(status) ==
    [Blank EXCEPT !.status = status, !.manual = "ActivationUnavailable"]

\* The finally of operation().
Ended(state) == [state EXCEPT !.busy = state.awaiting]

-----------------------------------------------------------------------------
(* Operations and the consent history.                                      *)

At(k, place) == op[k].pc = place
Running(k) == ~At(k, "idle")

Go(k, place, state) ==
    /\ op' = [op EXCEPT ![k].pc = place]
    /\ ui' = [ui EXCEPT ![k] = state]

End(k, state) ==
    /\ op' = [op EXCEPT ![k] = NoOperation]
    /\ ui' = [ui EXCEPT ![k] = Ended(state)]

\* operation() past its guards.
Begin(k, kind, place, answer, state) ==
    /\ op' = [op EXCEPT ![k] = [kind |-> kind, pc |-> place, answer |-> answer]]
    /\ ui' = [ui EXCEPT ![k] = [state EXCEPT !.busy = TRUE]]

Fault(kind) == kind \in Faults /\ faults < MaxFaults /\ faults' = faults + 1

\* Mutant: the claim does not compare.
WinsAnyway(from, to) == saved' = to /\ onDisk' = to /\ UNCHANGED faults

\* compareAndSet() answers true: the new history is durable.
Wins(from, to) ==
    saved = from /\ saved' = to /\ onDisk' = to /\ UNCHANGED faults

\* compareAndSet() answers false: another history, or a commit that failed and
\* may have left the new one in memory, on disk, in both or in neither.
Loses(from, to) ==
    \/ saved # from /\ UNCHANGED <<records, faults>>
    \/ /\ saved = from /\ Fault("commit")
       /\ saved' \in {from, to} /\ onDisk' \in {onDisk, to}

-----------------------------------------------------------------------------
(* Taps and the screen.                                                     *)

\* The early return of operation().
Blocked(k, kind) ==
    ui[k].busy /\ ~(kind = "result" /\ ui[k].awaiting)

\* check() shows Checking first.
StartState(k, kind) == IF kind = "check" THEN Blank ELSE ui[k]

Tap(k, kind) ==
    /\ k \in visited /\ taps < MaxTaps
    /\ ~Running(k) /\ ~Blocked(k, kind)
    /\ Begin(k, kind, "look", FALSE, StartState(k, kind))
    /\ used' = (used \/ kind = "use")
    /\ taps' = taps + 1
    /\ UNCHANGED <<records, granted, alive, visited, requests, asked, attempted,
                   refused, faults>>

\* An activity is opened, or recreated after the process died.
Open(k) ==
    /\ k \notin alive /\ ~Running(k)
    /\ alive' = alive \cup {k}
    /\ ui' = [ui EXCEPT ![k] = Blank]
    /\ UNCHANGED <<records, granted, visited, op, requests, seen, bounds>>

\* The LaunchedEffect of WatchFaceScreen: the check may be turned away.
Visit(k) ==
    /\ k \in alive \ visited
    /\ visited' = visited \cup {k}
    /\ IF Running(k) \/ Blocked(k, "check")
       THEN UNCHANGED <<op, ui>>
       ELSE \/ Begin(k, "check", "look", FALSE, Blank)
            \/ ui[k].status # "Checking" /\ UNCHANGED <<op, ui>>
    /\ UNCHANGED <<records, granted, alive, requests, seen, bounds>>

-----------------------------------------------------------------------------
(* The steps of an operation.                                               *)

Unseen == UNCHANGED <<granted, alive, visited, taps>>

\* Where an operation goes from what withFace() found.
AfterLook(k, face, state) ==
    LET kind == op[k].kind
    IN  CASE kind = "install" /\ face = "free" -> "install"
          [] kind = "update" /\ face = "old" -> "update"
          [] kind = "use" /\ face \in Ours /\ state.use -> "permit"
          [] kind = "result" /\ face \in Ours /\ op[k].answer -> "permit"
          [] OTHER -> "idle"

\* What a permission result stands for in the history.
Outcome(k) == IF op[k].answer THEN "ActivationAttempted" ELSE "PermissionDeclined"

Look(k) ==
    /\ At(k, "look")
    /\ \E face \in Faces, active \in BOOLEAN :
         LET found == Found(face, active, saved)
             state == IF op[k].kind = "result"
                      THEN ManualSelection(found, Guidance(Outcome(k)))
                      ELSE found
             place == AfterLook(k, face, state)
         IN  /\ active => face \in Ours /\ op[k].kind \in {"check", "use"}
             /\ IF place = "idle" THEN End(k, state) ELSE Go(k, place, state)
    /\ Unseen /\ UNCHANGED <<records, requests, seen, faults>>

\* No support, a read that failed, or a platform class that is missing.
LookFails(k) ==
    /\ At(k, "look")
    /\ \E state \in {Failed("CheckFailed"), [Blank EXCEPT !.status = "CheckFailed"],
                      [Blank EXCEPT !.status = "Unsupported"]} : End(k, state)
    /\ Unseen /\ UNCHANGED <<records, requests, seen, faults>>

\* client.install() and client.update() with the check of their result.
Push(k) ==
    /\ op[k].pc \in {"install", "update"}
    /\ \/ End(k, ShowInstalled(ui[k]))
       \/ End(k, Failed(IF At(k, "install") THEN "InstallFailed" ELSE "UpdateFailed"))
    /\ Unseen /\ UNCHANGED <<records, requests, seen, faults>>

\* hasActivationPermission().
Permit(k) ==
    /\ At(k, "permit")
    /\ CASE op[k].kind = "use" ->
              Go(k, IF granted THEN "claim" ELSE "mark", ui[k])
         [] op[k].kind = "result" /\ granted ->
              Go(k, "activate", ManualSelection(ui[k], "ActivationUnavailable"))
         [] OTHER -> End(k, ui[k])
    /\ Unseen /\ UNCHANGED <<records, requests, seen, faults>>

\* A Use with the permission claims the one activation.
Claim(k) ==
    LET manual == ManualSelection(ui[k], "ActivationUnavailable")
    IN  /\ At(k, "claim")
        /\ \/ Wins("Eligible", "ActivationAttempted") /\ Go(k, "activate", manual)
           \/ Loses("Eligible", "ActivationAttempted") /\ End(k, manual)
        /\ Unseen /\ UNCHANGED <<requests, seen>>

\* A Use without it claims the one request; the activity launches it, unless it
\* is gone.
Mark(k) ==
    /\ At(k, "mark")
    /\ \/ /\ Wins("Eligible", "PermissionPending")
          /\ End(k, [ui[k] EXCEPT !.use = FALSE, !.awaiting = TRUE])
          /\ asking' = asking \cup ({k} \cap alive)
       \/ /\ Loses("Eligible", "PermissionPending")
          /\ End(k, ManualSelection(ui[k], "ActivationUnavailable"))
          /\ UNCHANGED asking
    /\ Unseen /\ UNCHANGED <<dialogs, returned, seen>>

\* client.activate(), whatever comes of it.
Activate(k) ==
    /\ At(k, "activate")
    /\ attempted' = attempted + 1
    /\ End(k, ui[k])
    /\ Unseen /\ UNCHANGED <<records, requests, used, asked, refused, faults>>

-----------------------------------------------------------------------------
(* The permission request and its result.                                   *)

\* launchRequestedPermission(): a permission already held is answered at once, a
\* launch that throws is a refusal.
Launch(k) ==
    /\ k \in asking
    /\ asking' = asking \ {k}
    /\ asked' = asked + 1
    /\ \/ ~granted /\ dialogs' = dialogs \cup {k} /\ UNCHANGED returned
       \/ /\ returned' = returned \cup {[to |-> k, answer |-> TRUE]}
          /\ granted /\ UNCHANGED dialogs
       \/ /\ returned' = returned \cup {[to |-> k, answer |-> FALSE]}
          /\ UNCHANGED dialogs
    /\ Unseen /\ UNCHANGED <<records, ui, op, used, attempted, refused, faults>>

\* The user answers or dismisses the dialog; the app may be dead meanwhile.
Answer(k) ==
    /\ k \in dialogs
    /\ dialogs' = dialogs \ {k}
    /\ \E yes \in BOOLEAN :
         /\ returned' = returned \cup {[to |-> k, answer |-> yes]}
         /\ granted' = (granted \/ yes)
         /\ refused' = (refused \/ ~yes)
    /\ UNCHANGED <<records, alive, visited, ui, op, asking, used, asked,
                   attempted, bounds>>

\* Mutant: a result is turned away as a second tap would be.
TakeAsTap(k) ==
    /\ k \in alive /\ ~Running(k) /\ ~ui[k].busy
    /\ \E r \in returned :
         /\ r.to = k
         /\ returned' = returned \ {r}
         /\ Begin(k, "result", "consume", r.answer, [ui[k] EXCEPT !.awaiting = FALSE])
    /\ Unseen /\ UNCHANGED <<records, asking, dialogs, seen, faults>>

\* onPermissionResult() waits for the mutex and is not turned away while its own
\* request keeps the controller busy.
Take(k) ==
    /\ k \in alive /\ ~Running(k) /\ ~Blocked(k, "result")
    /\ \E r \in returned :
         /\ r.to = k
         /\ returned' = returned \ {r}
         /\ Begin(k, "result", "consume", r.answer, [ui[k] EXCEPT !.awaiting = FALSE])
    /\ Unseen /\ UNCHANGED <<records, asking, dialogs, seen, faults>>

\* Only a request that is pending has a result to consume.
Consume(k) ==
    /\ At(k, "consume")
    /\ IF saved = "PermissionPending" THEN Go(k, "resolve", ui[k]) ELSE End(k, ui[k])
    /\ Unseen /\ UNCHANGED <<records, requests, seen, faults>>

\* The result is consumed before anything is done about it.
Resolve(k) ==
    LET manual == ManualSelection(ui[k], Guidance(Outcome(k)))
    IN  /\ At(k, "resolve")
        /\ \/ Wins("PermissionPending", Outcome(k)) /\ Go(k, "look", manual)
           \/ /\ Loses("PermissionPending", Outcome(k))
              /\ End(k, [manual EXCEPT !.status = "CheckFailed"])
        /\ Unseen /\ UNCHANGED <<requests, seen>>

-----------------------------------------------------------------------------
(* What happens to the app.                                                 *)

\* The permission is granted in the system settings.
Settings ==
    /\ ~granted /\ granted' = TRUE
    /\ UNCHANGED <<records, alive, visited, ui, op, requests, seen, bounds>>

\* The activity is finished and its view model cleared.  Its operation is
\* cancelled, but goes on until it suspends.
Close(k) ==
    /\ k \in alive /\ Fault("close")
    /\ alive' = alive \ {k}
    /\ visited' = visited \ {k}
    /\ asking' = asking \ {k}
    /\ dialogs' = dialogs \ {k}
    /\ returned' = {r \in returned : r.to # k}
    /\ UNCHANGED <<records, granted, ui, op, seen, taps>>

Cancelled(k) ==
    /\ k \notin alive /\ Running(k)
    /\ op' = [op EXCEPT ![k] = NoOperation]
    /\ UNCHANGED <<records, granted, alive, visited, ui, requests, seen, bounds>>

\* Mutant: the wish to request is saved with the activity.
DieAsking ==
    /\ Fault("death")
    /\ saved' = onDisk
    /\ alive' = {} /\ visited' = {}
    /\ dialogs' \in SUBSET dialogs /\ returned' \in SUBSET returned
    /\ granted' \in {granted, FALSE}
    /\ op' = [k \in Activities |-> NoOperation]
    /\ ui' = [k \in Activities |-> Blank]
    /\ UNCHANGED <<onDisk, asking, seen, taps>>

\* The process dies, as it does when a permission is revoked.  A dialog, and a
\* result not delivered yet, wait for the activity to be recreated, or are lost
\* with it.
Die ==
    /\ Fault("death")
    /\ saved' = onDisk
    /\ alive' = {} /\ visited' = {} /\ asking' = {}
    /\ dialogs' \in SUBSET dialogs /\ returned' \in SUBSET returned
    /\ granted' \in {granted, FALSE}
    /\ op' = [k \in Activities |-> NoOperation]
    /\ ui' = [k \in Activities |-> Blank]
    /\ UNCHANGED <<onDisk, seen, taps>>

-----------------------------------------------------------------------------
Init ==
    /\ saved = "Eligible" /\ onDisk = "Eligible"
    /\ granted \in BOOLEAN
    /\ alive = {} /\ visited = {}
    /\ ui = [k \in Activities |-> Blank]
    /\ op = [k \in Activities |-> NoOperation]
    /\ asking = {} /\ dialogs = {} /\ returned = {}
    /\ used = FALSE /\ asked = 0 /\ attempted = 0 /\ refused = FALSE
    /\ taps = 0 /\ faults = 0

\* An operation's next step.
Step(k) ==
    \/ Look(k) \/ LookFails(k) \/ Push(k) \/ Permit(k) \/ Claim(k) \/ Mark(k)
    \/ Activate(k) \/ Consume(k) \/ Resolve(k)

User(k) ==
    \/ \E kind \in Kinds \ {"none", "result"} : Tap(k, kind)
    \/ Open(k) \/ Visit(k) \/ Answer(k)

System(k) == Launch(k) \/ Close(k) \/ Cancelled(k)

\* The app rests: the instance may end here.
Quiet == (\A k \in Activities : ~Running(k)) /\ UNCHANGED vars

Next ==
    \/ \E k \in Activities : Step(k) \/ User(k) \/ System(k) \/ Take(k)
    \/ Settings \/ Die \/ Quiet

Spec == Init /\ [][Next]_vars

\* Platform calls return or fail, and a coroutine that waits for the mutex gets it.
FairSpec == Spec /\ \A k \in Activities : WF_vars(Step(k)) /\ WF_vars(Take(k))

-----------------------------------------------------------------------------
(* Properties.                                                              *)

\* Every variable has its type, and what belongs to a view model goes with it.
TypeOK ==
    /\ saved \in Consents /\ onDisk \in Consents
    /\ granted \in BOOLEAN
    /\ alive \subseteq Activities /\ visited \subseteq alive
    /\ ui \in [Activities -> State] /\ op \in [Activities -> Operation]
    /\ asking \subseteq alive /\ dialogs \subseteq Activities
    /\ returned \subseteq Result
    /\ used \in BOOLEAN /\ refused \in BOOLEAN
    /\ asked \in Nat /\ attempted \in Nat
    /\ taps \in Nat /\ faults \in Nat

Promise == INSTANCE WatchFacePromise
    WITH used <- used, asked <- asked, attempted <- attempted, refused <- refused

\* The app keeps its promise: over all activities, restarts and failed commits,
\* one request and one activation attempt at most, never before the user asked
\* for it and never after a refusal.
KeepsPromise == Promise!Spec

\* A screen that was opened and is not busy leaves the user a way on: it does not
\* say Checking for ever, and an installed face can be updated or used, or the
\* manual selection is explained.
AlwaysAWayOn ==
    \A k \in visited :
        LET state == ui[k]
        IN  ~Running(k) /\ ~state.busy =>
                /\ state.status # "Checking"
                /\ state.status = "Installed" =>
                       state.update \/ state.use \/ state.manual # "none"

\* A busy controller is busy with a request in front of the user, or becomes
\* available again.
BusyEnds ==
    \A k \in Activities :
        k \in alive /\ ui[k].busy
            ~> k \notin alive \/ ~ui[k].busy \/ k \in asking \cup dialogs
=============================================================================

--------------------------- MODULE WatchFace_proofs ---------------------------
(***************************************************************************)
(* Proofs about WatchFace: its types, that it implements WatchFacePromise,  *)
(* and that every screen leaves a way on.                                   *)
(***************************************************************************)
EXTENDS WatchFace, TLAPS

(***************************************************************************)
(* The permission request passes from hand to hand: a view model that wants *)
(* to ask, a dialog, a result on its way, an operation that consumes it and *)
(* may activate.  The promise is kept because there is one such hand at     *)
(* most, and none while the history on disk or in memory is still Eligible. *)
(***************************************************************************)
Rightful(k) ==
    \/ op[k].pc = "activate"
    \/ op[k].kind = "result" /\ op[k].answer /\ op[k].pc \in {"look", "permit"}

InHand(k) == op[k].pc \in {"consume", "resolve"} \/ Rightful(k)

NoneInHand == \A k \in Activities : ~InHand(k)

Untouched ==
    /\ asked = 0 /\ attempted = 0 /\ ~refused
    /\ asking = {} /\ dialogs = {} /\ returned = {} /\ NoneInHand

EligibleIsUntouched == saved = "Eligible" \/ onDisk = "Eligible" => Untouched

OneHand ==
    /\ \A j, k \in asking : j = k
    /\ \A j, k \in dialogs : j = k
    /\ \A r, s \in returned : r = s
    /\ \A j, k \in Activities : InHand(j) /\ InHand(k) => j = k
    /\ asking # {} => dialogs = {} /\ returned = {} /\ NoneInHand
    /\ dialogs # {} => returned = {} /\ NoneInHand
    /\ returned # {} => NoneInHand

\* What whoever holds the request may rely on.
HandIsGood ==
    /\ asking # {} => asked = 0 /\ attempted = 0 /\ ~refused
    /\ dialogs # {} => asked = 1 /\ attempted = 0 /\ ~refused
    /\ \A r \in returned : attempted = 0 /\ (r.answer => ~refused)
    /\ \A k \in Activities :
         InHand(k) => attempted = 0 /\ (Rightful(k) \/ op[k].answer => ~refused)

\* No history changes before the user asked.
UsedFirst == saved # "Eligible" \/ onDisk # "Eligible" => used

OperationsOK ==
    \A k \in Activities :
        /\ op[k].kind = "use" => used
        /\ op[k].pc \in {"claim", "mark"} => op[k].kind = "use"
        /\ op[k].kind = "result" /\ op[k].pc = "permit" => op[k].answer

PromiseInv ==
    /\ EligibleIsUntouched /\ OneHand /\ HandIsGood /\ UsedFirst /\ OperationsOK

-----------------------------------------------------------------------------
(* Types.                                                                   *)

\* Every state a controller shows is one.
LEMMA ShownType ==
    ASSUME NEW state \in State
    PROVE  /\ Blank \in State
           /\ Ended(state) \in State
           /\ ShowInstalled(state) \in State
           /\ [state EXCEPT !.busy = TRUE] \in State
           /\ [state EXCEPT !.awaiting = FALSE] \in State
           /\ [state EXCEPT !.use = FALSE, !.awaiting = TRUE] \in State
           /\ [state EXCEPT !.status = "CheckFailed"] \in State
           /\ [state EXCEPT !.status = "Unsupported"] \in State
           /\ \A reason \in Guidances : ManualSelection(state, reason) \in State
BY DEF Blank, Ended, ShowInstalled, ManualSelection, State, Statuses, Guidances

\* The catch of operation() shows a state.
LEMMA FailedType ==
    ASSUME NEW status \in Statuses
    PROVE  Failed(status) \in State
BY DEF Failed, Blank, State, Guidances

\* The guidance of a history is one of the screen's.
LEMMA GuidanceType ==
    ASSUME NEW history
    PROVE  Guidance(history) \in Guidances
BY DEF Guidance, Guidances

\* withFace() shows a state.
LEMMA FoundType ==
    ASSUME NEW face \in Faces, NEW active \in BOOLEAN, NEW history
    PROVE  Found(face, active, history) \in State
<1>1. FoundStatus(face, active) \in Statuses
  BY DEF FoundStatus, Statuses
<1>2. Guidance(history) \in Guidances
  BY GuidanceType
<1> QED
  BY <1>1, <1>2 DEF Found, State

\* op and ui keep their types, and the operations of the other activities stay.
Moves(k) ==
    /\ op' \in [Activities -> Operation] /\ ui' \in [Activities -> State]
    /\ \A j \in Activities : j # k => op'[j] = op[j]

\* An operation that begins is an operation.
LEMMA BeginType ==
    ASSUME TypeOK, NEW k \in Activities, NEW kind \in Kinds, NEW place \in Places,
           NEW answer \in BOOLEAN, NEW state \in State,
           Begin(k, kind, place, answer, state)
    PROVE  /\ Moves(k)
           /\ op'[k] = [kind |-> kind, pc |-> place, answer |-> answer]
<1>1. [kind |-> kind, pc |-> place, answer |-> answer] \in Operation
  BY DEF Operation
<1>2. [state EXCEPT !.busy = TRUE] \in State
  BY ShownType
<1> QED
  BY <1>1, <1>2 DEF Begin, Moves, TypeOK

\* An operation that goes on stays what it is but for its place.
LEMMA GoType ==
    ASSUME TypeOK, NEW k \in Activities, NEW place \in Places, NEW state \in State,
           Go(k, place, state)
    PROVE  /\ Moves(k)
           /\ op'[k] = [op[k] EXCEPT !.pc = place]
<1>1. [op[k] EXCEPT !.pc = place] \in Operation
  BY DEF Operation, TypeOK
<1>2. op' = [op EXCEPT ![k] = [op[k] EXCEPT !.pc = place]]
  BY DEF Go
<1> QED
  BY <1>1, <1>2 DEF Go, Moves, TypeOK

\* An operation that ended is none.
LEMMA EndType ==
    ASSUME TypeOK, NEW k \in Activities, NEW state \in State, End(k, state)
    PROVE  Moves(k) /\ op'[k] = NoOperation
<1>1. NoOperation \in Operation
  BY DEF NoOperation, Operation, Kinds, Places
<1>2. Ended(state) \in State
  BY ShownType
<1> QED
  BY <1>1, <1>2 DEF End, Moves, TypeOK

\* A compare-and-set leaves histories, whatever it answers.
LEMMA HistoryType ==
    ASSUME TypeOK, NEW from \in Consents, NEW to \in Consents,
           Wins(from, to) \/ Loses(from, to)
    PROVE  saved' \in Consents /\ onDisk' \in Consents /\ faults' \in Nat
BY DEF Wins, Loses, Fault, records, TypeOK

\* The steps of an operation keep the types.
LEMMA StepType ==
    ASSUME TypeOK, NEW k \in Activities, Step(k)
    PROVE  TypeOK' /\ Moves(k)
<1>1. ui[k] \in State /\ op[k] \in Operation
  BY DEF TypeOK
<1>2. ASSUME NEW reason \in Guidances
      PROVE  ManualSelection(ui[k], reason) \in State
  BY <1>1, ShownType
<1>3. Outcome(k) \in Consents
  BY DEF Outcome, Consents
<1>4. {"ActivationUnavailable"} \subseteq Guidances
  BY DEF Guidances
<1>5. CASE Look(k)
  <2>1. PICK state, place :
           /\ \E face \in Faces, active \in BOOLEAN :
                /\ state = IF op[k].kind = "result"
                           THEN ManualSelection(Found(face, active, saved),
                                                Guidance(Outcome(k)))
                           ELSE Found(face, active, saved)
                /\ place = AfterLook(k, face, state)
           /\ IF place = "idle" THEN End(k, state) ELSE Go(k, place, state)
    BY <1>5 DEF Look
  <2>2. state \in State
    <3>1. PICK face \in Faces, active \in BOOLEAN :
             state = IF op[k].kind = "result"
                     THEN ManualSelection(Found(face, active, saved),
                                          Guidance(Outcome(k)))
                     ELSE Found(face, active, saved)
      BY <2>1
    <3>2. Found(face, active, saved) \in State
      BY FoundType
    <3> QED
      BY <3>1, <3>2, ShownType, GuidanceType
  <2>3. place \in Places
    BY <2>1 DEF AfterLook, Places
  <2>4. Moves(k)
    BY <2>1, <2>2, <2>3, GoType, EndType
  <2> QED
    BY <1>5, <2>4 DEF Look, Unseen, records, requests, seen, TypeOK, Moves
<1>6. CASE LookFails(k)
  <2>1. {"CheckFailed", "Unsupported"} \subseteq Statuses
    BY DEF Statuses
  <2>2. /\ Failed("CheckFailed") \in State
        /\ [Blank EXCEPT !.status = "CheckFailed"] \in State
        /\ [Blank EXCEPT !.status = "Unsupported"] \in State
    BY <1>1, <2>1, FailedType, ShownType
  <2>3. Moves(k)
    BY <1>6, <2>2, EndType DEF LookFails
  <2> QED
    BY <1>6, <2>3 DEF LookFails, Unseen, records, requests, seen, TypeOK, Moves
<1>7. CASE Push(k)
  <2>1. {"InstallFailed", "UpdateFailed"} \subseteq Statuses
    BY DEF Statuses
  <2>2. /\ ShowInstalled(ui[k]) \in State
        /\ Failed("InstallFailed") \in State /\ Failed("UpdateFailed") \in State
    BY <1>1, <2>1, FailedType, ShownType
  <2>3. PICK state \in State : End(k, state)
    BY <1>7, <2>2 DEF Push
  <2>4. Moves(k)
    BY <2>3, EndType
  <2> QED
    BY <1>7, <2>4 DEF Push, Unseen, records, requests, seen, TypeOK, Moves
<1>8. CASE Permit(k)
  <2>1. PICK state \in State, place \in Places : End(k, state) \/ Go(k, place, state)
    <3>1. {"claim", "mark", "activate"} \subseteq Places
      BY DEF Places
    <3> QED
      BY <1>1, <1>2, <1>4, <1>8, <3>1 DEF Permit
  <2>2. Moves(k)
    BY <2>1, EndType, GoType
  <2> QED
    BY <1>8, <2>2 DEF Permit, Unseen, records, requests, seen, TypeOK, Moves
<1>9. CASE Claim(k)
  <2> DEFINE state == ManualSelection(ui[k], "ActivationUnavailable")
  <2>1. state \in State /\ "activate" \in Places
    BY <1>2, <1>4 DEF Places
  <2>2. Moves(k)
    BY <1>9, <2>1, EndType, GoType DEF Claim
  <2>3. saved' \in Consents /\ onDisk' \in Consents /\ faults' \in Nat
    BY <1>9, HistoryType DEF Claim, Consents
  <2> QED
    BY <1>9, <2>2, <2>3 DEF Claim, Unseen, requests, seen, TypeOK, Moves
<1>10. CASE Mark(k)
  <2>1. PICK state \in State : End(k, state)
    BY <1>1, <1>2, <1>4, <1>10, ShownType DEF Mark
  <2>2. Moves(k)
    BY <2>1, EndType
  <2>3. saved' \in Consents /\ onDisk' \in Consents /\ faults' \in Nat
    BY <1>10, HistoryType DEF Mark, Consents
  <2> QED
    BY <1>10, <2>2, <2>3 DEF Mark, Unseen, seen, TypeOK, Moves
<1>11. CASE Activate(k)
  BY <1>1, <1>11, EndType
  DEF Activate, Unseen, records, requests, TypeOK, Moves
<1>12. CASE Consume(k)
  <2>1. "resolve" \in Places
    BY DEF Places
  <2>2. Moves(k)
    BY <1>1, <1>12, <2>1, EndType, GoType DEF Consume
  <2> QED
    BY <1>12, <2>2 DEF Consume, Unseen, records, requests, seen, TypeOK, Moves
<1>13. CASE Resolve(k)
  <2> DEFINE state == ManualSelection(ui[k], Guidance(Outcome(k)))
  <2>1. state \in State /\ "look" \in Places
    BY <1>2, GuidanceType DEF Places
  <2>2. [state EXCEPT !.status = "CheckFailed"] \in State
    BY <2>1, ShownType
  <2>3. Moves(k)
    <3> HIDE DEF state
    <3> QED
      BY <1>13, <2>1, <2>2, EndType, GoType DEF Resolve, state
  <2>4. saved' \in Consents /\ onDisk' \in Consents /\ faults' \in Nat
    BY <1>3, <1>13, HistoryType DEF Resolve, Consents
  <2> QED
    BY <1>13, <2>3, <2>4 DEF Resolve, Unseen, requests, seen, TypeOK, Moves
<1> QED
  BY <1>5, <1>6, <1>7, <1>8, <1>9, <1>10, <1>11, <1>12, <1>13 DEF Step

\* So do taps, visits, requests and results.
LEMMA OtherType ==
    ASSUME TypeOK, NEW k \in Activities, User(k) \/ System(k) \/ Take(k)
    PROVE  TypeOK'
<1>1. ui[k] \in State /\ op[k] \in Operation /\ Blank \in State
  BY ShownType DEF TypeOK
<1>2. ASSUME NEW kind \in Kinds \ {"none", "result"}, Tap(k, kind)
      PROVE  TypeOK'
  <2>1. StartState(k, kind) \in State /\ "look" \in Places
    BY <1>1 DEF StartState, Places
  <2>2. Moves(k)
    BY <1>2, <2>1, BeginType DEF Tap
  <2> QED
    BY <1>2, <2>2 DEF Tap, records, requests, TypeOK, Moves
<1>3. CASE Open(k)
  BY <1>1, <1>3 DEF Open, records, requests, seen, bounds, TypeOK
<1>4. CASE Visit(k)
  <2>1. "look" \in Places /\ "check" \in Kinds
    BY DEF Places, Kinds
  <2>2. op' \in [Activities -> Operation] /\ ui' \in [Activities -> State]
    BY <1>1, <1>4, <2>1, BeginType DEF Visit, Moves, TypeOK
  <2> QED
    BY <1>4, <2>2 DEF Visit, records, requests, seen, bounds, TypeOK
<1>5. CASE Answer(k)
  <2>1. \A yes \in BOOLEAN : [to |-> k, answer |-> yes] \in Result
    BY DEF Result
  <2> QED
    BY <1>5, <2>1 DEF Answer, records, bounds, TypeOK
<1>6. CASE Launch(k)
  <2>1. \A yes \in BOOLEAN : [to |-> k, answer |-> yes] \in Result
    BY DEF Result
  <2>2. returned' \subseteq Result
    <3>1. returned \subseteq Result
      BY DEF TypeOK
    <3>2. \/ returned' = returned
          \/ returned' = returned \cup {[to |-> k, answer |-> TRUE]}
          \/ returned' = returned \cup {[to |-> k, answer |-> FALSE]}
      BY <1>6 DEF Launch
    <3>3. /\ {[to |-> k, answer |-> TRUE]} \subseteq Result
          /\ {[to |-> k, answer |-> FALSE]} \subseteq Result
      BY <2>1
    <3> QED
      BY <3>1, <3>2, <3>3
  <2>3. asking' \subseteq alive /\ dialogs' \subseteq Activities /\ asked' \in Nat
    BY <1>6 DEF Launch, TypeOK
  <2> QED
    BY <1>6, <2>2, <2>3 DEF Launch, Unseen, records, TypeOK
<1>7. CASE Close(k)
  BY <1>7 DEF Close, Fault, records, seen, TypeOK
<1>8. CASE Cancelled(k)
  <2>1. NoOperation \in Operation
    BY DEF NoOperation, Operation, Kinds, Places
  <2> QED
    BY <1>8, <2>1 DEF Cancelled, records, requests, seen, bounds, TypeOK
<1>9. CASE Take(k)
  <2>1. PICK r \in returned :
           /\ returned' = returned \ {r}
           /\ Begin(k, "result", "consume", r.answer,
                    [ui[k] EXCEPT !.awaiting = FALSE])
    BY <1>9 DEF Take
  <2>2. /\ r.answer \in BOOLEAN /\ "result" \in Kinds /\ "consume" \in Places
        /\ [ui[k] EXCEPT !.awaiting = FALSE] \in State
    BY <1>1, ShownType DEF TypeOK, Result, Kinds, Places
  <2>3. Moves(k)
    BY <2>1, <2>2, BeginType
  <2> QED
    BY <1>9, <2>1, <2>3 DEF Take, Unseen, records, seen, TypeOK, Moves
<1> QED
  BY <1>2, <1>3, <1>4, <1>5, <1>6, <1>7, <1>8, <1>9 DEF User, System

\* No step of the app or of its surroundings leaves the types.
LEMMA NextType ==
    ASSUME TypeOK, [Next]_vars
    PROVE  TypeOK'
<1>1. NoOperation \in Operation /\ Blank \in State
  BY DEF NoOperation, Operation, Kinds, Places, Blank, State, Statuses, Guidances
<1>2. ASSUME NEW k \in Activities, Step(k) \/ User(k) \/ System(k) \/ Take(k)
      PROVE  TypeOK'
  BY <1>2, StepType, OtherType
<1>3. CASE Settings
  BY <1>3 DEF Settings, records, requests, seen, bounds, TypeOK
<1>4. CASE Die
  <2>1. op' \in [Activities -> Operation] /\ ui' \in [Activities -> State]
    BY <1>1, <1>4 DEF Die
  <2>2. returned' \subseteq Result /\ dialogs' \subseteq Activities
    BY <1>4 DEF Die, TypeOK
  <2>3. granted' \in BOOLEAN
    BY <1>4 DEF Die, TypeOK
  <2>4. faults' \in Nat
    BY <1>4 DEF Die, Fault, TypeOK
  <2> QED
    BY <1>4, <2>1, <2>2, <2>3, <2>4 DEF Die, seen, TypeOK
<1>5. CASE UNCHANGED vars
  BY <1>5 DEF vars, records, requests, seen, bounds, TypeOK
<1> QED
  BY <1>2, <1>3, <1>4, <1>5 DEF Next, Quiet

\* The watch-face utility keeps the type invariant, whatever the activities, the
\* faults and the bounds.
THEOREM WatchFaceTypes == Spec => []TypeOK
<1>1. Init => TypeOK
  <2>1. NoOperation \in Operation /\ Blank \in State
    BY DEF NoOperation, Operation, Kinds, Places, Blank, State, Statuses, Guidances
  <2>2. ASSUME Init PROVE granted \in BOOLEAN /\ used \in BOOLEAN /\ refused \in BOOLEAN
    BY <2>2 DEF Init
  <2>3. ASSUME Init
        PROVE  op \in [Activities -> Operation] /\ ui \in [Activities -> State]
    BY <2>1, <2>3 DEF Init
  <2>4. ASSUME Init
        PROVE  /\ saved \in Consents /\ onDisk \in Consents
               /\ asked \in Nat /\ attempted \in Nat /\ taps \in Nat /\ faults \in Nat
    BY <2>4 DEF Init, Consents
  <2>5. ASSUME Init
        PROVE  /\ alive \subseteq Activities /\ visited \subseteq alive
               /\ asking \subseteq alive /\ dialogs \subseteq Activities
               /\ returned \subseteq Result
    BY <2>5 DEF Init
  <2> QED
    BY <2>2, <2>3, <2>4, <2>5 DEF TypeOK
<1>2. TypeOK /\ [Next]_vars => TypeOK'
  BY NextType
<1> QED
  BY <1>1, <1>2, PTL DEF Spec

-----------------------------------------------------------------------------
(* The promise.                                                             *)

\* A step after which nobody holds the request who did not hold it before.
NoNewHand ==
    /\ asked' = asked /\ attempted' = attempted /\ refused' = refused
    /\ asking' \subseteq asking /\ dialogs' \subseteq dialogs
    /\ returned' \subseteq returned
    /\ \A k \in Activities :
         InHand(k)' => /\ InHand(k)
                       /\ Rightful(k)' \/ op'[k].answer => Rightful(k) \/ op[k].answer
    /\ saved' = "Eligible" \/ onDisk' = "Eligible"
           => saved = "Eligible" \/ onDisk = "Eligible"

\* Such a step keeps the invariant.
LEMMA NoNewHandKeeps ==
    ASSUME PromiseInv, NoNewHand, UsedFirst', OperationsOK'
    PROVE  PromiseInv'
<1>1. NoneInHand => NoneInHand'
  BY DEF NoNewHand, NoneInHand
<1>2. EligibleIsUntouched'
  BY <1>1 DEF PromiseInv, NoNewHand, EligibleIsUntouched, Untouched
<1>3. OneHand'
  BY <1>1 DEF PromiseInv, NoNewHand, OneHand
<1>4. HandIsGood'
  BY DEF PromiseInv, NoNewHand, HandIsGood
<1> QED
  BY <1>2, <1>3, <1>4 DEF PromiseInv

\* What one operation does to its own place, with no effect outside.
OperationOK(o) ==
    /\ o.kind = "use" => used
    /\ o.pc \in {"claim", "mark"} => o.kind = "use"
    /\ o.kind = "result" /\ o.pc = "permit" => o.answer

\* An operation that moves on without an effect keeps the invariant.
LEMMA MoveKeeps ==
    ASSUME PromiseInv, NEW k \in Activities,
           \A j \in Activities : j # k => op'[j] = op[j],
           asked' = asked /\ attempted' = attempted /\ refused' = refused,
           used => used',
           UNCHANGED requests,
           InHand(k)' => /\ InHand(k)
                         /\ Rightful(k)' \/ op'[k].answer
                                => Rightful(k) \/ op[k].answer,
           OperationOK(op[k])',
           saved' = "Eligible" \/ onDisk' = "Eligible"
               => saved = "Eligible" \/ onDisk = "Eligible",
           UsedFirst'
    PROVE  PromiseInv'
<1>1. \A j \in Activities :
         InHand(j)' => /\ InHand(j)
                       /\ Rightful(j)' \/ op'[j].answer => Rightful(j) \/ op[j].answer
  BY DEF InHand, Rightful
<1>2. NoNewHand
  BY <1>1 DEF NoNewHand, requests
<1>3. OperationsOK'
  BY DEF PromiseInv, OperationsOK, OperationOK
<1> QED
  BY <1>2, <1>3, NoNewHandKeeps

\* An operation that ended holds nothing.
LEMMA EndMoves ==
    ASSUME TypeOK, NEW k \in Activities, NEW state, End(k, state)
    PROVE  /\ \A j \in Activities : j # k => op'[j] = op[j]
           /\ ~InHand(k)' /\ OperationOK(op[k])'
<1>1. op'[k] = NoOperation /\ \A j \in Activities : j # k => op'[j] = op[j]
  BY DEF End, TypeOK
<1> QED
  BY <1>1 DEF NoOperation, InHand, Rightful, OperationOK

\* An operation that goes on changes nothing but its place.
LEMMA GoMoves ==
    ASSUME TypeOK, NEW k \in Activities, NEW place, NEW state, Go(k, place, state)
    PROVE  /\ \A j \in Activities : j # k => op'[j] = op[j]
           /\ op'[k].pc = place
           /\ op'[k].kind = op[k].kind /\ op'[k].answer = op[k].answer
<1>1. op[k] \in Operation
  BY DEF TypeOK
<1>2. op'[k] = [op[k] EXCEPT !.pc = place]
      /\ \A j \in Activities : j # k => op'[j] = op[j]
  BY DEF Go, TypeOK
<1> QED
  BY <1>1, <1>2 DEF Operation

\* An operation that holds the request was started by the user, and the history
\* is not Eligible any more.
LEMMA HandHistory ==
    ASSUME PromiseInv, NEW k \in Activities, InHand(k)
    PROVE  saved # "Eligible" /\ onDisk # "Eligible" /\ used
BY DEF PromiseInv, EligibleIsUntouched, Untouched, NoneInHand, UsedFirst

\* The steps of an operation that have no effect outside the app.
LEMMA InnerPromise ==
    ASSUME TypeOK, PromiseInv, NEW k \in Activities,
           Look(k) \/ LookFails(k) \/ Push(k) \/ Permit(k) \/ Consume(k)
    PROVE  PromiseInv' /\ UNCHANGED seen
<1>1. UNCHANGED <<records, requests, seen>>
  BY DEF Look, LookFails, Push, Permit, Consume
<1>2. UsedFirst'
  BY <1>1 DEF PromiseInv, UsedFirst, records, seen
<1>3. ASSUME NEW state, End(k, state)
      PROVE  PromiseInv'
  BY <1>1, <1>2, <1>3, EndMoves, MoveKeeps DEF records, seen
<1>4. ASSUME NEW place, NEW state, Go(k, place, state),
             OperationOK([op[k] EXCEPT !.pc = place]),
             place = "activate" => Rightful(k),
             place = "permit" => op[k].pc = "look",
             place = "resolve" => op[k].pc = "consume",
             place \notin {"look", "consume"}
      PROVE  PromiseInv'
  <2>1. /\ \A j \in Activities : j # k => op'[j] = op[j]
        /\ op'[k].pc = place
        /\ op'[k].kind = op[k].kind /\ op'[k].answer = op[k].answer
    BY <1>4, GoMoves
  <2>2. OperationOK(op[k])'
    <3>1. op[k] \in Operation
      BY DEF TypeOK
    <3> QED
      BY <1>1, <1>4, <2>1, <3>1 DEF OperationOK, Operation, seen
  <2>3. InHand(k)' => /\ InHand(k)
                      /\ Rightful(k)' \/ op'[k].answer => Rightful(k) \/ op[k].answer
    BY <1>4, <2>1 DEF InHand, Rightful
  <2> QED
    BY <1>1, <1>2, <2>1, <2>2, <2>3, MoveKeeps DEF records, seen
<1>5. op[k] \in Operation /\ OperationOK(op[k])
  BY DEF TypeOK, PromiseInv, OperationsOK, OperationOK
<1>6. CASE Look(k)
  <2>1. PICK state, place, face :
           /\ place = AfterLook(k, face, state)
           /\ IF place = "idle" THEN End(k, state) ELSE Go(k, place, state)
    BY <1>6 DEF Look
  <2>2. CASE place = "idle"
    BY <1>1, <1>3, <2>1, <2>2
  <2>3. CASE place # "idle"
    <3>1. /\ place \in {"install", "update", "permit"}
          /\ place = "permit" /\ op[k].kind = "result" => op[k].answer
      BY <2>1, <2>3 DEF AfterLook
    <3>2. OperationOK([op[k] EXCEPT !.pc = place])
      BY <1>5, <3>1 DEF OperationOK, Operation
    <3> QED
      BY <1>4, <1>6, <2>1, <2>3, <3>1, <3>2 DEF Look, At
  <2> QED
    BY <2>2, <2>3
<1>7. CASE LookFails(k)
  BY <1>3, <1>7 DEF LookFails
<1>8. CASE Push(k)
  BY <1>3, <1>8 DEF Push
<1>9. CASE Permit(k)
  <2>1. CASE op[k].kind = "use"
    <3>1. PICK place \in {"claim", "mark"} : Go(k, place, ui[k])
      BY <1>9, <2>1 DEF Permit
    <3>2. OperationOK([op[k] EXCEPT !.pc = place])
      BY <1>5, <2>1, <3>1 DEF OperationOK, Operation
    <3> QED
      BY <1>1, <1>4, <3>1, <3>2
  <2>2. CASE op[k].kind = "result" /\ granted
    <3>1. Go(k, "activate", ManualSelection(ui[k], "ActivationUnavailable"))
      BY <1>9, <2>2 DEF Permit
    <3>2. Rightful(k)
      BY <1>5, <1>9, <2>2 DEF Permit, At, Rightful, OperationOK
    <3>3. OperationOK([op[k] EXCEPT !.pc = "activate"])
      BY <1>5 DEF OperationOK, Operation
    <3> QED
      BY <1>1, <1>4, <3>1, <3>2, <3>3
  <2>3. CASE op[k].kind # "use" /\ ~(op[k].kind = "result" /\ granted)
    <3>1. End(k, ui[k])
      BY <1>9, <2>3 DEF Permit
    <3> QED
      BY <1>1, <1>3, <3>1
  <2> QED
    BY <2>1, <2>2, <2>3
<1>10. CASE Consume(k)
  <2>1. CASE saved = "PermissionPending"
    <3>1. Go(k, "resolve", ui[k]) /\ op[k].pc = "consume"
      BY <1>10, <2>1 DEF Consume, At
    <3>2. OperationOK([op[k] EXCEPT !.pc = "resolve"])
      BY <1>5 DEF OperationOK, Operation
    <3> QED
      BY <1>1, <1>4, <3>1, <3>2
  <2>2. CASE saved # "PermissionPending"
    BY <1>1, <1>3, <1>10, <2>2 DEF Consume
  <2> QED
    BY <2>1, <2>2
<1> QED
  BY <1>1, <1>6, <1>7, <1>8, <1>9, <1>10

\* A lost compare-and-set leaves an operation nothing to hold.
LEMMA LosesPromise ==
    ASSUME TypeOK, PromiseInv, NEW k \in Activities, NEW from, NEW to,
           to # "Eligible", Loses(from, to), NEW state, End(k, state),
           UNCHANGED <<requests, seen>>, used
    PROVE  PromiseInv'
<1>1. saved' = "Eligible" \/ onDisk' = "Eligible"
          => saved = "Eligible" \/ onDisk = "Eligible"
  BY DEF Loses, records
<1>2. UsedFirst'
  BY DEF UsedFirst, seen
<1> QED
  BY <1>1, <1>2, EndMoves, MoveKeeps DEF seen

\* The operation that claims the activation becomes the one hand; the one that
\* claims the request makes its view model so; the result is spent on an
\* activation or on nothing.
LEMMA ClaimPromise ==
    ASSUME TypeOK, PromiseInv, NEW k \in Activities,
           Claim(k) \/ Mark(k) \/ Resolve(k)
    PROVE  PromiseInv' /\ UNCHANGED seen
<1>1. UNCHANGED seen /\ op[k] \in Operation /\ OperationOK(op[k])
  BY DEF Claim, Mark, Resolve, seen, TypeOK, PromiseInv, OperationsOK, OperationOK
<1>2. CASE Claim(k)
  <2>1. used /\ UNCHANGED requests
    BY <1>1, <1>2 DEF Claim, At, OperationOK, requests
  <2> DEFINE manual == ManualSelection(ui[k], "ActivationUnavailable")
  <2>2. CASE Wins("Eligible", "ActivationAttempted") /\ Go(k, "activate", manual)
    <3>1. Untouched
      BY <2>2 DEF Wins, PromiseInv, EligibleIsUntouched
    <3>2. /\ \A j \in Activities : j # k => op'[j] = op[j]
          /\ op'[k].pc = "activate" /\ op'[k].kind = op[k].kind
      BY <2>2, GoMoves
    <3>3. \A j \in Activities : InHand(j)' => j = k
      BY <3>1, <3>2 DEF Untouched, NoneInHand, InHand, Rightful
    <3>4. EligibleIsUntouched' /\ UsedFirst'
      BY <1>1, <2>1, <2>2 DEF EligibleIsUntouched, UsedFirst, Wins, seen
    <3>5. OneHand'
      BY <2>1, <3>1, <3>3 DEF OneHand, Untouched, requests
    <3>6. HandIsGood'
      BY <1>1, <2>1, <3>1 DEF HandIsGood, Untouched, requests, seen
    <3>7. OperationsOK'
      BY <1>1, <3>2 DEF PromiseInv, OperationsOK, OperationOK, seen
    <3> QED
      BY <1>1, <3>4, <3>5, <3>6, <3>7 DEF PromiseInv
  <2>3. CASE Loses("Eligible", "ActivationAttempted") /\ End(k, manual)
    BY <1>1, <2>1, <2>3, LosesPromise
  <2> QED
    BY <1>2, <2>2, <2>3 DEF Claim
<1>3. CASE Mark(k)
  <2>1. used /\ UNCHANGED <<dialogs, returned>>
    BY <1>1, <1>3 DEF Mark, At, OperationOK
  <2>2. CASE /\ Wins("Eligible", "PermissionPending")
             /\ End(k, [ui[k] EXCEPT !.use = FALSE, !.awaiting = TRUE])
             /\ asking' = asking \cup ({k} \cap alive)
    <3>1. Untouched
      BY <2>2 DEF Wins, PromiseInv, EligibleIsUntouched
    <3>2. /\ \A j \in Activities : j # k => op'[j] = op[j]
          /\ ~InHand(k)' /\ OperationOK(op[k])'
      BY <2>2, EndMoves
    <3>3. NoneInHand'
      BY <3>1, <3>2 DEF Untouched, NoneInHand, InHand, Rightful
    <3>4. EligibleIsUntouched' /\ UsedFirst'
      BY <1>1, <2>1, <2>2 DEF EligibleIsUntouched, UsedFirst, Wins, seen
    <3>5. OneHand'
      BY <2>1, <2>2, <3>1, <3>3 DEF OneHand, Untouched, NoneInHand
    <3>6. HandIsGood'
      BY <1>1, <2>1, <3>1, <3>3 DEF HandIsGood, Untouched, NoneInHand, seen
    <3>7. OperationsOK'
      BY <1>1, <3>2 DEF PromiseInv, OperationsOK, OperationOK, seen
    <3> QED
      BY <1>1, <3>4, <3>5, <3>6, <3>7 DEF PromiseInv
  <2>3. CASE /\ Loses("Eligible", "PermissionPending")
             /\ End(k, ManualSelection(ui[k], "ActivationUnavailable"))
             /\ UNCHANGED asking
    BY <1>1, <2>1, <2>3, LosesPromise DEF requests
  <2> QED
    BY <1>3, <2>2, <2>3 DEF Mark
<1>4. CASE Resolve(k)
  <2>1. InHand(k) /\ UNCHANGED requests
    BY <1>4 DEF Resolve, At, InHand, requests
  <2>2. saved # "Eligible" /\ onDisk # "Eligible" /\ used
    BY <2>1, HandHistory
  <2>3. Outcome(k) \in {"ActivationAttempted", "PermissionDeclined"}
    BY DEF Outcome
  <2> DEFINE manual == ManualSelection(ui[k], Guidance(Outcome(k)))
  <2>4. CASE Wins("PermissionPending", Outcome(k)) /\ Go(k, "look", manual)
    <3>1. /\ \A j \in Activities : j # k => op'[j] = op[j]
          /\ op'[k].pc = "look"
          /\ op'[k].kind = op[k].kind /\ op'[k].answer = op[k].answer
      BY <2>4, GoMoves
    <3>2. InHand(k)' => /\ InHand(k)
                        /\ Rightful(k)' \/ op'[k].answer
                               => Rightful(k) \/ op[k].answer
      BY <2>1, <3>1 DEF InHand, Rightful
    <3>3. OperationOK(op[k])'
      BY <1>1, <3>1 DEF OperationOK, seen
    <3>4. saved' # "Eligible" /\ onDisk' # "Eligible"
      BY <2>3, <2>4 DEF Wins
    <3>5. UsedFirst'
      BY <1>1, <2>2 DEF UsedFirst, seen
    <3> QED
      BY <1>1, <2>1, <3>1, <3>2, <3>3, <3>4, <3>5, MoveKeeps DEF seen
  <2>5. CASE /\ Loses("PermissionPending", Outcome(k))
             /\ End(k, [manual EXCEPT !.status = "CheckFailed"])
    BY <1>1, <2>1, <2>2, <2>3, <2>5, LosesPromise
  <2> QED
    BY <1>4, <2>4, <2>5 DEF Resolve
<1> QED
  BY <1>2, <1>3, <1>4

\* An activation is the last use of the one hand.
LEMMA ActivatePromise ==
    ASSUME TypeOK, PromiseInv, NEW k \in Activities, Activate(k)
    PROVE  PromiseInv' /\ Promise!Attempt
<1>1. Rightful(k) /\ InHand(k)
  BY DEF Activate, At, InHand, Rightful
<1>2. attempted = 0 /\ ~refused
  BY <1>1 DEF PromiseInv, HandIsGood
<1>3. asking = {} /\ dialogs = {} /\ returned = {}
      /\ \A j \in Activities : InHand(j) => j = k
  BY <1>1 DEF PromiseInv, OneHand, NoneInHand
<1>4. saved # "Eligible" /\ onDisk # "Eligible" /\ used
  BY <1>1, HandHistory
<1>5. UNCHANGED <<records, requests, used, asked, refused>> /\ attempted' = 1
  BY <1>2 DEF Activate
<1>6. /\ \A j \in Activities : j # k => op'[j] = op[j]
      /\ ~InHand(k)' /\ OperationOK(op[k])'
  BY EndMoves DEF Activate
<1>7. NoneInHand'
  BY <1>3, <1>6 DEF NoneInHand, InHand, Rightful
<1>8. EligibleIsUntouched' /\ UsedFirst'
  BY <1>4, <1>5 DEF EligibleIsUntouched, UsedFirst, records
<1>9. OneHand' /\ HandIsGood'
  BY <1>3, <1>5, <1>7 DEF OneHand, HandIsGood, NoneInHand, requests
<1>10. OperationsOK'
  BY <1>5, <1>6 DEF PromiseInv, OperationsOK, OperationOK
<1> QED
  BY <1>2, <1>4, <1>5, <1>8, <1>9, <1>10 DEF PromiseInv, Promise!Attempt

\* An operation stays as it is while the request passes on outside it.
LEMMA OutsideHands ==
    ASSUME PromiseInv, UNCHANGED <<op, used>>
    PROVE  /\ \A k \in Activities : InHand(k)' <=> InHand(k)
           /\ NoneInHand' <=> NoneInHand
           /\ OperationsOK'
BY DEF PromiseInv, InHand, Rightful, NoneInHand, OperationsOK

\* A launch hands the request from the view model to a dialog, or to the result of
\* one that never came up.
LEMMA LaunchPromise ==
    ASSUME TypeOK, PromiseInv, NEW k \in Activities, Launch(k)
    PROVE  PromiseInv' /\ Promise!Request
<1>1. k \in asking /\ asking = {k}
  BY DEF Launch, PromiseInv, OneHand
<1>2. asked = 0 /\ attempted = 0 /\ ~refused
  BY <1>1 DEF PromiseInv, HandIsGood
<1>3. dialogs = {} /\ returned = {} /\ NoneInHand
  BY <1>1 DEF PromiseInv, OneHand
<1>4. saved # "Eligible" /\ onDisk # "Eligible" /\ used
  BY <1>1 DEF PromiseInv, EligibleIsUntouched, Untouched, UsedFirst
<1>5. /\ UNCHANGED <<records, op, used, attempted, refused>>
      /\ asked' = 1 /\ asking' = {}
  BY <1>1, <1>2 DEF Launch
<1>6. \/ dialogs' = {k} /\ returned' = {}
      \/ \E answer \in BOOLEAN :
           dialogs' = {} /\ returned' = {[to |-> k, answer |-> answer]}
  BY <1>3 DEF Launch
<1>7. NoneInHand' /\ OperationsOK'
  BY <1>3, <1>5, OutsideHands
<1>8. EligibleIsUntouched' /\ UsedFirst'
  BY <1>4, <1>5 DEF EligibleIsUntouched, UsedFirst, records
<1>9. OneHand'
  BY <1>5, <1>6, <1>7 DEF OneHand, NoneInHand
<1>10. HandIsGood'
  BY <1>2, <1>5, <1>6, <1>7 DEF HandIsGood, NoneInHand
<1> QED
  BY <1>2, <1>4, <1>5, <1>7, <1>8, <1>9, <1>10 DEF PromiseInv, Promise!Request

\* An answer hands the request from the dialog to its result.
LEMMA AnswerPromise ==
    ASSUME TypeOK, PromiseInv, NEW k \in Activities, Answer(k)
    PROVE  PromiseInv' /\ (Promise!Refuse \/ UNCHANGED seen)
<1>1. k \in dialogs /\ dialogs = {k}
  BY DEF Answer, PromiseInv, OneHand
<1>2. asked = 1 /\ attempted = 0 /\ ~refused
  BY <1>1 DEF PromiseInv, HandIsGood
<1>3. asking = {} /\ returned = {} /\ NoneInHand
  BY <1>1 DEF PromiseInv, OneHand
<1>4. saved # "Eligible" /\ onDisk # "Eligible" /\ used
  BY <1>1 DEF PromiseInv, EligibleIsUntouched, Untouched, UsedFirst
<1>5. /\ UNCHANGED <<records, op, asking, used, asked, attempted>>
      /\ dialogs' = {}
  BY <1>1 DEF Answer
<1>6. PICK yes \in BOOLEAN :
         /\ returned' = {[to |-> k, answer |-> yes]}
         /\ refused' = (refused \/ ~yes)
  BY <1>3 DEF Answer
<1>7. NoneInHand' /\ OperationsOK'
  BY <1>3, <1>5, OutsideHands
<1>8. EligibleIsUntouched' /\ UsedFirst'
  BY <1>4, <1>5 DEF EligibleIsUntouched, UsedFirst, records
<1>9. OneHand'
  BY <1>3, <1>5, <1>6, <1>7 DEF OneHand, NoneInHand
<1>10. HandIsGood'
  <2>1. \A r \in returned' : r.answer = yes
    BY <1>6
  <2>2. yes => ~refused'
    BY <1>2, <1>6
  <2>3. asking' = {} /\ attempted' = 0
    BY <1>2, <1>3, <1>5
  <2> QED
    BY <1>5, <1>7, <2>1, <2>2, <2>3 DEF HandIsGood, NoneInHand
<1>11. Promise!Refuse \/ UNCHANGED seen
  <2>1. CASE yes
    BY <1>2, <1>5, <1>6, <2>1 DEF TypeOK, seen
  <2>2. CASE ~yes
    BY <1>2, <1>4, <1>5, <1>6, <2>2 DEF Promise!Refuse
  <2> QED
    BY <2>1, <2>2
<1> QED
  BY <1>7, <1>8, <1>9, <1>10, <1>11 DEF PromiseInv

\* A result that is taken is in the hands of the operation that consumes it.
LEMMA TakePromise ==
    ASSUME TypeOK, PromiseInv, NEW k \in Activities, Take(k)
    PROVE  PromiseInv' /\ UNCHANGED seen
<1>1. PICK r \in returned :
         /\ returned' = returned \ {r}
         /\ Begin(k, "result", "consume", r.answer, [ui[k] EXCEPT !.awaiting = FALSE])
  BY DEF Take
<1>2. attempted = 0 /\ (r.answer => ~refused)
  BY DEF PromiseInv, HandIsGood
<1>3. asking = {} /\ dialogs = {} /\ returned = {r} /\ NoneInHand
  BY DEF PromiseInv, OneHand
<1>4. saved # "Eligible" /\ onDisk # "Eligible" /\ used
  BY DEF PromiseInv, EligibleIsUntouched, Untouched, UsedFirst
<1>5. UNCHANGED <<records, asking, dialogs, seen>> /\ returned' = {}
  BY <1>1, <1>3 DEF Take
<1>6. /\ op'[k] = [kind |-> "result", pc |-> "consume", answer |-> r.answer]
      /\ \A j \in Activities : j # k => op'[j] = op[j]
  BY <1>1 DEF Begin, TypeOK
<1>7. /\ \A j \in Activities : InHand(j)' => j = k
      /\ ~Rightful(k)' /\ OperationOK(op[k])'
  BY <1>3, <1>6 DEF NoneInHand, InHand, Rightful, OperationOK
<1>8. EligibleIsUntouched' /\ UsedFirst'
  BY <1>4, <1>5 DEF EligibleIsUntouched, UsedFirst, records, seen
<1>9. OneHand'
  BY <1>3, <1>5, <1>7 DEF OneHand
<1>10. HandIsGood'
  BY <1>2, <1>3, <1>5, <1>6, <1>7 DEF HandIsGood, seen
<1>11. OperationsOK'
  BY <1>5, <1>6, <1>7 DEF PromiseInv, OperationsOK, OperationOK, seen
<1> QED
  BY <1>5, <1>8, <1>9, <1>10, <1>11 DEF PromiseInv

\* Neither does a tap or a visit start more than an operation that only looks.
LEMMA StartPromise ==
    ASSUME TypeOK, PromiseInv, NEW k \in Activities,
           (\E kind \in Kinds \ {"none", "result"} : Tap(k, kind)) \/ Visit(k)
    PROVE  PromiseInv' /\ (Promise!Use \/ UNCHANGED seen)
<1>1. /\ UNCHANGED <<records, requests, asked, attempted, refused>>
      /\ used' = used \/ used' = TRUE
  BY DEF Tap, Visit, seen, TypeOK
<1>2. UsedFirst' /\ (used => used')
  BY <1>1 DEF PromiseInv, UsedFirst, records
<1>3. ASSUME NEW kind \in Kinds \ {"result"}, NEW state,
             Begin(k, kind, "look", FALSE, state), kind = "use" => used'
      PROVE  PromiseInv'
  <2>1. /\ op'[k] = [kind |-> kind, pc |-> "look", answer |-> FALSE]
        /\ \A j \in Activities : j # k => op'[j] = op[j]
    BY <1>3 DEF Begin, TypeOK
  <2>2. ~InHand(k)' /\ OperationOK(op[k])'
    BY <1>3, <2>1 DEF InHand, Rightful, OperationOK
  <2> QED
    BY <1>1, <1>2, <2>1, <2>2, MoveKeeps DEF records
<1>4. ASSUME UNCHANGED op PROVE PromiseInv'
  <2>1. NoNewHand
    BY <1>1, <1>4 DEF NoNewHand, InHand, Rightful, records, requests
  <2>2. OperationsOK'
    BY <1>2, <1>4 DEF PromiseInv, OperationsOK
  <2> QED
    BY <1>2, <2>1, <2>2, NoNewHandKeeps
<1>5. PromiseInv'
  <2>1. CASE \E kind \in Kinds \ {"none", "result"} : Tap(k, kind)
    <3>1. PICK kind \in Kinds \ {"none", "result"} : Tap(k, kind)
      BY <2>1
    <3>2. kind = "use" => used'
      BY <3>1 DEF Tap
    <3> QED
      BY <1>3, <3>1, <3>2 DEF Tap
  <2>2. CASE Visit(k)
    <3>1. UNCHANGED op \/ Begin(k, "check", "look", FALSE, Blank)
      BY <2>2 DEF Visit
    <3>2. "check" \in Kinds \ {"result"}
      BY DEF Kinds
    <3> QED
      BY <1>3, <1>4, <3>1, <3>2
  <2> QED
    BY <2>1, <2>2
<1> QED
  BY <1>1, <1>5 DEF Promise!Use, seen

\* What the system does to the app takes hands away, and makes none.
LEMMA SystemPromise ==
    ASSUME TypeOK, PromiseInv,
           \/ \E k \in Activities : Open(k) \/ Close(k) \/ Cancelled(k)
           \/ Settings \/ Die \/ UNCHANGED vars
    PROVE  PromiseInv' /\ UNCHANGED seen
<1>1. UNCHANGED seen
  BY DEF Open, Close, Cancelled, Settings, Die, vars
<1>2. ASSUME NEW k \in Activities PROVE op'[k] = op[k] \/ op'[k] = NoOperation
  BY DEF Open, Close, Cancelled, Settings, Die, vars, TypeOK
<1>3. /\ asking' \subseteq asking /\ dialogs' \subseteq dialogs
      /\ returned' \subseteq returned
  BY DEF Open, Close, Cancelled, Settings, Die, requests, vars
<1>4. (saved' = saved \/ saved' = onDisk) /\ onDisk' = onDisk
  BY DEF Open, Close, Cancelled, Settings, Die, records, vars
<1>5. ASSUME NEW k \in Activities
      PROVE  InHand(k)' => /\ InHand(k)
                           /\ Rightful(k)' \/ op'[k].answer
                                  => Rightful(k) \/ op[k].answer
  BY <1>2 DEF InHand, Rightful, NoOperation
<1>6. NoNewHand
  BY <1>1, <1>3, <1>4, <1>5 DEF NoNewHand, seen
<1>7. OperationsOK'
  BY <1>1, <1>2 DEF PromiseInv, OperationsOK, NoOperation, seen
<1>8. UsedFirst'
  BY <1>1, <1>4 DEF PromiseInv, UsedFirst, seen
<1> QED
  BY <1>1, <1>6, <1>7, <1>8, NoNewHandKeeps

\* The request stays in one hand at most, step by step.
LEMMA PromiseStep ==
    ASSUME TypeOK, PromiseInv, [Next]_vars
    PROVE  PromiseInv' /\ [Promise!Next]_(Promise!vars)
<1>1. UNCHANGED seen => UNCHANGED Promise!vars
  BY DEF seen, Promise!vars
<1>2. ASSUME NEW k \in Activities, Step(k) \/ User(k) \/ System(k) \/ Take(k)
      PROVE  PromiseInv' /\ (Promise!Next \/ UNCHANGED seen)
  BY <1>2, InnerPromise, ClaimPromise, ActivatePromise, LaunchPromise,
     AnswerPromise, TakePromise, StartPromise, SystemPromise
  DEF Step, User, System, Promise!Next
<1>3. ASSUME Settings \/ Die \/ Quiet \/ UNCHANGED vars
      PROVE  PromiseInv' /\ UNCHANGED seen
  BY <1>3, SystemPromise DEF Quiet
<1> QED
  BY <1>1, <1>2, <1>3 DEF Next

LEMMA PromiseStart == Init => PromiseInv /\ Promise!Init
BY DEF Init, PromiseInv, EligibleIsUntouched, Untouched, OneHand, HandIsGood,
       UsedFirst, OperationsOK, NoneInHand, InHand, Rightful, NoOperation,
       Promise!Init

\* The watch app implements its promise, for any number of activities, restarts,
\* failed commits and taps.
THEOREM PromiseKept == Spec => KeepsPromise
BY PromiseStart, PromiseStep, WatchFaceTypes, PTL DEF Spec, KeepsPromise, Promise!Spec

-----------------------------------------------------------------------------
(***************************************************************************)
(* A way on: an operation that ends says something other than Checking.  The  *)
(* one that could end on a blank screen is a result that finds no request     *)
(* pending, but whatever passes from hand to hand keeps it pending.           *)
(***************************************************************************)
GoodState(state) ==
    /\ state.status # "Checking"
    /\ state.status = "Installed" => state.update \/ state.use \/ state.manual # "none"

Passing ==
    \/ asking # {} \/ dialogs # {} \/ returned # {}
    \/ \E k \in Activities : op[k].pc \in {"consume", "resolve"}

PassingIsPending == Passing => saved = "PermissionPending" /\ onDisk = "PermissionPending"

\* What a screen may show where its operation is.
WayOn(k) ==
    /\ op[k].pc \in {"permit", "claim", "mark", "activate"} => ui[k].status # "Checking"
    /\ op[k].pc = "permit" => op[k].kind \in {"use", "result"}
    /\ op[k].pc = "permit" /\ op[k].kind = "result" => ui[k].manual # "none"
    /\ op[k].pc = "activate" => ui[k].manual # "none"
    /\ k \in alive /\ op[k].pc = "idle" /\ ~ui[k].busy =>
           GoodState(ui[k]) \/ (k \notin visited /\ ui[k].status = "Checking")

WayInv == PassingIsPending /\ \A k \in Activities : WayOn(k)

\* An operation that ends on a good state, or goes on asking.
LEMMA EndKeepsWay ==
    ASSUME TypeOK, NEW k \in Activities, WayInv, NEW state \in State, End(k, state),
           GoodState(state) \/ state.awaiting, UNCHANGED <<alive, visited>>
    PROVE  \A j \in Activities : WayOn(j)'
<1>1. /\ op'[k].pc = "idle" /\ ui'[k] = Ended(state)
      /\ \A j \in Activities \ {k} : op'[j] = op[j] /\ ui'[j] = ui[j]
  BY DEF End, TypeOK, NoOperation
<1>2. \A j \in Activities \ {k} : WayOn(j)'
  BY <1>1 DEF WayInv, WayOn
<1>3. Ended(state).busy = state.awaiting /\ (GoodState(state) => GoodState(Ended(state)))
  BY DEF Ended, State, GoodState
<1>4. WayOn(k)'
  BY <1>1, <1>3 DEF WayOn
<1> QED
  BY <1>2, <1>4

\* An operation that goes on.
LEMMA GoKeepsWay ==
    ASSUME TypeOK, NEW k \in Activities, WayInv, NEW place \in Places, place # "idle", NEW state,
           Go(k, place, state),
           place \in {"permit", "claim", "mark", "activate"} => state.status # "Checking",
           place = "permit" => op[k].kind \in {"use", "result"},
           place = "permit" /\ op[k].kind = "result" => state.manual # "none",
           place = "activate" => state.manual # "none",
           UNCHANGED <<alive, visited>>
    PROVE  \A j \in Activities : WayOn(j)'
<1>1. /\ op'[k].pc = place /\ op'[k].kind = op[k].kind /\ ui'[k] = state
      /\ \A j \in Activities \ {k} : op'[j] = op[j] /\ ui'[j] = ui[j]
  BY DEF Go, TypeOK, Operation
<1>2. \A j \in Activities \ {k} : WayOn(j)'
  BY <1>1 DEF WayInv, WayOn
<1>3. WayOn(k)'
  BY <1>1 DEF WayOn
<1> QED
  BY <1>2, <1>3

\* Manual selection says why.
LEMMA ManualFields ==
    ASSUME NEW state \in State, NEW reason
    PROVE  /\ ManualSelection(state, reason).manual = reason
           /\ ManualSelection(state, reason).status = state.status
           /\ ManualSelection(state, reason).busy = state.busy
           /\ reason # "none" /\ state.status # "Checking" => GoodState(ManualSelection(state, reason))
BY DEF ManualSelection, State, GoodState

LEMMA OutcomeSaysWhy ==
    ASSUME NEW k
    PROVE  Guidance(Outcome(k)) # "none" /\ Guidance(Outcome(k)) \in Guidances
BY DEF Outcome, Guidance, Guidances

\* What withFace() finds can be used, or says why not.
LEMMA FoundIsGood ==
    ASSUME NEW face \in Faces, NEW active \in BOOLEAN, NEW history
    PROVE  GoodState(Found(face, active, history))
BY DEF Found, FoundStatus, Guidance, GoodState, Ours, Faces

\* The request stays in one hand.
LEMMA PromiseHolds == Spec => []PromiseInv
BY PromiseStart, PromiseStep, WatchFaceTypes, PTL DEF Spec

LEMMA PassingKept ==
    ASSUME PassingIsPending, UNCHANGED records, Passing' => Passing
    PROVE  PassingIsPending'
BY DEF PassingIsPending, records

\* An operation that leaves the request alone hands nothing over.
LEMMA StepPasses ==
    ASSUME TypeOK, PassingIsPending, NEW k \in Activities, NEW state,
           UNCHANGED <<records, requests>>,
           \/ End(k, state)
           \/ \E place \in Places :
                /\ Go(k, place, state)
                /\ place \in {"consume", "resolve"} => op[k].pc \in {"consume", "resolve"}
    PROVE  PassingIsPending'
<1>1. /\ op'[k].pc \in {"consume", "resolve"} => op[k].pc \in {"consume", "resolve"}
      /\ \A j \in Activities \ {k} : op'[j] = op[j]
  BY DEF End, Go, NoOperation, TypeOK, Operation
<1>2. Passing' => Passing
  BY <1>1 DEF Passing, requests
<1> QED
  BY <1>2, PassingKept DEF records

\* A tap, a visit or a taken result that begins has nothing to show yet.
LEMMA BeginKeepsWay ==
    ASSUME TypeOK, NEW k \in Activities, WayInv, NEW kind, NEW answer, NEW state,
           NEW place \in {"look", "consume"}, Begin(k, kind, place, answer, state),
           UNCHANGED alive, \A j \in Activities \ {k} : j \in visited' <=> j \in visited
    PROVE  \A j \in Activities : WayOn(j)'
<1>1. /\ op'[k].pc = place
      /\ \A j \in Activities \ {k} : op'[j] = op[j] /\ ui'[j] = ui[j]
  BY DEF Begin, TypeOK
<1>2. \A j \in Activities \ {k} : WayOn(j)'
  BY <1>1 DEF WayInv, WayOn
<1>3. WayOn(k)'
  BY <1>1 DEF WayOn
<1> QED
  BY <1>2, <1>3

\* What withFace() finds leaves a way on, or the operation goes on with it.
LEMMA LookWay ==
    ASSUME TypeOK, PromiseInv, WayInv, NEW k \in Activities, Look(k)
    PROVE  WayInv'
<1>1. PICK face \in Faces, active \in BOOLEAN :
         LET found == Found(face, active, saved)
             state == IF op[k].kind = "result"
                      THEN ManualSelection(found, Guidance(Outcome(k)))
                      ELSE found
             place == AfterLook(k, face, state)
         IN  IF place = "idle" THEN End(k, state) ELSE Go(k, place, state)
  BY DEF Look
<1> DEFINE found == Found(face, active, saved)
           state == IF op[k].kind = "result"
                    THEN ManualSelection(found, Guidance(Outcome(k)))
                    ELSE found
           place == AfterLook(k, face, state)
<1>2. IF place = "idle" THEN End(k, state) ELSE Go(k, place, state)
  BY <1>1
<1>3. found \in State /\ GoodState(found)
  BY FoundType, FoundIsGood
<1>4. state \in State /\ GoodState(state)
  <2>1. found.status # "Checking"
    BY <1>3 DEF GoodState
  <2>2. CASE op[k].kind = "result"
    <3> HIDE DEF found
    <3>1. ManualSelection(found, Guidance(Outcome(k))) \in State
      BY <1>3, ShownType, OutcomeSaysWhy
    <3>2. GoodState(ManualSelection(found, Guidance(Outcome(k))))
      BY <1>3, <2>1, ManualFields, OutcomeSaysWhy
    <3> QED
      BY <2>2, <3>1, <3>2
  <2>3. CASE op[k].kind # "result"
    BY <1>3, <2>3
  <2> QED
    BY <2>2, <2>3
<1>5. op[k].kind = "result" => state.manual # "none"
  BY <1>3, ManualFields, OutcomeSaysWhy
<1>6. /\ place \in {"idle", "install", "update", "permit"} /\ place \in Places
      /\ place = "permit" => op[k].kind \in {"use", "result"}
  BY DEF AfterLook, Places
<1>7. UNCHANGED <<alive, visited, records, requests>>
  BY DEF Look, Unseen, requests, records
<1> HIDE DEF found, state, place
<1>8. \A j \in Activities : WayOn(j)'
  <2>1. CASE place = "idle"
    BY <1>2, <1>4, <1>7, <2>1, EndKeepsWay
  <2>2. CASE place # "idle"
    BY <1>2, <1>4, <1>5, <1>6, <1>7, <2>2, GoKeepsWay DEF GoodState
  <2> QED
    BY <2>1, <2>2
<1>9. PassingIsPending'
  <2>1. PassingIsPending /\ place \notin {"consume", "resolve"}
    BY <1>6 DEF WayInv
  <2> QED
    BY <1>2, <1>6, <1>7, <2>1, StepPasses
<1> QED
  BY <1>8, <1>9 DEF WayInv

\* So do the failures of a look, and the outcomes of an install or an update.
LEMMA EndsWay ==
    ASSUME TypeOK, PromiseInv, WayInv, NEW k \in Activities,
           LookFails(k) \/ Push(k) \/ Activate(k)
    PROVE  WayInv'
<1>1. ui[k] \in State /\ op[k] \in Operation
  BY DEF TypeOK
<1>2. UNCHANGED <<alive, visited, records, requests>>
  BY DEF LookFails, Push, Activate, Unseen, requests, records
<1>3. PICK state \in State : End(k, state) /\ GoodState(state)
  <2>1. CASE LookFails(k)
    <3>1. ASSUME NEW state \in {Failed("CheckFailed"),
                                [Blank EXCEPT !.status = "CheckFailed"],
                                [Blank EXCEPT !.status = "Unsupported"]}
          PROVE  state \in State /\ GoodState(state)
      BY DEF Failed, Blank, State, Statuses, Guidances, GoodState
    <3> QED
      BY <2>1, <3>1 DEF LookFails
  <2>2. CASE Push(k)
    <3>1. ShowInstalled(ui[k]) \in State /\ GoodState(ShowInstalled(ui[k]))
      <4> DEFINE shown == ShowInstalled(ui[k])
      <4>1. /\ shown.status = "Installed" /\ shown.manual = ui[k].manual
            /\ shown.use = (ui[k].manual = "none")
        BY <1>1 DEF ShowInstalled, State
      <4>2. shown \in State
        BY <1>1, ShownType
      <4> HIDE DEF shown
      <4>3. GoodState(shown)
        BY <4>1 DEF GoodState
      <4> QED
        BY <4>2, <4>3 DEF shown
    <3>2. ASSUME NEW status \in {"InstallFailed", "UpdateFailed"}
          PROVE  Failed(status) \in State /\ GoodState(Failed(status))
      BY DEF Failed, Blank, State, Statuses, Guidances, GoodState
    <3> QED
      BY <2>2, <3>1, <3>2 DEF Push
  <2>3. CASE Activate(k)
    <3>1. ui[k].status # "Checking" /\ ui[k].manual # "none"
      BY <2>3 DEF Activate, At, WayInv, WayOn
    <3> QED
      BY <1>1, <2>3, <3>1 DEF Activate, GoodState
  <2> QED
    BY <2>1, <2>2, <2>3
<1>4. \A j \in Activities : WayOn(j)'
  BY <1>2, <1>3, EndKeepsWay
<1>5. PassingIsPending'
  BY <1>2, <1>3, StepPasses DEF WayInv
<1> QED
  BY <1>4, <1>5 DEF WayInv

\* The permission check goes on, or ends a result that has said why already.
LEMMA PermitWay ==
    ASSUME TypeOK, PromiseInv, WayInv, NEW k \in Activities, Permit(k)
    PROVE  WayInv'
<1>1. ui[k] \in State /\ "ActivationUnavailable" # "none"
  BY DEF TypeOK
<1>2. /\ ui[k].status # "Checking" /\ op[k].kind \in {"use", "result"}
      /\ op[k].kind = "result" => ui[k].manual # "none"
  BY DEF Permit, At, WayInv, WayOn
<1>3. UNCHANGED <<alive, visited, records, requests>>
  BY DEF Permit, Unseen, requests, records
<1> DEFINE manual == ManualSelection(ui[k], "ActivationUnavailable")
<1>4. manual.status # "Checking" /\ manual.manual # "none"
  BY <1>1, <1>2, ManualFields
<1>5. \/ \E place \in {"claim", "mark"} : Go(k, place, ui[k])
      \/ Go(k, "activate", manual)
      \/ End(k, ui[k]) /\ op[k].kind = "result"
  BY <1>2 DEF Permit
<1> HIDE DEF manual
<1>6. {"claim", "mark", "activate"} \subseteq Places
  BY DEF Places
<1>7. PassingIsPending'
  BY <1>3, <1>5, <1>6, StepPasses DEF WayInv
<1>8. \A j \in Activities : WayOn(j)'
  <2>1. ASSUME NEW place \in {"claim", "mark"}, Go(k, place, ui[k])
        PROVE  \A j \in Activities : WayOn(j)'
    BY <1>2, <1>3, <1>6, <2>1, GoKeepsWay
  <2>2. CASE Go(k, "activate", manual)
    BY <1>3, <1>4, <1>6, <2>2, GoKeepsWay
  <2>3. CASE End(k, ui[k]) /\ op[k].kind = "result"
    BY <1>1, <1>2, <1>3, <2>3, EndKeepsWay DEF GoodState
  <2> QED
    BY <1>5, <2>1, <2>2, <2>3
<1> QED
  BY <1>7, <1>8 DEF WayInv

\* Nobody holds the request while the history is Eligible.
LEMMA NothingPasses ==
    ASSUME TypeOK, PromiseInv, saved = "Eligible" \/ onDisk = "Eligible"
    PROVE  ~Passing
BY DEF PromiseInv, EligibleIsUntouched, Untouched, NoneInHand, InHand, Passing

\* A claim has said why the selection is manual, whether it wins or loses.
LEMMA ClaimWay ==
    ASSUME TypeOK, PromiseInv, WayInv, NEW k \in Activities, Claim(k)
    PROVE  WayInv'
<1> DEFINE manual == ManualSelection(ui[k], "ActivationUnavailable")
<1>1. ui[k] \in State /\ "ActivationUnavailable" # "none"
      /\ "ActivationUnavailable" \in Guidances
  BY DEF TypeOK, Guidances
<1>2. ui[k].status # "Checking"
  BY DEF Claim, At, WayInv, WayOn
<1>3. /\ manual \in State /\ GoodState(manual)
      /\ manual.status # "Checking" /\ manual.manual # "none"
  BY <1>1, <1>2, ManualFields, ShownType, ZenonT(40) DEF GoodState
<1>4. UNCHANGED <<alive, visited, requests>>
  BY DEF Claim, Unseen, requests
<1>5. (saved = "Eligible" \/ UNCHANGED records)
      /\ (Go(k, "activate", manual) \/ End(k, manual))
  BY DEF Claim, Wins, Loses
<1>6. "activate" \in Places
  BY DEF Places
<1> HIDE DEF manual
<1>7. \A j \in Activities : WayOn(j)'
  BY <1>3, <1>4, <1>5, <1>6, EndKeepsWay, GoKeepsWay
<1>8. Passing' => Passing
  <2>1. /\ op'[k].pc \notin {"consume", "resolve"}
        /\ \A j \in Activities \ {k} : op'[j] = op[j]
    BY <1>5 DEF End, Go, NoOperation, TypeOK, Operation
  <2> QED
    BY <1>4, <2>1 DEF Passing, requests
<1>9. PassingIsPending'
  BY <1>5, <1>8, NothingPasses, PassingKept DEF PassingIsPending, WayInv
<1> QED
  BY <1>7, <1>9 DEF WayInv

\* A mark makes the request pending and passes it on, or says why it cannot.
LEMMA MarkWay ==
    ASSUME TypeOK, PromiseInv, WayInv, NEW k \in Activities, Mark(k)
    PROVE  WayInv'
<1> DEFINE manual == ManualSelection(ui[k], "ActivationUnavailable")
           waiting == [ui[k] EXCEPT !.use = FALSE, !.awaiting = TRUE]
<1>1. ui[k] \in State /\ "ActivationUnavailable" # "none"
      /\ "ActivationUnavailable" \in Guidances
  BY DEF TypeOK, Guidances
<1>2. ui[k].status # "Checking"
  BY DEF Mark, At, WayInv, WayOn
<1>3. manual \in State /\ GoodState(manual)
  BY <1>1, <1>2, ManualFields, ShownType
<1>4. waiting \in State /\ waiting.awaiting
  BY <1>1, ShownType DEF State
<1>5. UNCHANGED <<alive, visited, dialogs, returned>>
  BY DEF Mark, Unseen
<1>6. \/ Wins("Eligible", "PermissionPending") /\ End(k, waiting)
      \/ Loses("Eligible", "PermissionPending") /\ End(k, manual) /\ UNCHANGED asking
  BY DEF Mark
<1> HIDE DEF manual, waiting
<1>7. \A j \in Activities : WayOn(j)'
  BY <1>3, <1>4, <1>5, <1>6, EndKeepsWay
<1>8. PassingIsPending'
  <2>1. CASE Wins("Eligible", "PermissionPending")
    BY <2>1 DEF PassingIsPending, Wins
  <2>2. CASE Loses("Eligible", "PermissionPending") /\ End(k, manual) /\ UNCHANGED asking
    <3>1. /\ op'[k].pc = "idle"
          /\ \A j \in Activities \ {k} : op'[j] = op[j]
      BY <2>2 DEF End, NoOperation, TypeOK
    <3>2. Passing' => Passing
      BY <1>5, <2>2, <3>1 DEF Passing
    <3>3. saved = "Eligible" \/ UNCHANGED records
      BY <2>2 DEF Loses
    <3> QED
      BY <3>2, <3>3, NothingPasses, PassingKept DEF PassingIsPending, WayInv
  <2> QED
    BY <1>6, <2>1, <2>2
<1> QED
  BY <1>7, <1>8 DEF WayInv

\* A result finds its request pending, and gets a check.
LEMMA ConsumeWay ==
    ASSUME TypeOK, PromiseInv, WayInv, NEW k \in Activities, Consume(k)
    PROVE  WayInv'
<1>1. op[k].pc = "consume" /\ ui[k] \in State
  BY DEF Consume, At, TypeOK
<1>2. saved = "PermissionPending"
  BY <1>1 DEF WayInv, PassingIsPending, Passing
<1>3. Go(k, "resolve", ui[k]) /\ "resolve" \in Places
  BY <1>2 DEF Consume, Places
<1>4. UNCHANGED <<alive, visited, records, requests>>
  BY DEF Consume, Unseen, requests, records
<1>5. PassingIsPending'
  BY <1>1, <1>3, <1>4, StepPasses DEF WayInv
<1>6. \A j \in Activities : WayOn(j)'
  BY <1>3, <1>4, GoKeepsWay
<1> QED
  BY <1>5, <1>6 DEF WayInv

\* A result that is consumed is the last of its request.
LEMMA ResolveWay ==
    ASSUME TypeOK, PromiseInv, WayInv, NEW k \in Activities, Resolve(k)
    PROVE  WayInv'
<1> DEFINE manual == ManualSelection(ui[k], Guidance(Outcome(k)))
           failed == [manual EXCEPT !.status = "CheckFailed"]
<1>1. op[k].pc = "resolve" /\ ui[k] \in State /\ InHand(k)
  BY DEF Resolve, At, TypeOK, InHand
<1>2. manual \in State
  BY <1>1, ShownType, GuidanceType
<1>3. failed \in State /\ GoodState(failed)
  <2> HIDE DEF manual
  <2> QED
    BY <1>2 DEF State, GoodState, Statuses
<1>4. UNCHANGED <<alive, visited, requests>>
  BY DEF Resolve, Unseen, requests
<1>5. Go(k, "look", manual) \/ End(k, failed)
  BY DEF Resolve
<1>6. "look" \in Places
  BY DEF Places
<1> HIDE DEF manual, failed
<1>7. \A j \in Activities : WayOn(j)'
  BY <1>2, <1>3, <1>4, <1>5, <1>6, EndKeepsWay, GoKeepsWay
<1>8. /\ asking = {} /\ dialogs = {} /\ returned = {}
      /\ \A j \in Activities \ {k} : op[j].pc \notin {"consume", "resolve"}
  BY <1>1 DEF PromiseInv, OneHand, NoneInHand, InHand
<1>9. /\ op'[k].pc \notin {"consume", "resolve"}
      /\ \A j \in Activities \ {k} : op'[j] = op[j]
  BY <1>5 DEF End, Go, NoOperation, TypeOK, Operation
<1>10. ~Passing'
  BY <1>4, <1>8, <1>9 DEF Passing, requests
<1> QED
  BY <1>7, <1>10 DEF WayInv, PassingIsPending

\* What hands the request over outside an operation.
LEMMA HandOverWay ==
    ASSUME TypeOK, PromiseInv, WayInv, NEW k \in Activities,
           Launch(k) \/ Answer(k) \/ Take(k)
    PROVE  WayInv'
<1>1. Passing /\ UNCHANGED <<records, alive, visited>>
  BY DEF Launch, Answer, Take, Passing, Unseen
<1>2. PassingIsPending'
  BY <1>1, PassingKept DEF WayInv
<1>3. \A j \in Activities : WayOn(j)'
  <2>1. CASE Launch(k) \/ Answer(k)
    BY <1>1, <2>1 DEF Launch, Answer, WayInv, WayOn
  <2>2. CASE Take(k)
    <3>1. PICK r \in returned :
             Begin(k, "result", "consume", r.answer, [ui[k] EXCEPT !.awaiting = FALSE])
      BY <2>2 DEF Take
    <3> QED
      BY <1>1, <3>1, BeginKeepsWay
  <2> QED
    BY <2>1, <2>2
<1> QED
  BY <1>2, <1>3 DEF WayInv

\* A tap looks first; so does a visit, unless the screen has its answer already.
LEMMA StartWay ==
    ASSUME TypeOK, PromiseInv, WayInv, NEW k \in Activities,
           (\E kind \in Kinds \ {"none", "result"} : Tap(k, kind)) \/ Visit(k)
    PROVE  WayInv'
<1>1. UNCHANGED <<records, requests, alive>>
      /\ \A j \in Activities \ {k} : j \in visited' <=> j \in visited
  BY DEF Tap, Visit
<1>2. Passing' => Passing
  <2>1. /\ op'[k].pc \in {"consume", "resolve"} => op[k].pc \in {"consume", "resolve"}
        /\ \A j \in Activities \ {k} : op'[j] = op[j]
    BY DEF Tap, Visit, Begin, TypeOK
  <2> QED
    BY <1>1, <2>1 DEF Passing, requests
<1>3. PassingIsPending'
  BY <1>1, <1>2, PassingKept DEF WayInv
<1>4. ASSUME NEW kind, NEW answer, NEW state, Begin(k, kind, "look", answer, state)
      PROVE  \A j \in Activities : WayOn(j)'
  BY <1>1, <1>4, BeginKeepsWay
<1>5. \A j \in Activities : WayOn(j)'
  <2>1. CASE \E kind \in Kinds \ {"none", "result"} : Tap(k, kind)
    BY <1>4, <2>1 DEF Tap
  <2>2. CASE Visit(k)
    <3>1. CASE \E state : Begin(k, "check", "look", FALSE, state)
      BY <1>4, <3>1
    <3>2. CASE UNCHANGED <<op, ui>> /\ (op[k].pc # "idle" \/ ui[k].busy \/ ui[k].status # "Checking")
      <4>1. \A j \in Activities \ {k} : WayOn(j)'
        BY <1>1, <3>2 DEF WayInv, WayOn
      <4>2. WayOn(k)'
        BY <1>1, <3>2 DEF WayInv, WayOn
      <4> QED
        BY <4>1, <4>2
    <3> QED
      BY <2>2, <3>1, <3>2 DEF Visit, Running, At, Blocked
  <2> QED
    BY <2>1, <2>2
<1> QED
  BY <1>3, <1>5 DEF WayInv

\* A new screen is blank, and unvisited; a closed one owes nothing.
LEMMA SystemWay ==
    ASSUME TypeOK, PromiseInv, WayInv,
           \/ \E k \in Activities : Open(k) \/ Close(k) \/ Cancelled(k)
           \/ Settings \/ UNCHANGED vars
    PROVE  WayInv'
<1>1. UNCHANGED records
  BY DEF Open, Close, Cancelled, Settings, vars
<1>2. ASSUME NEW j \in Activities PROVE op'[j] = op[j] \/ op'[j] = NoOperation
  BY DEF Open, Close, Cancelled, Settings, vars, TypeOK
<1>3. Passing' => Passing
  <2>1. /\ asking' \subseteq asking /\ dialogs' \subseteq dialogs
        /\ returned' \subseteq returned
    BY DEF Open, Close, Cancelled, Settings, vars, requests
  <2>2. \A j \in Activities : op'[j].pc \in {"consume", "resolve"}
                                  => op[j].pc \in {"consume", "resolve"}
    BY <1>2 DEF NoOperation
  <2> QED
    BY <2>1, <2>2 DEF Passing
<1>4. PassingIsPending'
  BY <1>1, <1>3, PassingKept DEF WayInv
<1>5. ASSUME NEW j \in Activities PROVE WayOn(j)'
  <2>1. WayOn(j) /\ visited \subseteq alive
    BY DEF WayInv, TypeOK
  <2>2. ASSUME NEW k \in Activities, Open(k)
        PROVE  WayOn(j)'
    <3>1. CASE j = k
      BY <2>1, <2>2, <3>1 DEF Open, WayOn, Running, At, Blank, TypeOK
    <3>2. CASE j # k
      BY <2>1, <2>2, <3>2 DEF Open, WayOn, TypeOK
    <3> QED
      BY <3>1, <3>2
  <2>3. ASSUME NEW k \in Activities, Close(k)
        PROVE  WayOn(j)'
    BY <2>1, <2>3 DEF Close, WayOn
  <2>4. ASSUME NEW k \in Activities, Cancelled(k)
        PROVE  WayOn(j)'
    <3>1. CASE j = k
      BY <2>1, <2>4, <3>1 DEF Cancelled, WayOn, NoOperation, TypeOK
    <3>2. CASE j # k
      BY <2>1, <2>4, <3>2 DEF Cancelled, WayOn, TypeOK
    <3> QED
      BY <3>1, <3>2
  <2>5. CASE Settings \/ UNCHANGED vars
    BY <2>1, <2>5 DEF Settings, vars, WayOn
  <2> QED
    BY <2>2, <2>3, <2>4, <2>5
<1> QED
  BY <1>4, <1>5 DEF WayInv

\* A dead process owes nothing but the request it had passed on.
LEMMA DieWay ==
    ASSUME TypeOK, PromiseInv, WayInv, Die
    PROVE  WayInv'
<1>1. \A j \in Activities : op'[j].pc = "idle"
  BY DEF Die, NoOperation
<1>2. /\ asking' = {} /\ alive' = {} /\ saved' = onDisk /\ onDisk' = onDisk
      /\ dialogs' \subseteq dialogs /\ returned' \subseteq returned
  BY DEF Die
<1>3. Passing' => Passing
  BY <1>1, <1>2 DEF Passing
<1>4. PassingIsPending'
  BY <1>2, <1>3 DEF WayInv, PassingIsPending
<1>5. \A j \in Activities : WayOn(j)'
  BY <1>1, <1>2 DEF WayOn
<1> QED
  BY <1>4, <1>5 DEF WayInv

\* Every screen is left with a way on, step by step.
LEMMA WayStep ==
    ASSUME TypeOK, PromiseInv, WayInv, [Next]_vars
    PROVE  WayInv'
<1>1. ASSUME NEW k \in Activities, Step(k) PROVE WayInv'
  BY <1>1, LookWay, EndsWay, PermitWay, ClaimWay, MarkWay, ConsumeWay, ResolveWay
  DEF Step
<1>2. ASSUME NEW k \in Activities, User(k) \/ System(k) \/ Take(k) PROVE WayInv'
  BY <1>2, HandOverWay, StartWay, SystemWay DEF User, System
<1>3. ASSUME Settings \/ Die \/ Quiet \/ UNCHANGED vars PROVE WayInv'
  BY <1>3, SystemWay, DieWay DEF Quiet
<1> QED
  BY <1>1, <1>2, <1>3 DEF Next

\* A screen that was opened and is not busy leaves the user a way on, for any
\* number of activities, restarts, failed commits and taps.
THEOREM WayOnHolds == Spec => []AlwaysAWayOn
<1>1. Init => WayInv
  BY DEF Init, WayInv, WayOn, PassingIsPending, Passing, NoOperation, Blank
<1>2. TypeOK /\ WayInv => AlwaysAWayOn
  BY DEF TypeOK, WayInv, WayOn, GoodState, AlwaysAWayOn, Running, At
<1> QED
  BY <1>1, <1>2, WayStep, WatchFaceTypes, PromiseHolds, PTL DEF Spec

=============================================================================

------------------------- MODULE CredentialStorage --------------------------
(***************************************************************************)
(* ConnectionCredentialStorage, the Dart client of ConnectionCacheEngine,   *)
(* with the encrypted store the secrets live in.  A client is one           *)
(* asynchronous operation; its awaits are the boundaries of the steps.      *)
(* Several run at once, in one Flutter engine or in two, and a Flutter      *)
(* engine may be torn down while a secure-storage call it made has not      *)
(* landed.                                                                  *)
(***************************************************************************)
EXTENDS CredentialEngine

CONSTANTS
    Workload,   \* the operations clients of this instance perform
    MaxOps      \* and how many of them are started

ASSUME WorkloadAssumption ==
    /\ Workload \subseteq Actions \cup {"expire", "report", "clear"}
    /\ MaxOps \in Nat

VARIABLES
    op,         \* the operation each client is in
    started,    \* operations started so far
    store,      \* secure storage: the account whose secret a key holds
    cleaned,    \* keys the lease holder deleted and has to acknowledge
    late        \* calls of torn-down Flutter engines that have not landed

vars == <<engineVars, op, started, store, cleaned, late>>
secrets == <<store, cleaned, late>>

Absent == NoAccount
Secret(key) == IF key \in DOMAIN store THEN store[key] ELSE Absent

Phases == {"idle", "queued", "clean", "ack", "look", "prepare", "write",
           "wipe", "finish"}
Goals == {"look", "release", "activate", "cancel", "missing", "confirm"}

\* The VersionedCredential a read or a refresh answered; token stands for the
\* secret itself by the key it was written under, once.
Held == [version : Version, acct : Accounts \cup {Absent}, token : Nat]
NothingHeld == [version |-> NoVersion, acct |-> Absent, token |-> None]

\* pc is the await the operation is at, goal what it heads for, value the
\* account of the secret it carries, report when the report fetched with
\* `held` was generated (0: none).
Operation ==
    [pc : Phases, goal : Goals, value : Accounts \cup {Absent}, held : Held,
     ticket : Version, report : Nat]
NoOperation ==
    [pc |-> "idle", goal |-> "release", value |-> Absent, held |-> NothingHeld,
     ticket |-> NoVersion, report |-> 0]

TypeOK ==
    /\ EngineTypeOK
    /\ op \in [Clients -> Operation]
    /\ started \in Nat
    /\ DOMAIN store \subseteq Nat
    /\ \A key \in DOMAIN store : store[key] \in Accounts
    /\ cleaned \subseteq Nat
    /\ late \subseteq [key : Nat, acct : Accounts \cup {Absent}]

\* An older release may have left a secret under LegacyKey.
Init ==
    /\ EngineInit
    /\ op = [c \in Clients |-> NoOperation]
    /\ started = 0
    /\ \E keys \in SUBSET {LegacyKey} : store \in [keys -> Accounts]
    /\ cleaned = {} /\ late = {}

-----------------------------------------------------------------------------
Put(key, acct) ==
    store' = [k \in DOMAIN store \cup {key} |->
                 IF k = key THEN acct ELSE store[k]]
Remove(keys) == store' = [k \in DOMAIN store \ keys |-> store[k]]

At(c, phase) == op[c].pc = phase
Go(c, phase, aim) == op' = [op EXCEPT ![c].pc = phase, ![c].goal = aim]

Idle(c) == At(c, "idle") /\ fetchQueue[c] = {}
InFetch(c) == fetch = c
Start == started < MaxOps /\ started' = started + 1

\* A step between two engine calls.
NoCall == UNCHANGED <<records, leases, waiting, fetches, clock, started>>

-----------------------------------------------------------------------------
(* _begin(): a request, with what the client knows of the credential.       *)

Ask(c, action, version, stamped) ==
    /\ Idle(c) /\ Start
    /\ Enqueue(c, [action |-> action, expected |-> version, stamped |-> stamped,
                   fetch |-> InFetch(c) /\ stamped
                             /\ action \in {"refresh", "delete"}])
    /\ UNCHANGED secrets

Queued(c) == op' = [op EXCEPT ![c].pc = "queued"]
QueuedWith(c, a) == op' = [op EXCEPT ![c].pc = "queued", ![c].value = a]

\* read() forgets what an earlier read answered.
AskRead(c) ==
    /\ "read" \in Workload
    /\ Ask(c, "read", NoVersion, FALSE)
    /\ op' = [op EXCEPT ![c].pc = "queued", ![c].held = NothingHeld,
                        ![c].report = 0]

\* Sign-in and disconnect are the user's: they do not wait for a fetch.
AskReconnect(c) ==
    /\ "reconnect" \in Workload /\ ~InFetch(c)
    /\ Ask(c, "reconnect", NoVersion, FALSE) /\ Queued(c)

AskDelete(c) ==
    /\ "delete" \in Workload /\ ~InFetch(c)
    /\ Ask(c, "delete", NoVersion, FALSE) /\ Queued(c)

\* The sign-in ended, with the secret of whichever account signed in.
AskComplete(c) ==
    /\ "complete" \in Workload /\ op[c].ticket # NoVersion
    /\ Ask(c, "complete", op[c].ticket, TRUE)
    /\ \E a \in Accounts : QueuedWith(c, a)

AskCancel(c) ==
    /\ "cancel" \in Workload /\ op[c].ticket # NoVersion
    /\ Ask(c, "cancel", op[c].ticket, TRUE) /\ Queued(c)

\* The provider rotated the token, or refused it, under the fetch lease.
AskRefresh(c) ==
    /\ "refresh" \in Workload /\ InFetch(c) /\ op[c].held # NothingHeld
    /\ Ask(c, "refresh", op[c].held.version, TRUE)
    /\ \E a \in Accounts : QueuedWith(c, a)

AskDeleteIfCurrent(c) ==
    /\ "expire" \in Workload /\ InFetch(c) /\ op[c].held # NothingHeld
    /\ Ask(c, "delete", op[c].held.version, TRUE) /\ Queued(c)

-----------------------------------------------------------------------------
(* The engine's answer.                                                     *)

Granted(c) ==
    LET action == request[c].action
    IN  /\ Grant(c)
        /\ CASE action = "read"      -> Go(c, "clean", "look")
             [] action = "reconnect" ->
                  op' = [op EXCEPT ![c].pc = "clean", ![c].goal = "release",
                                   ![c].ticket = lease'.view.version]
             [] action = "cancel"    -> Go(c, "finish", "cancel")
             [] action = "delete"    -> Go(c, "wipe", "release")
             [] OTHER                -> Go(c, "write", "activate")
        /\ UNCHANGED <<secrets, started>>

\* accepted = false, or an exception.  A superseded ticket is dropped.
Refused(c) ==
    /\ Refuse(c)
    /\ op' = [op EXCEPT ![c].pc = "idle",
                 ![c].ticket = IF request[c].action \in {"complete", "cancel"}
                               THEN NoVersion ELSE @]
    /\ UNCHANGED <<secrets, started>>

RefusedByCommit(c) ==
    /\ GrantFails(c)
    /\ op' = [op EXCEPT ![c].pc = "idle"]
    /\ UNCHANGED <<secrets, started>>

-----------------------------------------------------------------------------
(* _cleanup(): delete what the answer listed, acknowledge what was deleted. *)
(* _release() does it once more before it gives the lease back.             *)

AfterCleanup(c) == IF op[c].goal = "look" THEN "look" ELSE "finish"
Release(c) == Go(c, "clean", "release")

Clean(c) ==
    /\ At(c, "clean")
    /\ \E keys \in SUBSET lease.view.cleanup :
         /\ IF keys = lease.view.cleanup THEN UNCHANGED faults ELSE Fault("store")
         /\ Remove(keys)
         /\ cleaned' = keys
         /\ Go(c, IF keys = {} THEN AfterCleanup(c) ELSE "ack", op[c].goal)
    /\ NoCall /\ UNCHANGED late

Ack(c) ==
    /\ At(c, "ack")
    /\ AcknowledgeCleanup(c, cleaned)
    /\ cleaned' = {}
    /\ Go(c, AfterCleanup(c), op[c].goal)
    /\ UNCHANGED <<store, late, started>>

-----------------------------------------------------------------------------
(* read(), from the answer to the secret.                                   *)

Selectable == lease.view.mode \notin {"deleted", "pending"}
FromLegacy == lease.view.mode \in {"legacy", "migration"}

\* The slot is empty, and the migration backup stands in for it.
Restoring ==
    ~FromLegacy /\ Secret(lease.view.slot) = Absent /\ lease.view.backup

Found == Secret(IF FromLegacy \/ Restoring THEN LegacyKey ELSE lease.view.slot)

AfterLook ==
    CASE Found = Absent -> <<"finish", "missing">>
      [] Found # Absent /\ (FromLegacy \/ (Restoring /\ Found = lease.view.ident))
           -> <<"prepare", "activate">>
      [] OTHER -> <<"finish", "confirm">>

Look(c) ==
    /\ At(c, "look")
    /\ IF Selectable
       THEN op' = [op EXCEPT ![c].pc = AfterLook[1], ![c].goal = AfterLook[2],
                             ![c].value = Found]
       ELSE Release(c)
    /\ NoCall /\ UNCHANGED <<secrets, faults>>

\* Secure storage could not be read.
LookFails(c) ==
    /\ At(c, "look") /\ Selectable
    /\ Fault("store")
    /\ Release(c)
    /\ NoCall /\ UNCHANGED secrets

Prepare(c) ==
    /\ At(c, "prepare")
    /\ \/ PrepareMigration(c) /\ Go(c, "write", "activate")
       \/ PrepareMigrationFails(c) /\ Release(c)
    /\ UNCHANGED <<secrets, started>>

-----------------------------------------------------------------------------
(* Writing a secret, and deleting one.                                      *)

Write(c) ==
    /\ At(c, "write")
    /\ Put(lease.slot, op[c].value)
    /\ Go(c, "finish", "activate")
    /\ NoCall /\ UNCHANGED <<cleaned, late, faults>>

\* The write threw: whether it landed is unknown.
WriteFails(c) ==
    /\ At(c, "write")
    /\ Fault("store")
    /\ Put(lease.slot, op[c].value) \/ UNCHANGED store
    /\ Release(c)
    /\ NoCall /\ UNCHANGED <<cleaned, late>>

\* delete() removes every retired key, protected or not, until one throws.
Wipe(c) ==
    LET all == lease.view.retired \cup {LegacyKey}
    IN  /\ At(c, "wipe")
        /\ \E keys \in SUBSET all :
             /\ IF keys = all THEN UNCHANGED faults ELSE Fault("store")
             /\ Remove(keys)
        /\ Release(c)
        /\ NoCall /\ UNCHANGED <<cleaned, late>>

-----------------------------------------------------------------------------
(* _finish(), and what the operation answers its caller.                    *)

Reading == lease.action \in {"read", "refresh"}

\* Nothing unless the finished operation leaves the connection active.
Answered(c) ==
    IF op[c].goal \in {"activate", "confirm"} /\ mem'.mode = "active"
    THEN [version |-> VersionOf(mem'), acct |-> op[c].value, token |-> mem'.slot]
    ELSE NothingHeld

\* A sign-in ends with its completion, or with an attempt to cancel it.
Ended(c) ==
    \/ lease.action = "cancel"
    \/ lease.action = "complete" /\ op[c].goal = "activate"

Finishes(c) ==
    /\ At(c, "finish")
    /\ Finish(c, op[c].goal, op[c].value)
    /\ op' = [op EXCEPT ![c].pc = "idle",
                        ![c].held = IF Reading THEN Answered(c) ELSE @,
                        ![c].ticket = IF Ended(c) THEN NoVersion ELSE @]
    /\ UNCHANGED <<secrets, started>>

FinishesByException(c) ==
    /\ At(c, "finish")
    /\ FinishFails(c, op[c].goal, op[c].value)
    /\ op' = [op EXCEPT ![c].pc = "idle",
                        ![c].held = IF Reading THEN NothingHeld ELSE @,
                        ![c].ticket = IF lease.action = "cancel" THEN NoVersion
                                      ELSE @]
    /\ UNCHANGED <<secrets, started>>

-----------------------------------------------------------------------------
(* serializeFetch(), and the snapshots written after it.                    *)

StartFetch(c) ==
    /\ {"refresh", "expire"} \cap Workload # {}
    /\ Idle(c) /\ ~InFetch(c)
    /\ AcquireFetch(c)
    /\ UNCHANGED <<op, secrets, started>>

EndFetch(c) ==
    /\ Idle(c)
    /\ ReleaseFetch(c)
    /\ UNCHANGED <<op, secrets, started>>

\* The provider answered the request made with the held credential.
Report(c) ==
    /\ "report" \in Workload
    /\ Idle(c) /\ op[c].held # NothingHeld /\ op[c].report # clock
    /\ op' = [op EXCEPT ![c].report = clock]
    /\ NoCall /\ UNCHANGED <<secrets, faults>>

StoreReport(c) ==
    LET held == op[c].held
    IN  /\ Idle(c) /\ op[c].report # 0
        /\ WriteCurrentSnapshot(held.version, held.acct, op[c].report)
        /\ op' = [op EXCEPT ![c].report = 0]
        /\ UNCHANGED <<secrets, started>>

ClearCache ==
    /\ "clear" \in Workload
    /\ Start /\ ClearCurrentSnapshot
    /\ UNCHANGED <<op, secrets>>

-----------------------------------------------------------------------------
(* A Flutter engine is torn down: its isolate stops where it stands, and    *)
(* the one secure-storage call it awaits may still land, until the process  *)
(* dies.  The clients of the owner stand for its successor's from then on.  *)

Unlanded(c) ==
    LET deletes(keys) == {[key |-> k, acct |-> Absent] : k \in keys}
    IN  CASE At(c, "clean") /\ "late delete" \in Faults ->
               deletes(lease.view.cleanup)
          [] At(c, "wipe") /\ "late delete" \in Faults ->
               deletes(lease.view.retired \cup {LegacyKey})
          [] At(c, "write") /\ "late write" \in Faults ->
               {[key |-> lease.slot, acct |-> op[c].value]}
          [] OTHER -> {}

Reset(gone) ==
    /\ op' = [c \in Clients |-> IF c \in gone THEN NoOperation ELSE op[c]]
    /\ cleaned' = IF lease.client \in gone THEN {} ELSE cleaned

TearDown(o) ==
    /\ Detach(o) \/ DetachFails(o)
    /\ Reset(OwnedBy(o))
    /\ \/ UNCHANGED late
       \/ \E c \in OwnedBy(o) : \E call \in Unlanded(c) : late' = late \cup {call}
    /\ UNCHANGED <<store, started>>

Land ==
    /\ \E call \in late :
         /\ IF call.acct = Absent THEN Remove({call.key})
            ELSE Put(call.key, call.acct)
         /\ late' = late \ {call}
    /\ NoCall /\ UNCHANGED <<faults, op, cleaned>>

\* A call still in flight is lost with the process.
Die ==
    /\ ProcessDeath
    /\ Reset(Clients)
    /\ late' = {}
    /\ UNCHANGED <<store, started>>

-----------------------------------------------------------------------------
Asking(c) ==
    \/ AskRead(c) \/ AskReconnect(c) \/ AskDelete(c) \/ AskComplete(c)
    \/ AskCancel(c) \/ AskRefresh(c) \/ AskDeleteIfCurrent(c)

Answering(c) == Granted(c) \/ Refused(c) \/ RefusedByCommit(c)

Working(c) ==
    \/ Clean(c) \/ Ack(c) \/ Look(c) \/ LookFails(c) \/ Prepare(c)
    \/ Write(c) \/ WriteFails(c) \/ Wipe(c)
    \/ Finishes(c) \/ FinishesByException(c)

Fetching(c) == StartFetch(c) \/ EndFetch(c)
Caching(c) == Report(c) \/ StoreReport(c)

\* Nobody is in an operation: the instance may end here.
Quiet == (\A c \in Clients : Idle(c) /\ ~InFetch(c)) /\ UNCHANGED vars

Next ==
    \/ \E c \in Clients : \/ Asking(c) \/ Answering(c) \/ Working(c)
                          \/ Fetching(c) \/ Caching(c)
    \/ \E o \in Owners : TearDown(o)
    \/ ClearCache \/ Land \/ Die \/ Quiet

Spec == Init /\ [][Next]_vars

\* The executor serves its queue, platform calls return, and a fetch ends.
Fairness ==
    \A c \in Clients : WF_vars(Answering(c)) /\ WF_vars(Working(c))
                       /\ WF_vars(EndFetch(c))

FairSpec == Spec /\ Fairness
-----------------------------------------------------------------------------
(* Properties.                                                              *)

\* The records an operation may still start from: what a restart finds, and
\* what this process would use.
Bases == {disk, IF Fenced THEN prior ELSE mem}

\* An active record selects a key that holds its account's secret, whatever
\* failed on the way: the order of secret write, commit and cleanup in
\* completeReconnect(), refresh(), read() and finish().
ActiveCredentialUsable ==
    \A st \in Bases : st.mode = "active" => Secret(st.slot) = st.ident

\* Until a sign-in ends, the credential it would replace stays readable under
\* the key finish("cancel") selects again, across superseded sign-ins, failed
\* commits and restarts.
CancelRestoresUsable ==
    \A st \in Bases : st.prevSlot # None => Secret(st.prevSlot) = st.prevIdent

\* While a holder works through the cleanup list of its answer, no record an
\* operation may start from selects a key on the list (cleanupSlots in start()).
CleanupSparesLive ==
    ~Free => \A st \in Bases :
                 lease.view.cleanup \cap {st.slot, st.prevSlot} \subseteq {None}

\* The legacy secret is untouched as long as the record may still migrate it
\* or return to it: "migration never loses installed sessions".
LegacySpared ==
    [][LegacyNeeded(mem) /\ ~Fenced
         => Secret(LegacyKey)' = Secret(LegacyKey)]_vars

\* Every stored secret is under a key the durable record still names, so that
\* a later cleanup or disconnect can delete it.
References(st) == {LegacyKey, st.slot, st.prevSlot} \cup st.retired
NoOrphanSecret == Free /\ late = {} => DOMAIN store \subseteq References(disk)

\* Once a disconnect has nothing left to clean up, no secret of the connection
\* is left ("Disconnect removes the selected local credential").
DisconnectErases ==
    /\ mem.mode = "deleted" /\ mem.retired = {}
    /\ ~Fenced /\ Free /\ late = {}
    => store = << >>

\* A version that stopped being valid never becomes valid again in the hands
\* of a client that kept it: a cancelled sign-in restores the credential under
\* another generation, a cleared cache under another epoch.
NoRevival ==
    [][\A c \in Clients :
         /\ op[c].held # NothingHeld /\ op'[c].held = op[c].held
         /\ ~Valid(op[c].held.version)
         => ~Valid(op[c].held.version)']_vars

\* A token refresh or an expiry that the engine lets through under a fetch
\* lease is about the very secret the client read, not a newer one.
StaleTokenRefused ==
    [][\A c \in Clients : Free /\ lease'.client = c /\ lease'.fetch
                          => op[c].held.token = mem.slot]_vars

\* While the outcome of a commit is unknown, no operation answers a credential.
FencedAnswersNothing ==
    [][\A c \in Clients : Fenced /\ op'[c].held # op[c].held
                          => op'[c].held = NothingHeld]_vars

\* A stored snapshot reports on the account whose secret is selected.
SnapshotOwned ==
    \A st \in Bases : st.snap # NoSnapshot
                      => st.mode = "active" /\ st.snap.acct = Secret(st.slot)

\* Every request is answered, every granted lease given back, and every client
\* that waits for a fetch gets it, whoever is torn down meanwhile.
RequestsServed == \A c \in Clients : ~Idle(c) ~> Idle(c)
=============================================================================

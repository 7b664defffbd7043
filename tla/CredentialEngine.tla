-------------------------- MODULE CredentialEngine --------------------------
(***************************************************************************)
(* ConnectionCacheEngine for one connection: the process-wide object that   *)
(* serialises credential operations of every Flutter engine in the process. *)
(* An operation is queued, granted a lease, and finished; the durable record*)
(* changes at the grant, at the finish, or in between, by a commit that may *)
(* fail with an unknown outcome.                                            *)
(*                                                                          *)
(* The engine's methods are synchronized and run on one executor thread, so *)
(* each is one step, except that next() gives every start() it makes a step *)
(* of its own (Grant, GrantFails, Refuse).  Nothing but a process death can *)
(* come between them: every other call waits for Settled.                   *)
(***************************************************************************)
EXTENDS CredentialRecord

CONSTANTS
    Clients,     \* asynchronous client operations, one at a time each
    Nobody,      \* no client
    Owners,      \* attached Flutter engines
    OwnerOf,     \* the Flutter engine a client runs in
    Faults,      \* the kinds of fault of this instance
    MaxFaults    \* and how many of them happen

ASSUME ClientAssumption ==
    /\ Nobody \notin Clients
    /\ OwnerOf \in [Clients -> Owners]
    /\ MaxFaults \in Nat

VARIABLES
    mem,        \* the record as SharedPreferences shows it to this process
    disk,       \* the record as a restarted process will find it
    prior,      \* failedCommitPriorState; NoPrior when not fenced
    lease,      \* leases[connection], with the answer its holder was given
    request,    \* what each queued client asked for
    queue,      \* queues[connection]: the order of those requests
    abandoned,  \* abandonedSlots
    fetch,      \* the holder of fetches[connection]
    fetchQueue, \* fetchQueues[connection]
    clock,      \* the last unique id drawn
    faults      \* faults so far

records == <<mem, disk, prior>>
leases == <<lease, abandoned>>
waiting == <<request, queue>>
fetches == <<fetch, fetchQueue>>
engineVars == <<records, leases, waiting, fetches, clock, faults>>

Actions == {"read", "reconnect", "complete", "cancel", "refresh", "delete"}

\* The actions whose start() commits before the lease exists.
Opening == {"reconnect", "delete", "refresh"}

Request ==
    [action : Actions, expected : Version, stamped : BOOLEAN, fetch : BOOLEAN]
NoRequest == [action |-> "none"]

View ==
    [mode : Modes, slot : Nat, ident : Accounts \cup {NoAccount},
     backup : BOOLEAN, retired : SUBSET Nat, cleanup : SUBSET Nat,
     version : Version]

Lease == [client : Clients, action : Actions, fetch : BOOLEAN, slot : Nat,
          view : View]
NoLease == [client |-> Nobody]

NoPrior == [LegacyState EXCEPT !.mode = "none"]

(***************************************************************************)
(* A queue is its order of service: q[c] holds the clients served no later  *)
(* than c, c among them, and is empty when c does not wait.                 *)
(***************************************************************************)
Queue == [Clients -> SUBSET Clients]
EmptyQueue == [c \in Clients |-> {}]
Waiting(q) == {c \in Clients : q[c] # {}}
IsHead(q, c) == q[c] = {c}
Arrive(q, c) == [q EXCEPT ![c] = Waiting(q) \cup {c}]
Without(q, gone) ==
    [c \in Clients |-> IF c \in gone THEN {} ELSE q[c] \ gone]

EngineTypeOK ==
    /\ mem \in State
    /\ disk \in State
    /\ prior \in State \cup {NoPrior}
    /\ lease \in Lease \cup {NoLease}
    /\ request \in [Clients -> Request \cup {NoRequest}]
    /\ queue \in Queue
    /\ abandoned \in SUBSET Nat
    /\ fetch \in Clients \cup {Nobody}
    /\ fetchQueue \in Queue
    /\ clock \in Nat
    /\ faults \in Nat

\* LegacyKey is never drawn again.
EngineInit ==
    /\ mem = LegacyState
    /\ disk = LegacyState
    /\ prior = NoPrior
    /\ lease = NoLease
    /\ request = [c \in Clients |-> NoRequest]
    /\ queue = EmptyQueue
    /\ abandoned = {}
    /\ fetch = Nobody
    /\ fetchQueue = EmptyQueue
    /\ clock = LegacyKey
    /\ faults = 0

-----------------------------------------------------------------------------
Fresh == clock + 1
DrawId == clock' = Fresh

Fenced == prior # NoPrior
Free == lease.client = Nobody
Holds(c) == lease.client = c
Settled == Free => queue = EmptyQueue

Fault(kind) ==
    /\ kind \in Faults /\ faults < MaxFaults
    /\ faults' = faults + 1

\* SharedPreferences.commit() answered true, or false with either record
\* left in the process and either one on disk.
Committed(new) == mem' = new /\ disk' = new /\ UNCHANGED faults
CommitFailed(new) ==
    /\ Fault("commit")
    /\ mem' \in {mem, new}
    /\ disk' \in {disk, new}

\* persist() remembers the record before the first commit that failed.
Fence == prior' = IF Fenced THEN prior ELSE mem

-----------------------------------------------------------------------------
(* acquire() and start().                                                   *)

Enqueue(c, r) ==
    /\ Settled
    /\ request' = [request EXCEPT ![c] = r]
    /\ queue' = Arrive(queue, c)
    /\ UNCHANGED <<records, leases, fetches, clock, faults>>

Basis == IF Fenced THEN prior ELSE mem

\* Mutant: an unknown commit outcome does not fence the connection.
AcceptsFenced(c, r) ==
    /\ r.fetch => fetch = c
    /\ IF r.action \in {"complete", "cancel"}
       THEN r.stamped /\ SamePending(mem, r.expected)
       ELSE r.stamped => SameRevision(mem, r.expected)
    /\ r.action = "refresh" => mem.mode = "active"

Accepts(c, r) ==
    /\ r.fetch => fetch = c
    /\ Fenced => r.action = "reconnect"
    /\ IF r.action \in {"complete", "cancel"}
       THEN r.stamped /\ SamePending(Basis, r.expected)
       ELSE r.stamped => SameRevision(Basis, r.expected)
    /\ r.action = "refresh" => Basis.mode = "active"

\* Mutant: a refresh writes to a key no record names yet.
OpenedUnrecorded(action) ==
    CASE action = "reconnect" -> Reconnect(Basis, Fresh)
      [] action = "delete"    -> Delete(Basis, Fresh)
      [] OTHER                -> Basis

Opened(action) ==
    CASE action = "reconnect" -> Reconnect(Basis, Fresh)
      [] action = "delete"    -> Delete(Basis, Fresh)
      [] action = "refresh"   -> Retire(Basis, {Fresh})
      [] OTHER                -> Basis

\* Mutant: a refresh writes the rotated secret over the selected one.
OpenedSlotInPlace(action) ==
    CASE action = "reconnect"              -> Fresh
      [] action = "refresh"                -> Basis.slot
      [] action \in {"complete", "cancel"} -> Basis.pend
      [] OTHER                             -> None

OpenedSlot(action) ==
    CASE action \in {"reconnect", "refresh"} -> Fresh
      [] action \in {"complete", "cancel"}   -> Basis.pend
      [] OTHER                               -> None

Answer(st, slot) ==
    [mode |-> st.mode, slot |-> st.slot, ident |-> st.ident,
     backup |-> ValidBackup(st), retired |-> st.retired,
     cleanup |-> CleanupSlots(st, slot, abandoned),
     version |-> VersionOf(st)]

\* start() of the oldest request, when no lease is held.
Starting(c) ==
    /\ Free /\ IsHead(queue, c)
    /\ queue' = Without(queue, {c})
    /\ request' = [request EXCEPT ![c] = NoRequest]
    /\ UNCHANGED <<abandoned, fetches>>

Refuse(c) ==
    /\ Starting(c)
    /\ ~Accepts(c, request[c])
    /\ UNCHANGED <<records, lease, clock, faults>>

Grant(c) ==
    LET action == request[c].action
        slot   == OpenedSlot(action)
    IN  /\ Starting(c)
        /\ Accepts(c, request[c])
        /\ IF action \in Opening
           THEN Committed(Opened(action)) /\ DrawId
           ELSE UNCHANGED <<mem, disk, clock, faults>>
        /\ prior' = IF action = "reconnect" THEN NoPrior ELSE prior
        /\ lease' = [client |-> c, action |-> action, slot |-> slot,
                     fetch |-> request[c].fetch,
                     view |-> Answer(Opened(action), slot)]

GrantFails(c) ==
    /\ Starting(c)
    /\ Accepts(c, request[c])
    /\ request[c].action \in Opening
    /\ CommitFailed(Opened(request[c].action)) /\ Fence /\ DrawId
    /\ UNCHANGED lease

-----------------------------------------------------------------------------
(* Calls of the lease holder.                                               *)

MayMigrate ==
    /\ lease.action = "read"
    /\ mem.mode \in {"legacy", "migration"} \/ ValidBackup(mem)

PrepareMigration(c) ==
    /\ Holds(c) /\ MayMigrate
    /\ Committed(Migrate(mem, Fresh)) /\ DrawId
    /\ lease' = [lease EXCEPT !.slot = Fresh]
    /\ UNCHANGED <<prior, abandoned, waiting, fetches>>

PrepareMigrationFails(c) ==
    /\ Holds(c) /\ MayMigrate
    /\ CommitFailed(Migrate(mem, Fresh)) /\ Fence /\ DrawId
    /\ lease' = [lease EXCEPT !.slot = Fresh]
    /\ UNCHANGED <<abandoned, waiting, fetches>>

\* A failed acknowledgement does not fence: the references stay for a retry.
AcknowledgeCleanup(c, cleaned) ==
    /\ Holds(c)
    /\ LET new == Acknowledge(mem, cleaned, lease.slot, abandoned)
       IN  Committed(new) \/ CommitFailed(new)
    /\ UNCHANGED <<prior, leases, waiting, fetches, clock>>

\* The record finish() leaves.  An activation for another account than the
\* record's, or a confirmation of one, purges the connection instead; a
\* superseded fetch ticket changes nothing.
Finished(op, acct) ==
    LET foreign == acct # mem.ident
        checked == lease.action = "refresh" \/ mem.mode = "active"
    IN  IF lease.fetch /\ fetch # lease.client THEN mem
        ELSE CASE op = "activate" ->
                    IF checked /\ foreign THEN Purge(mem, Fresh)
                    ELSE Activate(mem, lease.action, lease.slot, acct, Fresh)
               [] op = "cancel"  -> Cancel(mem)
               [] op = "missing" -> Purge(mem, Fresh)
               [] op = "confirm" -> IF foreign THEN Purge(mem, Fresh) ELSE mem
               [] OTHER          -> mem

Finishing(c) ==
    /\ Holds(c)
    /\ lease' = NoLease
    /\ DrawId
    /\ UNCHANGED <<abandoned, waiting, fetches>>

Finish(c, op, acct) ==
    /\ Finishing(c)
    /\ Finished(op, acct) # mem => Committed(Finished(op, acct))
    /\ Finished(op, acct) = mem => UNCHANGED <<mem, disk, faults>>
    /\ UNCHANGED prior

FinishFails(c, op, acct) ==
    /\ Finishing(c)
    /\ Finished(op, acct) # mem
    /\ CommitFailed(Finished(op, acct)) /\ Fence

-----------------------------------------------------------------------------
(* Network exclusion: acquireFetch() and releaseFetch().                    *)

AcquireFetch(c) ==
    /\ Settled
    /\ IF fetch = Nobody
       THEN fetch' = c /\ UNCHANGED fetchQueue
       ELSE fetchQueue' = Arrive(fetchQueue, c) /\ UNCHANGED fetch
    /\ UNCHANGED <<records, leases, waiting, clock, faults>>

\* Mutant: a released reservation wakes nobody.
PassFetchToNobody(q) == fetch' = Nobody /\ fetchQueue' = q

\* The reservation goes to the longest waiting client, if any waits.
PassFetch(q) ==
    IF q = EmptyQueue
    THEN fetch' = Nobody /\ fetchQueue' = EmptyQueue
    ELSE \E d \in Clients : /\ IsHead(q, d)
                            /\ fetch' = d
                            /\ fetchQueue' = Without(q, {d})

ReleaseFetch(c) ==
    /\ Settled
    /\ fetch = c
    /\ PassFetch(fetchQueue)
    /\ UNCHANGED <<records, leases, waiting, clock, faults>>

-----------------------------------------------------------------------------
(* Snapshots.  None of these commits fences the credential.                 *)

\* Mutant: a snapshot is written to whichever connection is active.
ValidWhenActive(v) == ~Fenced /\ mem.mode = "active"

Valid(v) == ~Fenced /\ SameEpoch(mem, v)

CommitSnapshot(new) ==
    /\ Committed(new) \/ CommitFailed(new)
    /\ UNCHANGED <<prior, leases, waiting, fetches>>

WriteCurrentSnapshot(v, acct, at) ==
    /\ Settled
    /\ Valid(v) /\ at >= mem.snap.at
    /\ CommitSnapshot(WriteSnapshot(mem, acct, at))
    /\ UNCHANGED clock

ClearCurrentSnapshot ==
    /\ Settled
    /\ mem.mode # "legacy"
    /\ CommitSnapshot(ClearSnapshot(mem, Fresh))
    /\ DrawId

-----------------------------------------------------------------------------
(* The end of an owner, and of the process.                                 *)

OwnedBy(o) == {c \in Clients : OwnerOf[c] = o}

\* The part of detach() about waiting calls and the fetch reservation.
DetachWaiting(o) ==
    LET fetching == Without(fetchQueue, OwnedBy(o))
    IN  /\ queue' = Without(queue, OwnedBy(o))
        /\ request' = [c \in Clients |-> IF c \in OwnedBy(o) THEN NoRequest
                                         ELSE request[c]]
        /\ IF fetch \in OwnedBy(o) THEN PassFetch(fetching)
           ELSE fetchQueue' = fetching /\ UNCHANGED fetch

DetachLease(o) ==
    IF lease.client \in OwnedBy(o)
    THEN /\ lease' = NoLease
         /\ abandoned' = abandoned \cup ({lease.slot} \ {None})
    ELSE UNCHANGED leases

Interrupts(o) == lease.client \in OwnedBy(o) /\ lease.action # "read"

Detach(o) ==
    /\ Settled /\ Fault("detach")
    /\ DetachWaiting(o) /\ DetachLease(o)
    /\ IF Interrupts(o)
       THEN mem' = Abandon(mem, Fresh) /\ disk' = mem' /\ DrawId
       ELSE UNCHANGED <<mem, disk, clock>>
    /\ UNCHANGED prior

DetachFails(o) ==
    /\ Settled /\ "commit" \in Faults /\ Fault("detach")
    /\ DetachWaiting(o) /\ DetachLease(o)
    /\ Interrupts(o)
    /\ mem' \in {mem, Abandon(mem, Fresh)}
    /\ disk' \in {disk, Abandon(mem, Fresh)}
    /\ Fence /\ DrawId

\* Only what the disk holds survives the process.
ProcessDeath ==
    /\ Fault("death")
    /\ mem' = disk
    /\ prior' = NoPrior
    /\ lease' = NoLease
    /\ request' = [c \in Clients |-> NoRequest]
    /\ queue' = EmptyQueue
    /\ abandoned' = {}
    /\ fetch' = Nobody
    /\ fetchQueue' = EmptyQueue
    /\ UNCHANGED <<disk, clock>>
=============================================================================

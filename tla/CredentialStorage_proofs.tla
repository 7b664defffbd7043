---------------------- MODULE CredentialStorage_proofs -----------------------
(***************************************************************************)
(* Type correctness of CredentialStorage, and four of its safety properties, *)
(* for any number of clients, Flutter engines, accounts and faults: the      *)
(* cleanup list a lease holder works through never contains a live key;      *)
(* nothing is answered while the outcome of a commit is unknown; a version   *)
(* that became invalid stays invalid; and what an old fetch ticket brings is *)
(* let through only about the secret it was taken for.                       *)
(***************************************************************************)
EXTENDS CredentialStorage, CredentialRecord_proofs

Busy == Phases \ {"idle", "queued"}

\* What ties an operation to the engine: a waiting client has a request on
\* record, an operation past its answer holds the lease, and one that is about
\* to write has a secret to write.
Linked(c) ==
    /\ queue[c] # {} => /\ request[c] \in Request
                        /\ request[c].action \in {"complete", "refresh"}
                           => op[c].value \in Accounts
                        /\ op[c].pc = "queued"
    /\ op[c].pc \in Busy => Holds(c)
    /\ op[c].pc \in {"prepare", "write"} => op[c].value \in Accounts

Links == \A c \in Clients : Linked(c)
TypeInv == TypeOK /\ Links

-----------------------------------------------------------------------------
(* The operators of the engine.                                             *)

\* The holder of the connection has a whole lease, slot and answer included.
LEMMA HolderHasLease ==
    ASSUME EngineTypeOK, NEW c \in Clients, Holds(c)
    PROVE  lease \in Lease
BY ClientAssumption DEF EngineTypeOK, Holds, NoLease

\* A drawn id is a number.
LEMMA FreshType ==
    ASSUME EngineTypeOK
    PROVE  Fresh \in Nat
BY DEF EngineTypeOK, Fresh, LegacyKey

\* Arrivals and departures keep a queue a queue.
LEMMA QueueType ==
    ASSUME NEW q \in Queue, NEW c \in Clients, NEW gone
    PROVE  /\ Arrive(q, c) \in Queue
           /\ Without(q, gone) \in Queue
           /\ EmptyQueue \in Queue
BY DEF Queue, Arrive, Waiting, Without, EmptyQueue

\* A fault of any kind is counted.
LEMMA FaultType ==
    ASSUME EngineTypeOK, NEW kind, Fault(kind)
    PROVE  faults' \in Nat
BY DEF EngineTypeOK, Fault

\* A commit leaves records, whatever its outcome.
LEMMA CommitType ==
    ASSUME EngineTypeOK, NEW new \in State, Committed(new) \/ CommitFailed(new)
    PROVE  mem' \in State /\ disk' \in State /\ faults' \in Nat
<1>1. CASE Committed(new)
  BY <1>1 DEF Committed, EngineTypeOK
<1>2. CASE CommitFailed(new)
  BY <1>2, FaultType DEF CommitFailed, EngineTypeOK
<1> QED
  BY <1>1, <1>2

\* The fence remembers a record.
LEMMA FenceType ==
    ASSUME EngineTypeOK, Fence
    PROVE  prior' \in State \cup {NoPrior}
BY DEF EngineTypeOK, Fence

\* start() works on a record, fenced or not.
LEMMA BasisType ==
    ASSUME EngineTypeOK
    PROVE  Basis \in State
BY DEF EngineTypeOK, Basis, Fenced

\* start() opens every action with a record and a slot.
LEMMA OpenedType ==
    ASSUME EngineTypeOK, NEW action \in Actions
    PROVE  Opened(action) \in State /\ OpenedSlot(action) \in Nat
<1>1. Basis \in State /\ Fresh \in Nat
  BY BasisType, FreshType
<1>2. Basis.pend \in Nat
  BY <1>1 DEF State
<1>3. {Fresh} \in SUBSET Nat
  BY <1>1
<1>4. Opened(action) \in State
  BY <1>1, <1>3, ReconnectType, DeleteType, RetireType DEF Opened
<1> QED
  BY <1>1, <1>2, <1>4 DEF OpenedSlot, None

\* The answer of start() is a view of a record.
LEMMA AnswerType ==
    ASSUME NEW st \in State, NEW slot \in Nat
    PROVE  Answer(st, slot) \in View
<1>1. ValidBackup(st) \in BOOLEAN
  BY DEF ValidBackup, State
<1>2. CleanupSlots(st, slot, abandoned) \in SUBSET Nat
  BY DEF CleanupSlots, State
<1>3. VersionOf(st) \in Version
  BY VersionOfType
<1> QED
  BY <1>1, <1>2, <1>3 DEF Answer, View, State

\* finish() leaves a record, for every operation and identity.
LEMMA FinishedType ==
    ASSUME EngineTypeOK, NEW c \in Clients, Holds(c),
           NEW goal, NEW acct \in Identities
    PROVE  Finished(goal, acct) \in State
<1>1. mem \in State /\ Fresh \in Nat /\ lease.slot \in Nat
  BY HolderHasLease, FreshType DEF EngineTypeOK, Lease
<1>2. /\ Purge(mem, Fresh) \in State
      /\ Cancel(mem) \in State
      /\ Activate(mem, lease.action, lease.slot, acct, Fresh) \in State
  BY <1>1, PurgeType, CancelType, ActivateType
<1> QED
  BY <1>1, <1>2 DEF Finished

-----------------------------------------------------------------------------
(* The steps of the engine.                                                 *)

\* acquire() keeps the engine well-typed.
LEMMA EnqueueType ==
    ASSUME EngineTypeOK, NEW c \in Clients, NEW r \in Request, Enqueue(c, r)
    PROVE  EngineTypeOK'
BY QueueType
   DEF EngineTypeOK, Enqueue, records, leases, fetches

\* Taking the oldest request off the queue keeps the queue well-typed.
LEMMA StartingType ==
    ASSUME EngineTypeOK, NEW c \in Clients, Starting(c)
    PROVE  /\ queue' \in Queue
           /\ request' \in [Clients -> Request \cup {NoRequest}]
           /\ abandoned' \in SUBSET Nat
           /\ fetch' \in Clients \cup {Nobody}
           /\ fetchQueue' \in Queue
BY QueueType DEF EngineTypeOK, Starting, fetches

\* A refused request keeps the engine well-typed.
LEMMA RefuseType ==
    ASSUME EngineTypeOK, NEW c \in Clients, Refuse(c)
    PROVE  EngineTypeOK'
BY StartingType DEF Refuse, EngineTypeOK, records

\* A granted request keeps the engine well-typed.
LEMMA GrantType ==
    ASSUME EngineTypeOK, NEW c \in Clients, request[c] \in Request, Grant(c)
    PROVE  EngineTypeOK'
<1> DEFINE action == request[c].action
           slot   == OpenedSlot(action)
<1>1. action \in Actions /\ request[c].fetch \in BOOLEAN
  BY DEF Request
<1>2. Opened(action) \in State /\ slot \in Nat
  BY <1>1, OpenedType
<1>3. Answer(Opened(action), slot) \in View
  BY <1>2, AnswerType
<1>4. lease' \in Lease
  BY <1>1, <1>2, <1>3 DEF Grant, Lease
<1>5. mem' \in State /\ disk' \in State /\ faults' \in Nat /\ clock' \in Nat
  <2>1. CASE action \in Opening
    BY <2>1, <1>2, CommitType, FreshType DEF Grant, DrawId
  <2>2. CASE action \notin Opening
    BY <2>2 DEF Grant, EngineTypeOK
  <2> QED
    BY <2>1, <2>2
<1>6. prior' \in State \cup {NoPrior}
  BY DEF Grant, EngineTypeOK
<1> QED
  BY <1>4, <1>5, <1>6, StartingType DEF Grant, EngineTypeOK

\* A start() whose commit fails keeps the engine well-typed.
LEMMA GrantFailsType ==
    ASSUME EngineTypeOK, NEW c \in Clients, request[c] \in Request, GrantFails(c)
    PROVE  EngineTypeOK'
<1>1. Opened(request[c].action) \in State
  BY OpenedType DEF Request
<1>2. mem' \in State /\ disk' \in State /\ faults' \in Nat
  BY <1>1, CommitType DEF GrantFails
<1>3. prior' \in State \cup {NoPrior} /\ clock' \in Nat
  BY FenceType, FreshType DEF GrantFails, DrawId
<1> QED
  BY <1>2, <1>3, StartingType DEF GrantFails, EngineTypeOK

\* prepareMigration() keeps the engine well-typed.
LEMMA PrepareMigrationType ==
    ASSUME EngineTypeOK, NEW c \in Clients,
           PrepareMigration(c) \/ PrepareMigrationFails(c)
    PROVE  EngineTypeOK'
<1>1. Migrate(mem, Fresh) \in State /\ Fresh \in Nat
  BY FreshType, MigrateType DEF EngineTypeOK
<1>2. mem' \in State /\ disk' \in State /\ faults' \in Nat
  BY <1>1, CommitType DEF PrepareMigration, PrepareMigrationFails
<1>3. prior' \in State \cup {NoPrior} /\ clock' \in Nat
  BY <1>1, FenceType
  DEF PrepareMigration, PrepareMigrationFails, EngineTypeOK, DrawId
<1>4. lease' \in Lease
  BY <1>1, HolderHasLease DEF PrepareMigration, PrepareMigrationFails, Lease
<1> QED
  BY <1>2, <1>3, <1>4
  DEF PrepareMigration, PrepareMigrationFails, EngineTypeOK, waiting, fetches

\* acknowledgeCleanup() keeps the engine well-typed.
LEMMA AcknowledgeCleanupType ==
    ASSUME EngineTypeOK, NEW c \in Clients, NEW keys, AcknowledgeCleanup(c, keys)
    PROVE  EngineTypeOK'
<1>1. Acknowledge(mem, keys, lease.slot, abandoned) \in State
  BY AcknowledgeType DEF EngineTypeOK
<1>2. mem' \in State /\ disk' \in State /\ faults' \in Nat
  BY <1>1, CommitType DEF AcknowledgeCleanup
<1> QED
  BY <1>2 DEF AcknowledgeCleanup, EngineTypeOK, leases, waiting, fetches

\* finish() keeps the engine well-typed.
LEMMA FinishType ==
    ASSUME EngineTypeOK, NEW c \in Clients, NEW goal, NEW acct \in Identities,
           Finish(c, goal, acct) \/ FinishFails(c, goal, acct)
    PROVE  EngineTypeOK'
<1>1. Finishing(c)
  BY DEF Finish, FinishFails
<1>2. Finished(goal, acct) \in State
  BY <1>1, FinishedType DEF Finishing
<1>3. mem' \in State /\ disk' \in State /\ faults' \in Nat
  BY <1>2, CommitType DEF Finish, FinishFails, EngineTypeOK
<1>4. prior' \in State \cup {NoPrior}
  BY FenceType DEF Finish, FinishFails, EngineTypeOK
<1> QED
  BY <1>1, <1>3, <1>4, FreshType
  DEF Finishing, EngineTypeOK, DrawId, waiting, fetches

\* A released fetch reservation goes to a client or to nobody.
LEMMA PassFetchType ==
    ASSUME NEW q \in Queue, PassFetch(q)
    PROVE  fetch' \in Clients \cup {Nobody} /\ fetchQueue' \in Queue
<1>1. CASE q = EmptyQueue
  BY <1>1 DEF PassFetch
<1>2. CASE q # EmptyQueue
  BY <1>2, QueueType DEF PassFetch
<1> QED
  BY <1>1, <1>2

\* acquireFetch() and releaseFetch() keep the engine well-typed.
LEMMA FetchType ==
    ASSUME EngineTypeOK, NEW c \in Clients, AcquireFetch(c) \/ ReleaseFetch(c)
    PROVE  EngineTypeOK'
<1>1. fetch' \in Clients \cup {Nobody} /\ fetchQueue' \in Queue
  BY PassFetchType, QueueType DEF AcquireFetch, ReleaseFetch, EngineTypeOK
<1> QED
  BY <1>1 DEF AcquireFetch, ReleaseFetch, EngineTypeOK, records, leases, waiting

\* Snapshot commits keep the engine well-typed.
LEMMA SnapshotStepType ==
    ASSUME EngineTypeOK,
           \/ \E acct \in Identities, at \in Nat : \E v :
                 WriteCurrentSnapshot(v, acct, at)
           \/ ClearCurrentSnapshot
    PROVE  EngineTypeOK'
<1>1. \E new \in State : CommitSnapshot(new)
  <2>1. mem \in State /\ Fresh \in Nat
    BY FreshType DEF EngineTypeOK
  <2>2. CASE \E acct \in Identities, at \in Nat : \E v :
               WriteCurrentSnapshot(v, acct, at)
    BY <2>1, <2>2, SnapshotType DEF WriteCurrentSnapshot
  <2>3. CASE ClearCurrentSnapshot
    <3>1. ClearSnapshot(mem, Fresh) \in State
      BY <2>1, SnapshotType, NoAccount \in Identities DEF Identities
    <3> QED
      BY <2>3, <3>1 DEF ClearCurrentSnapshot
  <2> QED
    BY <2>2, <2>3
<1>2. mem' \in State /\ disk' \in State /\ faults' \in Nat
  BY <1>1, CommitType DEF CommitSnapshot
<1>3. clock' \in Nat
  BY FreshType
  DEF WriteCurrentSnapshot, ClearCurrentSnapshot, EngineTypeOK, DrawId
<1> QED
  BY <1>1, <1>2, <1>3 DEF CommitSnapshot, EngineTypeOK, leases, waiting, fetches

\* detach() keeps the engine well-typed.
LEMMA DetachType ==
    ASSUME EngineTypeOK, NEW o, Detach(o) \/ DetachFails(o)
    PROVE  EngineTypeOK'
<1>1. DetachWaiting(o) /\ DetachLease(o) /\ faults' \in Nat
  BY FaultType DEF Detach, DetachFails
<1>2. Abandon(mem, Fresh) \in State /\ Fresh \in Nat
  BY FreshType, AbandonType DEF EngineTypeOK
<1>3. mem' \in State /\ disk' \in State /\ clock' \in Nat
  BY <1>2 DEF Detach, DetachFails, EngineTypeOK, DrawId
<1>4. prior' \in State \cup {NoPrior}
  BY FenceType DEF Detach, DetachFails, EngineTypeOK
<1>5. queue' \in Queue /\ request' \in [Clients -> Request \cup {NoRequest}]
  BY <1>1 DEF DetachWaiting, EngineTypeOK, Queue, Without
<1>6. fetch' \in Clients \cup {Nobody} /\ fetchQueue' \in Queue
  <2>1. Without(fetchQueue, OwnedBy(o)) \in Queue
    BY DEF EngineTypeOK, Queue, Without
  <2> QED
    BY <1>1, <2>1, PassFetchType DEF DetachWaiting, EngineTypeOK
<1>7. lease' \in Lease \cup {NoLease} /\ abandoned' \in SUBSET Nat
  <2>1. CASE lease.client \in OwnedBy(o)
    BY <1>1, <2>1, HolderHasLease
    DEF DetachLease, EngineTypeOK, OwnedBy, Holds, Lease
  <2>2. CASE lease.client \notin OwnedBy(o)
    BY <1>1, <2>2 DEF DetachLease, EngineTypeOK, leases
  <2> QED
    BY <2>1, <2>2
<1> QED
  BY <1>1, <1>3, <1>4, <1>5, <1>6, <1>7 DEF EngineTypeOK

\* A restart finds the engine well-typed.
LEMMA ProcessDeathType ==
    ASSUME EngineTypeOK, ProcessDeath
    PROVE  EngineTypeOK'
BY FaultType, QueueType DEF ProcessDeath, EngineTypeOK, EmptyQueue, Queue

-----------------------------------------------------------------------------
(* What the steps of the clients have in common.                            *)

Others(c) == \A d \in Clients : d # c => op'[d] = op[d]

\* An operation that goes on stays an operation of the type, and no other moves.
LEMMA GoType ==
    ASSUME op \in [Clients -> Operation], NEW c \in Clients, NEW pc \in Phases,
           NEW aim \in Goals, Go(c, pc, aim)
    PROVE  /\ op' \in [Clients -> Operation] /\ Others(c)
           /\ op'[c].pc = pc
<1> DEFINE next == [op[c] EXCEPT !.pc = pc, !.goal = aim]
<1>1. next \in Operation /\ next.pc = pc
  <2>1. op[c] \in Operation
    OBVIOUS
  <2> QED
    BY <2>1 DEF Operation
<1>2. op' = [op EXCEPT ![c] = next]
  BY DEF Go
<1> HIDE DEF next
<1> QED
  BY <1>1, <1>2 DEF Others

\* A secret a key holds belongs to an account.
LEMMA SecretType ==
    ASSUME TypeOK, NEW key
    PROVE  /\ Secret(key) \in Identities
           /\ Secret(key) # Absent => Secret(key) \in Accounts
BY NoAccountAssumption DEF Secret, Absent, Identities, TypeOK

\* Deleting and writing secrets keeps the store a store.
LEMMA StoreType ==
    ASSUME TypeOK
    PROVE  /\ \A keys : Remove(keys) =>
                 /\ DOMAIN store' \subseteq Nat
                 /\ \A key \in DOMAIN store' : store'[key] \in Accounts
           /\ \A key \in Nat, acct \in Accounts : Put(key, acct) =>
                 /\ DOMAIN store' \subseteq Nat
                 /\ \A k \in DOMAIN store' : store'[k] \in Accounts
BY DEF TypeOK, Remove, Put

\* An operation at work holds the lease, and nobody else is at work.
LEMMA BusyHolds ==
    ASSUME TypeInv, NEW c \in Clients, op[c].pc \in Busy
    PROVE  /\ Holds(c) /\ lease \in Lease
           /\ queue[c] = {}
           /\ \A d \in Clients : d # c => op[d].pc \notin Busy
BY HolderHasLease DEF TypeInv, TypeOK, Links, Linked, Busy, Holds

\* A client that asks moves nothing but its own operation and the queue.
LEMMA AskKeepsInv ==
    ASSUME TypeInv, NEW c \in Clients, NEW action \in Actions,
           NEW version \in Version, NEW stamped \in BOOLEAN,
           Ask(c, action, version, stamped),
           op' \in [Clients -> Operation], Others(c), op'[c].pc = "queued",
           action \in {"complete", "refresh"} => op'[c].value \in Accounts
    PROVE  TypeInv'
<1> DEFINE r == [action |-> action, expected |-> version, stamped |-> stamped,
                 fetch |-> InFetch(c) /\ stamped
                           /\ action \in {"refresh", "delete"}]
<1>1. r \in Request
  BY DEF Request, InFetch
<1>2. Enqueue(c, r)
  BY DEF Ask
<1>3. EngineTypeOK'
  BY <1>1, <1>2, EnqueueType DEF TypeInv, TypeOK
<1>4. TypeOK'
  BY <1>3 DEF TypeInv, TypeOK, Ask, Start, secrets
<1>5. ASSUME NEW d \in Clients PROVE Linked(d)'
  <2>1. CASE d = c
    BY <2>1, <1>1, <1>2 DEF Linked, Enqueue, TypeInv, TypeOK, EngineTypeOK, Busy
  <2>2. CASE d # c
    <3>1. queue'[d] = queue[d] /\ request'[d] = request[d] /\ lease' = lease
      BY <2>2, <1>2
      DEF Enqueue, Arrive, TypeInv, TypeOK, EngineTypeOK, Queue, leases
    <3> QED
      BY <2>2, <3>1 DEF Others, TypeInv, Links, Linked, Holds
  <2> QED
    BY <2>1, <2>2
<1> QED
  BY <1>4, <1>5 DEF TypeInv, Links

\* The engine's answer to c leaves the links of every client right if it
\* leaves those of c right.
LEMMA AnswerKeepsLinks ==
    ASSUME TypeInv, NEW c \in Clients, Starting(c), Others(c),
           op'[c].pc \in Busy => Holds(c)',
           op'[c].pc \in {"prepare", "write"} => op'[c].value \in Accounts
    PROVE  Links'
<1> SUFFICES ASSUME NEW d \in Clients PROVE Linked(d)'
  BY DEF Links
<1>1. queue'[d] # {} => d # c /\ queue[d] # {} /\ request'[d] = request[d]
  BY DEF Starting, Without, TypeInv, TypeOK, EngineTypeOK, Queue
<1>2. CASE d = c
  BY <1>1, <1>2 DEF Linked
<1>3. CASE d # c
  <2>1. op'[d] = op[d]
    BY <1>3 DEF Others
  <2>2. op[d].pc \notin Busy
    BY ClientAssumption DEF TypeInv, Links, Linked, Starting, Free, Holds
  <2>3. op[d].pc \notin {"prepare", "write"}
    BY <2>2 DEF Busy, Phases
  <2> QED
    BY <1>1, <2>1, <2>2, <2>3 DEF TypeInv, Links, Linked
<1> QED
  BY <1>2, <1>3

\* So does a step of the lease holder.
LEMMA WorkKeepsLinks ==
    ASSUME TypeInv, NEW c \in Clients, op[c].pc \in Busy, UNCHANGED waiting,
           Others(c),
           op'[c].pc # "queued",
           op'[c].pc \in Busy => lease'.client = lease.client,
           op'[c].pc \in {"prepare", "write"} => op'[c].value \in Accounts
    PROVE  Links'
<1> SUFFICES ASSUME NEW d \in Clients PROVE Linked(d)'
  BY DEF Links
<1>1. queue'[d] = queue[d] /\ request'[d] = request[d]
  BY DEF waiting
<1>2. CASE d = c
  BY <1>1, <1>2, BusyHolds DEF Linked, Holds
<1>3. CASE d # c
  <2>1. op'[d] = op[d] /\ op[d].pc \notin Busy
    BY <1>3, BusyHolds DEF Others
  <2>2. op[d].pc \notin {"prepare", "write"}
    BY <2>1 DEF Busy, Phases
  <2> QED
    BY <1>1, <2>1, <2>2 DEF TypeInv, Links, Linked
<1> QED
  BY <1>2, <1>3

\* And a step that moves no operation, no request and no lease.
LEMMA SameKeepsLinks ==
    ASSUME TypeInv, UNCHANGED waiting, UNCHANGED lease,
           \A c \in Clients : /\ op'[c].pc = op[c].pc
                              /\ op'[c].value = op[c].value
    PROVE  Links'
BY DEF TypeInv, Links, Linked, waiting, Holds

-----------------------------------------------------------------------------
(* The steps of the clients, one by one.                                    *)

\* Every kind of request keeps the invariant.
LEMMA AskingType ==
    ASSUME TypeInv, NEW c \in Clients, Asking(c)
    PROVE  TypeInv'
<1>1. op \in [Clients -> Operation] /\ NoVersion \in Version
  BY DEF TypeInv, TypeOK, NoVersion, Version, None
<1>2. op[c].held.version \in Version /\ op[c].ticket \in Version
  BY <1>1 DEF Operation, Held
<1> USE <1>1, <1>2, AskKeepsInv DEF Actions, Others
<1>3. CASE AskRead(c)
  BY <1>3 DEF AskRead, Operation, Phases, NothingHeld, Held, None
<1>4. CASE AskReconnect(c)
  BY <1>4 DEF AskReconnect, Queued, Operation, Phases
<1>5. CASE AskDelete(c)
  BY <1>5 DEF AskDelete, Queued, Operation, Phases
<1>6. CASE AskComplete(c)
  <2>1. PICK a \in Accounts : QueuedWith(c, a)
    BY <1>6 DEF AskComplete
  <2>2. op' \in [Clients -> Operation] /\ op'[c].pc = "queued"
        /\ op'[c].value = a /\ \A d \in Clients : d # c => op'[d] = op[d]
    BY <2>1 DEF QueuedWith, Operation, Phases
  <2> QED
    BY <1>6, <2>2 DEF AskComplete
<1>7. CASE AskCancel(c)
  BY <1>7 DEF AskCancel, Queued, Operation, Phases
<1>8. CASE AskRefresh(c)
  <2>1. PICK a \in Accounts : QueuedWith(c, a)
    BY <1>8 DEF AskRefresh
  <2>2. op' \in [Clients -> Operation] /\ op'[c].pc = "queued"
        /\ op'[c].value = a /\ \A d \in Clients : d # c => op'[d] = op[d]
    BY <2>1 DEF QueuedWith, Operation, Phases
  <2> QED
    BY <1>8, <2>2 DEF AskRefresh
<1>9. CASE AskDeleteIfCurrent(c)
  BY <1>9 DEF AskDeleteIfCurrent, Queued, Operation, Phases
<1> QED
  BY <1>3, <1>4, <1>5, <1>6, <1>7, <1>8, <1>9 DEF Asking

\* A granted request puts its client at work on the lease.
LEMMA GrantedType ==
    ASSUME TypeInv, NEW c \in Clients, Granted(c)
    PROVE  TypeInv'
<1> DEFINE action == request[c].action
<1>1. /\ Starting(c) /\ Grant(c) /\ queue[c] # {}
      /\ op \in [Clients -> Operation] /\ EngineTypeOK
  BY DEF Granted, Grant, Starting, IsHead, TypeInv, TypeOK
<1>2. /\ request[c] \in Request /\ action \in Actions
      /\ action \in {"complete", "refresh"} => op[c].value \in Accounts
  BY <1>1 DEF TypeInv, Links, Linked, Request
<1>3. EngineTypeOK'
  BY <1>1, <1>2, GrantType
<1>4. Holds(c)' /\ lease' \in Lease
  BY <1>1, <1>3, ClientAssumption DEF Grant, Holds, EngineTypeOK, NoLease
<1>5. lease'.view.version \in Version
  BY <1>4 DEF Lease, View
<1>6. op' \in [Clients -> Operation] /\ Others(c)
  BY <1>1, <1>2, <1>5 DEF Granted, Go, Operation, Phases, Goals, Others
<1>7. op'[c].pc \in {"prepare", "write"} => op'[c].value \in Accounts
  <2>1. CASE action \in {"complete", "refresh"}
    BY <1>1, <1>2, <2>1 DEF Granted, Go, Operation
  <2>2. CASE action \in {"read", "reconnect", "cancel", "delete"}
    BY <1>1, <2>2 DEF Granted, Go, Operation
  <2> QED
    BY <1>2, <2>1, <2>2 DEF Actions
<1>8. TypeOK'
  BY <1>3, <1>6 DEF Granted, secrets, TypeInv, TypeOK
<1> QED
  BY <1>1, <1>4, <1>6, <1>7, <1>8, AnswerKeepsLinks DEF TypeInv

\* A refused client is idle again and does not wait.
LEMMA RefusedType ==
    ASSUME TypeInv, NEW c \in Clients, Refused(c) \/ RefusedByCommit(c)
    PROVE  TypeInv'
<1>1. Starting(c) /\ queue[c] # {} /\ op \in [Clients -> Operation] /\ EngineTypeOK
  BY DEF Refused, RefusedByCommit, Refuse, GrantFails, Starting, IsHead,
         TypeInv, TypeOK
<1>2. EngineTypeOK'
  BY <1>1, RefuseType, GrantFailsType
  DEF Refused, RefusedByCommit, TypeInv, Links, Linked
<1>3. op' \in [Clients -> Operation] /\ Others(c) /\ op'[c].pc = "idle"
  BY <1>1 DEF Refused, RefusedByCommit, Operation, Phases, Others,
              NoVersion, Version, None
<1>4. TypeOK'
  BY <1>2, <1>3 DEF Refused, RefusedByCommit, secrets, TypeInv, TypeOK
<1> QED
  BY <1>1, <1>3, <1>4, AnswerKeepsLinks DEF TypeInv, Busy

\* _cleanup() deletes no more than the list and keeps the invariant.
LEMMA CleanType ==
    ASSUME TypeInv, NEW c \in Clients, Clean(c)
    PROVE  TypeInv'
<1>1. op[c].pc \in Busy /\ op \in [Clients -> Operation] /\ EngineTypeOK
  BY DEF Clean, At, Busy, Phases, TypeInv, TypeOK
<1>2. lease.view.cleanup \in SUBSET Nat
  BY <1>1, BusyHolds DEF Lease, View
<1>3. faults' \in Nat
  BY <1>1, FaultType DEF Clean, EngineTypeOK
<1>4. EngineTypeOK'
  BY <1>1, <1>3
  DEF Clean, NoCall, EngineTypeOK, records, leases, waiting, fetches
<1>5. /\ op' \in [Clients -> Operation] /\ Others(c)
      /\ op'[c].pc \in {"ack", "look", "finish"}
  <2>1. PICK pc \in {"ack", "look", "finish"} : Go(c, pc, op[c].goal)
    BY DEF Clean, AfterCleanup
  <2>2. pc \in Phases
    BY <2>1 DEF Phases
  <2>3. op[c].goal \in Goals
    BY <1>1 DEF Operation
  <2> QED
    BY <1>1, <2>1, <2>2, <2>3, GoType
<1>6. TypeOK'
  BY <1>2, <1>4, <1>5, StoreType DEF Clean, NoCall, TypeInv, TypeOK
<1> QED
  BY <1>1, <1>5, <1>6, WorkKeepsLinks DEF TypeInv, Clean, NoCall, leases

\* The acknowledgement keeps the invariant.
LEMMA AckType ==
    ASSUME TypeInv, NEW c \in Clients, Ack(c)
    PROVE  TypeInv'
<1>1. op[c].pc \in Busy /\ op \in [Clients -> Operation] /\ EngineTypeOK
  BY DEF Ack, At, Busy, Phases, TypeInv, TypeOK
<1>2. EngineTypeOK'
  BY <1>1, AcknowledgeCleanupType DEF Ack
<1>3. /\ op' \in [Clients -> Operation] /\ Others(c)
      /\ op'[c].pc \in {"look", "finish"}
  <2>1. PICK pc \in {"look", "finish"} : Go(c, pc, op[c].goal)
    BY DEF Ack, AfterCleanup
  <2>2. pc \in Phases
    BY <2>1 DEF Phases
  <2>3. op[c].goal \in Goals
    BY <1>1 DEF Operation
  <2> QED
    BY <1>1, <2>1, <2>2, <2>3, GoType
<1>4. TypeOK'
  BY <1>2, <1>3 DEF Ack, TypeInv, TypeOK
<1> QED
  BY <1>1, <1>3, <1>4, WorkKeepsLinks
  DEF TypeInv, Ack, AcknowledgeCleanup, leases

\* Reading the secret keeps the invariant, found, foreign or absent.
LEMMA LookType ==
    ASSUME TypeInv, NEW c \in Clients, Look(c) \/ LookFails(c)
    PROVE  TypeInv'
<1>1. op[c].pc \in Busy /\ op \in [Clients -> Operation] /\ EngineTypeOK
  BY DEF Look, LookFails, At, Busy, Phases, TypeInv, TypeOK
<1>2. Found \in Identities /\ (Found # Absent => Found \in Accounts)
  BY SecretType DEF Found, TypeInv
<1>3. AfterLook \in {<<"finish", "missing">>, <<"finish", "confirm">>}
      \/ (AfterLook = <<"prepare", "activate">> /\ Found # Absent)
  BY DEF AfterLook
<1>4. AfterLook[1] \in {"finish", "prepare"}
      /\ AfterLook[2] \in {"missing", "confirm", "activate"}
      /\ (AfterLook[1] = "prepare" => Found \in Accounts)
  BY <1>2, <1>3
<1>5. /\ op' \in [Clients -> Operation] /\ Others(c)
      /\ op'[c].pc \in {"clean", "finish", "prepare"}
      /\ op'[c].pc = "prepare" => op'[c].value \in Accounts
  BY <1>1, <1>2, <1>4
  DEF Look, LookFails, Release, Go, Operation, Phases, Goals, Others, Identities,
      Absent
<1>6. faults' \in Nat
  BY <1>1, FaultType DEF Look, LookFails, EngineTypeOK
<1>7. TypeOK'
  BY <1>1, <1>5, <1>6
  DEF Look, LookFails, NoCall, EngineTypeOK, records, leases, waiting, fetches,
      secrets, TypeInv, TypeOK
<1> QED
  BY <1>1, <1>5, <1>7, WorkKeepsLinks DEF TypeInv, Look, LookFails, NoCall, leases

\* Preparing a migration keeps the invariant, committed or not.
LEMMA PrepareType ==
    ASSUME TypeInv, NEW c \in Clients, Prepare(c)
    PROVE  TypeInv'
<1>1. /\ op[c].pc \in Busy /\ op \in [Clients -> Operation] /\ EngineTypeOK
      /\ op[c].value \in Accounts
  BY DEF Prepare, At, Busy, Phases, TypeInv, TypeOK, Links, Linked
<1>2. EngineTypeOK'
  BY <1>1, PrepareMigrationType DEF Prepare
<1>3. /\ op' \in [Clients -> Operation] /\ Others(c)
      /\ op'[c].pc \in {"write", "clean"} /\ op'[c].value \in Accounts
  BY <1>1 DEF Prepare, Release, Go, Operation, Phases, Goals, Others
<1>4. TypeOK'
  BY <1>2, <1>3 DEF Prepare, secrets, TypeInv, TypeOK
<1>5. UNCHANGED waiting /\ lease'.client = lease.client
  <2>1. lease \in Lease
    BY <1>1, BusyHolds
  <2> QED
    BY <2>1 DEF Prepare, PrepareMigration, PrepareMigrationFails, Lease
<1> QED
  BY <1>1, <1>3, <1>4, <1>5, WorkKeepsLinks DEF TypeInv

\* Writing a secret, or wiping them, keeps the invariant.
LEMMA WriteType ==
    ASSUME TypeInv, NEW c \in Clients, Write(c) \/ WriteFails(c) \/ Wipe(c)
    PROVE  TypeInv'
<1>1. op[c].pc \in Busy /\ op \in [Clients -> Operation] /\ EngineTypeOK
  BY DEF Write, WriteFails, Wipe, At, Busy, Phases, TypeInv, TypeOK
<1>2. lease.slot \in Nat
  BY <1>1, BusyHolds DEF Lease
<1>3. DOMAIN store' \subseteq Nat /\ \A key \in DOMAIN store' : store'[key] \in Accounts
  BY <1>2, StoreType
  DEF Write, WriteFails, Wipe, At, TypeInv, TypeOK, Links, Linked
<1>4. faults' \in Nat
  BY <1>1, FaultType DEF Write, WriteFails, Wipe, EngineTypeOK
<1>5. /\ op' \in [Clients -> Operation] /\ Others(c)
      /\ op'[c].pc \in {"finish", "clean"}
  BY <1>1 DEF Write, WriteFails, Wipe, Release, Go, Operation, Phases, Goals, Others
<1>6. TypeOK'
  BY <1>1, <1>3, <1>4, <1>5
  DEF Write, WriteFails, Wipe, NoCall, EngineTypeOK, records, leases, waiting,
      fetches, TypeInv, TypeOK
<1> QED
  BY <1>1, <1>5, <1>6, WorkKeepsLinks
  DEF TypeInv, Write, WriteFails, Wipe, NoCall, leases

\* _finish() returns the operation to idle and the lease to nobody.
LEMMA FinishesType ==
    ASSUME TypeInv, NEW c \in Clients, Finishes(c) \/ FinishesByException(c)
    PROVE  TypeInv'
<1>1. /\ op[c].pc \in Busy /\ op \in [Clients -> Operation] /\ EngineTypeOK
      /\ op[c].value \in Identities
  BY DEF Finishes, FinishesByException, At, Busy, Phases, TypeInv, TypeOK,
         Operation, Identities, Absent
<1>2. EngineTypeOK'
  BY <1>1, FinishType DEF Finishes, FinishesByException
<1>3. NothingHeld \in Held /\ NoVersion \in Version
  BY DEF NothingHeld, Held, NoVersion, Version, None
<1>4. Answered(c) \in Held
  <2>1. mem' \in State
    BY <1>2 DEF EngineTypeOK
  <2>2. VersionOf(mem)' \in Version /\ mem'.slot \in Nat
    BY <2>1, VersionOfType DEF State
  <2>3. VersionOf(mem') \in Version
    BY <2>1, VersionOfType
  <2> QED
    BY <1>1, <1>3, <2>2, <2>3 DEF Answered, Held, Identities, Absent
<1>5. op' \in [Clients -> Operation] /\ Others(c) /\ op'[c].pc = "idle"
  BY <1>1, <1>3, <1>4
  DEF Finishes, FinishesByException, Operation, Phases, Others
<1>6. TypeOK'
  BY <1>2, <1>5 DEF Finishes, FinishesByException, secrets, TypeInv, TypeOK
<1>7. UNCHANGED waiting
  BY DEF Finishes, FinishesByException, Finish, FinishFails, Finishing
<1> QED
  BY <1>1, <1>5, <1>6, <1>7, WorkKeepsLinks DEF TypeInv, Busy

\* The two ends of serializeFetch() keep the invariant.
LEMMA FetchingType ==
    ASSUME TypeInv, NEW c \in Clients, Fetching(c)
    PROVE  TypeInv'
<1>1. EngineTypeOK'
  BY FetchType DEF Fetching, StartFetch, EndFetch, TypeInv, TypeOK
<1>2. TypeOK'
  BY <1>1 DEF Fetching, StartFetch, EndFetch, secrets, TypeInv, TypeOK
<1> QED
  BY <1>2, SameKeepsLinks
  DEF TypeInv, Fetching, StartFetch, EndFetch, AcquireFetch, ReleaseFetch, leases

\* A report, and its snapshot, keep the invariant.
LEMMA CachingType ==
    ASSUME TypeInv, NEW c \in Clients, Caching(c)
    PROVE  TypeInv'
<1>1. /\ op \in [Clients -> Operation] /\ EngineTypeOK
      /\ clock \in Nat /\ faults \in Nat
  BY DEF TypeInv, TypeOK, EngineTypeOK
<1>2. CASE Report(c)
  <2>1. op' \in [Clients -> Operation]
        /\ \A d \in Clients : op'[d].pc = op[d].pc /\ op'[d].value = op[d].value
    BY <1>1, <1>2 DEF Report, Operation
  <2>2. TypeOK'
    BY <1>1, <1>2, <2>1
    DEF Report, NoCall, EngineTypeOK, records, leases, waiting, fetches, secrets,
        TypeInv, TypeOK
  <2> QED
    BY <1>2, <2>1, <2>2, SameKeepsLinks DEF TypeInv, Report, NoCall, leases
<1>3. CASE StoreReport(c)
  <2>1. op' \in [Clients -> Operation]
        /\ \A d \in Clients : op'[d].pc = op[d].pc /\ op'[d].value = op[d].value
    BY <1>1, <1>3 DEF StoreReport, Operation
  <2>2. op[c].held.acct \in Identities /\ op[c].report \in Nat
    BY <1>1 DEF Operation, Held, Identities, Absent
  <2>3. EngineTypeOK'
    <3>1. \E acct \in Identities, at \in Nat : \E v :
             WriteCurrentSnapshot(v, acct, at)
      BY <1>3, <2>2 DEF StoreReport
    <3> QED
      BY <1>1, <3>1, SnapshotStepType
  <2>4. TypeOK'
    BY <1>3, <2>1, <2>3 DEF StoreReport, secrets, TypeInv, TypeOK
  <2> QED
    BY <1>3, <2>1, <2>4, SameKeepsLinks
    DEF TypeInv, StoreReport, WriteCurrentSnapshot, CommitSnapshot, leases
<1> QED
  BY <1>2, <1>3 DEF Caching

\* Clearing the cache keeps the invariant.
LEMMA ClearCacheType ==
    ASSUME TypeInv, ClearCache
    PROVE  TypeInv'
<1>1. EngineTypeOK'
  BY SnapshotStepType DEF ClearCache, TypeInv, TypeOK
<1>2. TypeOK'
  BY <1>1 DEF ClearCache, Start, secrets, TypeInv, TypeOK
<1> QED
  BY <1>2, SameKeepsLinks
  DEF TypeInv, ClearCache, ClearCurrentSnapshot, CommitSnapshot, leases

\* A client at rest is in an operation of the type.
LEMMA NoOperationType == NoOperation \in Operation
BY DEF NoOperation, Operation, Phases, Goals, NothingHeld, Held, NoVersion,
       Version, None, Absent

\* The end of a Flutter engine leaves its clients at rest.
LEMMA TearDownType ==
    ASSUME TypeInv, NEW o \in Owners, TearDown(o)
    PROVE  TypeInv'
<1>1. op \in [Clients -> Operation] /\ EngineTypeOK
  BY DEF TypeInv, TypeOK
<1>2. EngineTypeOK'
  BY <1>1, DetachType DEF TearDown
<1>3. op' \in [Clients -> Operation] /\ cleaned' \subseteq Nat
  BY <1>1, NoOperationType DEF TearDown, Reset, TypeInv, TypeOK
<1>4. ASSUME NEW c \in Clients
      PROVE  Unlanded(c) \subseteq [key : Nat, acct : Accounts \cup {Absent}]
  <2>1. CASE op[c].pc \in Busy
    <3>1. /\ lease.view.cleanup \in SUBSET Nat /\ lease.view.retired \in SUBSET Nat
          /\ lease.slot \in Nat /\ op[c].value \in Accounts \cup {Absent}
          /\ LegacyKey \in Nat
      BY <1>1, <2>1, BusyHolds DEF Lease, View, Operation, LegacyKey
    <3> DEFINE Calls == [key : Nat, acct : Accounts \cup {Absent}]
    <3>2. \A keys \in SUBSET Nat :
             {[key |-> k, acct |-> Absent] : k \in keys} \subseteq Calls
      <4>1. \A k \in Nat : [key |-> k, acct |-> Absent] \in Calls
        OBVIOUS
      <4> HIDE DEF Calls
      <4>2. TAKE keys \in SUBSET Nat
      <4>3. \A k \in keys : [key |-> k, acct |-> Absent] \in Calls
        BY <4>1
      <4> QED
        BY <4>3
    <3>3. {[key |-> lease.slot, acct |-> op[c].value]} \subseteq Calls
      BY <3>1
    <3>4. lease.view.retired \cup {LegacyKey} \in SUBSET Nat
      BY <3>1
    <3> QED
      BY <3>1, <3>2, <3>3, <3>4 DEF Unlanded
  <2>2. CASE op[c].pc \notin Busy
    BY <2>2 DEF Unlanded, At, Busy, Phases
  <2> QED
    BY <2>1, <2>2
<1>5. late' \subseteq [key : Nat, acct : Accounts \cup {Absent}]
  BY <1>4 DEF TearDown, TypeInv, TypeOK, OwnedBy
<1>6. TypeOK'
  BY <1>2, <1>3, <1>5 DEF TearDown, TypeInv, TypeOK
<1>7. ASSUME NEW c \in Clients PROVE Linked(c)'
  <2>1. DetachWaiting(o) /\ DetachLease(o) /\ Reset(OwnedBy(o))
    BY DEF TearDown, Detach, DetachFails
  <2>2. CASE c \in OwnedBy(o)
    BY <1>1, <2>1, <2>2
    DEF DetachWaiting, Reset, Without, Linked, NoOperation, Busy
  <2>3. CASE c \notin OwnedBy(o)
    <3>1. /\ queue'[c] # {} => queue[c] # {} /\ request'[c] = request[c]
          /\ op'[c] = op[c]
      BY <1>1, <2>1, <2>3
      DEF DetachWaiting, Reset, Without, EngineTypeOK, Queue
    <3>2. Holds(c) => Holds(c)'
      BY <2>1, <2>3 DEF DetachLease, Holds, leases
    <3> QED
      BY <3>1, <3>2 DEF TypeInv, Links, Linked
  <2> QED
    BY <2>2, <2>3
<1> QED
  BY <1>6, <1>7 DEF TypeInv, Links

\* A call that lands late keeps the store a store.
LEMMA LandType ==
    ASSUME TypeInv, Land
    PROVE  TypeInv'
<1>1. EngineTypeOK'
  BY DEF Land, NoCall, EngineTypeOK, records, leases, waiting, fetches,
         TypeInv, TypeOK
<1>2. DOMAIN store' \subseteq Nat /\ \A key \in DOMAIN store' : store'[key] \in Accounts
  <2>1. PICK call \in late :
               IF call.acct = Absent THEN Remove({call.key})
               ELSE Put(call.key, call.acct)
    BY DEF Land
  <2>2. call.key \in Nat /\ call.acct \in Accounts \cup {Absent}
    BY DEF TypeInv, TypeOK
  <2> QED
    BY <2>1, <2>2, StoreType DEF TypeInv
<1>3. TypeOK'
  BY <1>1, <1>2 DEF Land, NoCall, TypeInv, TypeOK
<1> QED
  BY <1>3, SameKeepsLinks DEF TypeInv, Land, NoCall, leases

\* The end of the process leaves every client at rest.
LEMMA DieType ==
    ASSUME TypeInv, Die
    PROVE  TypeInv'
<1>1. EngineTypeOK'
  BY ProcessDeathType DEF Die, TypeInv, TypeOK
<1>2. op' = [c \in Clients |-> NoOperation] /\ cleaned' \subseteq Nat
  BY DEF Die, Reset, TypeInv, TypeOK
<1>3. TypeOK'
  BY <1>1, <1>2, NoOperationType DEF Die, TypeInv, TypeOK
<1>4. Links'
  BY <1>2 DEF Die, ProcessDeath, EmptyQueue, Links, Linked, NoOperation, Busy
<1> QED
  BY <1>3, <1>4 DEF TypeInv

-----------------------------------------------------------------------------
\* The initial state satisfies the invariant.
LEMMA InitType == Init => TypeInv
<1> SUFFICES ASSUME Init PROVE TypeInv
  OBVIOUS
<1>1. EngineTypeOK
  BY LegacyStateType, QueueType
  DEF Init, EngineInit, EngineTypeOK, EmptyQueue, Queue, LegacyKey
<1>2. TypeOK
  BY <1>1, NoOperationType DEF Init, TypeOK, LegacyKey
<1>3. Links
  BY DEF Init, EngineInit, EmptyQueue, Links, Linked, NoOperation, Busy
<1> QED
  BY <1>2, <1>3 DEF TypeInv

\* Every step keeps the invariant.
LEMMA NextType == TypeInv /\ [Next]_vars => TypeInv'
<1> SUFFICES ASSUME TypeInv, [Next]_vars PROVE TypeInv'
  OBVIOUS
<1>1. ASSUME NEW c \in Clients, Asking(c) PROVE TypeInv'
  BY <1>1, AskingType
<1>2. ASSUME NEW c \in Clients, Answering(c) PROVE TypeInv'
  BY <1>2, GrantedType, RefusedType DEF Answering
<1>3. ASSUME NEW c \in Clients, Working(c) PROVE TypeInv'
  BY <1>3, CleanType, AckType, LookType, PrepareType, WriteType, FinishesType
  DEF Working
<1>4. ASSUME NEW c \in Clients, Fetching(c) \/ Caching(c) PROVE TypeInv'
  BY <1>4, FetchingType, CachingType
<1>5. ASSUME NEW o \in Owners, TearDown(o) PROVE TypeInv'
  BY <1>5, TearDownType
<1>6. CASE ClearCache \/ Land \/ Die
  BY <1>6, ClearCacheType, LandType, DieType
<1>7. CASE UNCHANGED vars
  <2>1. TypeOK'
    BY <1>7 DEF vars, engineVars, records, leases, waiting, fetches,
                TypeInv, TypeOK, EngineTypeOK
  <2> QED
    BY <1>7, <2>1, SameKeepsLinks DEF vars, engineVars, leases, TypeInv
<1> QED
  BY <1>1, <1>2, <1>3, <1>4, <1>5, <1>6, <1>7 DEF Next, Quiet

\* The variables of the engine and of its clients keep their types, whichever
\* operations run, fail, are torn down or die, in any number.
THEOREM TypeCorrect == Spec => []TypeOK
<1>1. TypeInv => TypeOK
  BY DEF TypeInv
<1> QED
  BY InitType, NextType, <1>1, PTL DEF Spec

-----------------------------------------------------------------------------
(***************************************************************************)
(* The record in memory and the one on disk.                                *)
(***************************************************************************)
\* Modes a connection passes through without a lease holder noticing.
SameMode(m, n) == m = n \/ {m, n} \subseteq {"legacy", "migration"}

\* What the properties need of the record in memory and the one on disk: a
\* commit that fails without fencing (a cleanup acknowledgement, a snapshot)
\* and the preparation of a migration both leave the credentials alone, so the
\* records differ in those only while nobody holds the lease.
Agree(a, b) ==
    /\ a.slot = b.slot /\ a.ident = b.ident
    /\ a.prevSlot = b.prevSlot /\ a.prevIdent = b.prevIdent
    /\ a.prevMode = b.prevMode
    /\ a.pend = b.pend
    /\ SameMode(a.mode, b.mode)

RecordsAgree ==
    /\ ~Free \/ ~Fenced => Agree(mem, disk)
    /\ ~Free /\ Fenced  => Agree(prior, disk)

ListSpares ==
    ~Free => lease.view.cleanup \cap {mem.slot, mem.prevSlot} \subseteq {None}

\* A connection is fenced under a lease only by a failed prepareMigration(),
\* and its read() then goes straight to the release.
HolderGivesUp ==
    ~Free /\ Fenced => /\ op[lease.client].goal = "release"
                       /\ op[lease.client].pc \in {"clean", "ack", "finish"}

CleanupInv == RecordsAgree /\ ListSpares
SafetyInv == TypeInv /\ CleanupInv /\ HolderGivesUp

-----------------------------------------------------------------------------
\* Agreement is an equivalence, and agreeing records name the same keys.
LEMMA AgreeEquivalence ==
    /\ \A a : Agree(a, a)
    /\ \A a, b : Agree(a, b) => /\ Agree(b, a)
                                /\ a.slot = b.slot /\ a.prevSlot = b.prevSlot
    /\ \A a, b, c : Agree(a, b) /\ Agree(b, c) => Agree(a, c)
BY DEF Agree, SameMode

\* persist() leaves the connection fenced, on the record of the first failed
\* commit.
LEMMA FenceFences ==
    ASSUME TypeOK, Fence
    PROVE  /\ Fenced'
           /\ prior' = IF Fenced THEN prior ELSE mem
<1>1. mem \in State
  BY DEF TypeOK, EngineTypeOK
<1>2. NoPrior.mode = "none"
  BY DEF NoPrior, LegacyState
<1>3. mem # NoPrior
  BY <1>1, <1>2 DEF State, Modes
<1> QED
  BY <1>3 DEF Fence, Fenced

\* The record changes that leave the selected keys alone.
LEMMA KeepsKeys ==
    ASSUME NEW st \in State, NEW id \in Nat, NEW keys, NEW slot, NEW gone,
           NEW acct, NEW at
    PROVE  /\ st.mode \in {"legacy", "migration", "active"} => Agree(Migrate(st, id), st)
           /\ Agree(Acknowledge(st, keys, slot, gone), st)
           /\ Agree(WriteSnapshot(st, acct, at), st)
           /\ Agree(ClearSnapshot(st, id), st)
<1>1. ASSUME st.mode \in {"legacy", "migration", "active"}
      PROVE  Agree(Migrate(st, id), st)
  <2>1. Barrier(st, "migration", id) \in State
    BY BarrierType DEF Modes
  <2>2. st.mode # "active" => Agree(Barrier(st, "migration", id), st)
    BY <1>1 DEF Agree, SameMode, Barrier, State
  <2>3. ASSUME NEW t \in State PROVE Agree(Retire(t, {id}), t)
    BY DEF Agree, SameMode, Retire, State
  <2> QED
    BY <2>1, <2>2, <2>3, AgreeEquivalence DEF Migrate
<1>2. Agree(Acknowledge(st, keys, slot, gone), st)
  BY DEF Agree, SameMode, Acknowledge, State
<1>3. Agree(WriteSnapshot(st, acct, at), st) /\ Agree(ClearSnapshot(st, id), st)
  BY DEF Agree, SameMode, WriteSnapshot, ClearSnapshot, State
<1> QED
  BY <1>1, <1>2, <1>3

\* A step that touches neither the records nor the lease keeps the invariant.
LEMMA SameRecordsKeep ==
    ASSUME CleanupInv, UNCHANGED records, UNCHANGED lease
    PROVE  CleanupInv'
BY DEF CleanupInv, RecordsAgree, ListSpares, records, Free, Fenced, Agree

\* A commit, successful or not, of a record with the same keys.
LEMMA KeepingCommit ==
    ASSUME CleanupInv, NEW new, Agree(new, mem),
           Committed(new) \/ CommitFailed(new),
           lease'.client = lease.client,
           ~Free => lease'.view = lease.view,
           prior' = prior \/ (~Free /\ prior' = IF Fenced THEN prior ELSE mem)
    PROVE  CleanupInv'
<1>1. CASE ~Free \/ ~Fenced
  <2>1. Agree(mem, disk)
    BY <1>1 DEF CleanupInv, RecordsAgree
  <2>2. mem' \in {mem, new} /\ disk' \in {disk, new}
    BY DEF Committed, CommitFailed
  <2>3. Agree(mem', mem) /\ Agree(disk', disk)
    BY <2>1, <2>2, AgreeEquivalence
  <2>4. ~Free /\ Fenced' => Agree(prior', disk')
    BY <1>1, <2>1, <2>3, AgreeEquivalence DEF CleanupInv, RecordsAgree, Fenced, Free
  <2>5. Agree(mem', disk')
    BY <2>1, <2>3, AgreeEquivalence
  <2> QED
    BY <2>3, <2>4, <2>5, AgreeEquivalence DEF CleanupInv, RecordsAgree, ListSpares, Free
<1>2. CASE Free /\ Fenced
  BY <1>2 DEF CleanupInv, RecordsAgree, ListSpares, Free, Fenced
<1> QED
  BY <1>1, <1>2

\* A granted lease lists no selected key, and only an unfenced connection
\* grants one.
LEMMA GrantCleanup ==
    ASSUME SafetyInv, NEW c \in Clients, Grant(c)
    PROVE  CleanupInv' /\ ~Fenced'
<1> DEFINE action == request[c].action
           slot   == OpenedSlot(action)
<1>1. ~Fenced' /\ (Fenced => action = "reconnect")
  BY DEF Grant, Accepts, Fenced
<1>2. mem' = Opened(action) /\ Agree(mem', disk')
  <2>1. CASE action \in Opening
    BY <2>1, AgreeEquivalence DEF Grant, Committed
  <2>2. CASE action \notin Opening
    <3>1. ~Fenced /\ mem' = mem /\ disk' = disk
      BY <1>1, <2>2 DEF Grant, Opening
    <3>2. Opened(action) = mem
      BY <2>2, <3>1 DEF Opened, Opening, Basis
    <3> QED
      BY <3>1, <3>2 DEF SafetyInv, CleanupInv, RecordsAgree, Agree
  <2> QED
    BY <2>1, <2>2
<1>3. lease'.view.cleanup = CleanupSlots(Opened(action), slot, abandoned)
  BY DEF Grant, Answer
<1>4. lease'.view.cleanup \cap {mem'.slot, mem'.prevSlot} = {}
  BY <1>2, <1>3 DEF CleanupSlots, Protected
<1> QED
  BY <1>1, <1>2, <1>4 DEF CleanupInv, RecordsAgree, ListSpares

\* prepareMigration() changes no selected key, committed or not.
LEMMA PrepareCleanup ==
    ASSUME SafetyInv, NEW c \in Clients,
           PrepareMigration(c) \/ PrepareMigrationFails(c)
    PROVE  CleanupInv'
<1>1. Agree(Migrate(mem, Fresh), mem)
  <2>1. mem.mode \in {"legacy", "migration", "active"}
    BY DEF PrepareMigration, PrepareMigrationFails, MayMigrate, ValidBackup
  <2> QED
    BY <2>1, KeepsKeys, FreshType DEF SafetyInv, TypeInv, TypeOK, EngineTypeOK
<1>2. Committed(Migrate(mem, Fresh)) \/ CommitFailed(Migrate(mem, Fresh))
  BY DEF PrepareMigration, PrepareMigrationFails
<1>3. lease \in Lease
  BY HolderHasLease
  DEF SafetyInv, TypeInv, TypeOK, PrepareMigration, PrepareMigrationFails
<1>4. lease'.client = lease.client /\ lease'.view = lease.view /\ ~Free
  BY <1>3, ClientAssumption
  DEF PrepareMigration, PrepareMigrationFails, Lease, Free
<1>5. prior' = prior \/ prior' = IF Fenced THEN prior ELSE mem
  BY DEF PrepareMigration, PrepareMigrationFails, Fence
<1> QED
  BY <1>1, <1>2, <1>4, <1>5, KeepingCommit DEF SafetyInv

\* acknowledgeCleanup() changes no selected key, committed or not.
LEMMA AckCleanup ==
    ASSUME SafetyInv, NEW c \in Clients, NEW keys, AcknowledgeCleanup(c, keys)
    PROVE  CleanupInv'
<1>1. Agree(Acknowledge(mem, keys, lease.slot, abandoned), mem)
  BY KeepsKeys, 0 \in Nat DEF SafetyInv, TypeInv, TypeOK, EngineTypeOK
<1> QED
  BY <1>1, KeepingCommit DEF SafetyInv, AcknowledgeCleanup, leases

\* finish() gives the lease back, so that no list is left to spare anything.
LEMMA FinishCleanup ==
    ASSUME SafetyInv, NEW c \in Clients, NEW goal, NEW acct,
           Finish(c, goal, acct) \/ FinishFails(c, goal, acct)
    PROVE  CleanupInv' /\ Free'
<1>1. Free' /\ ~Free
  BY ClientAssumption
  DEF Finish, FinishFails, Finishing, Free, Holds, NoLease
<1>2. Agree(mem, disk)
  BY <1>1 DEF SafetyInv, CleanupInv, RecordsAgree
<1>3. CASE Finish(c, goal, acct)
  BY <1>1, <1>2, <1>3, AgreeEquivalence
  DEF Finish, Committed, CleanupInv, RecordsAgree, ListSpares
<1>4. CASE FinishFails(c, goal, acct)
  BY <1>1, <1>4, FenceFences
  DEF FinishFails, SafetyInv, TypeInv, CleanupInv, RecordsAgree, ListSpares
<1> QED
  BY <1>3, <1>4

\* Snapshot commits change neither the selected keys nor the fence.
LEMMA SnapshotCleanup ==
    ASSUME SafetyInv,
           \/ \E v, acct, at : WriteCurrentSnapshot(v, acct, at)
           \/ ClearCurrentSnapshot
    PROVE  CleanupInv' /\ UNCHANGED <<lease, prior>>
<1>1. \E new : Agree(new, mem) /\ CommitSnapshot(new)
  BY KeepsKeys, FreshType
  DEF WriteCurrentSnapshot, ClearCurrentSnapshot, SafetyInv, TypeInv, TypeOK,
      EngineTypeOK
<1> QED
  BY <1>1, KeepingCommit DEF CommitSnapshot, SafetyInv, leases

\* detach() ends the lease of the owner, or leaves another owner's lease and
\* record alone.
LEMMA DetachCleanup ==
    ASSUME SafetyInv, NEW o, Detach(o) \/ DetachFails(o)
    PROVE  /\ CleanupInv'
           /\ Free' \/ UNCHANGED <<lease, prior>>
<1>1. Free' \/ UNCHANGED leases
  BY DEF Detach, DetachFails, DetachLease, Free, NoLease
<1>2. Interrupts(o) => Free' /\ ~Free
  BY ClientAssumption
  DEF Detach, DetachFails, DetachLease, Interrupts, OwnedBy, Free, NoLease
<1>3. CASE Detach(o) /\ Interrupts(o)
  BY <1>2, <1>3, AgreeEquivalence DEF Detach, CleanupInv, RecordsAgree, ListSpares
<1>4. CASE Detach(o) /\ ~Interrupts(o)
  BY <1>1, <1>4
  DEF Detach, SafetyInv, CleanupInv, RecordsAgree, ListSpares, Agree, Free,
      Fenced, leases
<1>5. CASE DetachFails(o)
  BY <1>2, <1>5, FenceFences
  DEF DetachFails, SafetyInv, TypeInv, CleanupInv, RecordsAgree, ListSpares
<1>6. Free' \/ UNCHANGED <<lease, prior>>
  BY <1>1, <1>2 DEF Detach, DetachFails, leases
<1> QED
  BY <1>3, <1>4, <1>5, <1>6

\* A restart finds no lease and no fence.
LEMMA DeathCleanup ==
    ASSUME ProcessDeath
    PROVE  CleanupInv' /\ Free'
BY AgreeEquivalence
DEF ProcessDeath, CleanupInv, RecordsAgree, ListSpares, Free, Fenced, NoLease

-----------------------------------------------------------------------------
(* The holder of a fenced connection.                                       *)

\* A step of work on a fenced connection is one of the holder, on its way to
\* release.
LEMMA GivesUpAtWork ==
    ASSUME SafetyInv, Fenced, NEW c \in Clients, op[c].pc \in Busy
    PROVE  /\ Holds(c) /\ ~Free
           /\ op[c].goal = "release"
           /\ op[c].pc \in {"clean", "ack", "finish"}
BY BusyHolds, ClientAssumption DEF SafetyInv, HolderGivesUp, Holds, Free

\* A step that leaves the lease and the fence alone, and moves no operation of
\* a fenced connection's holder but towards its release.
LEMMA KeepsGivingUp ==
    ASSUME SafetyInv, UNCHANGED <<lease, prior>>,
           ~Free /\ Fenced => /\ op'[lease.client].goal = op[lease.client].goal
                              /\ op'[lease.client].pc \in {"clean", "ack", "finish"}
    PROVE  HolderGivesUp'
BY DEF SafetyInv, HolderGivesUp, Free, Fenced

\* A waiting or idle operation is not the holder of a fenced connection.
LEMMA OutsideKeeps ==
    ASSUME SafetyInv, UNCHANGED <<lease, prior>>, NEW c \in Clients,
           op[c].pc \notin Busy, Others(c)
    PROVE  HolderGivesUp'
<1> SUFFICES ASSUME ~Free, Fenced
             PROVE  /\ op'[lease.client].goal = op[lease.client].goal
                    /\ op'[lease.client].pc \in {"clean", "ack", "finish"}
  BY KeepsGivingUp
<1>1. op[lease.client].pc \in {"clean", "ack", "finish"}
  BY DEF SafetyInv, HolderGivesUp
<1>2. lease.client # c /\ lease.client \in Clients
  BY <1>1
  DEF SafetyInv, TypeInv, TypeOK, EngineTypeOK, Lease, NoLease, Free, Busy, Phases
<1> QED
  BY <1>1, <1>2 DEF Others

\* A new request keeps the invariant: it touches no record and no lease.
LEMMA AskingSafe ==
    ASSUME SafetyInv, NEW c \in Clients, Asking(c)
    PROVE  CleanupInv' /\ HolderGivesUp'
<1>1. \E action, v, b : Ask(c, action, v, b)
  BY DEF Asking, AskRead, AskReconnect, AskDelete, AskComplete, AskCancel,
         AskRefresh, AskDeleteIfCurrent
<1>2. UNCHANGED records /\ UNCHANGED lease /\ op[c].pc = "idle"
  BY <1>1 DEF Ask, Enqueue, Idle, At, leases
<1>3. op \in [Clients -> Operation]
  BY DEF SafetyInv, TypeInv, TypeOK
<1>4. Others(c)
  BY <1>3
  DEF Asking, AskRead, AskReconnect, AskDelete, AskComplete, AskCancel,
      AskRefresh, AskDeleteIfCurrent, Queued, QueuedWith, Others
<1> QED
  BY <1>2, <1>4, SameRecordsKeep, OutsideKeeps DEF SafetyInv, Busy, records

\* An answered or refused request keeps the invariant.
LEMMA AnsweringSafe ==
    ASSUME SafetyInv, NEW c \in Clients, Answering(c)
    PROVE  CleanupInv' /\ HolderGivesUp'
<1>1. CASE Granted(c)
  BY <1>1, GrantCleanup DEF Granted, HolderGivesUp
<1>2. CASE Refused(c)
  <2>1. UNCHANGED records /\ UNCHANGED lease /\ Free
    BY <1>2 DEF Refused, Refuse, Starting
  <2> QED
    BY <2>1, SameRecordsKeep DEF SafetyInv, HolderGivesUp, Free
<1>3. CASE RefusedByCommit(c)
  <2>1. Free /\ UNCHANGED lease /\ Fenced'
    BY <1>3, FenceFences
    DEF RefusedByCommit, GrantFails, Starting, SafetyInv, TypeInv
  <2> QED
    BY <2>1 DEF Free, HolderGivesUp, CleanupInv, RecordsAgree, ListSpares
<1> QED
  BY <1>1, <1>2, <1>3 DEF Answering

\* A step of the lease holder keeps the invariant.
LEMMA WorkingSafe ==
    ASSUME SafetyInv, NEW c \in Clients, Working(c)
    PROVE  CleanupInv' /\ HolderGivesUp'
<1>1. op[c].pc \in Busy
  BY DEF Working, Clean, Ack, Look, LookFails, Prepare, Write, WriteFails, Wipe,
         Finishes, FinishesByException, At, Busy, Phases
<1>2. op \in [Clients -> Operation] /\ Holds(c) /\ ~Free
  BY <1>1, BusyHolds, ClientAssumption DEF SafetyInv, TypeInv, TypeOK, Holds, Free
<1>3. CASE Clean(c)
  <2>1. Fenced => op'[c].goal = op[c].goal /\ op'[c].pc \in {"ack", "finish"}
    BY <1>1, <1>2, <1>3, GivesUpAtWork DEF Clean, Go, AfterCleanup, Operation
  <2>2. UNCHANGED records /\ UNCHANGED lease
    BY <1>3 DEF Clean, NoCall, leases
  <2> QED
    BY <1>2, <2>1, <2>2, SameRecordsKeep, KeepsGivingUp
    DEF SafetyInv, Holds, records
<1>4. CASE Ack(c)
  <2>1. Fenced => op'[c].goal = op[c].goal /\ op'[c].pc = "finish"
    BY <1>1, <1>2, <1>4, GivesUpAtWork DEF Ack, Go, AfterCleanup, Operation
  <2> QED
    BY <1>2, <1>4, <2>1, AckCleanup, KeepsGivingUp
    DEF Ack, AcknowledgeCleanup, leases, Holds
<1>5. CASE Look(c) \/ LookFails(c) \/ Write(c) \/ WriteFails(c) \/ Wipe(c)
  <2>1. ~Fenced
    BY <1>1, <1>5, GivesUpAtWork DEF Look, LookFails, Write, WriteFails, Wipe, At
  <2>2. UNCHANGED records /\ UNCHANGED lease
    BY <1>5 DEF Look, LookFails, Write, WriteFails, Wipe, NoCall, leases
  <2> QED
    BY <2>1, <2>2, SameRecordsKeep
    DEF SafetyInv, HolderGivesUp, Fenced, records
<1>6. CASE Prepare(c)
  <2>1. ~Fenced
    BY <1>1, <1>6, GivesUpAtWork DEF Prepare, At
  <2>2. CleanupInv'
    BY <1>6, PrepareCleanup DEF Prepare
  <2>3. CASE PrepareMigration(c)
    <3>1. ~Fenced'
      BY <2>1, <2>3 DEF PrepareMigration, Fenced
    <3> QED
      BY <2>2, <3>1 DEF HolderGivesUp
  <2>4. CASE PrepareMigrationFails(c) /\ Release(c)
    <3>1. lease' = [lease EXCEPT !.slot = Fresh] /\ lease \in Lease
      BY <1>1, <2>4, BusyHolds DEF PrepareMigrationFails, SafetyInv
    <3>2. lease'.client = c
      BY <1>2, <3>1 DEF Lease, Holds
    <3>3. op'[c].goal = "release" /\ op'[c].pc = "clean"
      BY <1>2, <2>4 DEF Release, Go, Operation
    <3> QED
      BY <2>2, <3>2, <3>3 DEF HolderGivesUp
  <2> QED
    BY <1>6, <2>2, <2>3, <2>4 DEF Prepare
<1>7. CASE Finishes(c) \/ FinishesByException(c)
  BY <1>7, FinishCleanup DEF Finishes, FinishesByException, HolderGivesUp
<1> QED
  BY <1>3, <1>4, <1>5, <1>6, <1>7 DEF Working

\* The fetch reservation is apart from the records and the lease.
LEMMA FetchingSafe ==
    ASSUME SafetyInv, NEW c \in Clients, Fetching(c)
    PROVE  CleanupInv' /\ HolderGivesUp'
<1>1. UNCHANGED records /\ UNCHANGED lease /\ op' = op
  BY DEF Fetching, StartFetch, EndFetch, AcquireFetch, ReleaseFetch, leases
<1> QED
  BY <1>1, SameRecordsKeep DEF SafetyInv, HolderGivesUp, Free, Fenced, records

\* A snapshot written after a fetch keeps the invariant.
LEMMA CachingSafe ==
    ASSUME SafetyInv, NEW c \in Clients, Caching(c)
    PROVE  CleanupInv' /\ HolderGivesUp'
<1>1. op \in [Clients -> Operation]
  BY DEF SafetyInv, TypeInv, TypeOK
<1>2. CASE Report(c)
  <2>1. UNCHANGED records /\ UNCHANGED lease /\ op[c].pc = "idle" /\ Others(c)
    BY <1>1, <1>2 DEF Report, NoCall, leases, Idle, At, Others
  <2> QED
    BY <2>1, SameRecordsKeep, OutsideKeeps DEF SafetyInv, Busy, records
<1>3. CASE StoreReport(c)
  <2>1. op[c].pc = "idle" /\ Others(c)
    BY <1>1, <1>3 DEF StoreReport, Idle, At, Others
  <2>2. CleanupInv' /\ UNCHANGED <<lease, prior>>
    BY <1>3, SnapshotCleanup DEF StoreReport
  <2> QED
    BY <2>1, <2>2, OutsideKeeps DEF Busy
<1> QED
  BY <1>2, <1>3 DEF Caching

\* The end of a Flutter engine keeps the invariant.
LEMMA TearDownSafe ==
    ASSUME SafetyInv, NEW o \in Owners, TearDown(o)
    PROVE  CleanupInv' /\ HolderGivesUp'
<1>1. CleanupInv' /\ (Free' \/ UNCHANGED <<lease, prior>>)
  BY DetachCleanup DEF TearDown
<1>2. CASE Free'
  BY <1>1, <1>2 DEF HolderGivesUp
<1>3. CASE ~Free'
  <2>1. UNCHANGED <<lease, prior>>
    BY <1>1, <1>3
  <2>2. lease.client \notin OwnedBy(o)
    BY <1>3 DEF TearDown, Detach, DetachFails, DetachLease, Free, NoLease
  <2>3. op'[lease.client] = op[lease.client]
    BY <1>3, <2>1, <2>2
    DEF TearDown, Reset, SafetyInv, TypeInv, TypeOK, EngineTypeOK, Lease, NoLease,
        Free
  <2> QED
    BY <1>1, <2>1, <2>3 DEF SafetyInv, HolderGivesUp, Free, Fenced
<1> QED
  BY <1>2, <1>3, <1>1

\* The invariant holds of a connection nothing was written for.
LEMMA InitSafe == Init => SafetyInv
<1> SUFFICES ASSUME Init PROVE CleanupInv /\ HolderGivesUp
  BY InitType DEF SafetyInv
<1> QED
  BY AgreeEquivalence
  DEF Init, EngineInit, CleanupInv, RecordsAgree, ListSpares, HolderGivesUp,
      Free, Fenced, NoLease

\* Every step keeps the invariant.
LEMMA NextSafe == SafetyInv /\ [Next]_vars => SafetyInv'
<1> SUFFICES ASSUME SafetyInv, [Next]_vars PROVE CleanupInv' /\ HolderGivesUp'
  BY NextType DEF SafetyInv
<1>1. ASSUME NEW c \in Clients, Asking(c) \/ Answering(c) \/ Working(c)
      PROVE  CleanupInv' /\ HolderGivesUp'
  BY <1>1, AskingSafe, AnsweringSafe, WorkingSafe
<1>2. ASSUME NEW c \in Clients, Fetching(c) \/ Caching(c)
      PROVE  CleanupInv' /\ HolderGivesUp'
  BY <1>2, FetchingSafe, CachingSafe
<1>3. ASSUME NEW o \in Owners, TearDown(o) PROVE CleanupInv' /\ HolderGivesUp'
  BY <1>3, TearDownSafe
<1>4. CASE ClearCache
  <2>1. CleanupInv' /\ UNCHANGED <<lease, prior>> /\ op' = op
    BY <1>4, SnapshotCleanup DEF ClearCache
  <2> QED
    BY <2>1 DEF SafetyInv, HolderGivesUp, Free, Fenced
<1>5. CASE Die
  BY <1>5, DeathCleanup DEF Die, HolderGivesUp
<1>6. CASE Land \/ UNCHANGED vars
  <2>1. UNCHANGED records /\ UNCHANGED lease /\ op' = op
    BY <1>6 DEF Land, NoCall, leases, vars, engineVars
  <2> QED
    BY <2>1, SameRecordsKeep DEF SafetyInv, HolderGivesUp, Free, Fenced, records
<1> QED
  BY <1>1, <1>2, <1>3, <1>4, <1>5, <1>6 DEF Next, Quiet

-----------------------------------------------------------------------------
\* The invariant holds in every behaviour.
LEMMA InvariantSafe == Spec => []SafetyInv
BY InitSafe, NextSafe, PTL DEF Spec

\* No key on the cleanup list of a lease is selected, or kept for a
\* cancellation, by the record in memory, the record on disk or the record
\* remembered by the fence: whatever deletions of the list fail, are repeated
\* or acknowledged, they cost no credential.
THEOREM CleanupSafe == Spec => []CleanupSparesLive
<1>1. SafetyInv => CleanupSparesLive
  <2> SUFFICES ASSUME SafetyInv, ~Free, NEW st \in Bases
               PROVE  lease.view.cleanup \cap {st.slot, st.prevSlot}
                        \subseteq {None}
    BY DEF CleanupSparesLive
  <2>1. Agree(st, mem)
    BY AgreeEquivalence DEF Bases, SafetyInv, CleanupInv, RecordsAgree, Fenced
  <2> QED
    BY <2>1, AgreeEquivalence DEF SafetyInv, CleanupInv, ListSpares
<1> QED
  BY <1>1, InvariantSafe, PTL

\* What a client holds changes to nothing but NothingHeld while the connection
\* is fenced: every credential an operation answers comes from a record whose
\* commit is known to have succeeded.
THEOREM FencedAnswers == Spec => FencedAnswersNothing
<1>1. SafetyInv /\ [Next]_vars
        => [\A c \in Clients : Fenced /\ op'[c].held # op[c].held
                               => op'[c].held = NothingHeld]_vars
  <2> SUFFICES ASSUME SafetyInv, Next, Fenced, NEW c \in Clients,
                      op'[c].held # op[c].held
               PROVE  op'[c].held = NothingHeld
    OBVIOUS
  <2>1. op \in [Clients -> Operation]
    BY DEF SafetyInv, TypeInv, TypeOK
  <2>2. ASSUME NEW d \in Clients, Asking(d) PROVE op'[c].held = NothingHeld
    <3>1. CASE AskRead(d)
      BY <2>1, <3>1 DEF AskRead, Operation
    <3>2. CASE Queued(d)
      BY <2>1, <3>2 DEF Queued, Operation
    <3>3. CASE \E a \in Accounts : QueuedWith(d, a)
      BY <2>1, <3>3 DEF QueuedWith, Operation
    <3> QED
      BY <2>2, <3>1, <3>2, <3>3
      DEF Asking, AskReconnect, AskDelete, AskComplete, AskCancel, AskRefresh,
          AskDeleteIfCurrent
  <2>3. ASSUME NEW d \in Clients, Answering(d) PROVE FALSE
    BY <2>1, <2>3
    DEF Answering, Granted, Refused, RefusedByCommit, Go, Operation
  <2>4. ASSUME NEW d \in Clients, Working(d) PROVE op'[c].held = NothingHeld
    <3>1. CASE Finishes(d) \/ FinishesByException(d)
      <4>1. op[d].goal = "release"
        BY <3>1, GivesUpAtWork DEF Finishes, FinishesByException, At, Busy, Phases
      <4> QED
        BY <2>1, <3>1, <4>1
        DEF Finishes, FinishesByException, Answered, Operation
    <3>2. CASE ~(Finishes(d) \/ FinishesByException(d))
      BY <2>1, <2>4, <3>2
      DEF Working, Clean, Ack, Look, LookFails, Prepare, Write, WriteFails, Wipe,
          Go, Release, Operation
    <3> QED
      BY <3>1, <3>2
  <2>5. ASSUME NEW d \in Clients, Fetching(d) \/ Caching(d) PROVE FALSE
    BY <2>1, <2>5
    DEF Fetching, StartFetch, EndFetch, Caching, Report, StoreReport, Operation
  <2>6. CASE \E o \in Owners : TearDown(o)
    <3>1. PICK o \in Owners :
             op' = [d \in Clients |-> IF d \in OwnedBy(o) THEN NoOperation
                                     ELSE op[d]]
      BY <2>6 DEF TearDown, Reset
    <3>2. op'[c] = NoOperation
      BY <3>1
    <3> QED
      BY <3>2 DEF NoOperation
  <2>7. CASE Die
    BY <2>7 DEF Die, Reset, NoOperation
  <2>8. CASE ClearCache \/ Land \/ Quiet
    BY <2>8 DEF ClearCache, Land, NoCall, Quiet, vars
  <2> QED
    BY <2>2, <2>3, <2>4, <2>5, <2>6, <2>7, <2>8 DEF Next
<1> QED
  BY <1>1, InvariantSafe, PTL DEF Spec, FencedAnswersNothing

-----------------------------------------------------------------------------
(* The records of the engine, and what one step makes of them.              *)

Records == {mem, disk} \cup (IF Fenced THEN {prior} ELSE {})

RecordInv ==
    /\ LegacyKey <= clock
    /\ \A st \in Records : Sound(st) /\ Within(st, clock)

\* Where a version of the record in memory may lead: the connection is fenced,
\* or in a new generation, or the record follows the one before.
Advances ==
    \/ Fenced'
    \/ mem'.gen = Fresh /\ mem'.pend \in {None, Fresh}
    \/ ~Fenced /\ Follows(mem', mem, Fresh)

\* What every step but the death of the process does to the records.
Proceeds ==
    /\ RecordInv'
    /\ clock' \in {clock, Fresh}
    /\ Advances
    /\ LegacyNeeded(Basis') => LegacyNeeded(Basis)

\* The records are records, and the clock a number.
LEMMA RecordsType ==
    ASSUME TypeOK
    PROVE  /\ mem \in State /\ disk \in State /\ clock \in Nat
           /\ Fenced => prior \in State
           /\ Basis \in State /\ Fresh \in Nat
           /\ Basis \in Records
BY BasisType, FreshType DEF TypeOK, EngineTypeOK, Fenced, Records, Basis

\* A step that may leave new, a record worked out from the basis, in memory or
\* on disk; while the connection stays fenced it is worked out from memory.
LEMMA CommitProceeds ==
    ASSUME TypeOK, RecordInv, clock' \in {clock, Fresh}, NEW new \in State,
           Sound(new), Within(new, clock'),
           Descends(new, Basis, Fresh) \/ (Fenced /\ prior' = prior),
           mem' \in {mem, new}, disk' \in {disk, new},
           \/ prior' = prior
           \/ Fence
           \/ /\ prior' = NoPrior /\ mem' = new
              /\ new.gen = Fresh /\ new.pend = Fresh
    PROVE  Proceeds
<1>1. /\ mem \in State /\ disk \in State /\ clock \in Nat /\ clock' \in Nat
      /\ clock <= clock' /\ Fresh = clock + 1
      /\ Fenced => prior \in State
  BY RecordsType DEF Fresh
<1>2. Fence => Fenced'
  BY FenceFences
<1>3. Records' \subseteq Records \cup {new}
  BY <1>2, FenceFences DEF Records, Fenced
<1>4. RecordInv'
  <2>1. LegacyKey <= clock'
    BY <1>1 DEF RecordInv, LegacyKey
  <2>2. ASSUME NEW st \in Records PROVE Sound(st) /\ Within(st, clock')
    <3>1. st \in State
      BY <1>1 DEF Records
    <3> QED
      BY <1>1, <3>1, WithinLater DEF RecordInv
  <2> QED
    BY <1>3, <2>1, <2>2 DEF RecordInv
<1>5. Advances
  <2>1. CASE prior' = prior /\ ~Fenced
    <3>1. Follows(mem, mem, Fresh)
      BY DEF Follows
    <3> QED
      BY <2>1, <3>1 DEF Advances, Descends, Basis
  <2>2. CASE prior' = prior /\ Fenced
    BY <2>2 DEF Advances, Fenced
  <2> QED
    BY <1>2, <2>1, <2>2 DEF Advances
<1>6. LegacyNeeded(Basis') => LegacyNeeded(Basis)
  <2>1. CASE prior' = prior
    BY <2>1 DEF Basis, Fenced, Descends
  <2>2. CASE Fence
    BY <2>2, FenceFences DEF Basis
  <2>3. CASE prior' = NoPrior /\ mem' = new /\ prior' # prior
    BY <2>3 DEF Basis, Fenced, Descends
  <2> QED
    BY <2>1, <2>2, <2>3
<1> QED
  BY <1>4, <1>5, <1>6 DEF Proceeds

\* A step that leaves the records as they are.
LEMMA StillProceeds ==
    ASSUME TypeOK, RecordInv, UNCHANGED <<records, clock>>
    PROVE  Proceeds
<1>1. Follows(mem, mem, Fresh)
  BY DEF Follows
<1> QED
  BY <1>1
  DEF Proceeds, RecordInv, Records, Fenced, Advances, Basis, Fresh, records

\* start() opens every action with a record that follows its basis.
LEMMA OpenedSound ==
    ASSUME TypeOK, RecordInv, NEW action \in Actions
    PROVE  LET new == Opened(action)
           IN  Descends(new, Basis, Fresh) /\ Within(new, Fresh)
<1>1. Basis \in State /\ Sound(Basis) /\ Within(Basis, clock) /\ clock \in Nat
      /\ LegacyKey <= clock /\ Fresh = clock + 1
  BY RecordsType DEF RecordInv, Fresh
<1>2. Within(Basis, Fresh) /\ Fresh \in Nat
  BY <1>1, WithinLater
<1>3. CASE action = "reconnect"
  BY <1>1, <1>3, ReconnectSound DEF Opened
<1>4. CASE action = "delete"
  BY <1>1, <1>4, DeleteSound DEF Opened
<1>5. CASE action = "refresh"
  BY <1>1, <1>2, <1>5, RetireSound DEF Opened
<1>6. CASE action \notin {"reconnect", "delete", "refresh"}
  BY <1>1, <1>2, <1>6 DEF Opened, Descends, Follows
<1> QED
  BY <1>3, <1>4, <1>5, <1>6

\* A granted request.
LEMMA GrantProceeds ==
    ASSUME TypeOK, RecordInv, NEW c \in Clients, request[c] \in Request, Grant(c)
    PROVE  Proceeds
<1> DEFINE action == request[c].action
<1>1. action \in Actions
  BY DEF Request
<1>2. Opened(action) \in State /\ Descends(Opened(action), Basis, Fresh)
      /\ Within(Opened(action), Fresh)
  BY <1>1, OpenedType, OpenedSound DEF TypeOK
<1>3. CASE action = "reconnect"
  <2>1. Opened(action).gen = Fresh /\ Opened(action).pend = Fresh
    BY <1>3, ReconnectFields, RecordsType DEF Opened
  <2>2. /\ mem' = Opened(action) /\ disk' = Opened(action)
        /\ prior' = NoPrior /\ clock' = Fresh
    BY <1>3 DEF Grant, Opening, Committed, DrawId
  <2> QED
    BY <1>2, <2>1, <2>2, CommitProceeds DEF Descends
<1>4. CASE action \in {"delete", "refresh"}
  BY <1>2, <1>4, CommitProceeds DEF Grant, Opening, Committed, DrawId, Descends
<1>5. CASE action \notin Opening
  BY <1>5, StillProceeds DEF Grant, Opening, records
<1> QED
  BY <1>3, <1>4, <1>5 DEF Opening

\* A start() whose commit fails.
LEMMA GrantFailsProceeds ==
    ASSUME TypeOK, RecordInv, NEW c \in Clients, request[c] \in Request,
           GrantFails(c)
    PROVE  Proceeds
<1>1. request[c].action \in Actions
  BY DEF Request
<1>2. /\ Opened(request[c].action) \in State
      /\ Descends(Opened(request[c].action), Basis, Fresh)
      /\ Within(Opened(request[c].action), Fresh)
  BY <1>1, OpenedType, OpenedSound DEF TypeOK
<1> QED
  BY <1>2, CommitProceeds DEF GrantFails, CommitFailed, DrawId, Descends

\* prepareMigration(), committed or not.
LEMMA PrepareProceeds ==
    ASSUME TypeOK, RecordInv, NEW c \in Clients,
           PrepareMigration(c) \/ PrepareMigrationFails(c)
    PROVE  Proceeds
<1> DEFINE new == Migrate(mem, Fresh)
<1>1. mem.mode \in {"legacy", "migration", "active"}
  BY DEF PrepareMigration, PrepareMigrationFails, MayMigrate, ValidBackup
<1>2. mem \in State /\ clock \in Nat /\ Fresh = clock + 1 /\ Fresh \in Nat
  BY RecordsType DEF Fresh
<1>3. new \in State
  BY <1>2, MigrateType
<1>4. Descends(new, mem, Fresh) /\ Within(new, Fresh)
  BY <1>1, <1>2, MigrateSound DEF RecordInv, Records
<1>5. Descends(new, Basis, Fresh) \/ Fenced
  BY <1>4 DEF Basis
<1>6. mem' \in {mem, new} /\ disk' \in {disk, new} /\ clock' = Fresh
  BY DEF PrepareMigration, PrepareMigrationFails, Committed, CommitFailed, DrawId
<1>7. (prior' = prior \/ Fence) /\ (Fenced => prior' = prior)
  BY DEF PrepareMigration, PrepareMigrationFails, Fence
<1> HIDE DEF new
<1> QED
  BY <1>3, <1>4, <1>5, <1>6, <1>7, CommitProceeds DEF Descends

\* acknowledgeCleanup(), committed or not.
LEMMA AckProceeds ==
    ASSUME TypeOK, RecordInv, NEW c \in Clients, NEW keys,
           AcknowledgeCleanup(c, keys)
    PROVE  Proceeds
<1> DEFINE new == Acknowledge(mem, keys, lease.slot, abandoned)
<1>1. mem \in State /\ clock \in Nat
  BY RecordsType
<1>2. new \in State
  BY <1>1, AcknowledgeType
<1>3. Descends(new, mem, Fresh) /\ Within(new, clock)
  BY <1>1, AcknowledgeSound DEF RecordInv, Records
<1>4. Descends(new, Basis, Fresh) \/ Fenced
  BY <1>3 DEF Basis
<1>5. mem' \in {mem, new} /\ disk' \in {disk, new}
      /\ prior' = prior /\ clock' = clock
  BY DEF AcknowledgeCleanup, Committed, CommitFailed
<1> HIDE DEF new
<1> QED
  BY <1>2, <1>3, <1>4, <1>5, CommitProceeds DEF Descends

\* A finish() whose record follows the one in memory.
LEMMA FinishProceeds ==
    ASSUME TypeOK, RecordInv, NEW c \in Clients, NEW goal, NEW acct \in Identities,
           Finish(c, goal, acct) \/ FinishFails(c, goal, acct),
           Descends(Finished(goal, acct), mem, Fresh),
           Within(Finished(goal, acct), Fresh)
    PROVE  Proceeds
<1> DEFINE new == Finished(goal, acct)
<1>1. new \in State
  BY FinishedType DEF Finish, FinishFails, Finishing, TypeOK
<1>2. mem' \in {mem, new} /\ disk' \in {disk, new} /\ clock' = Fresh
  BY DEF Finish, FinishFails, Finishing, Committed, CommitFailed, DrawId
<1>3. (prior' = prior \/ Fence) /\ (Fenced => prior' = prior)
  BY DEF Finish, FinishFails, Fence
<1>4. Descends(new, Basis, Fresh) \/ Fenced
  BY DEF Basis
<1> HIDE DEF new
<1> QED
  BY <1>1, <1>2, <1>3, <1>4, CommitProceeds DEF Descends, new

\* A snapshot written by a valid version, and a cleared one.
LEMMA SnapshotProceeds ==
    ASSUME TypeOK, RecordInv,
           \/ \E v : \E acct \in Identities, at \in Nat :
                 acct = v.ident /\ WriteCurrentSnapshot(v, acct, at)
           \/ ClearCurrentSnapshot
    PROVE  Proceeds
<1>1. mem \in State /\ clock \in Nat /\ Fresh = clock + 1 /\ Fresh \in Nat
      /\ Sound(mem) /\ Within(mem, clock)
  BY RecordsType DEF Fresh, RecordInv, Records
<1>2. PICK new \in State : /\ CommitSnapshot(new) /\ clock' \in {clock, Fresh}
                           /\ Descends(new, mem, Fresh) /\ Within(new, clock')
  <2>1. CASE ClearCurrentSnapshot
    <3>1. ClearSnapshot(mem, Fresh) \in State
      BY <1>1, SnapshotType, NoAccount \in Identities DEF Identities
    <3> QED
      BY <1>1, <2>1, <3>1, SnapshotSound DEF ClearCurrentSnapshot, DrawId
  <2>2. CASE ~ClearCurrentSnapshot
    <3>0. PICK v : \E acct \in Identities, at \in Nat :
             acct = v.ident /\ WriteCurrentSnapshot(v, acct, at)
      BY <2>2
    <3>1. PICK acct \in Identities, at \in Nat :
             acct = v.ident /\ WriteCurrentSnapshot(v, acct, at)
      BY <3>0
    <3>2. mem.mode = "active" /\ acct = mem.ident
      BY <3>1 DEF WriteCurrentSnapshot, Valid, SameEpoch
    <3>3. WriteSnapshot(mem, acct, at) \in State
      BY <1>1, SnapshotType
    <3> QED
      BY <1>1, <3>1, <3>2, <3>3, SnapshotSound DEF WriteCurrentSnapshot
  <2> QED
    BY <2>1, <2>2
<1>3. mem' \in {mem, new} /\ disk' \in {disk, new} /\ prior' = prior
  BY <1>2 DEF CommitSnapshot, Committed, CommitFailed
<1>4. Descends(new, Basis, Fresh) \/ Fenced
  BY <1>2 DEF Basis
<1> QED
  BY <1>2, <1>3, <1>4, CommitProceeds DEF Descends

\* detach(), with or without an operation to interrupt.
LEMMA DetachProceeds ==
    ASSUME TypeOK, RecordInv, NEW o, Detach(o) \/ DetachFails(o)
    PROVE  Proceeds
<1> DEFINE new == Abandon(mem, Fresh)
<1>1. mem \in State /\ clock \in Nat /\ Fresh = clock + 1 /\ Fresh \in Nat
  BY RecordsType DEF Fresh
<1>2. new \in State /\ Descends(new, mem, Fresh) /\ Within(new, Fresh)
  BY <1>1, AbandonType, AbandonSound
<1>3. Descends(new, Basis, Fresh) \/ Fenced
  BY <1>2 DEF Basis
<1>4. CASE Detach(o) /\ ~Interrupts(o)
  BY <1>4, StillProceeds DEF Detach, records
<1>5. CASE DetachFails(o) \/ (Detach(o) /\ Interrupts(o))
  <2>1. mem' \in {mem, new} /\ disk' \in {disk, new} /\ clock' = Fresh
    BY <1>5 DEF Detach, DetachFails, DrawId
  <2>2. (prior' = prior \/ Fence) /\ (Fenced => prior' = prior)
    BY <1>5 DEF Detach, DetachFails, Fence
  <2> HIDE DEF new
  <2> QED
    BY <1>2, <1>3, <2>1, <2>2, CommitProceeds DEF Descends
<1> QED
  BY <1>4, <1>5

-----------------------------------------------------------------------------
(* The lease and the operation of its holder.                               *)

\* What a grant established stays true of the record while the lease is held.
LeaseFits ==
    ~Free =>
        /\ lease.slot <= clock /\ lease.slot # LegacyKey
        /\ lease.slot # None => lease.slot \notin {mem.slot, mem.prevSlot}
        /\ lease.action \in {"complete", "cancel"} =>
              /\ mem.mode = "pending"
              /\ lease.slot = mem.pend /\ mem.pend # None
        /\ lease.action = "delete" => mem.mode = "deleted"
        /\ lease.action = "refresh" => mem.mode = "active"
        /\ lease.action = "read" => SameMode(lease.view.mode, mem.mode)
        /\ lease.fetch => fetch = lease.client

\* What the holder heads for is what its action allows.
WorkFits ==
    ~Free =>
        LET o == op[lease.client]
        IN  /\ o.pc \in Busy
            /\ o.pc \in {"clean", "ack"} => o.goal \in {"look", "release"}
            /\ o.pc = "look" => o.goal = "look"
            /\ o.pc = "prepare" => o.goal = "activate" /\ lease.action = "read"
            /\ o.pc = "write" => o.goal = "activate"
            /\ o.pc = "wipe" => lease.action = "delete"
            /\ o.goal = "look" => lease.action = "read"
            /\ o.goal = "cancel" => lease.action = "cancel"
            /\ o.goal \in {"missing", "confirm"} =>
                  lease.action = "read" /\ Selectable
            /\ o.goal = "activate" =>
                  \/ lease.action \in {"complete", "refresh"}
                  \/ lease.action = "read" /\ Selectable
            /\ o.goal = "activate" /\ o.pc \in {"write", "finish"} =>
                  lease.slot # None /\ o.value \in Accounts

\* A request carries what its client knows, and the client still knows it.
RequestFits(c) ==
    queue[c] # {} =>
        /\ request[c].action \in {"complete", "cancel"} =>
              request[c].expected = op[c].ticket /\ op[c].ticket # NoVersion
        /\ request[c].fetch =>
              /\ request[c].stamped /\ request[c].action \in {"refresh", "delete"}
              /\ request[c].expected = op[c].held.version
              /\ op[c].held # NothingHeld

\* A credential a client holds: as long as its generation lasts, the connection
\* is active for its account, and its revision is that of one secret.
HeldFits(c) ==
    LET v == op[c].held.version
    IN  op[c].held # NothingHeld =>
            /\ v.gen <= clock /\ v.rev <= clock /\ v.ep <= clock
            /\ op[c].held.acct = v.ident
            /\ ~Fenced /\ mem.gen = v.gen =>
                  /\ mem.mode = "active" /\ mem.ident = v.ident
                  /\ mem.rev = v.rev => mem.slot = op[c].held.token

\* A reconnect ticket: as long as its sign-in is pending, it has its slot.
TicketFits(c) ==
    op[c].ticket # NoVersion =>
        /\ op[c].ticket.gen <= clock
        /\ ~Fenced /\ mem.mode = "pending" /\ mem.gen = op[c].ticket.gen =>
              mem.pend # None

KnowledgeFits == \A c \in Clients : RequestFits(c) /\ HeldFits(c) /\ TicketFits(c)

LifecycleInv ==
    SafetyInv /\ RecordInv /\ LeaseFits /\ WorkFits /\ KnowledgeFits

\* The parts of the invariant that say what kind of things there are.
LEMMA LifecycleType ==
    ASSUME LifecycleInv
    PROVE  /\ TypeInv /\ TypeOK /\ EngineTypeOK /\ RecordInv
           /\ op \in [Clients -> Operation]
           /\ mem \in State /\ disk \in State /\ clock \in Nat
           /\ Fresh = clock + 1 /\ Fresh \in Nat
           /\ Sound(mem) /\ Within(mem, clock) /\ LegacyKey <= clock
           /\ ~Free => lease \in Lease /\ lease.client \in Clients /\ Agree(mem, disk)
BY RecordsType
DEF LifecycleInv, SafetyInv, CleanupInv, RecordsAgree, TypeInv, TypeOK,
    EngineTypeOK, RecordInv, Records, Fresh, Lease, NoLease, Free

\* finish() leaves a record that follows the one it found: it purges no
\* sign-in, and activates only a secret of the account in a slot of its own.
LEMMA FinishedSound ==
    ASSUME LifecycleInv, NEW c \in Clients, Holds(c), At(c, "finish")
    PROVE  LET new == Finished(op[c].goal, op[c].value)
           IN  Descends(new, mem, Fresh) /\ Within(new, Fresh)
<1> DEFINE new == Finished(op[c].goal, op[c].value)
<1>1. /\ mem \in State /\ clock \in Nat /\ Sound(mem) /\ Within(mem, clock)
      /\ LegacyKey <= clock /\ Fresh = clock + 1 /\ Fresh \in Nat
      /\ ~Free /\ lease \in Lease /\ lease.client = c
  BY LifecycleType, ClientAssumption DEF Free, Holds
<1>2. Descends(mem, mem, Fresh) /\ Within(mem, Fresh)
  BY <1>1, WithinLater DEF Descends, Follows
<1>3. lease.action = "read" /\ Selectable => mem.mode # "pending"
  BY <1>1 DEF LifecycleInv, LeaseFits, Selectable, SameMode
<1>4. CASE /\ new = Purge(mem, Fresh)
           /\ \/ op[c].goal \in {"missing", "confirm"}
              \/ lease.action = "refresh" \/ mem.mode = "active"
  <2>1. mem.mode # "pending"
    BY <1>1, <1>3, <1>4 DEF LifecycleInv, LeaseFits, WorkFits
  <2> QED
    BY <1>1, <1>4, <2>1, PurgeSound
<1>5. CASE new = Cancel(mem) /\ op[c].goal = "cancel"
  <2>1. mem.mode = "pending"
    BY <1>1, <1>5 DEF LifecycleInv, LeaseFits, WorkFits
  <2>2. Descends(new, mem, Fresh) /\ Within(new, clock)
    BY <1>1, <1>5, <2>1, CancelSound
  <2>3. new \in State
    BY <1>1, <1>5, CancelType
  <2> QED
    BY <1>1, <2>2, <2>3, WithinLater
<1>6. CASE /\ new = Activate(mem, lease.action, lease.slot, op[c].value, Fresh)
           /\ op[c].goal = "activate"
           /\ mem.mode = "active" => op[c].value = mem.ident
  <2>1. /\ lease.slot # None /\ lease.slot # LegacyKey /\ lease.slot <= clock
        /\ lease.slot \in Nat /\ op[c].value \in Accounts
    BY <1>1, <1>6 DEF LifecycleInv, LeaseFits, WorkFits, At, Lease
  <2> QED
    BY <1>1, <1>6, <2>1, ActivateSound
<1>7. \/ new = mem
      \/ /\ new = Purge(mem, Fresh)
         /\ \/ op[c].goal \in {"missing", "confirm"}
            \/ lease.action = "refresh" \/ mem.mode = "active"
      \/ new = Cancel(mem) /\ op[c].goal = "cancel"
      \/ /\ new = Activate(mem, lease.action, lease.slot, op[c].value, Fresh)
         /\ op[c].goal = "activate"
         /\ mem.mode = "active" => op[c].value = mem.ident
  BY DEF Finished
<1>8. CASE new = mem
  BY <1>2, <1>8
<1> QED
  BY <1>4, <1>5, <1>6, <1>7, <1>8

\* A lease, and the operation it was granted to, outlast a step that leaves
\* both alone and the credentials of the record too.
LEMMA FitsKept ==
    ASSUME LifecycleInv, clock' \in {clock, Fresh},
           Free' \/ /\ ~Free /\ lease' = lease /\ Agree(mem', mem)
                    /\ op'[lease.client] = op[lease.client]
                    /\ lease.fetch => fetch' = fetch
    PROVE  LeaseFits' /\ WorkFits'
<1>1. CASE Free'
  BY <1>1 DEF LeaseFits, WorkFits
<1>2. CASE /\ ~Free /\ lease' = lease /\ Agree(mem', mem)
           /\ op'[lease.client] = op[lease.client]
           /\ lease.fetch => fetch' = fetch
  <2>1. lease \in Lease /\ clock \in Nat /\ clock <= clock'
    BY <1>2, LifecycleType
  <2>2. LeaseFits'
    BY <1>2, <2>1 DEF LifecycleInv, LeaseFits, Agree, SameMode, Free, Lease, View
  <2>3. WorkFits'
    BY <1>2 DEF LifecycleInv, WorkFits, Free, Selectable
  <2> QED
    BY <2>2, <2>3
<1> QED
  BY <1>1, <1>2

\* So they do when a client that is not at work moves.
LEMMA OutsideFits ==
    ASSUME LifecycleInv, clock' \in {clock, Fresh},
           NEW c \in Clients, op[c].pc \notin Busy, Others(c),
           lease' = lease, Agree(mem', mem),
           ~Free /\ lease.fetch => fetch' = fetch
    PROVE  LeaseFits' /\ WorkFits'
<1>1. ~Free => lease.client \in Clients /\ lease.client # c
  BY LifecycleType DEF LifecycleInv, WorkFits
<1> QED
  BY <1>1, FitsKept DEF Others, Free

\* A new request.
LEMMA AskingFits ==
    ASSUME LifecycleInv, NEW c \in Clients, Asking(c)
    PROVE  LeaseFits' /\ WorkFits' /\ Proceeds
<1>1. \E action, v, b : Ask(c, action, v, b)
  BY DEF Asking, AskRead, AskReconnect, AskDelete, AskComplete, AskCancel,
         AskRefresh, AskDeleteIfCurrent
<1>2. /\ UNCHANGED <<records, clock>> /\ lease' = lease /\ fetch' = fetch
      /\ op[c].pc = "idle" /\ mem' = mem
  BY <1>1 DEF Ask, Enqueue, Idle, At, leases, fetches, records
<1>3. Others(c)
  BY LifecycleType
  DEF Asking, AskRead, AskReconnect, AskDelete, AskComplete, AskCancel,
      AskRefresh, AskDeleteIfCurrent, Queued, QueuedWith, Others
<1>4. Proceeds
  BY <1>2, LifecycleType, StillProceeds
<1> QED
  BY <1>2, <1>3, <1>4, AgreeEquivalence, OutsideFits DEF Busy

\* A granted request: what the engine checked is what the lease stands for.
LEMMA GrantedFits ==
    ASSUME LifecycleInv, NEW c \in Clients, Granted(c)
    PROVE  LeaseFits' /\ WorkFits' /\ Proceeds
<1> DEFINE action == request[c].action
           new    == Opened(action)
<1>1. Grant(c) /\ Starting(c) /\ queue[c] # {}
  BY DEF Granted, Grant, Starting, IsHead
<1>2. /\ request[c] \in Request /\ action \in Actions
      /\ action \in {"complete", "refresh"} => op[c].value \in Accounts
  BY <1>1, LifecycleType DEF TypeInv, Links, Linked, Request
<1>3. /\ Basis \in State /\ Sound(Basis) /\ Within(Basis, clock)
      /\ clock \in Nat /\ Fresh = clock + 1 /\ LegacyKey <= clock
      /\ Descends(new, Basis, Fresh) /\ Within(new, Fresh)
  BY <1>2, LifecycleType, RecordsType, OpenedSound DEF RecordInv
<1>4. action # "reconnect" => Basis = mem /\ ~Fenced
  BY <1>1 DEF Grant, Accepts, Basis
<1>5. /\ mem' = new
      /\ clock' = IF action \in Opening THEN Fresh ELSE clock
      /\ action \notin Opening => new = Basis
  BY <1>1, <1>4 DEF Grant, Committed, DrawId, Opening, Opened
<1>6. /\ lease'.slot = OpenedSlot(action) /\ lease'.action = action
      /\ lease'.client = c /\ lease'.fetch = request[c].fetch
      /\ lease'.view.mode = new.mode
  BY <1>1 DEF Grant, Answer
<1>7. Proceeds
  BY <1>1, <1>2, LifecycleType, GrantProceeds
<1>8. /\ action \in {"complete", "cancel"} =>
           new.mode = "pending" /\ new.pend # None /\ OpenedSlot(action) = new.pend
      /\ action = "delete" => new.mode = "deleted"
      /\ action = "refresh" => new.mode = "active" /\ new.slot <= clock
                               /\ new.prevSlot <= clock
      /\ action = "reconnect" => new.slot = None /\ new.prevSlot <= clock
  <2>1. CASE action \in {"complete", "cancel"}
    <3>1. /\ SamePending(mem, op[c].ticket) /\ op[c].ticket # NoVersion /\ ~Fenced
      BY <1>1, <1>4, <2>1
      DEF Grant, Accepts, LifecycleInv, KnowledgeFits, RequestFits
    <3>2. mem.mode = "pending" /\ mem.pend # None
      BY <3>1 DEF SamePending, LifecycleInv, KnowledgeFits, TicketFits
    <3> QED
      BY <1>4, <1>5, <2>1, <3>2 DEF OpenedSlot, Opening
  <2>2. CASE action = "delete"
    BY <1>3, <2>2, DeleteFields DEF Opened
  <2>3. CASE action = "refresh"
    <3>1. Basis.mode = "active"
      BY <1>1, <2>3 DEF Grant, Accepts
    <3>2. new = Retire(Basis, {Fresh})
      BY <2>3 DEF Opened
    <3> HIDE DEF new
    <3> QED
      BY <1>3, <2>3, <3>1, <3>2 DEF Retire, Within, State
  <2>4. CASE action = "reconnect"
    <3>1. new.prevSlot = SavePrevious(Basis).prevSlot /\ new.slot = None
      BY <1>3, <2>4, ReconnectFields DEF Opened
    <3>2. SavePrevious(Basis).prevSlot \in {None, Basis.slot, Basis.prevSlot}
      BY <1>3, SavedFields DEF State, Modes
    <3> HIDE DEF new
    <3> QED
      BY <1>3, <2>4, <3>1, <3>2 DEF Within, State, None, LegacyKey
  <2>5. CASE action = "read"
    BY <2>5
  <2> QED
    BY <1>2, <2>1, <2>2, <2>3, <2>4, <2>5 DEF Actions
<1>9. LeaseFits'
  <2> HIDE DEF new
  <2>1. request[c].fetch => fetch' = c
    BY <1>1 DEF Grant, Accepts, Starting, fetches
  <2>2. Sound(new) /\ new \in State
    BY <1>2, <1>3, OpenedType, LifecycleType DEF Descends, new
  <2>3. CASE action \in {"complete", "cancel"}
    BY <1>3, <1>4, <1>5, <1>6, <1>8, <2>1, <2>2, <2>3
    DEF LeaseFits, Opening, Sound, Within, OpenedSlot
  <2>4. CASE action = "refresh"
    BY <1>3, <1>5, <1>6, <1>8, <2>1, <2>2, <2>4
    DEF LeaseFits, Opening, OpenedSlot, LegacyKey, State
  <2>5. CASE action = "reconnect"
    BY <1>3, <1>5, <1>6, <1>8, <2>1, <2>2, <2>5
    DEF LeaseFits, Opening, OpenedSlot, LegacyKey, None, State
  <2>6. CASE action \in {"read", "delete"}
    BY <1>3, <1>5, <1>6, <1>8, <2>1, <2>6
    DEF LeaseFits, Opening, OpenedSlot, LegacyKey, None, SameMode
  <2> QED
    BY <1>2, <2>3, <2>4, <2>5, <2>6 DEF Actions
<1>10. WorkFits'
  <2>1. op \in [Clients -> Operation]
    BY LifecycleType
  <2>2. lease'.slot # None \/ action \in {"read", "cancel", "delete"}
    <3>1. CASE action = "complete"
      BY <1>6, <1>8, <3>1
    <3>2. CASE action \in {"reconnect", "refresh"}
      BY <1>3, <1>6, <3>2 DEF OpenedSlot, None
    <3> QED
      BY <1>2, <3>1, <3>2 DEF Actions
  <2>3. op'[c] = CASE action = "read" ->
                        [op[c] EXCEPT !.pc = "clean", !.goal = "look"]
                   [] action = "reconnect" ->
                        [op[c] EXCEPT !.pc = "clean", !.goal = "release",
                                      !.ticket = lease'.view.version]
                   [] action = "cancel" ->
                        [op[c] EXCEPT !.pc = "finish", !.goal = "cancel"]
                   [] action = "delete" ->
                        [op[c] EXCEPT !.pc = "wipe", !.goal = "release"]
                   [] OTHER ->
                        [op[c] EXCEPT !.pc = "write", !.goal = "activate"]
    BY <1>2, <2>1 DEF Granted, Go, Actions
  <2> HIDE DEF action
  <2>4. op[c] \in Operation
    BY <2>1
  <2>5. CASE action = "read"
    BY <1>6, <2>3, <2>4, <2>5 DEF WorkFits, Operation, Busy, Phases
  <2>6. CASE action = "reconnect"
    BY <1>6, <2>3, <2>4, <2>6 DEF WorkFits, Operation, Busy, Phases
  <2>7. CASE action = "cancel"
    BY <1>6, <2>3, <2>4, <2>7 DEF WorkFits, Operation, Busy, Phases
  <2>8. CASE action = "delete"
    BY <1>6, <2>3, <2>4, <2>8 DEF WorkFits, Operation, Busy, Phases
  <2>9. CASE action \in {"complete", "refresh"}
    BY <1>2, <1>6, <2>2, <2>3, <2>4, <2>9 DEF WorkFits, Operation, Busy, Phases
  <2> QED
    BY <1>2, <2>5, <2>6, <2>7, <2>8, <2>9 DEF Actions
<1> QED
  BY <1>7, <1>9, <1>10

\* A refused request.
LEMMA RefusedFits ==
    ASSUME LifecycleInv, NEW c \in Clients, Refused(c) \/ RefusedByCommit(c)
    PROVE  LeaseFits' /\ WorkFits' /\ Proceeds
<1>1. Starting(c) /\ queue[c] # {} /\ Free /\ lease' = lease
  BY DEF Refused, RefusedByCommit, Refuse, GrantFails, Starting, IsHead
<1>2. request[c] \in Request
  BY <1>1, LifecycleType DEF TypeInv, Links, Linked
<1>3. Proceeds
  <2>1. CASE Refused(c)
    BY <2>1, LifecycleType, StillProceeds DEF Refused, Refuse
  <2>2. CASE RefusedByCommit(c)
    BY <1>2, <2>2, LifecycleType, GrantFailsProceeds DEF RefusedByCommit
  <2> QED
    BY <2>1, <2>2
<1> QED
  BY <1>1, <1>3 DEF LeaseFits, WorkFits, Free

\* A step of the holder that leaves the records and the lease alone and goes on
\* as its action allows.
LEMMA GoingFits ==
    ASSUME LifecycleInv, NEW c \in Clients, op[c].pc \in Busy,
           UNCHANGED <<records, clock>>, lease' = lease, fetch' = fetch,
           WorkFits'
    PROVE  LeaseFits' /\ WorkFits' /\ Proceeds
<1>1. Proceeds /\ mem' = mem
  BY LifecycleType, StillProceeds DEF records
<1> QED
  BY <1>1 DEF LifecycleInv, LeaseFits, Free

\* _cleanup(), and the steps of read(), write and delete in secure storage.
LEMMA StorageFits ==
    ASSUME LifecycleInv, NEW c \in Clients,
           Clean(c) \/ Look(c) \/ LookFails(c) \/ Write(c) \/ WriteFails(c)
           \/ Wipe(c)
    PROVE  LeaseFits' /\ WorkFits' /\ Proceeds
<1>1. /\ op[c].pc \in {"clean", "look", "write", "wipe"}
      /\ UNCHANGED <<records, clock>> /\ lease' = lease /\ fetch' = fetch
  BY DEF Clean, Look, LookFails, Write, WriteFails, Wipe, At, NoCall, records,
         leases, fetches
<1>2. op[c].pc \in Busy
  BY <1>1 DEF Busy, Phases
<1>3. Holds(c) /\ lease.client = c /\ op \in [Clients -> Operation] /\ ~Free
  BY <1>2, LifecycleType, BusyHolds, ClientAssumption DEF Holds, Free
<1>4. op[c] \in Operation
  BY <1>3
<1>5. WorkFits'
  <2> USE <1>1, <1>3, <1>4
  <2>1. CASE Clean(c)
    <3>1. /\ op'[c].goal = op[c].goal /\ op'[c].value = op[c].value
          /\ op'[c].pc \in {"ack", AfterCleanup(c)}
      <4>1. PICK pc \in {"ack", AfterCleanup(c)} : Go(c, pc, op[c].goal)
        BY <2>1 DEF Clean
      <4> QED
        BY <4>1 DEF Go, Operation
    <3>2. op[c].goal \in {"look", "release"}
      BY <2>1 DEF Clean, At, LifecycleInv, WorkFits
    <3>3. op'[c].pc \in {"ack", "look", "finish"}
          /\ (op'[c].pc = "ack" \/ op'[c].pc = AfterCleanup(c))
      BY <3>1 DEF AfterCleanup
    <3> QED
      BY <3>1, <3>2, <3>3
      DEF LifecycleInv, WorkFits, AfterCleanup, Busy, Phases
  <2>2. CASE Look(c)
    <3>1. CASE Selectable
      <4>1. op'[c] = [op[c] EXCEPT !.pc = AfterLook[1], !.goal = AfterLook[2],
                                   !.value = Found]
        BY <2>2, <3>1 DEF Look
      <4>2. <<AfterLook[1], AfterLook[2]>> \in
               {<<"finish", "missing">>, <<"prepare", "activate">>,
                <<"finish", "confirm">>}
        BY DEF AfterLook
      <4>3. lease.action = "read"
        BY <2>2 DEF Look, At, LifecycleInv, WorkFits
      <4> QED
        BY <3>1, <4>1, <4>2, <4>3
        DEF WorkFits, Operation, Busy, Phases, Selectable
    <3>2. CASE ~Selectable
      BY <2>2, <3>2 DEF Look, Release, Go, WorkFits, Operation, Busy, Phases
    <3> QED
      BY <3>1, <3>2
  <2>3. CASE LookFails(c) \/ WriteFails(c) \/ Wipe(c)
    BY <2>3
    DEF LookFails, WriteFails, Wipe, Release, Go, WorkFits, Operation, Busy, Phases
  <2>4. CASE Write(c)
    BY <2>4
    DEF Write, Go, At, LifecycleInv, WorkFits, Operation, Busy, Phases, Selectable
  <2> QED
    BY <2>1, <2>2, <2>3, <2>4
<1> QED
  BY <1>1, <1>2, <1>5, GoingFits

\* The acknowledgement of a cleanup.
LEMMA AckFits ==
    ASSUME LifecycleInv, NEW c \in Clients, Ack(c)
    PROVE  LeaseFits' /\ WorkFits' /\ Proceeds
<1>1. /\ Holds(c) /\ ~Free /\ AcknowledgeCleanup(c, cleaned)
      /\ op[c].pc = "ack" /\ op[c] \in Operation
      /\ op \in [Clients -> Operation]
  BY LifecycleType, ClientAssumption
  DEF Ack, AcknowledgeCleanup, Holds, Free, At
<1>2. Proceeds
  BY <1>1, LifecycleType, AckProceeds
<1>3. Agree(mem', mem)
  BY <1>1, LifecycleType, KeepsKeys, AgreeEquivalence, 0 \in Nat
  DEF AcknowledgeCleanup, Committed, CommitFailed
<1>4. LeaseFits'
  BY <1>1, <1>3
  DEF AcknowledgeCleanup, leases, fetches, LifecycleInv, LeaseFits, Free, Agree,
      SameMode
<1>5. WorkFits'
  <2>1. /\ op'[c].goal = op[c].goal /\ op'[c].value = op[c].value
        /\ op'[c].pc = AfterCleanup(c) /\ lease' = lease
    BY <1>1 DEF Ack, Go, Operation, AcknowledgeCleanup, leases
  <2> QED
    BY <1>1, <2>1
    DEF LifecycleInv, WorkFits, AfterCleanup, Busy, Phases, Holds, Selectable
<1> QED
  BY <1>2, <1>4, <1>5

\* prepareMigration() moves the lease to a slot of its own.
LEMMA PrepareFits ==
    ASSUME LifecycleInv, NEW c \in Clients, Prepare(c)
    PROVE  LeaseFits' /\ WorkFits' /\ Proceeds
<1>1. /\ Holds(c) /\ ~Free /\ op[c].pc = "prepare" /\ op[c] \in Operation
      /\ PrepareMigration(c) \/ PrepareMigrationFails(c)
      /\ op \in [Clients -> Operation] /\ lease \in Lease /\ mem \in State
      /\ clock \in Nat /\ Fresh = clock + 1 /\ Fresh \in Nat
      /\ Within(mem, clock) /\ LegacyKey <= clock
  BY LifecycleType, ClientAssumption
  DEF Prepare, PrepareMigration, PrepareMigrationFails, Holds, Free, At
<1>2. Proceeds
  BY <1>1, LifecycleType, PrepareProceeds
<1>3. Agree(mem', mem)
  <2>1. mem.mode \in {"legacy", "migration", "active"}
    BY <1>1 DEF PrepareMigration, PrepareMigrationFails, MayMigrate, ValidBackup
  <2> QED
    BY <1>1, <2>1, KeepsKeys, AgreeEquivalence
    DEF PrepareMigration, PrepareMigrationFails, Committed, CommitFailed
<1>4. /\ lease'.client = c /\ lease'.action = "read" /\ lease'.slot = Fresh
      /\ lease'.view = lease.view /\ lease'.fetch = lease.fetch
      /\ clock' = Fresh /\ fetch' = fetch /\ lease.action = "read"
  BY <1>1
  DEF PrepareMigration, PrepareMigrationFails, MayMigrate, Lease, DrawId, Holds,
      fetches
<1>5. LeaseFits'
  BY <1>1, <1>3, <1>4
  DEF LifecycleInv, LeaseFits, Agree, SameMode, Within, State, LegacyKey, Holds
<1>6. WorkFits'
  <2>1. op[c].value \in Accounts /\ lease'.slot # None
    BY <1>1, <1>4, LifecycleType DEF TypeInv, Links, Linked, None
  <2>2. CASE PrepareMigration(c) /\ Go(c, "write", "activate")
    <3>1. Selectable'
      BY <1>1, <1>4 DEF LifecycleInv, WorkFits, Holds, Selectable
    <3> QED
      BY <1>1, <1>4, <2>1, <2>2, <3>1 DEF Go, WorkFits, Operation, Busy, Phases
  <2>3. CASE PrepareMigrationFails(c) /\ Release(c)
    BY <1>1, <1>4, <2>3 DEF Release, Go, WorkFits, Operation, Busy, Phases
  <2> QED
    BY <2>2, <2>3 DEF Prepare
<1> QED
  BY <1>2, <1>5, <1>6

\* finish() gives the lease back.
LEMMA FinishesFits ==
    ASSUME LifecycleInv, NEW c \in Clients, Finishes(c) \/ FinishesByException(c)
    PROVE  LeaseFits' /\ WorkFits' /\ Proceeds
<1>1. /\ Holds(c) /\ At(c, "finish")
      /\ \/ Finish(c, op[c].goal, op[c].value)
         \/ FinishFails(c, op[c].goal, op[c].value)
  BY DEF Finishes, FinishesByException, Finish, FinishFails, Finishing
<1>2. op[c].value \in Identities
  BY LifecycleType DEF Operation, Identities, Absent
<1>3. Proceeds
  BY <1>1, <1>2, LifecycleType, FinishedSound, FinishProceeds
<1>4. Free'
  BY <1>1, FinishCleanup DEF LifecycleInv
<1> QED
  BY <1>3, <1>4 DEF LeaseFits, WorkFits

\* The fetch reservation of a client at work stays where it is.
LEMMA FetchingFits ==
    ASSUME LifecycleInv, NEW c \in Clients, Fetching(c)
    PROVE  LeaseFits' /\ WorkFits' /\ Proceeds
<1>1. /\ UNCHANGED <<records, clock>> /\ lease' = lease /\ op' = op
      /\ op[c].pc = "idle" /\ mem' = mem
  BY DEF Fetching, StartFetch, EndFetch, AcquireFetch, ReleaseFetch, Idle, At,
         leases, records
<1>2. fetch \in {c, Nobody} \/ fetch' = fetch
  BY DEF Fetching, StartFetch, EndFetch, AcquireFetch, ReleaseFetch
<1>3. ~Free => lease.client # c /\ lease.client \in Clients
  BY <1>1, LifecycleType DEF LifecycleInv, WorkFits, Busy
<1>4. ~Free /\ lease.fetch => fetch' = fetch
  BY <1>2, <1>3, ClientAssumption DEF LifecycleInv, LeaseFits
<1>5. Proceeds
  BY <1>1, LifecycleType, StillProceeds
<1> QED
  BY <1>1, <1>3, <1>4, <1>5, AgreeEquivalence, OutsideFits DEF Busy, Others

\* A snapshot is written for the account of the version it was fetched with.
LEMMA CachingFits ==
    ASSUME LifecycleInv, NEW c \in Clients, Caching(c)
    PROVE  LeaseFits' /\ WorkFits' /\ Proceeds
<1>1. /\ lease' = lease /\ fetch' = fetch /\ op[c].pc = "idle" /\ Others(c)
      /\ Agree(mem', mem)
  <2>1. CASE Report(c)
    BY <2>1, LifecycleType, AgreeEquivalence
    DEF Report, NoCall, Idle, At, Others, leases, fetches, records
  <2>2. CASE StoreReport(c)
    BY <2>2, LifecycleType, KeepsKeys, AgreeEquivalence, 0 \in Nat
    DEF StoreReport, WriteCurrentSnapshot, CommitSnapshot, Committed,
        CommitFailed, Idle, At, Others, leases, fetches
  <2> QED
    BY <2>1, <2>2 DEF Caching
<1>2. Proceeds
  <2>1. CASE Report(c)
    BY <2>1, LifecycleType, StillProceeds DEF Report, NoCall
  <2>2. CASE StoreReport(c)
    <3>1. /\ op[c] \in Operation /\ op[c].held.acct \in Identities
          /\ op[c].report \in Nat
      BY LifecycleType DEF Operation, Held, Identities, Absent
    <3>2. op[c].held.acct = op[c].held.version.ident
      BY DEF LifecycleInv, KnowledgeFits, HeldFits, NothingHeld, NoVersion, Absent
    <3>3. WriteCurrentSnapshot(op[c].held.version, op[c].held.acct, op[c].report)
      BY <2>2 DEF StoreReport
    <3> QED
      BY <3>1, <3>2, <3>3, LifecycleType, SnapshotProceeds
  <2> QED
    BY <2>1, <2>2 DEF Caching
<1>3. clock' \in {clock, Fresh}
  BY <1>2 DEF Proceeds
<1> QED
  BY <1>1, <1>2, <1>3, OutsideFits DEF Busy

\* A cleared cache.
LEMMA ClearFits ==
    ASSUME LifecycleInv, ClearCache
    PROVE  LeaseFits' /\ WorkFits' /\ Proceeds
<1>1. /\ lease' = lease /\ fetch' = fetch /\ op' = op
      /\ Agree(mem', mem)
  BY LifecycleType, KeepsKeys, AgreeEquivalence
  DEF ClearCache, ClearCurrentSnapshot, CommitSnapshot, Committed, CommitFailed,
      leases, fetches
<1>2. Proceeds
  BY LifecycleType, SnapshotProceeds DEF ClearCache
<1>3. clock' \in {clock, Fresh}
  BY <1>2 DEF Proceeds
<1> QED
  BY <1>1, <1>2, <1>3, FitsKept DEF Free

\* The end of a Flutter engine: its lease is gone, and another's is untouched.
LEMMA TearDownFits ==
    ASSUME LifecycleInv, NEW o \in Owners, TearDown(o)
    PROVE  LeaseFits' /\ WorkFits' /\ Proceeds
<1>1. Proceeds
  BY LifecycleType, DetachProceeds DEF TearDown
<1>2. Free' \/ (lease.client \notin OwnedBy(o) /\ lease' = lease)
  BY DEF TearDown, Detach, DetachFails, DetachLease, Free, NoLease, leases
<1>3. CASE ~Free'
  <2>1. lease.client \notin OwnedBy(o) /\ lease' = lease /\ ~Free
    BY <1>2, <1>3 DEF Free
  <2>2. mem' = mem
    BY <2>1 DEF TearDown, Detach, DetachFails, Interrupts
  <2>3. op'[lease.client] = op[lease.client] /\ lease.client \in Clients
    BY <2>1, LifecycleType DEF TearDown, Reset
  <2>4. lease.fetch => fetch' = fetch
    BY <2>1 DEF TearDown, Detach, DetachFails, DetachWaiting, LifecycleInv, LeaseFits
  <2>5. clock' \in {clock, Fresh}
    BY <1>1 DEF Proceeds
  <2> QED
    BY <1>1, <2>1, <2>2, <2>3, <2>4, <2>5, AgreeEquivalence, FitsKept
<1> QED
  BY <1>1, <1>3 DEF LeaseFits, WorkFits

\* Every step but the death of the process.
LEMMA StepFits ==
    ASSUME LifecycleInv, [Next]_vars, ~Die
    PROVE  LeaseFits' /\ WorkFits' /\ Proceeds
<1>1. ASSUME NEW c \in Clients, Asking(c) \/ Answering(c)
      PROVE  LeaseFits' /\ WorkFits' /\ Proceeds
  BY <1>1, AskingFits, GrantedFits, RefusedFits DEF Answering
<1>2. ASSUME NEW c \in Clients, Working(c)
      PROVE  LeaseFits' /\ WorkFits' /\ Proceeds
  BY <1>2, StorageFits, AckFits, PrepareFits, FinishesFits DEF Working
<1>3. ASSUME NEW c \in Clients, Fetching(c) \/ Caching(c)
      PROVE  LeaseFits' /\ WorkFits' /\ Proceeds
  BY <1>3, FetchingFits, CachingFits
<1>4. CASE Land \/ UNCHANGED vars
  <2>1. UNCHANGED <<records, clock>> /\ lease' = lease /\ op' = op
        /\ fetch' = fetch /\ mem' = mem
    BY <1>4 DEF Land, NoCall, leases, fetches, records, vars, engineVars
  <2>2. Proceeds
    BY <2>1, LifecycleType, StillProceeds
  <2> QED
    BY <2>1, <2>2, AgreeEquivalence, FitsKept DEF Free
<1> QED
  BY <1>1, <1>2, <1>3, <1>4, TearDownFits, ClearFits DEF Next, Quiet

\* A lease changes only by a grant, by prepareMigration(), or by its end.
LEMMA LeaseMoves ==
    ASSUME LifecycleInv, [Next]_vars
    PROVE  \/ lease' = lease \/ lease' = NoLease
           \/ \E c \in Clients : Granted(c) \/ Prepare(c)
<1>1. ASSUME NEW c \in Clients, Asking(c) \/ Fetching(c) \/ Caching(c)
      PROVE  lease' = lease
  BY <1>1
  DEF Asking, AskRead, AskReconnect, AskDelete, AskComplete, AskCancel,
      AskRefresh, AskDeleteIfCurrent, Ask, Enqueue, Fetching, StartFetch,
      EndFetch, AcquireFetch, ReleaseFetch, Caching, Report, StoreReport,
      NoCall, WriteCurrentSnapshot, CommitSnapshot, leases
<1>2. ASSUME NEW c \in Clients, Answering(c) PROVE lease' = lease \/ Granted(c)
  BY <1>2 DEF Answering, Refused, Refuse, RefusedByCommit, GrantFails
<1>3. ASSUME NEW c \in Clients, Working(c)
      PROVE  lease' \in {lease, NoLease} \/ Prepare(c)
  BY <1>3
  DEF Working, Clean, Ack, Look, LookFails, Write, WriteFails, Wipe, NoCall,
      AcknowledgeCleanup, Finishes, FinishesByException, Finish, FinishFails,
      Finishing, leases
<1>4. ASSUME NEW o \in Owners, TearDown(o) PROVE lease' \in {lease, NoLease}
  BY <1>4 DEF TearDown, Detach, DetachFails, DetachLease, leases
<1>5. ClearCache \/ Land \/ Die \/ UNCHANGED vars => lease' \in {lease, NoLease}
  BY DEF ClearCache, ClearCurrentSnapshot, CommitSnapshot, Land, NoCall, Die,
         ProcessDeath, vars, engineVars, leases
<1> QED
  BY <1>1, <1>2, <1>3, <1>4, <1>5 DEF Next, Quiet

-----------------------------------------------------------------------------
(* What the clients know.                                                   *)

\* A credential a client keeps stays true to its generation.
LEMMA HeldLater ==
    ASSUME LifecycleInv, Proceeds, NEW c \in Clients, op'[c].held = op[c].held
    PROVE  HeldFits(c)'
<1> SUFFICES ASSUME op[c].held # NothingHeld PROVE HeldFits(c)'
  BY DEF HeldFits
<1> DEFINE v == op[c].held.version
<1>1. /\ v.gen <= clock /\ v.rev <= clock /\ v.ep <= clock
      /\ op[c].held.acct = v.ident
      /\ clock \in Nat /\ Fresh = clock + 1 /\ clock' \in {clock, Fresh}
      /\ v.gen \in Nat /\ v.rev \in Nat /\ v.ep \in Nat
  BY LifecycleType
  DEF LifecycleInv, KnowledgeFits, HeldFits, Proceeds, Operation, Held, Version
<1>2. ASSUME ~Fenced', mem'.gen = v.gen
      PROVE  /\ mem'.mode = "active" /\ mem'.ident = v.ident
             /\ mem'.rev = v.rev => mem'.slot = op[c].held.token
  <2>1. ~Fenced /\ Follows(mem', mem, Fresh) /\ mem'.gen # Fresh
    BY <1>1, <1>2 DEF Proceeds, Advances
  <2>2. mem.gen = v.gen
    BY <1>2, <2>1 DEF Follows
  <2>3. /\ mem.mode = "active" /\ mem.ident = v.ident
        /\ mem.rev = v.rev => mem.slot = op[c].held.token
    BY <2>1, <2>2 DEF LifecycleInv, KnowledgeFits, HeldFits
  <2> QED
    BY <1>1, <2>1, <2>3 DEF Follows
<1> QED
  BY <1>1, <1>2 DEF HeldFits

\* So does a reconnect ticket.
LEMMA TicketLater ==
    ASSUME LifecycleInv, Proceeds, NEW c \in Clients, op'[c].ticket = op[c].ticket
    PROVE  TicketFits(c)'
<1> SUFFICES ASSUME op[c].ticket # NoVersion PROVE TicketFits(c)'
  BY DEF TicketFits
<1>1. /\ op[c].ticket.gen <= clock /\ op[c].ticket.gen \in Nat
      /\ clock \in Nat /\ Fresh = clock + 1 /\ clock' \in {clock, Fresh}
  BY LifecycleType
  DEF LifecycleInv, KnowledgeFits, TicketFits, Proceeds, Operation, Version
<1>2. ASSUME ~Fenced', mem'.mode = "pending", mem'.gen = op[c].ticket.gen
      PROVE  mem'.pend # None
  <2>1. ~Fenced /\ Follows(mem', mem, Fresh) /\ mem'.gen # Fresh
    BY <1>1, <1>2 DEF Proceeds, Advances
  <2> QED
    BY <1>2, <2>1 DEF Follows, LifecycleInv, KnowledgeFits, TicketFits
<1> QED
  BY <1>1, <1>2 DEF TicketFits

\* What _finish() answers is the record it left active, under the account
\* whose secret the operation carried.
LEMMA AnsweredFits ==
    ASSUME LifecycleInv, NEW c \in Clients, Finishes(c), Proceeds
    PROVE  HeldFits(c)'
<1>1. /\ op \in [Clients -> Operation] /\ Holds(c) /\ At(c, "finish")
      /\ lease.client = c /\ ~Free /\ clock' = Fresh /\ clock \in Nat
      /\ Fresh = clock + 1
  BY LifecycleType, ClientAssumption
  DEF Finishes, Finish, Finishing, Holds, Free, DrawId
<1>2. op'[c].held \in {op[c].held, NothingHeld} \/ op'[c].held = Answered(c)
  BY <1>1 DEF Finishes, Operation
<1>3. CASE op'[c].held = NothingHeld
  BY <1>3 DEF HeldFits
<1>4. CASE op'[c].held = Answered(c) /\ op'[c].held # NothingHeld
  <2> DEFINE new == Finished(op[c].goal, op[c].value)
  <2>1. /\ op[c].goal \in {"activate", "confirm"} /\ mem'.mode = "active"
        /\ op'[c].held = [version |-> VersionOf(mem'), acct |-> op[c].value,
                          token |-> mem'.slot]
    BY <1>4 DEF Answered
  <2>2. mem' = new
    BY DEF Finishes, Finish, Committed
  <2>3. Within(new, Fresh)
    BY <1>1, FinishedSound
  <2>4. ~(lease.fetch /\ fetch # lease.client)
    BY <1>1 DEF LifecycleInv, LeaseFits
  <2>5. mem'.ident = op[c].value
    <3>1. new # Purge(mem, Fresh)
      BY <2>1, <2>2, LifecycleType, PurgeFields
    <3>2. CASE op[c].goal = "activate"
      <4>1. new = Activate(mem, lease.action, lease.slot, op[c].value, Fresh)
        BY <2>4, <3>1, <3>2 DEF Finished
      <4> QED
        BY <2>2, <4>1, LifecycleType, ActivateFields
    <3>3. CASE op[c].goal = "confirm"
      BY <2>2, <2>4, <3>1, <3>3 DEF Finished
    <3> QED
      BY <2>1, <3>2, <3>3
  <2> HIDE DEF new
  <2> QED
    BY <1>1, <2>1, <2>2, <2>3, <2>5 DEF HeldFits, VersionOf, Within
<1> QED
  BY <1>2, <1>3, <1>4, HeldLater

\* The ticket of a sign-in is the version of the record that pends for it.
LEMMA GrantedTicketFits ==
    ASSUME LifecycleInv, NEW c \in Clients, Granted(c),
           request[c].action = "reconnect"
    PROVE  TicketFits(c)'
<1>1. /\ Basis \in State /\ Fresh \in Nat /\ Fresh = clock + 1 /\ clock \in Nat
      /\ op \in [Clients -> Operation]
  BY LifecycleType, RecordsType
<1>2. /\ mem' = Reconnect(Basis, Fresh) /\ clock' = Fresh
      /\ lease'.view.version = VersionOf(mem')
  BY DEF Granted, Grant, Opening, Opened, Committed, DrawId, Answer
<1>3. mem'.pend = Fresh /\ mem'.gen = Fresh
  BY <1>1, <1>2, ReconnectFields
<1>4. op'[c].ticket = VersionOf(mem')
  BY <1>1, <1>2 DEF Granted, Operation
<1> QED
  BY <1>1, <1>2, <1>3, <1>4 DEF TicketFits, VersionOf, None

\* What a step makes of what a client knows.
LEMMA KnowledgeMoves ==
    ASSUME LifecycleInv, [Next]_vars, NEW c \in Clients
    PROVE  /\ op'[c].held \in {op[c].held, NothingHeld} \/ Finishes(c)
           /\ \/ op'[c].ticket \in {op[c].ticket, NoVersion}
              \/ Granted(c) /\ request[c].action = "reconnect"
<1>1. op \in [Clients -> Operation]
  BY LifecycleType
<1>2. ASSUME NEW d \in Clients, Asking(d)
      PROVE  op'[c].held \in {op[c].held, NothingHeld} /\ op'[c].ticket = op[c].ticket
  <2>1. CASE AskRead(d)
    BY <1>1, <2>1 DEF AskRead, Operation
  <2>2. CASE Queued(d)
    BY <1>1, <2>2 DEF Queued, Operation
  <2>3. CASE \E a \in Accounts : QueuedWith(d, a)
    BY <1>1, <2>3 DEF QueuedWith, Operation
  <2> QED
    BY <1>2, <2>1, <2>2, <2>3
    DEF Asking, AskReconnect, AskDelete, AskComplete, AskCancel, AskRefresh,
        AskDeleteIfCurrent
<1>3. ASSUME NEW d \in Clients, Answering(d)
      PROVE  /\ op'[c].held = op[c].held
             /\ \/ op'[c].ticket \in {op[c].ticket, NoVersion}
                \/ Granted(c) /\ request[c].action = "reconnect"
  <2>1. CASE Granted(d)
    BY <1>1, <2>1 DEF Granted, Go, Operation
  <2>2. CASE Refused(d) \/ RefusedByCommit(d)
    BY <1>1, <2>2 DEF Refused, RefusedByCommit, Operation
  <2> QED
    BY <1>3, <2>1, <2>2 DEF Answering
<1>4. ASSUME NEW d \in Clients, Working(d)
      PROVE  /\ op'[c].held \in {op[c].held, NothingHeld} \/ Finishes(c)
             /\ op'[c].ticket \in {op[c].ticket, NoVersion}
  <2>1. CASE Finishes(d) \/ FinishesByException(d)
    BY <1>1, <2>1 DEF Finishes, FinishesByException, Operation
  <2>2. CASE Clean(d) \/ Ack(d)
    <3>1. \E pc : Go(d, pc, op[d].goal)
      BY <2>2 DEF Clean, Ack
    <3> QED
      BY <1>1, <3>1 DEF Go, Operation
  <2>3. CASE Look(d) \/ LookFails(d) \/ Prepare(d) \/ Write(d) \/ WriteFails(d)
             \/ Wipe(d)
    BY <1>1, <2>3
    DEF Look, LookFails, Prepare, Write, WriteFails, Wipe, Release, Go, Operation
  <2> QED
    BY <1>4, <2>1, <2>2, <2>3 DEF Working
<1>5. ASSUME NEW d \in Clients, Fetching(d) \/ Caching(d)
      PROVE  op'[c].held = op[c].held /\ op'[c].ticket = op[c].ticket
  BY <1>1, <1>5
  DEF Fetching, StartFetch, EndFetch, Caching, Report, StoreReport, Operation
<1>6. ASSUME NEW o \in Owners, TearDown(o)
      PROVE  /\ op'[c].held \in {op[c].held, NothingHeld}
             /\ op'[c].ticket \in {op[c].ticket, NoVersion}
  BY <1>1, <1>6 DEF TearDown, Reset, NoOperation
<1>7. CASE Die
  BY <1>7 DEF Die, Reset, NoOperation
<1>8. CASE ClearCache \/ Land \/ UNCHANGED vars
  BY <1>8 DEF ClearCache, Land, NoCall, vars
<1> QED
  BY <1>2, <1>3, <1>4, <1>5, <1>6, <1>7, <1>8 DEF Next, Quiet

\* A client's request says what the client knew, and it learns nothing until
\* it is answered.
LEMMA RequestKept ==
    ASSUME LifecycleInv, [Next]_vars, NEW c \in Clients
    PROVE  RequestFits(c)'
<1>1. /\ op \in [Clients -> Operation] /\ queue \in Queue
      /\ request \in [Clients -> Request \cup {NoRequest}]
  BY LifecycleType DEF EngineTypeOK
<1>2. queue[c] # {} => op[c].pc = "queued"
  BY LifecycleType DEF TypeInv, Links, Linked
<1>3. ASSUME /\ queue'[c] # {} => queue[c] # {} /\ request'[c] = request[c]
             /\ queue'[c] # {} => op'[c].held = op[c].held /\ op'[c].ticket = op[c].ticket
      PROVE  RequestFits(c)'
  BY <1>3 DEF LifecycleInv, KnowledgeFits, RequestFits
<1>4. ASSUME NEW d \in Clients, Asking(d) PROVE RequestFits(c)'
  <2>1. PICK action, v, b : Ask(d, action, v, b)
    BY <1>4
    DEF Asking, AskRead, AskReconnect, AskDelete, AskComplete, AskCancel,
        AskRefresh, AskDeleteIfCurrent
  <2>2. CASE d # c
    <3>1. op'[c] = op[c]
      BY <1>1, <1>4, <2>2
      DEF Asking, AskRead, AskReconnect, AskDelete, AskComplete, AskCancel,
          AskRefresh, AskDeleteIfCurrent, Queued, QueuedWith
    <3>2. queue'[c] = queue[c] /\ request'[c] = request[c]
      BY <1>1, <2>1, <2>2 DEF Ask, Enqueue, Arrive, Queue
    <3> QED
      BY <1>3, <3>1, <3>2
  <2>3. CASE d = c
    <3>1. ASSUME NEW action1, NEW v1, NEW b1, Ask(c, action1, v1, b1),
                 ~b1 \/ action1 \notin {"refresh", "delete"}
          PROVE  request'[c].fetch = FALSE /\ request'[c].action = action1
                 /\ request'[c].expected = v1
      <4>1. (InFetch(c) /\ b1 /\ action1 \in {"refresh", "delete"}) = FALSE
        BY <3>1
      <4>2. request' = [request EXCEPT ![c] =
                          [action |-> action1, expected |-> v1, stamped |-> b1,
                           fetch |-> FALSE]]
        BY <3>1, <4>1 DEF Ask, Enqueue
      <4> QED
        BY <1>1, <4>2
    <3>2. CASE AskRead(c) \/ AskReconnect(c) \/ AskDelete(c)
      <4>1. \E action1 \in {"read", "reconnect", "delete"} :
               Ask(c, action1, NoVersion, FALSE)
        BY <3>2 DEF AskRead, AskReconnect, AskDelete
      <4>2. request'[c].fetch = FALSE
            /\ request'[c].action \in {"read", "reconnect", "delete"}
        BY <3>1, <4>1
      <4> QED
        BY <4>2 DEF RequestFits
    <3>3. CASE AskComplete(c) \/ AskCancel(c)
      <4>1. op'[c].ticket = op[c].ticket
        BY <1>1, <3>3 DEF AskComplete, AskCancel, Queued, QueuedWith, Operation
      <4> QED
        BY <3>1, <3>3, <4>1 DEF AskComplete, AskCancel, RequestFits
    <3>4. CASE AskRefresh(c) \/ AskDeleteIfCurrent(c)
      <4>1. op'[c].held = op[c].held
        BY <1>1, <3>4 DEF AskRefresh, AskDeleteIfCurrent, Queued, QueuedWith, Operation
      <4> QED
        BY <1>1, <3>4, <4>1
        DEF AskRefresh, AskDeleteIfCurrent, Ask, Enqueue, InFetch, RequestFits
    <3> QED
      BY <1>4, <2>3, <3>2, <3>3, <3>4 DEF Asking
  <2> QED
    BY <2>2, <2>3
<1>5. ASSUME NEW d \in Clients, Answering(d) PROVE RequestFits(c)'
  <2>1. Starting(d)
    BY <1>5 DEF Answering, Granted, Refused, RefusedByCommit, Grant, Refuse, GrantFails
  <2>2. queue'[c] # {} => c # d /\ queue[c] # {} /\ request'[c] = request[c]
    BY <1>1, <2>1 DEF Starting, Without, Queue
  <2>3. c # d => op'[c] = op[c]
    BY <1>1, <1>5 DEF Answering, Granted, Refused, RefusedByCommit, Go
  <2> QED
    BY <1>3, <2>2, <2>3
<1>6. ASSUME NEW d \in Clients, Working(d) PROVE RequestFits(c)'
  <2>1. UNCHANGED waiting /\ op[d].pc \in Busy
    BY <1>6
    DEF Working, Clean, Ack, Look, LookFails, Prepare, Write, WriteFails, Wipe,
        Finishes, FinishesByException, At, Busy, Phases, NoCall,
        AcknowledgeCleanup, PrepareMigration, PrepareMigrationFails, Finish,
        FinishFails, Finishing
  <2>2. queue[c] # {} => c # d
    BY <1>2, <2>1 DEF Busy
  <2>3. c # d => op'[c] = op[c]
    <3>1. CASE Clean(d) \/ Ack(d)
      <4>1. \E pc : Go(d, pc, op[d].goal)
        BY <3>1 DEF Clean, Ack
      <4> QED
        BY <1>1, <4>1 DEF Go
    <3> QED
      BY <1>1, <1>6, <3>1
      DEF Working, Look, LookFails, Prepare, Write, WriteFails, Wipe, Finishes,
          FinishesByException, Release, Go
  <2> QED
    BY <1>3, <2>1, <2>2, <2>3 DEF waiting
<1>7. ASSUME NEW d \in Clients, Fetching(d) \/ Caching(d) PROVE RequestFits(c)'
  <2>1. UNCHANGED waiting
    BY <1>7
    DEF Fetching, StartFetch, EndFetch, AcquireFetch, ReleaseFetch, Caching,
        Report, StoreReport, NoCall, WriteCurrentSnapshot, CommitSnapshot
  <2>2. op'[c].held = op[c].held /\ op'[c].ticket = op[c].ticket
    BY <1>1, <1>7
    DEF Fetching, StartFetch, EndFetch, Caching, Report, StoreReport, Operation
  <2> QED
    BY <1>3, <2>1, <2>2 DEF waiting
<1>8. ASSUME NEW o \in Owners, TearDown(o) PROVE RequestFits(c)'
  <2>1. queue'[c] # {} => c \notin OwnedBy(o) /\ queue[c] # {}
                          /\ request'[c] = request[c]
    BY <1>1, <1>8 DEF TearDown, Detach, DetachFails, DetachWaiting, Without, Queue
  <2>2. c \notin OwnedBy(o) => op'[c] = op[c]
    BY <1>8 DEF TearDown, Reset
  <2> QED
    BY <1>3, <2>1, <2>2
<1>9. CASE Die
  BY <1>9 DEF Die, ProcessDeath, EmptyQueue, RequestFits
<1>10. CASE ClearCache \/ Land \/ UNCHANGED vars
  BY <1>3, <1>10
  DEF ClearCache, ClearCurrentSnapshot, CommitSnapshot, Land, NoCall, vars,
      engineVars, waiting
<1> QED
  BY <1>4, <1>5, <1>6, <1>7, <1>8, <1>9, <1>10 DEF Next, Quiet

-----------------------------------------------------------------------------
(* The invariant, and the theorems about versions.                          *)

\* A restart finds the record on disk, no lease, and clients that know nothing.
LEMMA DeathFits ==
    ASSUME LifecycleInv, Die
    PROVE  RecordInv' /\ LeaseFits' /\ WorkFits' /\ KnowledgeFits'
<1>1. Free' /\ ~Fenced' /\ mem' = disk /\ disk' = disk /\ clock' = clock
  BY DEF Die, ProcessDeath, Free, Fenced, NoLease
<1>2. RecordInv'
  BY <1>1 DEF LifecycleInv, RecordInv, Records
<1>3. KnowledgeFits'
  <2>1. op' = [c \in Clients |-> NoOperation]
    BY DEF Die, Reset
  <2>2. \A c \in Clients : RequestFits(c)'
    BY RequestKept DEF Next
  <2> QED
    BY <2>1, <2>2 DEF KnowledgeFits, HeldFits, TicketFits, NoOperation
<1> QED
  BY <1>1, <1>2, <1>3 DEF LeaseFits, WorkFits

\* The invariant holds of a connection nothing was written for.
LEMMA InitLifecycle == Init => LifecycleInv
<1> SUFFICES ASSUME Init
             PROVE  RecordInv /\ LeaseFits /\ WorkFits /\ KnowledgeFits
  BY InitSafe DEF LifecycleInv
<1>1. Free /\ ~Fenced /\ mem = LegacyState /\ disk = LegacyState
      /\ clock = LegacyKey
  BY DEF Init, EngineInit, Free, Fenced, NoLease
<1>2. RecordInv
  BY <1>1, LegacyStateSound DEF RecordInv, Records, LegacyKey
<1>3. KnowledgeFits
  BY DEF Init, EngineInit, EmptyQueue, KnowledgeFits, RequestFits, HeldFits,
         TicketFits, NoOperation
<1> QED
  BY <1>1, <1>2, <1>3 DEF LeaseFits, WorkFits

\* Every step keeps the invariant.
LEMMA NextLifecycle == LifecycleInv /\ [Next]_vars => LifecycleInv'
<1> SUFFICES ASSUME LifecycleInv, [Next]_vars
             PROVE  RecordInv' /\ LeaseFits' /\ WorkFits' /\ KnowledgeFits'
  BY NextSafe DEF LifecycleInv
<1>1. CASE Die
  BY <1>1, DeathFits
<1>2. CASE ~Die
  <2>1. LeaseFits' /\ WorkFits' /\ Proceeds
    BY <1>2, StepFits
  <2>2. ASSUME NEW c \in Clients
        PROVE  RequestFits(c)' /\ HeldFits(c)' /\ TicketFits(c)'
    <3>1. HeldFits(c)'
      <4>1. CASE op'[c].held = NothingHeld
        BY <4>1 DEF HeldFits
      <4> QED
        BY <2>1, <4>1, KnowledgeMoves, HeldLater, AnsweredFits
    <3>2. TicketFits(c)'
      <4>1. CASE op'[c].ticket = NoVersion
        BY <4>1 DEF TicketFits
      <4> QED
        BY <2>1, <4>1, KnowledgeMoves, TicketLater, GrantedTicketFits
    <3> QED
      BY <3>1, <3>2, RequestKept
  <2> QED
    BY <2>1, <2>2 DEF Proceeds, KnowledgeFits
<1> QED
  BY <1>1, <1>2

\* It holds in every behaviour.
LEMMA InvariantLifecycle == Spec => []LifecycleInv
BY InitLifecycle, NextLifecycle, PTL DEF Spec

\* A version that stopped being valid, because its generation ended, its cache
\* was cleared or its connection fenced, never becomes valid again while a
\* client keeps it: generations and epochs are drawn from the clock once, and
\* finish("cancel") restores a credential in the generation of its sign-in.
THEOREM VersionsDie == Spec => NoRevival
<1>1. LifecycleInv /\ [Next]_vars
        => [\A c \in Clients :
              /\ op[c].held # NothingHeld /\ op'[c].held = op[c].held
              /\ ~Valid(op[c].held.version)
              => ~Valid(op[c].held.version)']_vars
  <2> SUFFICES ASSUME LifecycleInv, Next, NEW c \in Clients,
                      op[c].held # NothingHeld, op'[c].held = op[c].held,
                      Valid(op[c].held.version)'
               PROVE  Valid(op[c].held.version)
    OBVIOUS
  <2> DEFINE v == op[c].held.version
  <2>1. /\ v.gen <= clock /\ v.ep <= clock /\ v.gen \in Nat /\ v.ep \in Nat
        /\ clock \in Nat /\ Fresh = clock + 1
    BY LifecycleType
    DEF LifecycleInv, KnowledgeFits, HeldFits, Operation, Held, Version
  <2>2. ~Fenced' /\ mem'.gen = v.gen /\ mem'.ep = v.ep
    BY DEF Valid, SameEpoch
  <2>3. ~Die
    BY DEF Die, Reset, NoOperation
  <2>4. ~Fenced /\ Follows(mem', mem, Fresh) /\ mem'.gen # Fresh
    BY <2>1, <2>2, <2>3, StepFits DEF Proceeds, Advances
  <2>5. mem.gen = v.gen /\ mem.ep = v.ep
    BY <2>1, <2>2, <2>4 DEF Follows
  <2>6. mem.mode = "active" /\ mem.ident = v.ident
    BY <2>4, <2>5 DEF LifecycleInv, KnowledgeFits, HeldFits
  <2> QED
    BY <2>4, <2>5, <2>6 DEF Valid, SameEpoch
<1> QED
  BY <1>1, InvariantLifecycle, PTL DEF Spec, NoRevival

\* When the engine grants a refresh or an expiry under a fetch lease, the
\* client's credential is the one that is selected: within a generation the
\* selected key changes only together with the revision the engine compares.
THEOREM StaleTokens == Spec => StaleTokenRefused
<1>1. LifecycleInv /\ [Next]_vars
        => [\A c \in Clients : Free /\ lease'.client = c /\ lease'.fetch
                               => op[c].held.token = mem.slot]_vars
  <2> SUFFICES ASSUME LifecycleInv, Next, NEW c \in Clients, Free,
                      lease'.client = c, lease'.fetch
               PROVE  op[c].held.token = mem.slot
    OBVIOUS
  <2>1. Grant(c)
    <3>1. lease' # lease /\ lease' # NoLease
      BY ClientAssumption DEF Free, NoLease
    <3>2. ASSUME NEW d \in Clients, Granted(d) PROVE Grant(c)
      BY <3>2 DEF Granted, Grant
    <3>3. ASSUME NEW d \in Clients, Prepare(d) PROVE FALSE
      BY <3>3, ClientAssumption
      DEF Prepare, PrepareMigration, PrepareMigrationFails, Holds, Free
    <3> QED
      BY <3>1, <3>2, <3>3, LeaseMoves
  <2>2. /\ queue[c] # {} /\ request[c].fetch
        /\ Accepts(c, request[c])
    BY <2>1 DEF Grant, Starting, IsHead
  <2>3. /\ request[c].stamped /\ request[c].action \in {"refresh", "delete"}
        /\ request[c].expected = op[c].held.version
        /\ op[c].held # NothingHeld
    BY <2>2 DEF LifecycleInv, KnowledgeFits, RequestFits
  <2>4. ~Fenced /\ SameRevision(mem, op[c].held.version)
    BY <2>2, <2>3 DEF Accepts, Basis
  <2> QED
    BY <2>3, <2>4 DEF SameRevision, LifecycleInv, KnowledgeFits, HeldFits
<1> QED
  BY <1>1, InvariantLifecycle, PTL DEF Spec, StaleTokenRefused

-----------------------------------------------------------------------------
(***************************************************************************)
(* The secrets of CredentialStorage: what the encrypted store holds for the *)
(* keys the records select.  As long as no deletion of a torn-down Flutter  *)
(* engine lands late, every credential a record selects, or keeps for a     *)
(* cancellation, is in the store; and whatever lands late, the legacy       *)
(* secret stays while the record may still migrate it or return to it.  No  *)
(* secret is forgotten while no sign-in completes: each is under a key that *)
(* every record names.                                                      *)
(***************************************************************************)
\* st selects the secret of acct under key, or keeps it for a cancellation.
Selects(st, key, acct) ==
    \/ st.mode = "active" /\ key = st.slot /\ acct = st.ident
    \/ st.prevSlot # None /\ key = st.prevSlot /\ acct = st.prevIdent

\* new selects nothing that st does not.
Inherits(new, st) ==
    \A key, acct : Selects(new, key, acct) => Selects(st, key, acct)

\* A holder that finishes an activation, and the selection it makes.
Activates(c, key, acct) ==
    /\ Finishes(c) \/ FinishesByException(c)
    /\ op[c].goal = "activate" /\ key = lease.slot /\ acct = op[c].value

-----------------------------------------------------------------------------
(* Which keys a record selects after a change.                              *)

\* Records that agree select the same keys.
LEMMA AgreeInherits ==
    ASSUME NEW a, NEW b, Agree(a, b)
    PROVE  Inherits(a, b)
BY DEF Agree, SameMode, Inherits, Selects

\* start() selects no other key than its basis did.
LEMMA OpenedInherits ==
    ASSUME TypeOK, NEW action \in Actions, Sound(Basis)
    PROVE  Inherits(Opened(action), Basis)
<1>1. Basis \in State /\ Fresh \in Nat
  BY RecordsType
<1>2. CASE action = "reconnect"
  <2> DEFINE new == Reconnect(Basis, Fresh)
  <2>1. new.mode = "pending" /\ new.prevSlot = SavePrevious(Basis).prevSlot
        /\ new.prevIdent = SavePrevious(Basis).prevIdent
    BY <1>1, ReconnectFields
  <2>2. Basis.mode \in Modes
    BY <1>1 DEF State
  <2>3. Opened(action) = new
    BY <1>2 DEF Opened
  <2> HIDE DEF new
  <2> QED
    BY <1>1, <2>1, <2>2, <2>3, SavedFields DEF Inherits, Selects, Modes
<1>3. CASE action = "delete"
  BY <1>1, <1>3, DeleteFields DEF Opened, Inherits, Selects
<1>4. CASE action = "refresh"
  BY <1>1, <1>4 DEF Opened, Retire, State, Inherits, Selects
<1>5. CASE action \notin {"reconnect", "delete", "refresh"}
  BY <1>5 DEF Opened, Inherits
<1> QED
  BY <1>2, <1>3, <1>4, <1>5

\* finish() selects the slot of its lease if it activates, and else no other
\* key than the record had.
LEMMA FinishedInherits ==
    ASSUME TypeOK, NEW goal, NEW acct, Sound(mem)
    PROVE  LET new == Finished(goal, acct)
           IN  \/ Inherits(new, mem)
               \/ /\ goal = "activate"
                  /\ \A key, a : Selects(new, key, a) => key = lease.slot /\ a = acct
<1>1. mem \in State /\ Fresh \in Nat
  BY RecordsType
<1>2. Inherits(Purge(mem, Fresh), mem)
  BY <1>1, PurgeFields DEF Inherits, Selects
<1>3. Inherits(Cancel(mem), mem)
  <2> DEFINE new == Cancel(mem)
  <2>1. new.mode = "active" => /\ new.slot = mem.prevSlot /\ mem.prevSlot # None
                               /\ new.ident = mem.prevIdent
    BY <1>1, CancelFields
  <2>2. new.prevSlot = None
    BY <1>1, CancelFields
  <2> HIDE DEF new
  <2> QED
    BY <2>1, <2>2 DEF Inherits, Selects, new
<1>4. Inherits(mem, mem)
  BY DEF Inherits
<1>5. ASSUME NEW key, NEW a,
             Selects(Activate(mem, lease.action, lease.slot, acct, Fresh), key, a)
      PROVE  key = lease.slot /\ a = acct
  BY <1>1, <1>5, ActivateFields DEF Selects
<1> QED
  BY <1>2, <1>3, <1>4, <1>5 DEF Finished

\* A commit leaves the records it found, and the one it was given.
LEMMA RecordsAfter ==
    ASSUME TypeOK, NEW new, mem' \in {mem, new}, disk' \in {disk, new},
           prior' = prior \/ Fence \/ (prior' = NoPrior)
    PROVE  Records' \subseteq Records \cup {new}
<1>1. Fence => Fenced' /\ prior' = IF Fenced THEN prior ELSE mem
  BY FenceFences
<1> QED
  BY <1>1 DEF Records, Fenced

\* A record after a step selects what a record before it did, or the slot of
\* the lease that was finished with an activation.
LEMMA SelectionMoves ==
    ASSUME LifecycleInv, [Next]_vars,
           NEW st \in Records', NEW key, NEW acct, Selects(st, key, acct)
    PROVE  \/ \E old \in Records : Selects(old, key, acct)
           \/ \E c \in Clients : Activates(c, key, acct)
<1>1. /\ TypeOK /\ mem \in State /\ Fresh \in Nat /\ Sound(mem) /\ mem \in Records
      /\ Basis \in Records /\ Sound(Basis)
  BY LifecycleType, RecordsType DEF Records, RecordInv
<1>2. ASSUME NEW base \in Records, NEW new, Inherits(new, base),
             mem' \in {mem, new}, disk' \in {disk, new},
             prior' = prior \/ Fence \/ prior' = NoPrior
      PROVE  \E old \in Records : Selects(old, key, acct)
  BY <1>1, <1>2, RecordsAfter DEF Inherits
<1>3. ASSUME UNCHANGED records PROVE \E old \in Records : Selects(old, key, acct)
  BY <1>3 DEF records, Records, Fenced
<1>4. ASSUME NEW c \in Clients, Asking(c) \/ Fetching(c)
      PROVE  UNCHANGED records
  BY <1>4
  DEF Asking, AskRead, AskReconnect, AskDelete, AskComplete, AskCancel,
      AskRefresh, AskDeleteIfCurrent, Ask, Enqueue, Fetching, StartFetch,
      EndFetch, AcquireFetch, ReleaseFetch
<1>5. ASSUME NEW c \in Clients, Answering(c)
      PROVE  \E old \in Records : Selects(old, key, acct)
  <2> DEFINE new == Opened(request[c].action)
  <2>1. request[c].action \in Actions
    <3>1. queue[c] # {}
      BY <1>5 DEF Answering, Granted, Refused, RefusedByCommit, Grant, Refuse,
                  GrantFails, Starting, IsHead
    <3> QED
      BY <3>1, LifecycleType DEF TypeInv, Links, Linked, Request
  <2>2. Inherits(new, Basis)
    BY <1>1, <2>1, OpenedInherits
  <2>3. CASE Granted(c)
    <3>1. mem' \in {mem, new} /\ disk' \in {disk, new}
          /\ (prior' = prior \/ prior' = NoPrior)
      BY <2>3 DEF Granted, Grant, Committed
    <3> HIDE DEF new
    <3> QED
      BY <1>1, <1>2, <2>2, <3>1
  <2>4. CASE RefusedByCommit(c)
    <3>1. mem' \in {mem, new} /\ disk' \in {disk, new} /\ Fence
      BY <2>4 DEF RefusedByCommit, GrantFails, CommitFailed
    <3> HIDE DEF new
    <3> QED
      BY <1>1, <1>2, <2>2, <3>1
  <2>5. CASE Refused(c)
    BY <1>3, <2>5 DEF Refused, Refuse
  <2> QED
    BY <1>5, <2>3, <2>4, <2>5 DEF Answering
<1>6. ASSUME NEW c \in Clients, Finishes(c) \/ FinishesByException(c)
      PROVE  \/ \E old \in Records : Selects(old, key, acct)
             \/ Activates(c, key, acct)
  <2> DEFINE new == Finished(op[c].goal, op[c].value)
  <2>1. mem' \in {mem, new} /\ disk' \in {disk, new} /\ (prior' = prior \/ Fence)
    BY <1>6
    DEF Finishes, FinishesByException, Finish, FinishFails, Committed, CommitFailed
  <2>2. \/ Inherits(new, mem)
        \/ /\ op[c].goal = "activate"
           /\ \A k, a : Selects(new, k, a) => k = lease.slot /\ a = op[c].value
    BY <1>1, FinishedInherits
  <2>3. st \in Records \/ st = new
    BY <1>1, <2>1, RecordsAfter
  <2> HIDE DEF new
  <2> QED
    BY <1>1, <1>6, <2>2, <2>3 DEF Inherits, Activates
<1>7. ASSUME NEW c \in Clients, Prepare(c) \/ Ack(c)
      PROVE  \E old \in Records : Selects(old, key, acct)
  <2>1. CASE Ack(c)
    <3> DEFINE new == Acknowledge(mem, cleaned, lease.slot, abandoned)
    <3>1. mem' \in {mem, new} /\ disk' \in {disk, new} /\ prior' = prior
      BY <2>1 DEF Ack, AcknowledgeCleanup, Committed, CommitFailed
    <3>2. Inherits(new, mem)
      BY <1>1, KeepsKeys, AgreeInherits, 0 \in Nat
    <3> HIDE DEF new
    <3> QED
      BY <1>1, <1>2, <3>1, <3>2
  <2>2. CASE Prepare(c)
    <3> DEFINE new == Migrate(mem, Fresh)
    <3>1. mem' \in {mem, new} /\ disk' \in {disk, new} /\ (prior' = prior \/ Fence)
      BY <2>2 DEF Prepare, PrepareMigration, PrepareMigrationFails, Committed,
                  CommitFailed
    <3>2. mem.mode \in {"legacy", "migration", "active"}
      BY <2>2 DEF Prepare, PrepareMigration, PrepareMigrationFails, MayMigrate,
                  ValidBackup
    <3>3. Inherits(new, mem)
      BY <1>1, <3>2, KeepsKeys, AgreeInherits
    <3> HIDE DEF new
    <3> QED
      BY <1>1, <1>2, <3>1, <3>3
  <2> QED
    BY <1>7, <2>1, <2>2
<1>8. ASSUME NEW c \in Clients,
             Clean(c) \/ Look(c) \/ LookFails(c) \/ Write(c) \/ WriteFails(c)
             \/ Wipe(c) \/ Report(c)
      PROVE  UNCHANGED records
  BY <1>8 DEF Clean, Look, LookFails, Write, WriteFails, Wipe, Report, NoCall
<1>9. ASSUME (\E c \in Clients : StoreReport(c)) \/ ClearCache
      PROVE  \E old \in Records : Selects(old, key, acct)
  <2>1. PICK new : /\ Agree(new, mem)
                   /\ mem' \in {mem, new} /\ disk' \in {disk, new} /\ prior' = prior
    BY <1>1, <1>9, KeepsKeys
    DEF StoreReport, ClearCache, WriteCurrentSnapshot, ClearCurrentSnapshot,
        CommitSnapshot, Committed, CommitFailed
  <2> QED
    BY <1>1, <1>2, <2>1, AgreeInherits
<1>10. ASSUME NEW o \in Owners, TearDown(o)
       PROVE  \E old \in Records : Selects(old, key, acct)
  <2> DEFINE new == Abandon(mem, Fresh)
  <2>1. mem' \in {mem, new} /\ disk' \in {disk, new} /\ (prior' = prior \/ Fence)
    BY <1>10 DEF TearDown, Detach, DetachFails
  <2>2. Inherits(new, mem)
    BY <1>1, AbandonFields DEF Inherits, Selects
  <2> HIDE DEF new
  <2> QED
    BY <1>1, <1>2, <2>1, <2>2
<1>11. CASE Die
  BY <1>11 DEF Die, ProcessDeath, Records, Fenced
<1>12. CASE Land \/ UNCHANGED vars
  BY <1>3, <1>12 DEF Land, NoCall, vars, engineVars
<1> QED
  BY <1>3, <1>4, <1>5, <1>6, <1>7, <1>8, <1>9, <1>10, <1>11, <1>12
  DEF Next, Working, Caching, Quiet

-----------------------------------------------------------------------------
(* The invariant.                                                           *)

\* A write that may still land is to a key nothing selects, waits for or is
\* about to write.
LateFits ==
    \A call \in late :
        /\ call.acct = Absent => "late delete" \in Faults
        /\ call.acct # Absent =>
              /\ call.key # None /\ call.key # LegacyKey /\ call.key <= clock
              /\ \A st \in Records, acct \in Accounts : ~Selects(st, call.key, acct)
              /\ ~Fenced => call.key # mem.pend
              /\ ~Free => call.key # lease.slot

\* Nobody is about to delete a legacy secret the record needs.
LegacyFits ==
    /\ ~Free /\ LegacyKey \in lease.view.cleanup => ~LegacyNeeded(Basis)
    /\ \A call \in late :
          call.acct = Absent /\ call.key = LegacyKey => ~LegacyNeeded(Basis)

\* The selected secrets are in the store, and so is the one that a holder is
\* about to select.
StoreFits ==
    "late delete" \notin Faults =>
        /\ \A st \in Records, key \in Nat, acct \in Accounts :
              Selects(st, key, acct) => Secret(key) = acct
        /\ LET o == op[lease.client]
           IN  ~Free /\ o.pc = "finish" /\ o.goal = "activate"
               => Secret(lease.slot) = o.value

SecretsInv == LifecycleInv /\ LateFits /\ LegacyFits /\ StoreFits

\* What a record selects is a key and an account, other than none.
LEMMA SelectsType ==
    ASSUME NEW st \in State, Sound(st), NEW key, NEW acct, Selects(st, key, acct)
    PROVE  key \in Nat /\ key # None /\ acct \in Accounts
BY DEF Selects, Sound, State

\* While a lease is held, every record selects the same keys: neither one on
\* the cleanup list, nor the slot of the lease, nor any after a disconnect.
LEMMA SelectedSpared ==
    ASSUME LifecycleInv, ~Free, NEW st \in Records, NEW key, NEW acct,
           Selects(st, key, acct)
    PROVE  /\ key \notin lease.view.cleanup
           /\ key # lease.slot
           /\ lease.action # "delete"
<1>1. Agree(st, mem) /\ Sound(mem) /\ Sound(st) /\ st \in State
  BY AgreeEquivalence, LifecycleType, RecordsType
  DEF LifecycleInv, SafetyInv, CleanupInv, RecordsAgree, Records, RecordInv
<1>2. Selects(mem, key, acct) /\ key # None
  BY <1>1, AgreeInherits, SelectsType DEF Inherits
<1>3. key \in {mem.slot, mem.prevSlot}
  BY <1>2 DEF Selects
<1> QED
  BY <1>2, <1>3, LifecycleType
  DEF LifecycleInv, SafetyInv, CleanupInv, ListSpares, LeaseFits, Selects, Sound

\* An operation at work is the only one.
LEMMA OneWorks ==
    ASSUME LifecycleInv, NEW c \in Clients, op[c].pc \in Busy
    PROVE  /\ lease.client = c /\ ~Free /\ lease \in Lease
           /\ \A d \in Clients : \A key, acct :
                 Activates(d, key, acct) => d = c /\ op[c].pc = "finish"
<1>1. /\ lease.client = c /\ lease \in Lease
      /\ \A d \in Clients : d # c => op[d].pc \notin Busy
  BY LifecycleType, BusyHolds DEF Holds
<1>2. \A d \in Clients : \A key, acct : Activates(d, key, acct) => op[d].pc = "finish"
  BY DEF Activates, Finishes, FinishesByException, At
<1> QED
  BY <1>1, <1>2, ClientAssumption DEF Busy, Phases, Free

\* Who activates is at work.
LEMMA ActivatesWorks ==
    ASSUME LifecycleInv, NEW c \in Clients, NEW key, NEW acct,
           Activates(c, key, acct)
    PROVE  /\ op[c].pc = "finish" /\ op[c].pc \in Busy
           /\ op[c].goal = "activate" /\ key = lease.slot /\ acct = op[c].value
           /\ lease.client = c /\ ~Free
<1>1. op[c].pc = "finish"
  BY DEF Activates, Finishes, FinishesByException, At
<1>2. op[c].pc \in Busy
  BY <1>1 DEF Busy, Phases
<1> QED
  BY <1>1, <1>2, OneWorks DEF Activates

-----------------------------------------------------------------------------
(* Calls that land late.                                                    *)

\* Only the end of a Flutter engine leaves a call to land.
LEMMA LateMoves ==
    ASSUME LifecycleInv, [Next]_vars
    PROVE  \/ late' \subseteq late
           \/ \E o \in Owners : \E c \in OwnedBy(o) : \E call \in Unlanded(c) :
                 TearDown(o) /\ late' = late \cup {call}
<1>1. ASSUME NEW c \in Clients,
             Asking(c) \/ Answering(c) \/ Fetching(c) \/ Caching(c)
      PROVE  late' = late
  BY <1>1
  DEF Asking, AskRead, AskReconnect, AskDelete, AskComplete, AskCancel,
      AskRefresh, AskDeleteIfCurrent, Ask, Answering, Granted, Refused,
      RefusedByCommit, Fetching, StartFetch, EndFetch, Caching, Report,
      StoreReport, secrets
<1>2. ASSUME NEW c \in Clients, Working(c) PROVE late' = late
  BY <1>2
  DEF Working, Clean, Ack, Look, LookFails, Prepare, Write, WriteFails, Wipe,
      Finishes, FinishesByException, secrets
<1>3. ASSUME NEW o \in Owners, TearDown(o)
      PROVE  \/ late' = late
             \/ \E c \in OwnedBy(o) : \E call \in Unlanded(c) :
                   late' = late \cup {call}
  BY <1>3 DEF TearDown
<1>4. CASE ClearCache \/ Land \/ Die \/ UNCHANGED vars
  BY <1>4 DEF ClearCache, Land, Die, vars, secrets
<1> QED
  BY <1>1, <1>2, <1>3, <1>4 DEF Next, Quiet

\* What a torn-down engine had called.
LEMMA UnlandedCalls ==
    ASSUME LifecycleInv, NEW c \in Clients, NEW call \in Unlanded(c)
    PROVE  /\ lease.client = c /\ ~Free
           /\ \/ /\ call.acct = Absent /\ "late delete" \in Faults
                 /\ call.key = LegacyKey =>
                       \/ op[c].pc = "clean" /\ LegacyKey \in lease.view.cleanup
                       \/ op[c].pc = "wipe"
              \/ /\ op[c].pc = "write" /\ call.key = lease.slot
                 /\ call.acct = op[c].value /\ call.acct # Absent
<1>1. /\ op[c].pc \in {"clean", "wipe", "write"}
      /\ \/ /\ call.acct = Absent /\ "late delete" \in Faults
            /\ \/ op[c].pc = "clean" /\ call.key \in lease.view.cleanup
               \/ op[c].pc = "wipe"
         \/ /\ op[c].pc = "write" /\ call.key = lease.slot
            /\ call.acct = op[c].value
  <2> DEFINE deletes(keys) == {[key |-> k, acct |-> Absent] : k \in keys}
  <2>1. \/ /\ op[c].pc = "clean" /\ "late delete" \in Faults
           /\ call \in deletes(lease.view.cleanup)
        \/ /\ op[c].pc = "wipe" /\ "late delete" \in Faults
           /\ call \in deletes(lease.view.retired \cup {LegacyKey})
        \/ /\ op[c].pc = "write"
           /\ call = [key |-> lease.slot, acct |-> op[c].value]
    BY Zenon DEF Unlanded, At
  <2>2. call \in deletes(lease.view.cleanup) =>
           call.key \in lease.view.cleanup /\ call.acct = Absent
    OBVIOUS
  <2>3. call \in deletes(lease.view.retired \cup {LegacyKey}) => call.acct = Absent
    OBVIOUS
  <2>4. call = [key |-> lease.slot, acct |-> op[c].value] =>
           call.key = lease.slot /\ call.acct = op[c].value
    OBVIOUS
  <2> HIDE DEF deletes
  <2> QED
    BY <2>1, <2>2, <2>3, <2>4
<1>2. op[c].pc \in Busy
  BY <1>1 DEF Busy, Phases
<1>3. op[c].pc = "write" => op[c].value \in Accounts
  BY LifecycleType DEF TypeInv, Links, Linked
<1> QED
  BY <1>1, <1>2, <1>3, OneWorks, NoAccountAssumption DEF Absent

\* The slot a sign-in waits for: none, a drawn one, or the one there was.
LEMMA PendMoves ==
    ASSUME LifecycleInv, Proceeds, ~Fenced'
    PROVE  mem'.pend \in {None, Fresh} \/ (~Fenced /\ mem'.pend = mem.pend)
<1>1. Sound(mem')
  BY DEF Proceeds, RecordInv, Records
<1>2. CASE mem'.gen = Fresh /\ mem'.pend \in {None, Fresh}
  BY <1>2
<1>3. CASE ~Fenced /\ Follows(mem', mem, Fresh)
  BY <1>1, <1>3 DEF Follows, Sound
<1> QED
  BY <1>2, <1>3 DEF Proceeds, Advances

\* The slot of a lease: none, a drawn one, the one the sign-in waits for, or
\* the one there was.
LEMMA SlotMoves ==
    ASSUME LifecycleInv, [Next]_vars, ~Free'
    PROVE  \/ ~Free /\ lease' = lease
           \/ lease'.slot \in {None, Fresh}
           \/ ~Fenced /\ lease'.slot = mem.pend
<1>1. lease' = lease => ~Free
  BY DEF Free
<1>2. ASSUME NEW c \in Clients, Granted(c)
      PROVE  lease'.slot \in {None, Fresh} \/ (~Fenced /\ lease'.slot = mem.pend)
  BY <1>2 DEF Granted, Grant, OpenedSlot, Accepts, Basis
<1>3. ASSUME NEW c \in Clients, Prepare(c) PROVE lease'.slot = Fresh
  <2>1. lease \in Lease /\ lease' = [lease EXCEPT !.slot = Fresh]
    BY <1>3, LifecycleType, HolderHasLease
    DEF Prepare, PrepareMigration, PrepareMigrationFails
  <2> QED
    BY <2>1 DEF Lease
<1> QED
  BY <1>1, <1>2, <1>3, LeaseMoves DEF Free, NoLease

\* A write that waits to land stays harmless, and so is one that begins to.
LEMMA LateKept ==
    ASSUME SecretsInv, [Next]_vars
    PROVE  LateFits'
<1> SUFFICES ASSUME NEW call \in late'
             PROVE  /\ call.acct = Absent => "late delete" \in Faults
                    /\ call.acct # Absent =>
                          /\ call.key # None /\ call.key # LegacyKey
                          /\ call.key <= clock'
                          /\ \A st \in Records', acct \in Accounts :
                                ~Selects(st, call.key, acct)
                          /\ ~Fenced' => call.key # mem'.pend
                          /\ ~Free' => call.key # lease'.slot
  BY DEF LateFits
<1>1. LifecycleInv /\ TypeOK /\ clock \in Nat /\ Fresh = clock + 1
  BY LifecycleType DEF SecretsInv
<1>2. ~Die
  BY DEF Die
<1>3. Proceeds /\ clock' \in {clock, Fresh}
  BY <1>1, <1>2, StepFits DEF Proceeds
<1>4. CASE call \in late
  <2>1. CASE call.acct = Absent
    BY <1>4, <2>1 DEF SecretsInv, LateFits
  <2>2. CASE call.acct # Absent
    <3>1. /\ call.key # None /\ call.key # LegacyKey /\ call.key <= clock
          /\ call.key \in Nat
          /\ \A st \in Records, acct \in Accounts : ~Selects(st, call.key, acct)
          /\ ~Fenced => call.key # mem.pend
          /\ ~Free => call.key # lease.slot
      BY <1>1, <1>4, <2>2 DEF SecretsInv, LateFits, TypeOK
    <3>2. ASSUME NEW st \in Records', NEW acct \in Accounts,
                 Selects(st, call.key, acct)
          PROVE  FALSE
      BY <1>1, <3>1, <3>2, SelectionMoves, ActivatesWorks
    <3>3. ~Fenced' => call.key # mem'.pend
      BY <1>1, <1>3, <3>1, PendMoves
    <3>4. ~Free' => call.key # lease'.slot
      BY <1>1, <3>1, SlotMoves
    <3>5. call.key <= clock'
      BY <1>1, <1>3, <3>1
    <3> QED
      BY <2>2, <3>1, <3>2, <3>3, <3>4, <3>5
  <2> QED
    BY <2>1, <2>2
<1>5. CASE call \notin late
  <2>0. PICK o \in Owners : \E c \in OwnedBy(o) : TearDown(o) /\ call \in Unlanded(c)
    BY <1>1, <1>5, LateMoves
  <2>1. PICK c \in OwnedBy(o) : TearDown(o) /\ call \in Unlanded(c)
    BY <2>0
  <2>2. c \in Clients
    BY DEF OwnedBy
  <2>3. lease.client = c /\ ~Free
    BY <1>1, <2>1, <2>2, UnlandedCalls
  <2>4. CASE call.acct = Absent
    BY <1>1, <2>1, <2>2, <2>4, UnlandedCalls
  <2>5. CASE call.acct # Absent
    <3>1. op[c].pc = "write" /\ call.key = lease.slot /\ op[c].goal = "activate"
      BY <1>1, <2>1, <2>2, <2>3, <2>5, UnlandedCalls DEF LifecycleInv, WorkFits
    <3>2. call.key # None /\ call.key # LegacyKey /\ call.key <= clock
          /\ call.key \in Nat
      BY <1>1, <2>3, <3>1, LifecycleType
      DEF LifecycleInv, LeaseFits, WorkFits, Lease
    <3>3. Free'
      BY <2>1, <2>2, <2>3
      DEF TearDown, Detach, DetachFails, DetachLease, OwnedBy, Free, NoLease
    <3>4. ASSUME NEW st \in Records', NEW acct \in Accounts,
                 Selects(st, call.key, acct)
          PROVE  FALSE
      <4>1. op[c].pc \in Busy
        BY <3>1 DEF Busy, Phases
      <4> QED
        BY <1>1, <2>2, <2>3, <3>1, <3>4, <4>1, SelectionMoves, SelectedSpared, OneWorks
    <3>5. ASSUME ~Fenced' PROVE mem'.pend = None
      <4>1. Detach(o)
        BY <1>1, <2>1, <3>5, FenceFences DEF TearDown, DetachFails
      <4>2. CASE Interrupts(o)
        BY <1>1, <4>1, <4>2, AbandonFields, LifecycleType DEF Detach
      <4>3. CASE ~Interrupts(o)
        <5>1. mem' = mem /\ lease.action = "read"
          BY <2>1, <2>3, <4>1, <4>3 DEF Detach, Interrupts
        <5>2. mem.mode # "pending"
          BY <1>1, <2>3, <3>1, <5>1
          DEF LifecycleInv, LeaseFits, WorkFits, Selectable, SameMode
        <5> QED
          BY <1>1, <5>1, <5>2, LifecycleType DEF Sound
      <4> QED
        BY <4>2, <4>3
    <3>6. call.key <= clock'
      BY <1>1, <1>3, <3>2
    <3> QED
      BY <2>5, <3>2, <3>3, <3>4, <3>5, <3>6
  <2> QED
    BY <2>4, <2>5
<1> QED
  BY <1>4, <1>5

-----------------------------------------------------------------------------
(* The legacy secret.                                                       *)

\* A step of a lease that is about to delete the legacy secret finds, and
\* leaves, a record that does not need it.
LEMMA LegacyKept ==
    ASSUME SecretsInv, [Next]_vars
    PROVE  LegacyFits'
<1>1. LifecycleInv /\ TypeOK
  BY LifecycleType DEF SecretsInv
<1>2. CASE Die
  BY <1>2 DEF Die, ProcessDeath, LegacyFits, Free, NoLease
<1>3. CASE ~Die
  <2>1. LegacyNeeded(Basis') => LegacyNeeded(Basis)
    BY <1>1, <1>3, StepFits DEF Proceeds
  <2>2. ASSUME ~Free', LegacyKey \in lease'.view.cleanup
        PROVE  ~LegacyNeeded(Basis')
    <3>1. CASE lease' = lease
      BY <2>1, <2>2, <3>1 DEF SecretsInv, LegacyFits, Free
    <3>2. CASE \E c \in Clients : Prepare(c)
      <4>1. lease'.view = lease.view /\ ~Free
        BY <1>1, <3>2, HolderHasLease, ClientAssumption, LifecycleType
        DEF Prepare, PrepareMigration, PrepareMigrationFails, Lease, Holds, Free
      <4> QED
        BY <2>1, <2>2, <4>1 DEF SecretsInv, LegacyFits
    <3>3. ASSUME NEW c \in Clients, Granted(c) PROVE ~LegacyNeeded(Basis')
      <4> DEFINE new == Opened(request[c].action)
      <4>1. ~LegacyNeeded(new)
        BY <2>2, <3>3 DEF Granted, Grant, Answer, CleanupSlots, Protected
      <4>2. ~Fenced' /\ (Fenced => request[c].action = "reconnect")
        BY <1>1, <3>3, GrantCleanup DEF Granted, Grant, Accepts, LifecycleInv
      <4>3. mem' = new
        BY <3>3, <4>2 DEF Granted, Grant, Committed, Opening, Opened, Basis
      <4> QED
        BY <4>1, <4>2, <4>3 DEF Basis
    <3> QED
      BY <1>1, <2>2, <3>1, <3>2, <3>3, LeaseMoves DEF Free, NoLease
  <2>3. ASSUME NEW call \in late', call.acct = Absent, call.key = LegacyKey
        PROVE  ~LegacyNeeded(Basis')
    <3>1. CASE call \in late
      BY <2>1, <2>3, <3>1 DEF SecretsInv, LegacyFits
    <3>2. CASE call \notin late
      <4>1. PICK o \in Owners : \E c \in OwnedBy(o) : call \in Unlanded(c)
        BY <1>1, <3>2, LateMoves
      <4>2. PICK c \in Clients : call \in Unlanded(c)
        BY <4>1 DEF OwnedBy
      <4>3. /\ lease.client = c /\ ~Free
            /\ \/ op[c].pc = "clean" /\ LegacyKey \in lease.view.cleanup
               \/ op[c].pc = "wipe"
        BY <1>1, <2>3, <4>2, UnlandedCalls
      <4>4. CASE LegacyKey \in lease.view.cleanup
        BY <2>1, <4>3, <4>4 DEF SecretsInv, LegacyFits
      <4>5. CASE op[c].pc = "wipe"
        <5>1. mem.mode = "deleted" /\ Sound(mem)
          BY <1>1, <4>3, <4>5, LifecycleType DEF LifecycleInv, WorkFits, LeaseFits
        <5>2. ~Fenced
          BY <1>1, <4>3, <4>5 DEF LifecycleInv, SafetyInv, HolderGivesUp
        <5> QED
          BY <2>1, <5>1, <5>2 DEF Basis, LegacyNeeded, Sound
      <4> QED
        BY <4>3, <4>4, <4>5
    <3> QED
      BY <3>1, <3>2
  <2> QED
    BY <2>2, <2>3 DEF LegacyFits
<1> QED
  BY <1>2, <1>3

-----------------------------------------------------------------------------
(* The store.                                                               *)

\* Writing one secret and deleting others leaves the rest.
LEMMA SecretAfter ==
    ASSUME NEW key
    PROVE  /\ \A keys : Remove(keys) /\ key \notin keys => Secret(key)' = Secret(key)
           /\ \A k, acct : Put(k, acct) =>
                 Secret(key)' = IF key = k THEN acct ELSE Secret(key)
BY DEF Remove, Put, Secret

\* A secret changes only under the cleanup list of a lease, by a disconnect,
\* in the slot of a lease, or by a call that lands late.
LEMMA StoreMoves ==
    ASSUME LifecycleInv, [Next]_vars, NEW key
    PROVE  \/ Secret(key)' = Secret(key)
           \/ \E c \in Clients : Clean(c) /\ key \in lease.view.cleanup
           \/ \E c \in Clients : Wipe(c)
           \/ \E c \in Clients : (Write(c) \/ WriteFails(c)) /\ key = lease.slot
           \/ \E call \in late : key = call.key
<1>1. ASSUME store' = store PROVE Secret(key)' = Secret(key)
  BY <1>1 DEF Secret
<1>2. ASSUME NEW c \in Clients,
             Asking(c) \/ Answering(c) \/ Fetching(c) \/ Caching(c)
      PROVE  store' = store
  BY <1>2
  DEF Asking, AskRead, AskReconnect, AskDelete, AskComplete, AskCancel,
      AskRefresh, AskDeleteIfCurrent, Ask, Answering, Granted, Refused,
      RefusedByCommit, Fetching, StartFetch, EndFetch, Caching, Report,
      StoreReport, secrets
<1>3. ASSUME NEW c \in Clients, Clean(c)
      PROVE  Secret(key)' = Secret(key) \/ key \in lease.view.cleanup
  BY <1>3, SecretAfter DEF Clean
<1>4. ASSUME NEW c \in Clients, Write(c) \/ WriteFails(c)
      PROVE  Secret(key)' = Secret(key) \/ key = lease.slot
  BY <1>1, <1>4, SecretAfter DEF Write, WriteFails
<1>5. ASSUME NEW c \in Clients,
             Ack(c) \/ Look(c) \/ LookFails(c) \/ Prepare(c) \/ Finishes(c)
             \/ FinishesByException(c)
      PROVE  store' = store
  BY <1>5
  DEF Ack, Look, LookFails, Prepare, Finishes, FinishesByException, secrets
<1>6. CASE Land
  <2>1. PICK call \in late : Remove({call.key}) \/ Put(call.key, call.acct)
    BY <1>6 DEF Land
  <2> QED
    BY <2>1, SecretAfter
<1>7. (\E o \in Owners : TearDown(o)) \/ ClearCache \/ Die \/ UNCHANGED vars
        => store' = store
  BY DEF TearDown, ClearCache, Die, vars, secrets
<1> QED
  BY <1>1, <1>2, <1>3, <1>4, <1>5, <1>6, <1>7 DEF Next, Working, Quiet

\* A holder comes to the end of an activation by writing the secret.
LEMMA WorkMoves ==
    ASSUME LifecycleInv, [Next]_vars, ~Free',
           op'[lease'.client].pc = "finish", op'[lease'.client].goal = "activate"
    PROVE  LET h == lease.client
           IN  /\ ~Free /\ lease' = lease /\ h \in Clients
               /\ \/ op'[h] = op[h]
                  \/ Write(h) /\ op'[h].value = op[h].value
<1>1. /\ op \in [Clients -> Operation]
      /\ ~Free => lease.client \in Clients /\ lease \in Lease
  BY LifecycleType
<1>2. ~\E c \in Clients : Granted(c) \/ Prepare(c)
  <2>1. ASSUME NEW c \in Clients, Granted(c) PROVE FALSE
    <3>1. lease'.client = c
      BY <2>1 DEF Granted, Grant
    <3>2. op'[c].pc # "finish" \/ op'[c].goal = "cancel"
      BY <1>1, <2>1 DEF Granted, Go, Operation
    <3> QED
      BY <3>1, <3>2
  <2>2. ASSUME NEW c \in Clients, Prepare(c) PROVE FALSE
    <3>1. lease'.client = c
      BY <1>1, <2>2, ClientAssumption
      DEF Prepare, PrepareMigration, PrepareMigrationFails, Holds, Free, Lease
    <3>2. op'[c].pc # "finish"
      BY <1>1, <2>2 DEF Prepare, Release, Go, Operation
    <3> QED
      BY <3>1, <3>2
  <2> QED
    BY <2>1, <2>2
<1>3. lease' = lease /\ ~Free
  BY <1>2, LeaseMoves DEF Free, NoLease
<1> DEFINE h == lease.client
<1>4. h \in Clients /\ op[h].pc \in Busy
  BY <1>1, <1>3 DEF LifecycleInv, WorkFits
<1>5. ASSUME NEW c \in Clients, Asking(c) PROVE op'[h] = op[h]
  <2>1. c # h
    BY <1>4, <1>5
    DEF Asking, AskRead, AskReconnect, AskDelete, AskComplete, AskCancel,
        AskRefresh, AskDeleteIfCurrent, Ask, Idle, At, Busy, Phases
  <2> QED
    BY <1>1, <1>4, <1>5, <2>1
    DEF Asking, AskRead, AskReconnect, AskDelete, AskComplete, AskCancel,
        AskRefresh, AskDeleteIfCurrent, Queued, QueuedWith
<1>6. ASSUME NEW c \in Clients, Answering(c) PROVE FALSE
  BY <1>2, <1>3, <1>6
  DEF Answering, Refused, RefusedByCommit, Refuse, GrantFails, Starting
<1>7. ASSUME NEW c \in Clients, Working(c)
      PROVE  Write(h) /\ op'[h].value = op[h].value
  <2>1. op[c].pc \in Busy
    BY <1>7
    DEF Working, Clean, Ack, Look, LookFails, Prepare, Write, WriteFails, Wipe,
        Finishes, FinishesByException, At, Busy, Phases
  <2>2. c = h
    BY <2>1, OneWorks
  <2>3. CASE Clean(c) \/ Ack(c)
    <3>1. \E pc : Go(c, pc, op[c].goal)
      BY <2>3 DEF Clean, Ack
    <3>2. op'[h].goal = op[h].goal
      BY <1>1, <1>4, <2>2, <3>1 DEF Go, Operation
    <3>3. op[h].goal \in {"look", "release"}
      BY <1>3, <2>2, <2>3 DEF LifecycleInv, WorkFits, Clean, Ack, At
    <3> QED
      BY <1>3, <3>2, <3>3
  <2>4. CASE Look(c)
    <3>1. Selectable => /\ op'[h].goal = AfterLook[2] /\ op'[h].pc = AfterLook[1]
      BY <1>1, <1>4, <2>2, <2>4 DEF Look, Operation
    <3>2. AfterLook \in {<<"finish", "missing">>, <<"prepare", "activate">>,
                         <<"finish", "confirm">>}
      BY DEF AfterLook
    <3>3. CASE ~Selectable
      BY <1>1, <1>3, <1>4, <2>2, <2>4, <3>3 DEF Look, Release, Go, Operation
    <3> QED
      BY <1>3, <3>1, <3>2, <3>3
  <2>5. CASE LookFails(c) \/ WriteFails(c) \/ Wipe(c)
    BY <1>1, <1>3, <1>4, <2>2, <2>5
    DEF LookFails, WriteFails, Wipe, Release, Go, Operation
  <2>6. CASE Finishes(c) \/ FinishesByException(c)
    BY <2>6, FinishCleanup DEF Finishes, FinishesByException, LifecycleInv
  <2>7. CASE Write(c)
    BY <1>1, <1>4, <2>2, <2>7 DEF Write, Go, Operation
  <2> QED
    BY <1>2, <1>7, <2>3, <2>4, <2>5, <2>6, <2>7 DEF Working
<1>8. ASSUME NEW c \in Clients, Fetching(c) \/ Caching(c) PROVE op'[h] = op[h]
  <2>1. c # h
    BY <1>4, <1>8
    DEF Fetching, StartFetch, EndFetch, Caching, Report, StoreReport, Idle, At,
        Busy, Phases
  <2> QED
    BY <1>1, <1>4, <1>8, <2>1
    DEF Fetching, StartFetch, EndFetch, Caching, Report, StoreReport
<1>9. ASSUME NEW o \in Owners, TearDown(o) PROVE op'[h] = op[h]
  <2>1. h \notin OwnedBy(o)
    BY <1>3, <1>9
    DEF TearDown, Detach, DetachFails, DetachLease, Free, NoLease
  <2> QED
    BY <1>4, <1>9, <2>1 DEF TearDown, Reset
<1>10. ~Die
  BY DEF Die, ProcessDeath, Free, NoLease
<1>11. ClearCache \/ Land \/ UNCHANGED vars => op'[h] = op[h]
  BY DEF ClearCache, Land, vars
<1>12. op'[h] = op[h] \/ (Write(h) /\ op'[h].value = op[h].value)
  <2> HIDE DEF h
  <2> QED
    BY <1>5, <1>6, <1>7, <1>8, <1>9, <1>10, <1>11 DEF Next, Quiet
<1> QED
  BY <1>3, <1>4, <1>12

\* Whatever a record selects after a step is in the store, and whatever a
\* holder is about to select: the secret was there and was spared, or it was
\* written before the commit that selects it.
LEMMA StoreKept ==
    ASSUME SecretsInv, [Next]_vars
    PROVE  StoreFits'
<1> SUFFICES ASSUME "late delete" \notin Faults PROVE StoreFits'
  BY DEF StoreFits
<1>1. LifecycleInv /\ TypeOK /\ op \in [Clients -> Operation]
  BY LifecycleType DEF SecretsInv
<1>2. ASSUME NEW st \in Records', NEW key \in Nat, NEW acct \in Accounts,
             Selects(st, key, acct)
      PROVE  Secret(key)' = acct
  <2>1. CASE \E c \in Clients : Activates(c, key, acct)
    <3>1. PICK c \in Clients : Activates(c, key, acct)
      BY <2>1
    <3>2. /\ op[c].pc = "finish" /\ op[c].pc \in Busy /\ op[c].goal = "activate"
          /\ key = lease.slot /\ acct = op[c].value /\ lease.client = c /\ ~Free
      BY <1>1, <3>1, ActivatesWorks
    <3>3. store' = store
      BY <3>1 DEF Activates, Finishes, FinishesByException, secrets
    <3> QED
      BY <3>2, <3>3 DEF SecretsInv, StoreFits, Secret
  <2>2. CASE \E old \in Records : Selects(old, key, acct)
    <3>1. PICK old \in Records : Selects(old, key, acct)
      BY <2>2
    <3>2. Secret(key) = acct
      BY <3>1 DEF SecretsInv, StoreFits
    <3>3. ~Free => /\ key \notin lease.view.cleanup /\ key # lease.slot
                   /\ lease.action # "delete"
      BY <1>1, <3>1, SelectedSpared
    <3>4. ASSUME NEW c \in Clients, Clean(c) \/ Wipe(c) \/ Write(c) \/ WriteFails(c)
          PROVE  ~Free /\ (Wipe(c) => lease.action = "delete")
      <4>1. op[c].pc \in Busy
        BY <3>4 DEF Clean, Wipe, Write, WriteFails, At, Busy, Phases
      <4> QED
        BY <1>1, <4>1, OneWorks DEF Wipe, At, LifecycleInv, WorkFits
    <3>5. ASSUME NEW call \in late PROVE key # call.key
      BY <3>1, <3>5 DEF SecretsInv, LateFits
    <3> QED
      BY <1>1, <3>2, <3>3, <3>4, <3>5, StoreMoves
  <2> QED
    BY <1>1, <1>2, <2>1, <2>2, SelectionMoves
<1>3. ASSUME ~Free', op'[lease'.client].pc = "finish",
             op'[lease'.client].goal = "activate"
      PROVE  Secret(lease.slot)' = op'[lease'.client].value
  <2> DEFINE h == lease.client
  <2>1. /\ ~Free /\ lease' = lease /\ h \in Clients
        /\ op'[h] = op[h] \/ (Write(h) /\ op'[h].value = op[h].value)
    BY <1>1, <1>3, WorkMoves
  <2>2. CASE Write(h)
    <3>1. ASSUME NEW key, key = lease.slot PROVE Secret(key)' = op[h].value
      BY <2>2, <3>1, SecretAfter DEF Write
    <3>2. Secret(lease.slot)' = op[h].value
      BY <2>1, <3>1 DEF Secret
    <3> QED
      BY <1>3, <2>1, <2>2, <3>2
  <2>3. CASE op'[h] = op[h]
    <3>1. op[h].pc = "finish" /\ op[h].goal = "activate"
      BY <1>3, <2>1, <2>3
    <3>2. Secret(lease.slot) = op[h].value
      BY <2>1, <3>1 DEF SecretsInv, StoreFits
    <3>3. ASSUME NEW c \in Clients PROVE ~(Clean(c) \/ Wipe(c) \/ Write(c) \/ WriteFails(c))
      <4>1. CASE Clean(c) \/ Wipe(c) \/ Write(c) \/ WriteFails(c)
        <5>1. op[c].pc \in Busy /\ op[c].pc # "finish"
          BY <4>1 DEF Clean, Wipe, Write, WriteFails, At, Busy, Phases
        <5> QED
          BY <1>1, <3>1, <5>1, OneWorks
      <4> QED
        BY <4>1
    <3>4. ASSUME NEW call \in late PROVE lease.slot # call.key
      BY <2>1, <3>4 DEF SecretsInv, LateFits
    <3>5. Secret(lease.slot)' = Secret(lease.slot)
      <4>1. ASSUME NEW key, key = lease.slot PROVE Secret(key)' = Secret(key)
        BY <1>1, <3>3, <3>4, <4>1, StoreMoves
      <4> QED
        BY <2>1, <4>1 DEF Secret
    <3> QED
      BY <2>1, <2>3, <3>2, <3>5
  <2> QED
    BY <2>1, <2>2, <2>3
<1> QED
  BY <1>2, <1>3 DEF StoreFits

-----------------------------------------------------------------------------
(* The theorems.                                                            *)

\* The invariant holds of a connection nothing was written for.
LEMMA InitSecrets == Init => SecretsInv
<1> SUFFICES ASSUME Init PROVE LateFits /\ LegacyFits /\ StoreFits
  BY InitLifecycle DEF SecretsInv
<1>1. late = {} /\ Free /\ Records = {LegacyState}
  BY DEF Init, EngineInit, Free, NoLease, Records, Fenced
<1>2. \A key, acct : ~Selects(LegacyState, key, acct)
  BY DEF Selects, LegacyState
<1> QED
  BY <1>1, <1>2 DEF LateFits, LegacyFits, StoreFits

\* Every step keeps the invariant.
LEMMA NextSecrets == SecretsInv /\ [Next]_vars => SecretsInv'
BY NextLifecycle, LateKept, LegacyKept, StoreKept DEF SecretsInv

\* It holds in every behaviour.
LEMMA InvariantSecrets == Spec => []SecretsInv
BY InitSecrets, NextSecrets, PTL DEF Spec

\* The records an operation may start from are records, and sound.
LEMMA BasesSound ==
    ASSUME SecretsInv, NEW st \in Bases
    PROVE  st \in Records /\ st \in State /\ Sound(st)
BY LifecycleType, RecordsType
DEF SecretsInv, LifecycleInv, RecordInv, Bases, Records, Fenced

\* An active record selects a key that holds its account's secret, through
\* failed commits, failed and late writes, torn-down engines and restarts, for
\* any number of each.  A late deletion is left out: run late_delete shows what
\* it does.
THEOREM ActiveUsable ==
    ASSUME "late delete" \notin Faults
    PROVE  Spec => []ActiveCredentialUsable
<1>1. SecretsInv => ActiveCredentialUsable
  <2> SUFFICES ASSUME SecretsInv, NEW st \in Bases, st.mode = "active"
               PROVE  Secret(st.slot) = st.ident
    BY DEF ActiveCredentialUsable
  <2>1. Selects(st, st.slot, st.ident)
    BY DEF Selects
  <2> QED
    BY <2>1, BasesSound, SelectsType DEF SecretsInv, StoreFits
<1> QED
  BY <1>1, InvariantSecrets, PTL

\* So does the credential a sign-in would replace, until the sign-in ends.
THEOREM CancelUsable ==
    ASSUME "late delete" \notin Faults
    PROVE  Spec => []CancelRestoresUsable
<1>1. SecretsInv => CancelRestoresUsable
  <2> SUFFICES ASSUME SecretsInv, NEW st \in Bases, st.prevSlot # None
               PROVE  Secret(st.prevSlot) = st.prevIdent
    BY DEF CancelRestoresUsable
  <2>1. Selects(st, st.prevSlot, st.prevIdent)
    BY DEF Selects
  <2> QED
    BY <2>1, BasesSound, SelectsType DEF SecretsInv, StoreFits
<1> QED
  BY <1>1, InvariantSecrets, PTL

\* A stored snapshot reports on the account whose secret is selected: it is
\* written for the account of a version that is still valid, and a generation
\* never changes its account.
THEOREM SnapshotsOwned ==
    ASSUME "late delete" \notin Faults
    PROVE  Spec => []SnapshotOwned
<1>1. SecretsInv => SnapshotOwned
  <2> SUFFICES ASSUME SecretsInv, NEW st \in Bases, st.snap # NoSnapshot
               PROVE  st.mode = "active" /\ st.snap.acct = Secret(st.slot)
    BY DEF SnapshotOwned
  <2>1. st.mode = "active" /\ st.snap.acct = st.ident
    BY BasesSound DEF Sound
  <2>2. Selects(st, st.slot, st.ident)
    BY <2>1 DEF Selects
  <2> QED
    BY <2>1, <2>2, BasesSound, SelectsType DEF SecretsInv, StoreFits
<1> QED
  BY <1>1, InvariantSecrets, PTL

\* No step, a late deletion included, touches the legacy secret while the
\* record may still migrate it or return to it.
THEOREM LegacySecretSpared == Spec => LegacySpared
<1>1. SecretsInv /\ [Next]_vars
        => [LegacyNeeded(mem) /\ ~Fenced
              => Secret(LegacyKey)' = Secret(LegacyKey)]_vars
  <2> SUFFICES ASSUME SecretsInv, Next, LegacyNeeded(mem), ~Fenced
               PROVE  Secret(LegacyKey)' = Secret(LegacyKey)
    OBVIOUS
  <2>1. LifecycleInv /\ LegacyNeeded(Basis)
    BY DEF SecretsInv, Basis
  <2>2. ASSUME NEW c \in Clients, Clean(c) \/ Wipe(c) \/ Write(c) \/ WriteFails(c)
        PROVE  /\ ~Free /\ lease.slot # LegacyKey
               /\ Clean(c) => LegacyKey \notin lease.view.cleanup
               /\ ~Wipe(c)
    <3>1. op[c].pc \in Busy
      BY <2>2 DEF Clean, Wipe, Write, WriteFails, At, Busy, Phases
    <3>2. lease.client = c /\ ~Free
      BY <2>1, <3>1, OneWorks
    <3>3. Wipe(c) => mem.mode = "deleted" /\ Sound(mem)
      BY <2>1, <3>2, LifecycleType DEF Wipe, At, LifecycleInv, WorkFits, LeaseFits
    <3> QED
      BY <2>1, <3>2, <3>3
      DEF SecretsInv, LegacyFits, LifecycleInv, LeaseFits, LegacyNeeded, Sound
  <2>3. \A call \in late : call.key # LegacyKey
    BY <2>1 DEF SecretsInv, LateFits, LegacyFits
  <2> QED
    BY <2>1, <2>2, <2>3, StoreMoves
<1> QED
  BY <1>1, InvariantSecrets, PTL DEF Spec, LegacySpared

-----------------------------------------------------------------------------
(* No secret is forgotten.                                                  *)

\* The keys a record names but for the one a cancellation restores, which is
\* always among them.
Names(st) == {None, LegacyKey, st.slot} \cup st.retired
KeptIsRetired(st) == st.prevSlot # None => st.prevSlot \in st.retired

\* The keys that hold a secret, or will when a late write lands.
Stored == DOMAIN store \cup {call.key : call \in {l \in late : l.acct # Absent}}

\* The key of a lease is named before its secret is written.
SlotIsNamed ==
    ~Free /\ op[lease.client].pc = "write" =>
        \A st \in Records : lease.slot \in st.retired

\* What was cleaned stays without a secret until it is acknowledged, but for
\* calls of torn-down engines, whose keys are protected.
CleanedIsGone ==
    ~Free /\ op[lease.client].pc = "ack" => cleaned \cap Stored \subseteq abandoned

LateIsAbandoned == \A call \in late : call.acct # Absent => call.key \in abandoned

NoCompletion ==
    /\ \A c \in Clients : request[c].action # "complete"
    /\ ~Free => lease.action # "complete"

StoredIsNamed == \A st \in Records : KeptIsRetired(st) /\ Stored \subseteq Names(st)

OrphanInv ==
    /\ SecretsInv
    /\ NoCompletion /\ StoredIsNamed /\ SlotIsNamed /\ CleanedIsGone /\ LateIsAbandoned

\* new names what st does.
Keeps(new, st) ==
    /\ st.retired \subseteq new.retired
    /\ Names(st) \subseteq Names(new)
    /\ KeptIsRetired(new)

\* start() retires what it no longer selects.
LEMMA OpenedKeeps ==
    ASSUME TypeOK, NEW action \in Actions, Sound(Basis), KeptIsRetired(Basis)
    PROVE  Keeps(Opened(action), Basis)
<1>1. Basis \in State /\ Fresh \in Nat
  BY RecordsType
<1>2. CASE action = "reconnect"
  <2> DEFINE new == Reconnect(Basis, Fresh)
  <2>1. new.prevSlot = SavePrevious(Basis).prevSlot
    BY <1>1, ReconnectFields
  <2>2. new.retired = Basis.retired \cup ({Basis.slot, LegacyKey, Fresh} \ {None})
    <3>1. SavePrevious(Basis) \in State /\ SavePrevious(Basis).retired = Basis.retired
          /\ SavePrevious(Basis).slot = Basis.slot
      BY <1>1, SavePreviousType DEF SavePrevious, DropPrevious, State
    <3> QED
      BY <1>1, <3>1 DEF Reconnect, RemoveBackup, DropCurrent, Barrier, Retire, State
  <2>3. Basis.mode \in Modes
    BY <1>1 DEF State
  <2>4. Opened(action) = new
    BY <1>2 DEF Opened
  <2> HIDE DEF new
  <2> QED
    BY <1>1, <2>1, <2>2, <2>3, <2>4, SavedFields
    DEF Keeps, Names, KeptIsRetired, Modes, None, LegacyKey
<1>3. CASE action = "delete"
  <2> DEFINE new == Delete(Basis, Fresh)
  <2>1. new.prevSlot = None
    BY <1>1, DeleteFields
  <2>2. new.retired = Basis.retired \cup ({Basis.slot, LegacyKey} \ {None})
    BY <1>1 DEF Delete, RemoveBackup, DropCurrent, DropPrevious, Barrier, Retire, State
  <2>3. Opened(action) = new
    BY <1>3 DEF Opened
  <2> HIDE DEF new
  <2> QED
    BY <2>1, <2>2, <2>3 DEF Keeps, Names, KeptIsRetired
<1>4. CASE action = "refresh"
  BY <1>1, <1>4 DEF Opened, Retire, State, Keeps, Names, KeptIsRetired
<1>5. CASE action \notin {"reconnect", "delete", "refresh"}
  BY <1>5 DEF Opened, Keeps
<1> QED
  BY <1>2, <1>3, <1>4, <1>5

\* So do an activation, a purge and a cancellation.
LEMMA FinishedKeeps ==
    ASSUME TypeOK, NEW goal, NEW acct, Sound(mem), KeptIsRetired(mem)
    PROVE  Keeps(Finished(goal, acct), mem)
<1>1. mem \in State /\ Fresh \in Nat
  BY RecordsType
<1>2. Keeps(Purge(mem, Fresh), mem)
  <2>1. Purge(mem, Fresh).retired = mem.retired \cup ({mem.slot} \ {None})
    BY <1>1 DEF Purge, RemoveBackup, DropCurrent, Barrier, Retire, State
  <2> QED
    BY <1>1, <2>1, PurgeFields DEF Keeps, Names, KeptIsRetired
<1>3. Keeps(Cancel(mem), mem)
  <2> DEFINE new == Cancel(mem)
  <2>1. new.prevSlot = None /\ (mem.prevSlot = None => new.slot = mem.slot)
    BY <1>1, CancelFields
  <2>2. new.retired = mem.retired
    BY <1>1 DEF Cancel, BindBackup, DropPrevious, State
  <2>3. mem.prevSlot # None => mem.slot = None
    BY DEF Sound
  <2> HIDE DEF new
  <2>4. Keeps(new, mem)
    BY <2>1, <2>2, <2>3 DEF Keeps, Names, KeptIsRetired
  <2> QED
    BY <2>4 DEF new
<1>4. Keeps(mem, mem)
  BY DEF Keeps
<1>5. Keeps(Activate(mem, lease.action, lease.slot, acct, Fresh), mem)
  <2> DEFINE new == Activate(mem, lease.action, lease.slot, acct, Fresh)
  <2>1. new.prevSlot = None
    BY <1>1, ActivateFields
  <2>2. mem.retired \cup ({mem.slot} \ {None}) \subseteq new.retired
    BY <1>1 DEF Activate, BindBackup, DropPrevious, Retire, State
  <2> HIDE DEF new
  <2>3. Keeps(new, mem)
    BY <2>1, <2>2 DEF Keeps, Names, KeptIsRetired
  <2> QED
    BY <2>3 DEF new
<1> QED
  BY <1>2, <1>3, <1>4, <1>5 DEF Finished

\* And so do a migration, the end of an owner, and a snapshot.
LEMMA OthersKeep ==
    ASSUME NEW st \in State, KeptIsRetired(st), NEW id \in Nat
    PROVE  /\ Keeps(st, st)
           /\ Keeps(Migrate(st, id), st)
           /\ Keeps(Abandon(st, id), st)
           /\ Keeps(ClearSnapshot(st, id), st)
           /\ \A acct, at : Keeps(WriteSnapshot(st, acct, at), st)
<1>1. Keeps(Abandon(st, id), st)
  <2>1. Abandon(st, id).retired = st.retired \cup ({st.slot} \ {None})
    BY DEF Abandon, DropCurrent, DropPrevious, Barrier, Retire, State
  <2> QED
    BY <2>1, AbandonFields DEF Keeps, Names, KeptIsRetired
<1>2. Keeps(Migrate(st, id), st)
  <2> DEFINE new == Migrate(st, id)
  <2>1. new.retired = st.retired \cup ({id} \ {None}) /\ new.slot = st.slot
        /\ new.prevSlot = st.prevSlot
    BY DEF Migrate, Barrier, Retire, State
  <2> HIDE DEF new
  <2>2. Keeps(new, st)
    BY <2>1 DEF Keeps, Names, KeptIsRetired
  <2> QED
    BY <2>2 DEF new
<1>3. Keeps(ClearSnapshot(st, id), st)
  BY DEF ClearSnapshot, State, Keeps, Names, KeptIsRetired
<1>4. \A acct, at : Keeps(WriteSnapshot(st, acct, at), st)
  BY DEF WriteSnapshot, State, Keeps, Names, KeptIsRetired
<1> QED
  BY <1>1, <1>2, <1>3, <1>4 DEF Keeps

\* An acknowledgement gives up only keys that hold nothing.
LEMMA AckKeeps ==
    ASSUME OrphanInv, NEW c \in Clients, Ack(c)
    PROVE  LET new == Acknowledge(mem, cleaned, lease.slot, abandoned)
           IN  KeptIsRetired(new) /\ Stored \subseteq Names(new)
<1> DEFINE gone == cleaned \ Protected(mem, lease.slot, abandoned)
           new == Acknowledge(mem, cleaned, lease.slot, abandoned)
<1>1. mem \in State /\ mem \in Records /\ LifecycleInv
  BY LifecycleType DEF OrphanInv, SecretsInv, Records
<1>2. op[c].pc \in Busy /\ op[c].pc = "ack"
  BY DEF Ack, At, Busy, Phases
<1>3. lease.client = c /\ ~Free
  BY <1>1, <1>2, OneWorks
<1>4. cleaned \cap Stored \subseteq abandoned
  BY <1>2, <1>3 DEF OrphanInv, CleanedIsGone
<1>5. gone \cap Stored = {} /\ mem.prevSlot \notin gone
  BY <1>4 DEF Protected
<1>6. new.retired = mem.retired \ gone /\ new.slot = mem.slot /\ new.prevSlot = mem.prevSlot
  BY <1>1 DEF Acknowledge, State
<1> HIDE DEF new, gone
<1>7. KeptIsRetired(new) /\ Stored \subseteq Names(new)
  BY <1>1, <1>5, <1>6 DEF OrphanInv, StoredIsNamed, KeptIsRetired, Names
<1> QED
  BY <1>7 DEF new

\* A record after a step other than an acknowledgement names what one before it did.
LEMMA NamesMove ==
    ASSUME OrphanInv, [Next]_vars, NEW st \in Records'
    PROVE  \/ \E old \in Records : Keeps(st, old)
           \/ (\E c \in Clients : Ack(c)) /\ KeptIsRetired(st) /\ Stored \subseteq Names(st)
<1>1. /\ TypeOK /\ mem \in State /\ Fresh \in Nat /\ Sound(mem) /\ mem \in Records
      /\ Basis \in Records /\ Sound(Basis) /\ LifecycleInv
  BY LifecycleType, RecordsType DEF Records, RecordInv, OrphanInv, SecretsInv
<1>2. \A r \in Records : KeptIsRetired(r) /\ Keeps(r, r) /\ Stored \subseteq Names(r)
  BY DEF OrphanInv, StoredIsNamed, Keeps
<1>3. ASSUME NEW base \in Records, NEW new, Keeps(new, base),
             mem' \in {mem, new}, disk' \in {disk, new},
             prior' = prior \/ Fence \/ prior' = NoPrior
      PROVE  \E old \in Records : Keeps(st, old)
  BY <1>1, <1>2, <1>3, RecordsAfter
<1>4. ASSUME UNCHANGED records PROVE \E old \in Records : Keeps(st, old)
  BY <1>2, <1>4 DEF records, Records, Fenced
<1>5. ASSUME NEW c \in Clients, Asking(c) \/ Fetching(c)
      PROVE  UNCHANGED records
  BY <1>5
  DEF Asking, AskRead, AskReconnect, AskDelete, AskComplete, AskCancel,
      AskRefresh, AskDeleteIfCurrent, Ask, Enqueue, Fetching, StartFetch,
      EndFetch, AcquireFetch, ReleaseFetch
<1>6. ASSUME NEW c \in Clients, Answering(c)
      PROVE  \E old \in Records : Keeps(st, old)
  <2> DEFINE new == Opened(request[c].action)
  <2>1. request[c].action \in Actions
    <3>1. queue[c] # {}
      BY <1>6 DEF Answering, Granted, Refused, RefusedByCommit, Grant, Refuse,
                  GrantFails, Starting, IsHead
    <3> QED
      BY <1>1, <3>1, LifecycleType DEF TypeInv, Links, Linked, Request
  <2>2. Keeps(new, Basis)
    BY <1>1, <1>2, <2>1, OpenedKeeps
  <2>3. CASE Granted(c)
    <3>1. mem' \in {mem, new} /\ disk' \in {disk, new}
          /\ (prior' = prior \/ prior' = NoPrior)
      BY <2>3 DEF Granted, Grant, Committed
    <3> HIDE DEF new
    <3> QED
      BY <1>1, <1>3, <2>2, <3>1
  <2>4. CASE RefusedByCommit(c)
    <3>1. mem' \in {mem, new} /\ disk' \in {disk, new} /\ Fence
      BY <2>4 DEF RefusedByCommit, GrantFails, CommitFailed
    <3> HIDE DEF new
    <3> QED
      BY <1>1, <1>3, <2>2, <3>1
  <2>5. CASE Refused(c)
    BY <1>4, <2>5 DEF Refused, Refuse
  <2> QED
    BY <1>6, <2>3, <2>4, <2>5 DEF Answering
<1>7. ASSUME NEW c \in Clients, Finishes(c) \/ FinishesByException(c)
      PROVE  \E old \in Records : Keeps(st, old)
  <2> DEFINE new == Finished(op[c].goal, op[c].value)
  <2>1. mem' \in {mem, new} /\ disk' \in {disk, new} /\ (prior' = prior \/ Fence)
    BY <1>7
    DEF Finishes, FinishesByException, Finish, FinishFails, Committed, CommitFailed
  <2>2. Keeps(new, mem)
    BY <1>1, <1>2, FinishedKeeps
  <2> HIDE DEF new
  <2> QED
    BY <1>1, <1>3, <2>1, <2>2
<1>8. ASSUME NEW c \in Clients, Prepare(c)
      PROVE  \E old \in Records : Keeps(st, old)
  <2> DEFINE new == Migrate(mem, Fresh)
  <2>1. mem' \in {mem, new} /\ disk' \in {disk, new} /\ (prior' = prior \/ Fence)
    BY <1>8 DEF Prepare, PrepareMigration, PrepareMigrationFails, Committed,
                CommitFailed
  <2>2. Keeps(new, mem)
    BY <1>1, <1>2, OthersKeep
  <2> HIDE DEF new
  <2> QED
    BY <1>1, <1>3, <2>1, <2>2
<1>9. ASSUME NEW c \in Clients, Ack(c)
      PROVE  \/ \E old \in Records : Keeps(st, old)
             \/ KeptIsRetired(st) /\ Stored \subseteq Names(st)
  <2> DEFINE new == Acknowledge(mem, cleaned, lease.slot, abandoned)
  <2>1. mem' \in {mem, new} /\ disk' \in {disk, new} /\ prior' = prior
    BY <1>9 DEF Ack, AcknowledgeCleanup, Committed, CommitFailed
  <2>2. KeptIsRetired(new) /\ Stored \subseteq Names(new)
    BY <1>9, AckKeeps
  <2>3. st \in Records \/ st = new
    BY <1>1, <2>1, RecordsAfter
  <2> HIDE DEF new
  <2> QED
    BY <1>2, <2>2, <2>3
<1>10. ASSUME NEW c \in Clients,
              Clean(c) \/ Look(c) \/ LookFails(c) \/ Write(c) \/ WriteFails(c)
              \/ Wipe(c) \/ Report(c)
       PROVE  UNCHANGED records
  BY <1>10 DEF Clean, Look, LookFails, Write, WriteFails, Wipe, Report, NoCall
<1>11. ASSUME (\E c \in Clients : StoreReport(c)) \/ ClearCache
       PROVE  \E old \in Records : Keeps(st, old)
  <2>1. PICK new : /\ Keeps(new, mem)
                   /\ mem' \in {mem, new} /\ disk' \in {disk, new} /\ prior' = prior
    BY <1>1, <1>2, <1>11, OthersKeep
    DEF StoreReport, ClearCache, WriteCurrentSnapshot, ClearCurrentSnapshot,
        CommitSnapshot, Committed, CommitFailed
  <2> QED
    BY <1>1, <1>3, <2>1
<1>12. ASSUME NEW o \in Owners, TearDown(o)
       PROVE  \E old \in Records : Keeps(st, old)
  <2> DEFINE new == Abandon(mem, Fresh)
  <2>1. mem' \in {mem, new} /\ disk' \in {disk, new} /\ (prior' = prior \/ Fence)
    BY <1>12 DEF TearDown, Detach, DetachFails
  <2>2. Keeps(new, mem)
    BY <1>1, <1>2, OthersKeep
  <2> HIDE DEF new
  <2> QED
    BY <1>1, <1>3, <2>1, <2>2
<1>13. CASE Die
  BY <1>2, <1>13 DEF Die, ProcessDeath, Records, Fenced
<1>14. CASE Land \/ UNCHANGED vars
  BY <1>4, <1>14 DEF Land, NoCall, vars, engineVars
<1> QED
  BY <1>4, <1>5, <1>6, <1>7, <1>8, <1>9, <1>10, <1>11, <1>12, <1>13, <1>14
  DEF Next, Working, Caching, Quiet

\* A key comes to hold a secret only under the lease whose holder writes it.
LEMMA StoredMoves ==
    ASSUME OrphanInv, [Next]_vars, NEW key \in Stored', key \notin Stored
    PROVE  ~Free /\ op[lease.client].pc = "write" /\ key = lease.slot
<1>1. LifecycleInv /\ op \in [Clients -> Operation]
  BY LifecycleType DEF OrphanInv, SecretsInv
<1>2. ASSUME NEW c \in Clients, Write(c) \/ WriteFails(c)
      PROVE  lease.client = c /\ ~Free /\ op[c].pc = "write"
  <2>1. op[c].pc \in Busy /\ op[c].pc = "write"
    BY <1>2 DEF Write, WriteFails, At, Busy, Phases
  <2> QED
    BY <1>1, <2>1, OneWorks
<1>3. CASE key \in DOMAIN store'
  <2>0. key \notin DOMAIN store
    BY DEF Stored
  <2>2. CASE store' = store
    BY <1>3, <2>0, <2>2
  <2>3. CASE \E keys : Remove(keys)
    BY <1>3, <2>0, <2>3 DEF Remove
  <2>4. CASE \E c \in Clients : (Write(c) \/ WriteFails(c)) /\ store' # store
    <3>1. PICK c \in Clients : (Write(c) \/ WriteFails(c)) /\ store' # store
      BY <2>4
    <3>2. Put(lease.slot, op[c].value)
      BY <3>1 DEF Write, WriteFails
    <3>3. key = lease.slot
      BY <1>3, <2>0, <3>2 DEF Put
    <3> QED
      BY <1>2, <3>1, <3>3
  <2>5. CASE Land
    <3>1. PICK call \in late : IF call.acct = Absent THEN Remove({call.key})
                               ELSE Put(call.key, call.acct)
      BY <2>5 DEF Land
    <3>2. call.acct # Absent /\ key = call.key
      BY <1>3, <2>0, <3>1 DEF Remove, Put
    <3> QED
      BY <3>2 DEF Stored
  <2>6. ASSUME NEW c \in Clients,
               Asking(c) \/ Answering(c) \/ Fetching(c) \/ Caching(c)
        PROVE  store' = store
    BY <2>6
    DEF Asking, AskRead, AskReconnect, AskDelete, AskComplete, AskCancel,
        AskRefresh, AskDeleteIfCurrent, Ask, Answering, Granted, Refused,
        RefusedByCommit, Fetching, StartFetch, EndFetch, Caching, Report,
        StoreReport, secrets
  <2>7. ASSUME NEW c \in Clients, Working(c)
        PROVE  \/ store' = store \/ \E keys : Remove(keys)
               \/ (Write(c) \/ WriteFails(c)) /\ store' # store
    BY <2>7
    DEF Working, Clean, Ack, Look, LookFails, Prepare, Wipe, Finishes,
        FinishesByException, secrets
  <2>8. (\E o \in Owners : TearDown(o)) \/ ClearCache \/ Die \/ UNCHANGED vars
          => store' = store
    BY DEF TearDown, ClearCache, Die, vars, secrets
  <2> QED
    BY <2>2, <2>3, <2>4, <2>5, <2>6, <2>7, <2>8 DEF Next, Quiet
<1>4. CASE key \notin DOMAIN store'
  <2>1. PICK call \in late' : call.acct # Absent /\ key = call.key
    BY <1>4 DEF Stored
  <2>2. call \notin late
    BY <2>1 DEF Stored
  <2>3. PICK o \in Owners : \E c \in OwnedBy(o) : \E k \in Unlanded(c) :
              late' = late \cup {k}
    BY <1>1, <2>1, <2>2, LateMoves
  <2>4. PICK c \in OwnedBy(o) : call \in Unlanded(c)
    BY <2>1, <2>2, <2>3
  <2> QED
    BY <1>1, <2>1, <2>4, UnlandedCalls DEF OwnedBy
<1> QED
  BY <1>3, <1>4

\* What held a secret, and what is to be written, is named by every record.
LEMMA NamedKept ==
    ASSUME OrphanInv, [Next]_vars
    PROVE  StoredIsNamed'
<1> SUFFICES ASSUME NEW st \in Records'
             PROVE  KeptIsRetired(st) /\ Stored' \subseteq Names(st)
  BY DEF StoredIsNamed, KeptIsRetired, Names
<1>1. LifecycleInv
  BY DEF OrphanInv, SecretsInv
<1>2. CASE \E old \in Records : Keeps(st, old)
  <2>1. PICK old \in Records : Keeps(st, old)
    BY <1>2
  <2>2. \A key \in Stored' : key \in Names(old)
    BY StoredMoves DEF OrphanInv, StoredIsNamed, SlotIsNamed, Names
  <2> QED
    BY <2>1, <2>2 DEF Keeps
<1>3. CASE (\E c \in Clients : Ack(c)) /\ KeptIsRetired(st) /\ Stored \subseteq Names(st)
  <2>1. PICK c \in Clients : Ack(c)
    BY <1>3
  <2>2. op[c].pc \in Busy /\ op[c].pc = "ack"
    BY <2>1 DEF Ack, At, Busy, Phases
  <2>3. lease.client = c
    BY <1>1, <2>2, OneWorks
  <2>4. Stored' \subseteq Stored
    BY <2>2, <2>3, StoredMoves
  <2> QED
    BY <1>3, <2>4
<1> QED
  BY <1>2, <1>3, NamesMove

\* A holder comes to write, or to acknowledge, only by a grant, a migration or a
\* cleanup.
LEMMA WriteBegins ==
    ASSUME LifecycleInv, [Next]_vars, ~Free, lease' = lease,
           ~\E c \in Clients : Granted(c) \/ Prepare(c)
    PROVE  LET h == lease.client
           IN  /\ op'[h].pc = "write" => op[h].pc = "write"
               /\ op'[h].pc = "ack" => op[h].pc = "ack" \/ Clean(h)
<1> DEFINE h == lease.client
<1>1. /\ op \in [Clients -> Operation] /\ lease \in Lease
      /\ h \in Clients /\ op[h].pc \in Busy
  BY LifecycleType DEF LifecycleInv, WorkFits
<1>2. ASSUME NEW c \in Clients, Asking(c) PROVE op'[h] = op[h]
  <2>1. c # h
    BY <1>1, <1>2
    DEF Asking, AskRead, AskReconnect, AskDelete, AskComplete, AskCancel,
        AskRefresh, AskDeleteIfCurrent, Ask, Idle, At, Busy, Phases
  <2> QED
    BY <1>1, <1>2, <2>1
    DEF Asking, AskRead, AskReconnect, AskDelete, AskComplete, AskCancel,
        AskRefresh, AskDeleteIfCurrent, Queued, QueuedWith
<1>3. ASSUME NEW c \in Clients, Answering(c) PROVE FALSE
  BY <1>3
  DEF Answering, Refused, RefusedByCommit, Refuse, GrantFails, Starting
<1>4. ASSUME NEW c \in Clients, Working(c)
      PROVE  c = h /\ op'[h].pc # "write" /\ (op'[h].pc = "ack" => Clean(h))
  <2>1. op[c].pc \in Busy
    BY <1>4
    DEF Working, Clean, Ack, Look, LookFails, Prepare, Write, WriteFails, Wipe,
        Finishes, FinishesByException, At, Busy, Phases
  <2>2. c = h
    BY <2>1, OneWorks
  <2>3. CASE Clean(c)
    <3>1. PICK pc \in {"look", "finish", "ack"} : Go(c, pc, op[c].goal)
      BY <2>3 DEF Clean, AfterCleanup
    <3> QED
      BY <1>1, <2>2, <2>3, <3>1 DEF Go, Operation
  <2>4. CASE Ack(c)
    <3>1. PICK pc \in {"look", "finish"} : Go(c, pc, op[c].goal)
      BY <2>4 DEF Ack, AfterCleanup
    <3> QED
      BY <1>1, <2>2, <3>1 DEF Go, Operation
  <2>5. CASE Look(c)
    <3>1. AfterLook[1] \in {"finish", "prepare"}
      BY DEF AfterLook
    <3>2. op'[h].pc \in {"finish", "prepare", "clean"}
      BY <1>1, <2>2, <2>5, <3>1 DEF Look, Release, Go, Operation
    <3> QED
      BY <2>2, <3>2
  <2>6. CASE LookFails(c) \/ Write(c) \/ WriteFails(c) \/ Wipe(c)
    BY <1>1, <2>2, <2>6
    DEF LookFails, Write, WriteFails, Wipe, Release, Go, Operation
  <2>7. CASE Finishes(c) \/ FinishesByException(c)
    BY <1>1, <2>2, <2>7 DEF Finishes, FinishesByException, Operation
  <2> QED
    BY <1>4, <2>3, <2>4, <2>5, <2>6, <2>7 DEF Working
<1>5. ASSUME NEW c \in Clients, Fetching(c) \/ Caching(c) PROVE op'[h] = op[h]
  <2>1. c # h
    BY <1>1, <1>5
    DEF Fetching, StartFetch, EndFetch, Caching, Report, StoreReport, Idle, At,
        Busy, Phases
  <2> QED
    BY <1>1, <1>5, <2>1
    DEF Fetching, StartFetch, EndFetch, Caching, Report, StoreReport
<1>6. ASSUME NEW o \in Owners, TearDown(o) PROVE op'[h] = op[h]
  <2>1. h \notin OwnedBy(o)
    BY <1>6 DEF TearDown, Detach, DetachFails, DetachLease, Free, NoLease
  <2> QED
    BY <1>1, <1>6, <2>1 DEF TearDown, Reset
<1>7. ~Die
  BY DEF Die, ProcessDeath, Free, NoLease
<1>8. ClearCache \/ Land \/ UNCHANGED vars => op'[h] = op[h]
  BY DEF ClearCache, Land, vars
<1>9. op'[h] = op[h] \/ (op'[h].pc # "write" /\ (op'[h].pc = "ack" => Clean(h)))
  <2> HIDE DEF h
  <2> QED
    BY <1>2, <1>3, <1>4, <1>5, <1>6, <1>7, <1>8 DEF Next, Quiet
<1> QED
  BY <1>9

\* A write is to come only after a refresh or a migration named its key.
LEMMA SlotKept ==
    ASSUME OrphanInv, [Next]_vars
    PROVE  SlotIsNamed'
<1> SUFFICES ASSUME ~Free', op'[lease'.client].pc = "write", NEW st \in Records'
             PROVE  lease'.slot \in st.retired
  BY DEF SlotIsNamed
<1>1. /\ LifecycleInv /\ TypeOK /\ op \in [Clients -> Operation]
      /\ mem \in State /\ Fresh \in Nat /\ Fresh # None
      /\ ~Free => lease.client \in Clients /\ lease \in Lease
      /\ Basis \in State
  BY LifecycleType, RecordsType DEF OrphanInv, SecretsInv, None
<1>2. CASE \E c \in Clients : Granted(c)
  <2>1. PICK c \in Clients : Granted(c)
    BY <1>2
  <2>2. lease'.client = c
    BY <2>1 DEF Granted, Grant
  <2>3. request[c].action \in Actions
    <3>1. queue[c] # {}
      BY <2>1 DEF Granted, Grant, Starting, IsHead
    <3> QED
      BY <1>1, <3>1, LifecycleType DEF TypeInv, Links, Linked, Request
  <2>4. request[c].action \in {"refresh", "complete"}
    BY <1>1, <2>1, <2>2, <2>3 DEF Granted, Go, Operation, Actions
  <2>5. request[c].action = "refresh"
    BY <2>4 DEF OrphanInv, NoCompletion
  <2>6. lease'.slot = Fresh /\ mem' = Retire(Basis, {Fresh}) /\ disk' = mem' /\ prior' = prior
    BY <2>1, <2>5 DEF Granted, Grant, OpenedSlot, Opened, Opening, Committed
  <2>7. ~Fenced
    BY <2>1, <2>5 DEF Granted, Grant, Accepts
  <2>8. mem'.retired = Basis.retired \cup {Fresh}
    BY <1>1, <2>6 DEF Retire, State
  <2> QED
    BY <2>6, <2>7, <2>8 DEF Records, Fenced
<1>3. CASE \E c \in Clients : Prepare(c)
  <2>1. PICK c \in Clients : Prepare(c)
    BY <1>3
  <2>2. op[c].pc \in Busy /\ op[c].pc = "prepare"
    BY <2>1 DEF Prepare, At, Busy, Phases
  <2>3. lease.client = c /\ lease'.client = c /\ lease'.slot = Fresh
    BY <1>1, <2>1, <2>2, OneWorks
    DEF Prepare, PrepareMigration, PrepareMigrationFails, Lease
  <2>4. PrepareMigration(c)
    BY <1>1, <2>1, <2>3 DEF Prepare, Release, Go, Operation
  <2>5. ~Fenced
    BY <1>1, <2>2, <2>3, OneWorks DEF LifecycleInv, SafetyInv, HolderGivesUp
  <2>6. mem' = Migrate(mem, Fresh) /\ disk' = mem' /\ prior' = prior
    BY <2>4 DEF PrepareMigration, Committed
  <2>7. Fresh \in mem'.retired
    BY <1>1, <2>6 DEF Migrate, Retire, Barrier, State
  <2> QED
    BY <2>3, <2>5, <2>6, <2>7 DEF Records, Fenced
<1>4. CASE ~\E c \in Clients : Granted(c) \/ Prepare(c)
  <2>1. lease' = lease /\ ~Free
    BY <1>1, <1>4, LeaseMoves DEF Free, NoLease
  <2>2. op[lease.client].pc = "write"
    BY <1>1, <1>4, <2>1, WriteBegins
  <2>3. \A r \in Records : lease.slot \in r.retired
    BY <2>1, <2>2 DEF OrphanInv, SlotIsNamed
  <2>4. ASSUME NEW c \in Clients, Ack(c) PROVE FALSE
    <3>1. op[c].pc \in Busy /\ op[c].pc = "ack"
      BY <2>4 DEF Ack, At, Busy, Phases
    <3> QED
      BY <1>1, <2>2, <3>1, OneWorks
  <2>5. PICK old \in Records : Keeps(st, old)
    BY <2>4, NamesMove
  <2> QED
    BY <2>1, <2>3, <2>5 DEF Keeps
<1> QED
  BY <1>2, <1>3, <1>4

\* A late write is to the slot of a lease that was abandoned.
LEMMA AbandonedKept ==
    ASSUME OrphanInv, [Next]_vars
    PROVE  LateIsAbandoned' /\ (Die \/ abandoned \subseteq abandoned')
<1>1. LifecycleInv /\ op \in [Clients -> Operation]
  BY LifecycleType DEF OrphanInv, SecretsInv
<1>2. Die \/ abandoned \subseteq abandoned'
  <2>1. ASSUME NEW c \in Clients, Asking(c) \/ Answering(c) \/ Fetching(c) \/ Caching(c)
        PROVE  abandoned' = abandoned
    BY <2>1
    DEF Asking, AskRead, AskReconnect, AskDelete, AskComplete, AskCancel,
        AskRefresh, AskDeleteIfCurrent, Ask, Enqueue, Fetching, StartFetch,
        EndFetch, AcquireFetch, ReleaseFetch, Caching, Report, StoreReport,
        NoCall, WriteCurrentSnapshot, CommitSnapshot, leases, Answering, Granted,
        Grant, Refused, Refuse, RefusedByCommit, GrantFails, Starting
  <2>2. ASSUME NEW c \in Clients, Working(c) PROVE abandoned' = abandoned
    BY <2>2
    DEF Working, Clean, Ack, Look, LookFails, Prepare, PrepareMigration,
        PrepareMigrationFails, Write, WriteFails, Wipe, NoCall, AcknowledgeCleanup,
        Finishes, FinishesByException, Finish, FinishFails, Finishing, leases
  <2>3. ASSUME NEW o \in Owners, TearDown(o) PROVE abandoned \subseteq abandoned'
    BY <2>3 DEF TearDown, Detach, DetachFails, DetachLease, leases
  <2>4. ClearCache \/ Land \/ UNCHANGED vars => abandoned' = abandoned
    BY DEF ClearCache, ClearCurrentSnapshot, CommitSnapshot, Land, NoCall, vars,
           engineVars, leases
  <2> QED
    BY <2>1, <2>2, <2>3, <2>4 DEF Next, Quiet
<1>3. ASSUME NEW call \in late', call.acct # Absent
      PROVE  call.key \in abandoned'
  <2>1. ~Die
    BY <1>3 DEF Die
  <2>2. CASE call \in late
    BY <1>2, <1>3, <2>1, <2>2 DEF OrphanInv, LateIsAbandoned
  <2>3. CASE call \notin late
    <3>1. PICK o \in Owners : \E c \in OwnedBy(o) : TearDown(o) /\ call \in Unlanded(c)
      BY <1>1, <1>3, <2>3, LateMoves
    <3>2. PICK c \in OwnedBy(o) : TearDown(o) /\ call \in Unlanded(c)
      BY <3>1
    <3>3. c \in Clients
      BY DEF OwnedBy
    <3>4. lease.client = c /\ ~Free /\ op[c].pc = "write" /\ call.key = lease.slot
      BY <1>1, <1>3, <3>2, <3>3, UnlandedCalls
    <3>5. lease.slot # None
      BY <1>1, <3>4 DEF LifecycleInv, WorkFits
    <3>6. abandoned' = abandoned \cup ({lease.slot} \ {None})
      BY <3>2, <3>4 DEF TearDown, Detach, DetachFails, DetachLease
    <3> QED
      BY <3>4, <3>5, <3>6
  <2> QED
    BY <2>2, <2>3
<1> QED
  BY <1>2, <1>3 DEF LateIsAbandoned

\* What a holder deleted comes back only by a late write.
LEMMA CleanedKept ==
    ASSUME OrphanInv, [Next]_vars
    PROVE  CleanedIsGone'
<1> SUFFICES ASSUME ~Free', op'[lease'.client].pc = "ack"
             PROVE  cleaned' \cap Stored' \subseteq abandoned'
  BY DEF CleanedIsGone
<1>1. /\ LifecycleInv /\ op \in [Clients -> Operation]
      /\ ~Free => lease.client \in Clients /\ lease \in Lease
  BY LifecycleType DEF OrphanInv, SecretsInv
<1>2. ~\E c \in Clients : Granted(c) \/ Prepare(c)
  <2>1. ASSUME NEW c \in Clients, Granted(c) PROVE FALSE
    <3>1. lease'.client = c
      BY <2>1 DEF Granted, Grant
    <3> QED
      BY <1>1, <2>1, <3>1 DEF Granted, Go, Operation
  <2>2. ASSUME NEW c \in Clients, Prepare(c) PROVE FALSE
    <3>1. lease'.client = c
      BY <1>1, <2>2, ClientAssumption
      DEF Prepare, PrepareMigration, PrepareMigrationFails, Holds, Free, Lease
    <3> QED
      BY <1>1, <2>2, <3>1 DEF Prepare, Release, Go, Operation
  <2> QED
    BY <2>1, <2>2
<1>3. lease' = lease /\ ~Free
  BY <1>1, <1>2, LeaseMoves DEF Free, NoLease
<1> DEFINE h == lease.client
<1>4. op[h].pc = "ack" \/ Clean(h)
  BY <1>1, <1>2, <1>3, WriteBegins
<1>5. ~Die
  BY <1>3 DEF Die, ProcessDeath, Free, NoLease
<1>6. abandoned \subseteq abandoned'
  BY <1>5, AbandonedKept
<1>7. CASE Clean(h)
  <2>1. PICK keys : Remove(keys) /\ cleaned' = keys /\ late' = late
    BY <1>7 DEF Clean
  <2>2. ASSUME NEW key \in cleaned' \cap Stored' PROVE key \in abandoned
    <3>1. key \notin DOMAIN store'
      BY <2>1, <2>2 DEF Remove
    <3> QED
      BY <2>1, <2>2, <3>1 DEF Stored, OrphanInv, LateIsAbandoned
  <2> QED
    BY <1>6, <2>2
<1>8. CASE op[h].pc = "ack"
  <2>1. Stored' \subseteq Stored
    BY <1>8, StoredMoves
  <2>2. cleaned' \subseteq cleaned
    <3>1. ASSUME NEW c \in Clients, Asking(c) \/ Answering(c) \/ Fetching(c) \/ Caching(c)
          PROVE  cleaned' = cleaned
      BY <3>1
      DEF Asking, AskRead, AskReconnect, AskDelete, AskComplete, AskCancel,
          AskRefresh, AskDeleteIfCurrent, Ask, Answering, Granted, Refused,
          RefusedByCommit, Fetching, StartFetch, EndFetch, Caching, Report,
          StoreReport, secrets
    <3>2. ASSUME NEW c \in Clients, Clean(c) PROVE FALSE
      <4>1. op[c].pc \in Busy /\ op[c].pc = "clean"
        BY <3>2 DEF Clean, At, Busy, Phases
      <4> QED
        BY <1>1, <1>8, <4>1, OneWorks
    <3>3. ASSUME NEW c \in Clients, Working(c) PROVE cleaned' \in {cleaned, {}}
      BY <3>2, <3>3
      DEF Working, Ack, Look, LookFails, Prepare, Write, WriteFails, Wipe,
          Finishes, FinishesByException, secrets
    <3>4. (\E o \in Owners : TearDown(o)) \/ ClearCache \/ Land \/ UNCHANGED vars
            => cleaned' \in {cleaned, {}}
      BY DEF TearDown, Reset, ClearCache, Land, vars, secrets
    <3> QED
      BY <1>5, <3>1, <3>3, <3>4 DEF Next, Quiet
  <2>3. cleaned \cap Stored \subseteq abandoned
    BY <1>3, <1>8 DEF OrphanInv, CleanedIsGone
  <2> QED
    BY <1>6, <2>1, <2>2, <2>3
<1> QED
  BY <1>4, <1>7, <1>8

\* Without completions in the workload none is asked for.
LEMMA NoCompletionKept ==
    ASSUME "complete" \notin Workload, OrphanInv, [Next]_vars
    PROVE  NoCompletion'
<1>1. /\ LifecycleInv /\ NoCompletion /\ TypeOK
      /\ request \in [Clients -> Request \cup {NoRequest}]
  BY LifecycleType DEF OrphanInv, SecretsInv, EngineTypeOK
<1>2. \A c \in Clients : request'[c] = request[c] \/ request'[c].action # "complete"
  <2>0. NoRequest.action # "complete"
    BY DEF NoRequest
  <2>1. ASSUME NEW d \in Clients, Asking(d)
        PROVE  \E r : r.action # "complete" /\ request' = [request EXCEPT ![d] = r]
    <3>1. ASSUME NEW action, action # "complete", NEW v, NEW s, Ask(d, action, v, s)
          PROVE  \E r : r.action # "complete" /\ request' = [request EXCEPT ![d] = r]
      <4> DEFINE r == [action |-> action, expected |-> v, stamped |-> s,
                       fetch |-> InFetch(d) /\ s /\ action \in {"refresh", "delete"}]
      <4>1. r.action # "complete" /\ request' = [request EXCEPT ![d] = r]
        BY <3>1 DEF Ask, Enqueue
      <4> QED
        BY <4>1
    <3>2. ~AskComplete(d)
      BY DEF AskComplete
    <3> QED
      BY <2>1, <3>1, <3>2
      DEF Asking, AskRead, AskReconnect, AskDelete, AskCancel, AskRefresh,
          AskDeleteIfCurrent
  <2>2. ASSUME NEW d \in Clients, Answering(d)
        PROVE  request' = [request EXCEPT ![d] = NoRequest]
    BY <2>2 DEF Answering, Granted, Grant, Refused, Refuse, RefusedByCommit,
                GrantFails, Starting
  <2>3. ASSUME NEW d \in Clients, Working(d) \/ Fetching(d) \/ Caching(d)
        PROVE  request' = request
    BY <2>3
    DEF Working, Clean, Ack, Look, LookFails, Prepare, PrepareMigration,
        PrepareMigrationFails, Write, WriteFails, Wipe, NoCall, AcknowledgeCleanup,
        Finishes, FinishesByException, Finish, FinishFails, Finishing, waiting,
        Fetching, StartFetch, EndFetch, AcquireFetch, ReleaseFetch, Caching, Report,
        StoreReport, WriteCurrentSnapshot, CommitSnapshot
  <2>4. ASSUME NEW o \in Owners, TearDown(o)
        PROVE  \A c \in Clients : request'[c] \in {request[c], NoRequest}
    BY <2>4 DEF TearDown, Detach, DetachFails, DetachWaiting
  <2>5. Die => \A c \in Clients : request'[c] = NoRequest
    BY DEF Die, ProcessDeath
  <2>6. ClearCache \/ Land \/ UNCHANGED vars => request' = request
    BY DEF ClearCache, ClearCurrentSnapshot, CommitSnapshot, Land, NoCall, vars,
           engineVars, waiting
  <2> QED
    BY <1>1, <2>0, <2>1, <2>2, <2>3, <2>4, <2>5, <2>6 DEF Next, Quiet
<1>3. ~Free' => lease'.action # "complete"
  <2>1. ASSUME NEW c \in Clients, Granted(c) PROVE lease'.action # "complete"
    BY <1>1, <2>1 DEF Granted, Grant, NoCompletion
  <2>2. ASSUME NEW c \in Clients, Prepare(c)
        PROVE  lease'.action # "complete"
    <3>1. op[c].pc \in Busy
      BY <2>2 DEF Prepare, At, Busy, Phases
    <3>2. ~Free /\ lease \in Lease
      BY <1>1, <3>1, OneWorks
    <3>3. lease' = [lease EXCEPT !.slot = Fresh]
      BY <2>2 DEF Prepare, PrepareMigration, PrepareMigrationFails
    <3> QED
      BY <1>1, <3>2, <3>3 DEF NoCompletion, Lease
  <2> QED
    BY <1>1, <2>1, <2>2, LeaseMoves DEF NoCompletion, Free, NoLease
<1> QED
  BY <1>1, <1>2, <1>3 DEF NoCompletion

\* Every stored secret is under a key the durable record names, so that a later
\* cleanup or disconnect can delete it: as long as no sign-in completes, and
\* through failed commits, failed, late and lost calls, and restarts.
THEOREM SecretsNamed ==
    ASSUME "complete" \notin Workload
    PROVE  Spec => []NoOrphanSecret
<1>1. Init => OrphanInv
  <2> SUFFICES ASSUME Init
               PROVE  NoCompletion /\ StoredIsNamed /\ SlotIsNamed /\ CleanedIsGone
                      /\ LateIsAbandoned
    BY InitSecrets DEF OrphanInv
  <2>1. late = {} /\ Free /\ Records = {LegacyState} /\ DOMAIN store \subseteq {LegacyKey}
    BY DEF Init, EngineInit, Free, NoLease, Records, Fenced
  <2>2. NoCompletion
    BY <2>1 DEF Init, EngineInit, NoCompletion, NoRequest
  <2>3. StoredIsNamed
    BY <2>1 DEF StoredIsNamed, KeptIsRetired, Stored, Names, LegacyState
  <2> QED
    BY <2>1, <2>2, <2>3 DEF SlotIsNamed, CleanedIsGone, LateIsAbandoned
<1>2. OrphanInv /\ [Next]_vars => OrphanInv'
  BY NextSecrets, NoCompletionKept, NamedKept, SlotKept, CleanedKept, AbandonedKept
  DEF OrphanInv
<1>3. OrphanInv => NoOrphanSecret
  <2> SUFFICES ASSUME OrphanInv, NEW key \in DOMAIN store
               PROVE  key \in References(disk)
    BY DEF NoOrphanSecret
  <2>1. key \in Names(disk)
    BY DEF OrphanInv, StoredIsNamed, Stored, Records
  <2>2. None \in {disk.slot, disk.prevSlot}
    <3>1. Sound(disk)
      BY LifecycleType DEF OrphanInv, SecretsInv, RecordInv, Records
    <3> QED
      BY <3>1 DEF Sound
  <2> QED
    BY <2>1, <2>2 DEF Names, References
<1> QED
  BY <1>1, <1>2, <1>3, PTL DEF Spec
=============================================================================

-------------------------- MODULE CredentialRecord --------------------------
(***************************************************************************)
(* The durable lifecycle record of one connection, as ConnectionCacheEngine *)
(* keeps it in SharedPreferences, and the pure functions of the engine that *)
(* compute its next value.  No variables: CredentialStorage applies these   *)
(* functions inside leases, with commits that may fail.                     *)
(*                                                                          *)
(* Secure-storage keys and unique ids are natural numbers.  0 stands for an *)
(* absent key or id, LegacyKey for the key an older release stored the      *)
(* secret under; every other number is drawn once from a logical clock.     *)
(***************************************************************************)
EXTENDS Naturals

CONSTANTS
    Accounts,   \* principals a stored secret can belong to
    NoAccount   \* the absent principal

ASSUME NoAccountAssumption == NoAccount \notin Accounts

None == 0
LegacyKey == 1

Modes == {"legacy", "migration", "pending", "active", "deleted"}
PreviousModes == {"none", "active", "legacy"}

NoBackup == [key |-> FALSE, slot |-> None, gen |-> None, rev |-> None]
NoSnapshot == [acct |-> NoAccount, at |-> 0]

\* backup is backupKey/backupSlot/backupGeneration/backupRevision, snap the
\* snapshot payload (by the account it reports on) with its snapshotAt.
State ==
    [mode : Modes, gen : Nat, rev : Nat, ep : Nat,
     slot : Nat, ident : Accounts \cup {NoAccount},
     prevSlot : Nat, prevIdent : Accounts \cup {NoAccount},
     prevMode : PreviousModes, prevBackup : BOOLEAN,
     pend : Nat,
     backup : [key : BOOLEAN, slot : Nat, gen : Nat, rev : Nat],
     retired : SUBSET Nat,
     snap : [acct : Accounts \cup {NoAccount}, at : Nat]]

\* What state() answers for a connection nothing was ever written for.
LegacyState ==
    [mode |-> "legacy", gen |-> None, rev |-> None, ep |-> None,
     slot |-> None, ident |-> NoAccount,
     prevSlot |-> None, prevIdent |-> NoAccount,
     prevMode |-> "none", prevBackup |-> FALSE,
     pend |-> None, backup |-> NoBackup, retired |-> {}, snap |-> NoSnapshot]

-----------------------------------------------------------------------------
(* Versions: the stamp a client keeps after a read.                         *)

Version == [gen : Nat, rev : Nat, ep : Nat, ident : Accounts \cup {NoAccount}]
NoVersion == [gen |-> None, rev |-> None, ep |-> None, ident |-> NoAccount]

VersionOf(st) ==
    [gen |-> st.gen, rev |-> st.rev, ep |-> st.ep, ident |-> st.ident]

\* Mutant: a credential operation matched by the epoch, as a cache operation.
SameRevisionByEpoch(st, v) ==
    st.mode = "active" /\ st.gen = v.gen /\ st.ident = v.ident /\ st.ep = v.ep

\* same(state, expected, true): a credential operation must match the revision.
SameRevision(st, v) ==
    /\ st.mode = "active"
    /\ st.gen = v.gen /\ st.ident = v.ident /\ st.rev = v.rev

\* same(state, expected, false): cache operations must match the epoch.
SameEpoch(st, v) ==
    /\ st.mode = "active"
    /\ st.gen = v.gen /\ st.ident = v.ident /\ st.ep = v.ep

\* The match a complete or cancel makes with its reconnect ticket.
SamePending(st, v) ==
    st.mode = "pending" /\ st.gen = v.gen /\ st.rev = v.rev

-----------------------------------------------------------------------------
(* The helpers of the engine.                                               *)

Retire(st, keys) == [st EXCEPT !.retired = @ \cup (keys \ {None})]

\* Mutant: a barrier that keeps the generation and the epoch.
BarrierSameGeneration(st, mode, id) ==
    [st EXCEPT !.mode = mode, !.rev = id, !.snap = NoSnapshot]

\* A new generation, revision and epoch; the snapshot goes with the old ones.
Barrier(st, mode, id) ==
    [st EXCEPT !.mode = mode, !.gen = id, !.rev = id, !.ep = id,
               !.snap = NoSnapshot]

ValidBackup(st) ==
    /\ st.mode = "active" /\ st.backup.key
    /\ st.backup.slot = st.slot
    /\ st.backup.gen = st.gen
    /\ st.backup.rev = st.rev

RemoveBackup(st) == [st EXCEPT !.backup = NoBackup]

BindBackup(st) ==
    IF st.backup.key
    THEN [st EXCEPT !.backup = [key |-> TRUE, slot |-> st.slot,
                                gen |-> st.gen, rev |-> st.rev]]
    ELSE st

DropCurrent(st) == [st EXCEPT !.slot = None, !.ident = NoAccount]

DropPrevious(st) ==
    [st EXCEPT !.prevSlot = None, !.prevIdent = NoAccount, !.prevMode = "none"]

LegacyNeeded(st) ==
    st.mode \in {"legacy", "migration"} \/ st.prevMode = "legacy"

\* Mutants: the selected slot, the one a cancellation restores, or the legacy
\* key it returns to is given up.
ProtectedButCurrent(st, leaseSlot, abandoned) ==
    {st.prevSlot, leaseSlot, LegacyKey} \cup abandoned
ProtectedButPrevious(st, leaseSlot, abandoned) ==
    {st.slot, leaseSlot, LegacyKey} \cup abandoned
ProtectedButLegacy(st, leaseSlot, abandoned) ==
    {st.slot, st.prevSlot, leaseSlot} \cup abandoned
    \cup (IF st.prevBackup \/ ValidBackup(st) THEN {LegacyKey} ELSE {})

\* Keys neither a cleanup list nor an acknowledgement may give up.  The
\* pending slot is not among them unless it is the slot of the lease.
Protected(st, leaseSlot, abandoned) ==
    {st.slot, st.prevSlot, leaseSlot} \cup abandoned
    \cup (IF st.prevBackup \/ ValidBackup(st) \/ LegacyNeeded(st)
          THEN {LegacyKey} ELSE {})

\* Mutant: every retired key is handed out for deletion.
CleanupSlotsAll(st, leaseSlot, abandoned) == st.retired \ {leaseSlot}

CleanupSlots(st, leaseSlot, abandoned) ==
    st.retired \ Protected(st, leaseSlot, abandoned)

\* acknowledgeCleanup keeps every reference that is still protected.
Acknowledge(st, cleaned, leaseSlot, abandoned) ==
    [st EXCEPT !.retired = @ \ (cleaned \ Protected(st, leaseSlot, abandoned))]

-----------------------------------------------------------------------------
(* The state changes of start(), prepareMigration(), finish() and detach(). *)

\* Mutant: an unfinished migration is kept as such.
SavePreviousAsIs(st) ==
    [st EXCEPT !.prevSlot = st.slot, !.prevIdent = st.ident, !.prevMode = st.mode]

\* What a reconnect keeps of the credential it replaces.
SavePrevious(st) ==
    CASE st.mode = "active" ->
           [st EXCEPT !.prevSlot = st.slot, !.prevIdent = st.ident,
                      !.prevMode = "active", !.prevBackup = ValidBackup(st)]
      [] st.mode \in {"legacy", "migration"} ->
           [st EXCEPT !.prevSlot = None, !.prevIdent = NoAccount,
                      !.prevMode = "legacy"]
      [] st.mode = "deleted" -> DropPrevious(st)
      [] OTHER -> st

Reconnect(st, id) ==
    LET kept == Retire(SavePrevious(st), {st.slot, LegacyKey, id})
    IN  [RemoveBackup(DropCurrent(Barrier(kept, "pending", id))) EXCEPT
            !.pend = id]

Delete(st, id) ==
    LET kept == Retire(st, {st.slot, LegacyKey})
        gone == RemoveBackup(DropCurrent(Barrier(kept, "deleted", id)))
    IN  [DropPrevious(gone) EXCEPT !.pend = None, !.prevBackup = FALSE]

\* A connection whose secret is missing, foreign or changed account.
Purge(st, id) ==
    RemoveBackup(DropCurrent(Barrier(Retire(st, {st.slot}), "deleted", id)))

Migrate(st, id) ==
    Retire(IF st.mode = "active" THEN st ELSE Barrier(st, "migration", id), {id})

\* finish("activate"): the lease's slot becomes the active one.
Activate(st, action, slot, acct, id) ==
    LET renewed == action \in {"complete", "refresh"}
        keyed   == st.backup.key \/ st.mode = "migration"
        gone    == IF renewed /\ keyed THEN {st.slot, LegacyKey} ELSE {st.slot}
        next    == [DropPrevious(Retire(st, gone)) EXCEPT
                       !.mode = "active", !.slot = slot, !.ident = acct,
                       !.rev = id, !.pend = None, !.prevBackup = FALSE,
                       !.backup = IF renewed THEN NoBackup
                                  ELSE [@ EXCEPT !.key = keyed]]
    IN  BindBackup(next)

\* finish("cancel"): back to the credential the reconnect kept, if any.
Cancel(st) ==
    LET keyed == [DropPrevious(st) EXCEPT
                     !.pend = None, !.prevBackup = FALSE,
                     !.backup = IF st.prevBackup THEN [@ EXCEPT !.key = TRUE]
                                ELSE @]
    IN  IF st.prevSlot # None
        THEN BindBackup([keyed EXCEPT !.mode = "active", !.slot = st.prevSlot,
                                      !.ident = st.prevIdent])
        ELSE [keyed EXCEPT
                 !.mode = IF st.prevMode = "legacy" THEN "legacy" ELSE "deleted"]

\* detach() of an owner that held anything but a read.
Abandon(st, id) ==
    [DropPrevious(DropCurrent(Barrier(Retire(st, {st.slot}), "pending", id)))
        EXCEPT !.pend = None]

ClearSnapshot(st, id) == [st EXCEPT !.ep = id, !.snap = NoSnapshot]
WriteSnapshot(st, acct, at) == [st EXCEPT !.snap = [acct |-> acct, at |-> at]]
=============================================================================

----------------------- MODULE CredentialRecord_proofs -----------------------
(***************************************************************************)
(* Every function of CredentialRecord maps lifecycle records to lifecycle   *)
(* records.  The proofs about CredentialStorage cite these lemmas instead   *)
(* of the definitions.                                                      *)
(***************************************************************************)
EXTENDS CredentialRecord, TLAPS

Identities == Accounts \cup {NoAccount}

\* A connection nothing was written for has a record of its own.
LEMMA LegacyStateType == LegacyState \in State
BY DEF LegacyState, State, NoBackup, NoSnapshot, None, Modes, PreviousModes

\* A record without a backup has the type of one with it.
LEMMA NoBackupType ==
    NoBackup \in [key : BOOLEAN, slot : Nat, gen : Nat, rev : Nat]
BY DEF NoBackup, None

\* The stamp of a record is a version.
LEMMA VersionOfType ==
    ASSUME NEW st \in State
    PROVE  VersionOf(st) \in Version
BY DEF VersionOf, Version, State

\* retire() keeps the record a record.
LEMMA RetireType ==
    ASSUME NEW st \in State, NEW keys \in SUBSET Nat
    PROVE  Retire(st, keys) \in State
BY DEF Retire, State

\* barrier() keeps the record a record, in the mode it was given.
LEMMA BarrierType ==
    ASSUME NEW st \in State, NEW mode \in Modes, NEW id \in Nat
    PROVE  Barrier(st, mode, id) \in State
BY DEF Barrier, State, NoSnapshot

\* bindBackup() keeps the record a record.
LEMMA BindBackupType ==
    ASSUME NEW st \in State
    PROVE  BindBackup(st) \in State
BY DEF BindBackup, State

\* removeBackup() keeps the record a record.
LEMMA RemoveBackupType ==
    ASSUME NEW st \in State
    PROVE  RemoveBackup(st) \in State
BY NoBackupType DEF RemoveBackup, State

\* A record may lose its selection.
LEMMA DropCurrentType ==
    ASSUME NEW st \in State
    PROVE  DropCurrent(st) \in State
BY DEF DropCurrent, State, None

\* A record may lose the credential a cancellation would restore.
LEMMA DropPreviousType ==
    ASSUME NEW st \in State
    PROVE  DropPrevious(st) \in State
BY DEF DropPrevious, State, None, PreviousModes

\* What a reconnect keeps is within the type in every mode, "migration" and
\* "deleted" included.
LEMMA SavePreviousType ==
    ASSUME NEW st \in State
    PROVE  SavePrevious(st) \in State
BY DropPreviousType DEF SavePrevious, State, None, PreviousModes, ValidBackup

\* Writing and clearing the snapshot payload keeps the record a record.
LEMMA SnapshotType ==
    ASSUME NEW st \in State, NEW acct \in Identities, NEW at \in Nat
    PROVE  /\ WriteSnapshot(st, acct, at) \in State
           /\ ClearSnapshot(st, at) \in State
BY DEF WriteSnapshot, ClearSnapshot, NoSnapshot, State, Identities

\* acknowledgeCleanup() only removes references.
LEMMA AcknowledgeType ==
    ASSUME NEW st \in State, NEW cleaned, NEW leaseSlot, NEW abandoned
    PROVE  Acknowledge(st, cleaned, leaseSlot, abandoned) \in State
BY DEF Acknowledge, State

\* The record start("reconnect") commits is a record.
LEMMA ReconnectType ==
    ASSUME NEW st \in State, NEW id \in Nat
    PROVE  Reconnect(st, id) \in State
<1> DEFINE kept   == Retire(SavePrevious(st), {st.slot, LegacyKey, id})
           closed == RemoveBackup(DropCurrent(Barrier(kept, "pending", id)))
<1>1. {st.slot, LegacyKey, id} \in SUBSET Nat
  BY DEF State, LegacyKey
<1>2. kept \in State
  BY <1>1, SavePreviousType, RetireType
<1>3. closed \in State
  <2> HIDE DEF kept
  <2>1. Barrier(kept, "pending", id) \in State
    BY <1>2, BarrierType DEF Modes
  <2> QED
    BY <2>1, DropCurrentType, RemoveBackupType
<1>4. Reconnect(st, id) = [closed EXCEPT !.pend = id]
  BY DEF Reconnect
<1> HIDE DEF closed
<1> QED
  BY <1>3, <1>4 DEF State

\* The record start("delete") commits is a record.
LEMMA DeleteType ==
    ASSUME NEW st \in State, NEW id \in Nat
    PROVE  Delete(st, id) \in State
<1> DEFINE kept   == Retire(st, {st.slot, LegacyKey})
           barred == Barrier(kept, "deleted", id)
           closed == DropPrevious(RemoveBackup(DropCurrent(barred)))
<1>1. {st.slot, LegacyKey} \in SUBSET Nat
  BY DEF State, LegacyKey
<1>2. kept \in State
  BY <1>1, RetireType
<1>3. barred \in State
  BY <1>2, BarrierType DEF Modes
<1>4. closed \in State
  BY <1>3, DropCurrentType, RemoveBackupType, DropPreviousType
<1>5. Delete(st, id) =
        [closed EXCEPT !.pend = None, !.prevBackup = FALSE]
  BY DEF Delete
<1>6. None \in Nat
  BY DEF None
<1> HIDE DEF closed
<1> QED
  BY <1>4, <1>5, <1>6, FALSE \in BOOLEAN DEF State

\* The record finish() leaves of a missing or foreign secret is a record.
LEMMA PurgeType ==
    ASSUME NEW st \in State, NEW id \in Nat
    PROVE  Purge(st, id) \in State
<1> DEFINE kept   == Retire(st, {st.slot})
           barred == Barrier(kept, "deleted", id)
<1>1. {st.slot} \in SUBSET Nat
  BY DEF State
<1>2. kept \in State
  BY <1>1, RetireType
<1>3. barred \in State
  BY <1>2, BarrierType DEF Modes
<1>4. Purge(st, id) = RemoveBackup(DropCurrent(barred))
  BY DEF Purge
<1> QED
  BY <1>3, <1>4, DropCurrentType, RemoveBackupType

\* The record detach() leaves of an interrupted operation is a record.
LEMMA AbandonType ==
    ASSUME NEW st \in State, NEW id \in Nat
    PROVE  Abandon(st, id) \in State
<1> DEFINE kept   == Retire(st, {st.slot})
           barred == Barrier(kept, "pending", id)
           closed == DropPrevious(DropCurrent(barred))
<1>1. {st.slot} \in SUBSET Nat
  BY DEF State
<1>2. kept \in State
  BY <1>1, RetireType
<1>3. barred \in State
  BY <1>2, BarrierType DEF Modes
<1>4. closed \in State
  BY <1>3, DropCurrentType, DropPreviousType
<1>5. Abandon(st, id) = [closed EXCEPT !.pend = None]
  BY DEF Abandon
<1> HIDE DEF closed
<1> QED
  BY <1>4, <1>5 DEF State, None

\* The record prepareMigration() commits is a record.
LEMMA MigrateType ==
    ASSUME NEW st \in State, NEW id \in Nat
    PROVE  Migrate(st, id) \in State
<1>1. Barrier(st, "migration", id) \in State
  BY BarrierType DEF Modes
<1> QED
  BY <1>1, RetireType DEF Migrate

\* What an activation makes of a record, but for the retired keys and the backup.
Select(st, slot, acct, id) ==
    [st EXCEPT !.mode = "active", !.slot = slot, !.ident = acct, !.rev = id,
               !.pend = None, !.prevBackup = FALSE]

\* A record that selects a slot is a record.
LEMMA SelectType ==
    ASSUME NEW st \in State, NEW slot \in Nat, NEW acct \in Identities,
           NEW id \in Nat
    PROVE  Select(st, slot, acct, id) \in State
BY DEF Select, State, None, Modes, Identities

\* A record may change its backup for another.
LEMMA BackupType ==
    ASSUME NEW st \in State,
           NEW kept \in [key : BOOLEAN, slot : Nat, gen : Nat, rev : Nat]
    PROVE  [st EXCEPT !.backup = kept] \in State
BY DEF State

\* The record finish("activate") commits is a record.
LEMMA ActivateType ==
    ASSUME NEW st \in State, NEW action, NEW slot \in Nat,
           NEW acct \in Identities, NEW id \in Nat
    PROVE  Activate(st, action, slot, acct, id) \in State
<1> DEFINE renewed == action \in {"complete", "refresh"}
           keyed   == st.backup.key \/ st.mode = "migration"
           gone    == IF renewed /\ keyed THEN {st.slot, LegacyKey} ELSE {st.slot}
           base    == DropPrevious(Retire(st, gone))
           next    == [base EXCEPT
                         !.mode = "active", !.slot = slot, !.ident = acct,
                         !.rev = id, !.pend = None, !.prevBackup = FALSE,
                         !.backup = IF renewed THEN NoBackup
                                    ELSE [@ EXCEPT !.key = keyed]]
<1>1. gone \in SUBSET Nat
  BY DEF State, LegacyKey
<1>2. keyed \in BOOLEAN
  BY DEF State
<1>3. base \in State
  <2> HIDE DEF gone
  <2> QED
    BY <1>1, RetireType, DropPreviousType
<1> DEFINE kept == [base.backup EXCEPT !.key = keyed]
           over == IF renewed THEN NoBackup ELSE kept
<1>4. over \in [key : BOOLEAN, slot : Nat, gen : Nat, rev : Nat]
  <2>1. base.backup \in [key : BOOLEAN, slot : Nat, gen : Nat, rev : Nat]
    <3> HIDE DEF base
    <3> QED
      BY <1>3 DEF State
  <2>2. kept \in [key : BOOLEAN, slot : Nat, gen : Nat, rev : Nat]
    <3> HIDE DEF base, keyed
    <3> QED
      BY <1>2, <2>1
  <2> HIDE DEF kept, renewed
  <2> QED
    BY <2>2, NoBackupType
<1>5. next = [Select(base, slot, acct, id) EXCEPT !.backup = over]
  <2> HIDE DEF base, keyed, renewed
  <2> QED
    BY <1>3 DEF State, Select
<1>6. next \in State
  <2>1. Select(base, slot, acct, id) \in State
    <3> HIDE DEF base
    <3> QED
      BY <1>3, SelectType
  <2> HIDE DEF next, over, base
  <2> QED
    BY <1>4, <1>5, <2>1, BackupType
<1>7. Activate(st, action, slot, acct, id) = BindBackup(next)
  BY DEF Activate
<1> HIDE DEF next
<1> QED
  BY <1>6, <1>7, BindBackupType

\* A record may lose its reconnect ticket.
LEMMA UnpendType ==
    ASSUME NEW st \in State
    PROVE  [st EXCEPT !.pend = None, !.prevBackup = FALSE] \in State
BY DEF State, None

\* A record may select another slot, or none, in another mode.
LEMMA ReselectType ==
    ASSUME NEW st \in State, NEW mode \in Modes, NEW slot \in Nat,
           NEW acct \in Identities
    PROVE  /\ [st EXCEPT !.mode = mode, !.slot = slot, !.ident = acct] \in State
           /\ [st EXCEPT !.mode = mode] \in State
BY DEF State, Identities

\* The record finish("cancel") commits is a record, whichever credential comes
\* back.
LEMMA CancelType ==
    ASSUME NEW st \in State
    PROVE  Cancel(st) \in State
<1> DEFINE base  == DropPrevious(st)
           keyed == [base EXCEPT
                       !.pend = None, !.prevBackup = FALSE,
                       !.backup = IF st.prevBackup THEN [@ EXCEPT !.key = TRUE]
                                  ELSE @]
           back  == [keyed EXCEPT !.mode = "active", !.slot = st.prevSlot,
                                  !.ident = st.prevIdent]
           gone  == [keyed EXCEPT
                       !.mode = IF st.prevMode = "legacy" THEN "legacy"
                                ELSE "deleted"]
<1>1. base \in State
  BY DropPreviousType
<1> DEFINE plain == [base EXCEPT !.pend = None, !.prevBackup = FALSE]
           over  == IF st.prevBackup THEN [base.backup EXCEPT !.key = TRUE]
                    ELSE base.backup
<1>2. keyed \in State
  <2>1. plain \in State
    <3> HIDE DEF base
    <3> QED
      BY <1>1, UnpendType
  <2>2. over \in [key : BOOLEAN, slot : Nat, gen : Nat, rev : Nat]
    <3> HIDE DEF base
    <3> QED
      BY <1>1 DEF State
  <2>3. keyed = [plain EXCEPT !.backup = over]
    <3> HIDE DEF base
    <3> QED
      BY <1>1 DEF State
  <2> HIDE DEF plain, over, keyed
  <2> QED
    BY <2>1, <2>2, <2>3, BackupType
<1>3. back \in State /\ gone \in State
  <2>1. {"active", "legacy", "deleted"} \subseteq Modes
    BY DEF Modes
  <2>2. st.prevSlot \in Nat /\ st.prevIdent \in Identities
    BY DEF State, Identities
  <2> HIDE DEF keyed
  <2> QED
    BY <1>2, <2>1, <2>2, ReselectType
<1>4. BindBackup(back) \in State
  <2> HIDE DEF back
  <2> QED
    BY <1>3, BindBackupType
<1>5. Cancel(st) = IF st.prevSlot # None THEN BindBackup(back) ELSE gone
  BY DEF Cancel
<1> HIDE DEF back, gone
<1> QED
  BY <1>3, <1>4, <1>5

-----------------------------------------------------------------------------
(* What the functions leave in the fields the safety proofs speak of.       *)

\* A barrier starts a generation without a snapshot.
LEMMA BarrierFields ==
    ASSUME NEW st \in State, NEW mode, NEW id
    PROVE  LET new == Barrier(st, mode, id)
           IN  /\ new.mode = mode /\ new.gen = id /\ new.rev = id /\ new.ep = id
               /\ new.slot = st.slot /\ new.ident = st.ident
               /\ new.prevSlot = st.prevSlot /\ new.prevIdent = st.prevIdent
               /\ new.prevMode = st.prevMode
               /\ new.pend = st.pend /\ new.snap = NoSnapshot
BY DEF Barrier, State

\* A reconnect keeps an active credential, an unmigrated one as "legacy", what
\* an earlier reconnect kept, and nothing of a deleted connection.
LEMMA SavedFields ==
    ASSUME NEW st \in State
    PROVE  LET new == SavePrevious(st)
           IN  /\ st.mode = "active" =>
                     /\ new.prevSlot = st.slot /\ new.prevIdent = st.ident
                     /\ new.prevMode = "active"
               /\ st.mode \in {"legacy", "migration"} =>
                     new.prevSlot = None /\ new.prevMode = "legacy"
               /\ st.mode = "deleted" =>
                     new.prevSlot = None /\ new.prevMode = "none"
               /\ st.mode = "pending" =>
                     /\ new.prevSlot = st.prevSlot /\ new.prevIdent = st.prevIdent
                     /\ new.prevMode = st.prevMode
BY DEF SavePrevious, DropPrevious, State, Modes

\* A reconnect selects nothing and has a new generation and a new pending slot.
LEMMA ReconnectFields ==
    ASSUME NEW st \in State, NEW id
    PROVE  LET new == Reconnect(st, id)
               kept == SavePrevious(st)
           IN  /\ new.mode = "pending" /\ new.gen = id /\ new.rev = id /\ new.ep = id
               /\ new.slot = None /\ new.ident = NoAccount
               /\ new.prevSlot = kept.prevSlot /\ new.prevIdent = kept.prevIdent
               /\ new.prevMode = kept.prevMode
               /\ new.pend = id /\ new.snap = NoSnapshot
BY SavePreviousType DEF Reconnect, RemoveBackup, DropCurrent, Barrier, Retire, State

\* A disconnect leaves nothing selected, kept or pending.
LEMMA DeleteFields ==
    ASSUME NEW st \in State, NEW id
    PROVE  LET new == Delete(st, id)
           IN  /\ new.mode = "deleted" /\ new.gen = id /\ new.rev = id /\ new.ep = id
               /\ new.slot = None /\ new.ident = NoAccount
               /\ new.prevSlot = None /\ new.prevMode = "none"
               /\ new.pend = None /\ new.snap = NoSnapshot
BY DEF Delete, RemoveBackup, DropCurrent, DropPrevious, Barrier, Retire, State

\* A purge selects nothing and leaves what a reconnect kept.
LEMMA PurgeFields ==
    ASSUME NEW st \in State, NEW id
    PROVE  LET new == Purge(st, id)
           IN  /\ new.mode = "deleted" /\ new.gen = id /\ new.rev = id /\ new.ep = id
               /\ new.slot = None /\ new.ident = NoAccount
               /\ new.prevSlot = st.prevSlot /\ new.prevIdent = st.prevIdent
               /\ new.prevMode = st.prevMode
               /\ new.pend = st.pend /\ new.snap = NoSnapshot
BY DEF Purge, RemoveBackup, DropCurrent, Barrier, Retire, State

\* An interrupted operation leaves nothing selected, kept or pending.
LEMMA AbandonFields ==
    ASSUME NEW st \in State, NEW id
    PROVE  LET new == Abandon(st, id)
           IN  /\ new.mode = "pending" /\ new.gen = id /\ new.rev = id /\ new.ep = id
               /\ new.slot = None /\ new.ident = NoAccount
               /\ new.prevSlot = None /\ new.prevMode = "none"
               /\ new.pend = None /\ new.snap = NoSnapshot
BY DEF Abandon, DropCurrent, DropPrevious, Barrier, Retire, State

\* A cancellation returns to the kept credential in the pending generation.
LEMMA CancelFields ==
    ASSUME NEW st \in State
    PROVE  LET new == Cancel(st)
           IN  /\ new.gen = st.gen /\ new.rev = st.rev /\ new.ep = st.ep
               /\ new.prevSlot = None /\ new.prevMode = "none"
               /\ new.pend = None /\ new.snap = st.snap
               /\ IF st.prevSlot # None
                  THEN new.mode = "active" /\ new.slot = st.prevSlot /\ new.ident = st.prevIdent
                  ELSE /\ new.slot = st.slot /\ new.ident = st.ident
                       /\ new.mode = IF st.prevMode = "legacy" THEN "legacy" ELSE "deleted"
BY DEF Cancel, BindBackup, DropPrevious, State

\* An activation selects the given slot within the generation it found.
LEMMA ActivateFields ==
    ASSUME NEW st \in State, NEW action, NEW slot, NEW acct, NEW id
    PROVE  LET new == Activate(st, action, slot, acct, id)
           IN  /\ new.mode = "active" /\ new.gen = st.gen /\ new.rev = id /\ new.ep = st.ep
               /\ new.slot = slot /\ new.ident = acct
               /\ new.prevSlot = None /\ new.prevMode = "none"
               /\ new.pend = None /\ new.snap = st.snap
BY DEF Activate, BindBackup, DropPrevious, Retire, State

-----------------------------------------------------------------------------
(* Records the engine can be in, and how one leads to the next.             *)

\* Every id and key a record names was drawn from the clock.
Within(st, top) ==
    /\ st.gen <= top /\ st.rev <= top /\ st.ep <= top
    /\ st.slot <= top /\ st.prevSlot <= top /\ st.pend <= top

\* An active record selects a slot for an account; only a pending one keeps a
\* previous credential or a slot to be written, which are different; and a
\* snapshot is of the selected account.
Sound(st) ==
    /\ (st.mode = "active") = (st.slot # None)
    /\ st.mode = "active" => st.ident \in Accounts
    /\ st.prevSlot # None => st.mode = "pending" /\ st.prevIdent \in Accounts
    /\ st.prevMode = "legacy" => st.mode = "pending"
    /\ st.pend # None => st.mode = "pending" /\ st.pend # st.prevSlot
    /\ LegacyKey \notin {st.slot, st.prevSlot, st.pend}
    /\ st.snap # NoSnapshot => st.mode = "active" /\ st.snap.acct = st.ident

\* What may become of a record in one commit that draws id: another generation,
\* with a slot of its own if it is a sign-in, or the same one, in which an active
\* credential stays active for its account, changes its slot only with its
\* revision, and no sign-in begins.
Follows(new, st, id) ==
    \/ new.gen = id /\ new.pend \in {None, id}
    \/ /\ new.gen = st.gen /\ new.ep \in {st.ep, id}
       /\ st.mode = "active" =>
             /\ new.mode = "active" /\ new.ident = st.ident
             /\ new.rev = id \/ (new.rev = st.rev /\ new.slot = st.slot)
       /\ new.mode = "pending" => st.mode = "pending" /\ new.pend = st.pend

\* A record that needs no legacy secret leads to none that does.
Descends(new, st, id) ==
    /\ Sound(new) /\ Follows(new, st, id)
    /\ LegacyNeeded(new) => LegacyNeeded(st)

\* Nothing is written for a new connection, so nothing can be wrong.
LEMMA LegacyStateSound == Sound(LegacyState) /\ Within(LegacyState, LegacyKey)
BY DEF LegacyState, Sound, Within, None, LegacyKey, NoSnapshot

\* A newer clock bounds what an older one did.
LEMMA WithinLater ==
    ASSUME NEW st \in State, NEW top \in Nat, NEW later \in Nat, top <= later,
           Within(st, top)
    PROVE  Within(st, later)
BY DEF Within, State

\* The record start("reconnect") commits.
LEMMA ReconnectSound ==
    ASSUME NEW st \in State, NEW top \in Nat, LegacyKey <= top,
           Sound(st), Within(st, top)
    PROVE  LET new == Reconnect(st, top + 1)
           IN  Descends(new, st, top + 1) /\ Within(new, top + 1)
<1> DEFINE new == Reconnect(st, top + 1)
<1>1. new.prevSlot # None => /\ new.prevSlot <= top /\ new.prevSlot # LegacyKey
                             /\ new.prevIdent \in Accounts
  <2>1. CASE st.mode = "active"
    BY <2>1, ReconnectFields, SavedFields DEF Sound, Within
  <2>2. CASE st.mode = "pending"
    BY <2>2, ReconnectFields, SavedFields DEF Sound, Within
  <2>3. CASE st.mode \in {"legacy", "migration", "deleted"}
    BY <2>3, ReconnectFields, SavedFields
  <2> QED
    BY <2>1, <2>2, <2>3 DEF State, Modes
<1>2. LegacyNeeded(new) => LegacyNeeded(st)
  <2>1. new.prevMode = "legacy" => LegacyNeeded(st)
    BY ReconnectFields, SavedFields DEF LegacyNeeded, State, Modes
  <2> QED
    BY <2>1, ReconnectFields DEF LegacyNeeded
<1>3. new.prevSlot \in Nat
  BY SavePreviousType, ReconnectFields DEF State
<1>4. Sound(new)
  BY <1>1, <1>3, ReconnectFields DEF Sound, None, LegacyKey
<1>5. Within(new, top + 1)
  BY <1>1, <1>3, ReconnectFields DEF Within, None
<1> QED
  BY <1>2, <1>4, <1>5, ReconnectFields DEF Descends, Follows

\* The record start("delete") commits.
LEMMA DeleteSound ==
    ASSUME NEW st \in State, NEW top \in Nat
    PROVE  LET new == Delete(st, top + 1)
           IN  Descends(new, st, top + 1) /\ Within(new, top + 1)
BY DeleteFields
DEF Descends, Sound, Within, Follows, LegacyNeeded, None, LegacyKey

\* The record finish() leaves of a missing or foreign secret.  Only a sign-in,
\* which has no secret yet, could lose what it keeps.
LEMMA PurgeSound ==
    ASSUME NEW st \in State, NEW top \in Nat, Sound(st), Within(st, top),
           st.mode # "pending"
    PROVE  LET new == Purge(st, top + 1)
           IN  Descends(new, st, top + 1) /\ Within(new, top + 1)
BY PurgeFields
DEF Descends, Sound, Within, Follows, LegacyNeeded, None, LegacyKey

\* The record detach() leaves of an interrupted operation.
LEMMA AbandonSound ==
    ASSUME NEW st \in State, NEW top \in Nat
    PROVE  LET new == Abandon(st, top + 1)
           IN  Descends(new, st, top + 1) /\ Within(new, top + 1)
BY AbandonFields
DEF Descends, Sound, Within, Follows, LegacyNeeded, None, LegacyKey

\* More retired keys change nothing else.
LEMMA RetireSound ==
    ASSUME NEW st \in State, NEW keys, NEW top \in Nat, NEW id,
           Sound(st), Within(st, top)
    PROVE  LET new == Retire(st, keys)
           IN  Descends(new, st, id) /\ Within(new, top)
BY DEF Retire, State, Descends, Sound, Within, Follows, LegacyNeeded

\* The record prepareMigration() commits, of a connection that has a secret.
LEMMA MigrateSound ==
    ASSUME NEW st \in State, NEW top \in Nat, LegacyKey <= top,
           Sound(st), Within(st, top),
           st.mode \in {"legacy", "migration", "active"}
    PROVE  LET new == Migrate(st, top + 1)
           IN  Descends(new, st, top + 1) /\ Within(new, top + 1)
<1>1. CASE st.mode = "active"
  <2>1. Migrate(st, top + 1) = Retire(st, {top + 1})
    BY <1>1 DEF Migrate
  <2>2. Within(st, top + 1)
    BY WithinLater
  <2> QED
    BY <2>1, <2>2, RetireSound
<1>2. CASE st.mode # "active"
  <2> DEFINE barred == Barrier(st, "migration", top + 1)
  <2>1. Migrate(st, top + 1) = Retire(barred, {top + 1})
    BY <1>2 DEF Migrate
  <2>2. barred \in State /\ barred.gen = top + 1 /\ barred.mode = "migration"
    <3>1. top + 1 \in Nat /\ "migration" \in Modes
      BY DEF Modes
    <3> QED
      BY <3>1, BarrierType, BarrierFields
  <2>3. Sound(barred) /\ Within(barred, top + 1)
    BY <1>2, BarrierFields DEF Sound, Within, State
  <2>4. LegacyNeeded(st)
    BY <1>2 DEF LegacyNeeded
  <2> HIDE DEF barred
  <2>5. Sound(Retire(barred, {top + 1})) /\ Within(Retire(barred, {top + 1}), top + 1)
    BY <2>2, <2>3, RetireSound DEF Descends
  <2>6. /\ Retire(barred, {top + 1}).gen = top + 1
        /\ Retire(barred, {top + 1}).mode = "migration"
    BY <2>2 DEF Retire, State
  <2> QED
    BY <2>1, <2>4, <2>5, <2>6 DEF Descends, Follows, Sound
<1> QED
  BY <1>1, <1>2

\* The record finish("activate") commits, for a slot of its own and the account
\* of an active record.
LEMMA ActivateSound ==
    ASSUME NEW st \in State, NEW top \in Nat, LegacyKey <= top,
           Sound(st), Within(st, top),
           NEW action, NEW slot \in Nat, NEW acct \in Accounts,
           slot # None, slot # LegacyKey, slot <= top,
           st.mode = "active" => acct = st.ident
    PROVE  LET new == Activate(st, action, slot, acct, top + 1)
           IN  Descends(new, st, top + 1) /\ Within(new, top + 1)
BY ActivateFields
DEF Descends, Sound, Within, Follows, LegacyNeeded, None, LegacyKey, State

\* The record finish("cancel") commits of a sign-in.
LEMMA CancelSound ==
    ASSUME NEW st \in State, NEW top \in Nat, NEW id, Sound(st), Within(st, top),
           st.mode = "pending"
    PROVE  LET new == Cancel(st)
           IN  Descends(new, st, id) /\ Within(new, top)
BY CancelFields
DEF Descends, Sound, Within, Follows, LegacyNeeded, None, LegacyKey

\* The record acknowledgeCleanup() commits.
LEMMA AcknowledgeSound ==
    ASSUME NEW st \in State, NEW top \in Nat, NEW id, Sound(st), Within(st, top),
           NEW cleaned, NEW leaseSlot, NEW abandoned
    PROVE  LET new == Acknowledge(st, cleaned, leaseSlot, abandoned)
           IN  Descends(new, st, id) /\ Within(new, top)
BY DEF Acknowledge, State, Descends, Sound, Within, Follows, LegacyNeeded

\* The records writeSnapshot() and clearSnapshot() commit.
LEMMA SnapshotSound ==
    ASSUME NEW st \in State, NEW top \in Nat, Sound(st), Within(st, top)
    PROVE  /\ \A acct, at : st.mode = "active" /\ acct = st.ident =>
                 LET new == WriteSnapshot(st, acct, at)
                 IN  Descends(new, st, top + 1) /\ Within(new, top)
           /\ LET new == ClearSnapshot(st, top + 1)
              IN  Descends(new, st, top + 1) /\ Within(new, top + 1)
<1>1. ASSUME NEW acct, NEW at, st.mode = "active", acct = st.ident
      PROVE  LET new == WriteSnapshot(st, acct, at)
             IN  Descends(new, st, top + 1) /\ Within(new, top)
  BY <1>1
  DEF WriteSnapshot, State, Descends, Sound, Within, Follows, LegacyNeeded
<1>2. LET new == ClearSnapshot(st, top + 1)
      IN  Descends(new, st, top + 1) /\ Within(new, top + 1)
  BY DEF ClearSnapshot, State, Descends, Sound, Within, Follows, LegacyNeeded
<1> QED
  BY <1>1, <1>2
=============================================================================

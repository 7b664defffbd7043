------------------------ MODULE ConnectionLoad_proofs ------------------------
(***************************************************************************)
(* What the loads of a connection may answer: every answer is of the account *)
(* the connection has now (AnswersOwned), what was answered is kept          *)
(* (ShownIsKept), and no reader goes back in time after one failure          *)
(* (NeverBack), for any number of engines, loads and accounts.              *)
(***************************************************************************)
EXTENDS ConnectionLoad, CredentialRecord_proofs

(***************************************************************************)
(* Invariant: what versions and stamps say of the record.                    *)
(***************************************************************************)
\* The record is one the engine can be in; the reconnect that it waits for has
\* a slot.
RecordFits ==
    /\ LegacyKey <= clock /\ Sound(record) /\ Within(record, clock)
    /\ record.gen # None
    /\ record.mode = "pending" => record.pend # None

\* A version that was read: its generation is of the past, or it still is the
\* record's, which is active for the same account since then.
Known(v) ==
    /\ v.gen <= record.gen /\ v.ep <= clock
    /\ v.gen = record.gen => record.mode = "active" /\ record.ident = v.ident

\* A stamped snapshot reports on the account it is stamped with.
Owned(snap) ==
    /\ Known(snap.ver)
    /\ snap.ver.gen # None => snap.acct = snap.ver.ident

\* A load read its token after the version it will stamp the response with.
LoadFits(at) ==
    /\ Known(at.ver) /\ Known(at.token)
    /\ Owned(at.cached) /\ Owned(at.live) /\ Owned(at.kept)
    /\ at.pc \in {"fetch", "valid"} => at.ver.gen <= at.token.gen
    /\ at.pc = "valid" => at.live.acct = at.token.ident
    /\ at.pc \in {"store", "recapture", "revalid"} => at.live.ver = at.ver

OwnedInv ==
    /\ RecordFits
    /\ \A i \in Repositories : Owned(memory[i]) /\ Owned(shown[i])
    /\ \A l \in Loads : LoadFits(load[l])

(***************************************************************************)
(* Invariant: what is remembered, what is on disk, and the latest load.      *)
(***************************************************************************)
Captive == {"queued", "fetch", "valid", "store", "recapture", "revalid", "recover"}

\* The load of its repository that nothing superseded.
Latest(l) == load[l].pc # "idle" /\ Current(l)

\* Loads of one repository have revisions of their own, none of the future.
Ranked ==
    \A l \in Loads :
        /\ load[l].rev <= revision[RepositoryOf[l]]
        /\ \A m \in Loads :
              /\ l # m /\ RepositoryOf[l] = RepositoryOf[m]
              /\ load[l].pc # "idle" /\ load[m].pc # "idle"
              => load[l].rev # load[m].rev

\* Whatever a load holds is of the version it captured.
Matched(l) ==
    LET at == load[l]
    IN  /\ at.pc \in Captive => at.cached = Nothing \/ SameCache(at.cached.ver, at.ver)
        /\ at.pc = "revalid" =>
              /\ SameCache(at.kept.ver, at.ver)
              /\ at.kept.at >= at.cached.at /\ at.kept.at >= at.live.at

\* What the latest load captured is what its repository remembers.
Linked(l) ==
    LET at == load[l]
        mine == memory[RepositoryOf[l]]
    IN  Latest(l) =>
        /\ at.pc \in Captive => mine = at.cached
        /\ at.pc = "publish" => SameCache(mine.ver, at.live.ver) /\ mine.at >= at.live.at

\* While what a reader saw counts, so does the version its latest load holds.
Lasting(l) ==
    Latest(l) /\ load[l].pc # "version" /\ SameEpoch(record, shown[RepositoryOf[l]].ver) =>
        SameEpoch(record, load[l].ver)

Remembered(i) ==
    SameEpoch(record, shown[i].ver) =>
        SameCache(memory[i].ver, shown[i].ver) /\ memory[i].at >= shown[i].at

OnDisk(snap) == SameEpoch(record, snap.ver) => record.snap.at >= snap.at

\* On disk is what was remembered or answered, and what the latest load will.
StoredRepository(i) == OnDisk(memory[i]) /\ OnDisk(shown[i])
StoredLoad(l) ==
    /\ OnDisk(load[l].cached)
    /\ Latest(l) =>
          /\ load[l].pc \in {"recapture", "revalid", "publish"} => OnDisk(load[l].live)
          /\ load[l].pc = "revalid" => OnDisk(load[l].kept)
Stored ==
    /\ \A i \in Repositories : StoredRepository(i)
    /\ \A l \in Loads : StoredLoad(l)

AllRemembered == \A i \in Repositories : Remembered(i)

\* One failure loses the memory or keeps something from the disk, never both.
Safe ==
    /\ faults = 0 => AllRemembered /\ Stored
    /\ faults = 1 => AllRemembered \/ Stored

\* The latest load will not answer anything older than its repository did.
Ahead(l) ==
    LET at == load[l]
        i == RepositoryOf[l]
    IN  Latest(l) /\ SameEpoch(record, shown[i].ver) =>
        /\ at.pc = "reread" => Remembered(i) \/ shown[i].at = 0
        /\ at.pc \in Captive => at.cached.at >= shown[i].at
        /\ at.pc = "publish" => at.live.at >= shown[i].at

KeptInv ==
    /\ Ranked
    /\ \A l \in Loads : Matched(l) /\ Linked(l) /\ Lasting(l)
    /\ Safe
    /\ faults <= 1 => \A l \in Loads : Ahead(l)

-----------------------------------------------------------------------------
(* Types.                                                                   *)

\* The values a load starts and ends with.
LEMMA EmptyTypes ==
    /\ NoVersion \in Version /\ Nothing \in Stamped /\ Idle \in LoadStates
BY DEF NoVersion, Nothing, Idle, Version, Stamped, LoadStates, Places, None

\* A stamp and the newest of two stamped snapshots are stamped snapshots.
LEMMA StampTypes ==
    /\ \A snap \in Stamped, ver \in Version : Stamp(snap, ver) \in Stamped
    /\ \A snap \in [acct : Identities, at : Nat], ver \in Version :
          Stamp(snap, ver) \in Stamped
    /\ \A a \in Stamped, b \in Stamped : Newest(a, b) \in {a, b}
BY DEF Stamp, Stamped, Newest, Identities

\* What the repository remembers stays stamped.
LEMMA RememberType ==
    ASSUME TypeOK, NEW l \in Loads, NEW snap \in Stamped, Remember(l, snap)
    PROVE  memory' \in [Repositories -> Stamped]
BY DEF TypeOK, Remember

\* The version of the record, or none.
LEMMA CurrentVersionType ==
    ASSUME TypeOK
    PROVE  CurrentVersion \in Version
BY VersionOfType, EmptyTypes DEF CurrentVersion, TypeOK

\* A capture leaves a load that is queued.
LEMMA CapturedType ==
    ASSUME TypeOK, NEW l \in Loads, NEW ver \in Version, NEW disk \in Stamped,
           Captured(l, ver, disk)
    PROVE  load' \in [Loads -> LoadStates] /\ memory' \in [Repositories -> Stamped]
<1> DEFINE mine   == memory[RepositoryOf[l]]
           kept   == IF ver # NoVersion /\ SameCache(mine.ver, ver) THEN mine ELSE Nothing
           cached == Newest(kept, disk)
<1>1. kept \in Stamped
  BY LoadAssumption, EmptyTypes DEF TypeOK
<1>2. cached \in Stamped
  <2> HIDE DEF kept
  <2> QED
    BY <1>1, StampTypes
<1>3. /\ load' = [load EXCEPT ![l] = [load[l] EXCEPT !.pc = "queued", !.ver = ver,
                                                     !.cached = cached]]
      /\ Remember(l, cached)
  BY DEF Captured, TypeOK
<1>4. load[l] \in LoadStates /\ "queued" \in Places
  BY DEF TypeOK, Places
<1> HIDE DEF cached
<1>5. [load[l] EXCEPT !.pc = "queued", !.ver = ver, !.cached = cached] \in LoadStates
  BY <1>2, <1>4 DEF LoadStates
<1> QED
  BY <1>2, <1>3, <1>5, RememberType DEF TypeOK

\* A response is kept as what is newest of it and of the capture.
LEMMA KeepType ==
    ASSUME TypeOK, NEW l \in Loads, NEW kept \in Stamped, Keep(l, kept)
    PROVE  load' \in [Loads -> LoadStates]
<1> DEFINE live == Stamp(load[l].live, load[l].ver)
           new  == Newest(kept, load[l].cached)
<1>1. load[l] \in LoadStates /\ "revalid" \in Places
  BY DEF TypeOK, Places
<1>2. live \in Stamped /\ new \in Stamped
  <2>1. load[l].live \in Stamped /\ load[l].ver \in Version /\ load[l].cached \in Stamped
    BY <1>1 DEF LoadStates
  <2> QED
    BY <2>1, StampTypes
<1>3. load' = [load EXCEPT ![l] = [load[l] EXCEPT !.pc = "revalid", !.live = live,
                                                  !.kept = new]]
  BY DEF Keep, TypeOK
<1> HIDE DEF live, new
<1>4. [load[l] EXCEPT !.pc = "revalid", !.live = live, !.kept = new] \in LoadStates
  BY <1>1, <1>2 DEF LoadStates
<1> QED
  BY <1>3, <1>4 DEF TypeOK

\* The record after a refresh or a sign-in has the type of one.
LEMMA RecordTypes ==
    ASSUME TypeOK, NEW a \in Identities
    PROVE  /\ Activate(record, "refresh", clock + 1, a, clock + 2) \in State
           /\ Activate(record, "complete", record.pend, a, clock + 1) \in State
<1>1. /\ record \in State /\ clock + 1 \in Nat /\ clock + 2 \in Nat
      /\ record.pend \in Nat
  BY DEF TypeOK, State
<1> QED
  BY <1>1, ActivateType

\* Every operation keeps the types.
THEOREM TypesCorrect == Spec => []TypeOK
<1>1. Init => TypeOK
  <2> SUFFICES ASSUME Init PROVE TypeOK
    OBVIOUS
  <2>1. record \in State
    <3>1. PICK a \in Accounts :
             record = Activate(Reconnect(LegacyState, 2), "complete", 2, a, 3)
      BY DEF Init
    <3>2. Reconnect(LegacyState, 2) \in State /\ a \in Identities
      BY LegacyStateType, ReconnectType DEF Identities
    <3> QED
      BY <3>1, <3>2, ActivateType
  <2> QED
    BY <2>1, EmptyTypes DEF Init, TypeOK
<1>2. TypeOK /\ [Next]_vars => TypeOK'
  <2> SUFFICES ASSUME TypeOK, [Next]_vars PROVE TypeOK'
    OBVIOUS
  <2> USE LoadAssumption
  <2>f. ASSUME Fault PROVE faults' \in Nat
    BY <2>f DEF Fault, TypeOK
  <2>g. ASSUME NEW l \in Loads, NEW pc \in Places, Continue(l, pc)
        PROVE  load' \in [Loads -> LoadStates]
    <3>1. [load[l] EXCEPT !.pc = pc] \in LoadStates
      BY DEF TypeOK, LoadStates
    <3> QED
      BY <2>g, <3>1 DEF Continue, TypeOK
  <2>e. ASSUME NEW l \in Loads, End(l)
        PROVE  load' \in [Loads -> LoadStates]
    BY <2>e, EmptyTypes DEF End, TypeOK
  <2>h. ASSUME NEW l \in Loads
        PROVE  /\ load[l] \in LoadStates /\ load[l].rev \in Nat
               /\ load[l].ver \in Version /\ load[l].token \in Version
               /\ load[l].cached \in Stamped /\ load[l].live \in Stamped
               /\ load[l].kept \in Stamped
    BY DEF TypeOK, LoadStates
  <2>p. {"idle", "version", "snapshot", "reread", "queued", "fetch", "clear", "valid",
         "store", "recapture", "revalid", "recover", "publish"} = Places
    BY DEF Places
  <2>1. ASSUME NEW l \in Loads, Start(l) PROVE TypeOK'
    <3> DEFINE rev == revision[RepositoryOf[l]] + 1
    <3>1. rev \in Nat
      BY DEF TypeOK
    <3>2. /\ revision' = [revision EXCEPT ![RepositoryOf[l]] = rev]
          /\ load' = [load EXCEPT ![l] = [load[l] EXCEPT !.pc = "version", !.rev = rev]]
      BY <2>1 DEF Start, TypeOK
    <3> HIDE DEF rev
    <3>3. [load[l] EXCEPT !.pc = "version", !.rev = rev] \in LoadStates
      BY <2>h, <2>p, <3>1 DEF LoadStates
    <3>4. revision' \in [Repositories -> Nat] /\ load' \in [Loads -> LoadStates]
      BY <3>1, <3>2, <3>3 DEF TypeOK
    <3>5. UNCHANGED <<platform, memory, shown, changes, faults>>
      BY <2>1 DEF Start
    <3> QED
      BY <3>4, <3>5 DEF TypeOK, platform
  <2>2. ASSUME NEW l \in Loads, ReadVersion(l) PROVE TypeOK'
    <3>1. CASE CurrentVersion # NoVersion /\ UNCHANGED <<memory, faults>>
               /\ load' = [load EXCEPT ![l].pc = "snapshot", ![l].ver = CurrentVersion]
      <4>1. [load[l] EXCEPT !.pc = "snapshot", !.ver = CurrentVersion] \in LoadStates
        BY <2>h, <2>p, CurrentVersionType DEF LoadStates
      <4> QED
        BY <2>2, <3>1, <4>1 DEF ReadVersion, TypeOK, platform
    <3>2. CASE Captured(l, NoVersion, Nothing) /\ UNCHANGED faults
      BY <2>2, <3>2, CapturedType, EmptyTypes DEF ReadVersion, TypeOK, platform
    <3>3. CASE Fault /\ Remember(l, Nothing) /\ End(l)
      BY <2>2, <2>f, <2>e, <3>3, RememberType, EmptyTypes DEF ReadVersion, TypeOK, platform
    <3> QED
      BY <2>2, <3>1, <3>2, <3>3 DEF ReadVersion
  <2>3. ASSUME NEW l \in Loads, ReadSnapshot(l) PROVE TypeOK'
    <3>1. record.snap \in [acct : Identities, at : Nat]
      BY DEF TypeOK, State, Identities
    <3>2. Stamp(record.snap, load[l].ver) \in Stamped
      BY <2>h, <3>1, StampTypes
    <3>3. CASE Captured(l, load[l].ver, Stamp(record.snap, load[l].ver)) /\ UNCHANGED faults
      BY <2>3, <2>h, <3>2, <3>3, CapturedType DEF ReadSnapshot, TypeOK, platform
    <3>4. CASE Continue(l, "reread") /\ UNCHANGED <<memory, faults>>
      BY <2>3, <2>g, <2>p, <3>4 DEF ReadSnapshot, TypeOK, platform
    <3>5. CASE Fault /\ Captured(l, load[l].ver, Nothing)
      BY <2>3, <2>f, <2>h, <3>5, CapturedType, EmptyTypes DEF ReadSnapshot, TypeOK, platform
    <3> QED
      BY <2>3, <3>3, <3>4, <3>5 DEF ReadSnapshot
  <2>4. ASSUME NEW l \in Loads, Reread(l) PROVE TypeOK'
    <3> DEFINE ver == IF SameEpoch(record, load[l].ver) THEN load[l].ver ELSE CurrentVersion
    <3>1. ver \in Version
      BY <2>h, CurrentVersionType
    <3>2. Captured(l, ver, Nothing)
      BY <2>4 DEF Reread
    <3> HIDE DEF ver
    <3>3. load' \in [Loads -> LoadStates] /\ memory' \in [Repositories -> Stamped]
      BY <3>1, <3>2, CapturedType, EmptyTypes
    <3> QED
      BY <2>4, <3>3 DEF Reread, TypeOK, platform
  <2>5. ASSUME NEW l \in Loads, Fetch(l) PROVE TypeOK'
    <3>1. CASE CurrentVersion # NoVersion
      <4>1. [load[l] EXCEPT !.pc = "fetch", !.token = CurrentVersion] \in LoadStates
        BY <2>h, <2>p, CurrentVersionType DEF LoadStates
      <4> QED
        BY <2>5, <3>1, <4>1 DEF Fetch, TypeOK
    <3>2. CASE CurrentVersion = NoVersion
      BY <2>5, <2>g, <2>e, <2>p, <3>2, RememberType, EmptyTypes DEF Fetch, TypeOK
    <3> QED
      BY <3>1, <3>2
  <2>6. ASSUME NEW l \in Loads, Rotate(l) PROVE TypeOK'
    <3>1. record' \in State
      <4>1. load[l].token.ident \in Identities
        BY <2>h DEF Version, Identities
      <4> QED
        BY <2>6, <4>1, RecordTypes DEF Rotate
    <3>2. VersionOf(record') \in Version
      BY <3>1, VersionOfType
    <3>3. [load[l] EXCEPT !.token = VersionOf(record')] \in LoadStates
      BY <2>h, <3>2 DEF LoadStates
    <3> QED
      BY <2>6, <3>1, <3>3 DEF Rotate, TypeOK
  <2>7. ASSUME NEW l \in Loads, Fetched(l) PROVE TypeOK'
    <3>1. PICK at \in 1..MaxAt :
             load' = [load EXCEPT ![l].pc = "valid",
                         ![l].live = [acct |-> load[l].token.ident, at |-> at, ver |-> NoVersion]]
      BY <2>7 DEF Fetched
    <3> DEFINE live == [acct |-> load[l].token.ident, at |-> at, ver |-> NoVersion]
    <3>2. live \in Stamped
      BY <2>h, EmptyTypes DEF Stamped, Version
    <3>3. load' = [load EXCEPT ![l] = [load[l] EXCEPT !.pc = "valid", !.live = live]]
      BY <3>1 DEF TypeOK
    <3> HIDE DEF live
    <3>4. [load[l] EXCEPT !.pc = "valid", !.live = live] \in LoadStates
      BY <2>h, <2>p, <3>2 DEF LoadStates
    <3>5. load' \in [Loads -> LoadStates]
      BY <3>3, <3>4 DEF TypeOK
    <3> QED
      BY <2>7, <3>5 DEF Fetched, TypeOK
  <2>8. ASSUME NEW l \in Loads, FetchFails(l) PROVE TypeOK'
    <3>1. record' \in State /\ clock' \in Nat /\ changes' \in Nat
      BY <2>8, DeleteType, SMTT(30) DEF FetchFails, TypeOK
    <3> QED
      BY <2>8, <2>g, <2>p, <3>1 DEF FetchFails, TypeOK
  <2>9. ASSUME NEW l \in Loads, ClearOwn(l) PROVE TypeOK'
    <3>1. record' \in State /\ clock' \in Nat
      <4>1. clock + 1 \in Nat /\ NoAccount \in Identities /\ record \in State
        BY DEF TypeOK, Identities
      <4>2. ClearSnapshot(record, clock + 1) \in State
        BY <4>1, SnapshotType
      <4> QED
        BY <2>9, <4>1, <4>2 DEF ClearOwn, TypeOK
    <3>2. load' \in [Loads -> LoadStates]
      BY <2>9, <2>e DEF ClearOwn
    <3> QED
      BY <2>9, <3>1, <3>2 DEF ClearOwn, TypeOK
  <2>10. ASSUME NEW l \in Loads, Validate(l) PROVE TypeOK'
    <3> DEFINE live == Stamp(load[l].live, load[l].ver)
               pc   == IF Newer(load[l].cached, live) THEN "recapture" ELSE "store"
    <3>1. live \in Stamped /\ pc \in Places
      BY <2>h, <2>p, StampTypes
    <3>2. CASE Remember(l, Nothing) /\ End(l)
      BY <2>10, <2>e, <3>2, RememberType, EmptyTypes DEF Validate, TypeOK, platform
    <3>3. CASE Keep(l, live) /\ UNCHANGED memory
      BY <2>10, <3>1, <3>3, KeepType DEF Validate, TypeOK, platform
    <3>4. CASE load' = [load EXCEPT ![l].live = live, ![l].pc = pc] /\ UNCHANGED memory
      <4>1. load' = [load EXCEPT ![l] = [load[l] EXCEPT !.live = live, !.pc = pc]]
        BY <3>4 DEF TypeOK
      <4> HIDE DEF live, pc
      <4>2. [load[l] EXCEPT !.live = live, !.pc = pc] \in LoadStates
        BY <2>h, <3>1 DEF LoadStates
      <4>3. load' \in [Loads -> LoadStates]
        BY <4>1, <4>2 DEF TypeOK
      <4> QED
        BY <2>10, <3>4, <4>3 DEF Validate, TypeOK, platform
    <3> QED
      BY <2>10, <3>2, <3>3, <3>4 DEF Validate
  <2>11. ASSUME NEW l \in Loads, Store(l) PROVE TypeOK'
    <3> DEFINE written == WriteSnapshot(record, load[l].live.acct, load[l].live.at)
    <3>1. load[l].live \in Stamped
      BY <2>h
    <3>2. written \in State
      BY <3>1, SnapshotType DEF TypeOK, Identities, Stamped
    <3>3. record' \in State
      BY <2>11, <3>2 DEF Store, TypeOK
    <3>4. load' \in [Loads -> LoadStates]
      BY <2>11, <2>g, <2>p, <3>1, KeepType DEF Store
    <3>5. faults' \in Nat
      BY <2>11, <2>f DEF Store, TypeOK
    <3> QED
      BY <2>11, <3>3, <3>4, <3>5 DEF Store, TypeOK
  <2>12. ASSUME NEW l \in Loads, Recapture(l) PROVE TypeOK'
    <3> DEFINE live == load[l].live
               disk == IF SameEpoch(record, live.ver) THEN Stamp(record.snap, CurrentVersion)
                       ELSE Nothing
    <3>1. live \in Stamped /\ record.snap \in [acct : Identities, at : Nat]
      BY <2>h DEF TypeOK, State, Identities
    <3>2. disk \in Stamped
      BY <3>1, CurrentVersionType, StampTypes, EmptyTypes
    <3>3. Newest(live, disk) \in Stamped
      <4> HIDE DEF live, disk
      <4> QED
        BY <3>1, <3>2, StampTypes
    <3>4. Keep(l, Newest(live, disk)) \/ Keep(l, live)
      BY <2>12 DEF Recapture
    <3> HIDE DEF live, disk
    <3>5. load' \in [Loads -> LoadStates]
      BY <3>1, <3>3, <3>4, KeepType
    <3>6. faults' \in Nat
      BY <2>12, <2>f DEF Recapture, TypeOK
    <3> QED
      BY <2>12, <3>5, <3>6 DEF Recapture, TypeOK, platform
  <2>13. ASSUME NEW l \in Loads, Revalidate(l) PROVE TypeOK'
    <3> DEFINE new == Newest(load[l].live, load[l].kept)
    <3>1. new \in Stamped
      BY <2>h, StampTypes
    <3>2. CASE End(l) /\ UNCHANGED memory
      BY <2>13, <2>e, <3>2 DEF Revalidate, TypeOK, platform
    <3>3. CASE /\ Remember(l, load[l].kept)
               /\ load' = [load EXCEPT ![l].pc = "publish", ![l].live = Newest(@, load[l].kept)]
      <4>1. load' = [load EXCEPT ![l] = [load[l] EXCEPT !.pc = "publish", !.live = new]]
        BY <3>3 DEF TypeOK
      <4> HIDE DEF new
      <4>2. [load[l] EXCEPT !.pc = "publish", !.live = new] \in LoadStates
        BY <2>h, <2>p, <3>1 DEF LoadStates
      <4>3. load' \in [Loads -> LoadStates]
        BY <4>1, <4>2 DEF TypeOK
      <4> QED
        BY <2>13, <2>h, <3>3, <4>3, RememberType DEF Revalidate, TypeOK, platform
    <3> QED
      BY <2>13, <3>2, <3>3 DEF Revalidate
  <2>14. ASSUME NEW l \in Loads, Recover(l) PROVE TypeOK'
    <3> DEFINE cached == IF Current(l) THEN load[l].cached ELSE Nothing
    <3>1. cached \in Stamped
      BY <2>h, EmptyTypes
    <3>2. CASE load' = [load EXCEPT ![l].pc = "publish", ![l].live = cached] /\ UNCHANGED memory
      <4> HIDE DEF cached
      <4>1. [load[l] EXCEPT !.pc = "publish", !.live = cached] \in LoadStates
        BY <2>h, <2>p, <3>1 DEF LoadStates
      <4>2. load' \in [Loads -> LoadStates]
        BY <3>2, <4>1 DEF TypeOK
      <4> QED
        BY <2>14, <3>2, <4>2 DEF Recover, TypeOK, platform
    <3>3. CASE Remember(l, Nothing) /\ End(l)
      BY <2>14, <2>e, <3>3, RememberType, EmptyTypes DEF Recover, TypeOK, platform
    <3> QED
      BY <2>14, <3>2, <3>3 DEF Recover
  <2>15. ASSUME NEW l \in Loads, Publish(l) PROVE TypeOK'
    <3>1. shown' \in [Repositories -> Stamped]
      BY <2>15, <2>h DEF Publish, TypeOK
    <3> QED
      BY <2>15, <2>e, <3>1 DEF Publish, TypeOK, platform
  <2>16. ASSUME NEW i \in Repositories, Invalidate(i) PROVE TypeOK'
    BY <2>16 DEF Invalidate, TypeOK, platform
  <2>17. ASSUME NEW i \in Repositories, ClearPersistent(i) PROVE TypeOK'
    <3>1. record' \in State
      BY <2>17, SnapshotType, SMTT(30) DEF ClearPersistent, TypeOK, Identities
    <3> QED
      BY <2>17, <3>1, EmptyTypes DEF ClearPersistent, Change, TypeOK
  <2>18. ASSUME BeginReconnect PROVE TypeOK'
    <3>1. record' \in State
      BY <2>18, ReconnectType DEF BeginReconnect, TypeOK
    <3> QED
      BY <2>18, <3>1 DEF BeginReconnect, Change, TypeOK
  <2>19. ASSUME CancelReconnect PROVE TypeOK'
    BY <2>19, CancelType DEF CancelReconnect, Change, TypeOK
  <2>20. ASSUME NEW a \in Accounts, CompleteReconnect(a) PROVE TypeOK'
    <3>1. record' \in State
      BY <2>20, RecordTypes DEF CompleteReconnect, Identities
    <3> QED
      BY <2>20, <3>1 DEF CompleteReconnect, Change, TypeOK
  <2>21. CASE Die
    BY <2>21, <2>f, EmptyTypes DEF Die, TypeOK
  <2>22. CASE UNCHANGED vars
    BY <2>22 DEF vars, platform, TypeOK
  <2> QED
    BY <2>1, <2>2, <2>3, <2>4, <2>5, <2>6, <2>7, <2>8, <2>9, <2>10, <2>11, <2>12,
       <2>13, <2>14, <2>15, <2>16, <2>17, <2>18, <2>19, <2>20, <2>21, <2>22
    DEF Next, Step, Quiet
<1> QED
  BY <1>1, <1>2, PTL DEF Spec

-----------------------------------------------------------------------------
(* The record moves on.                                                     *)

\* What a step may do to the record: a known version stays known, and while its
\* epoch counts it did before, and nothing older was stored in it.
Moved ==
    /\ RecordFits' /\ clock <= clock'
    /\ \A v \in Version : Known(v) =>
          /\ Known(v)'
          /\ SameEpoch(record', v) =>
                SameEpoch(record, v) /\ record'.snap.at >= record.snap.at

\* A commit that draws an id the record does not have yet moves it on.
LEMMA FollowsMoved ==
    ASSUME TypeOK, TypeOK', RecordFits, NEW id \in Nat, clock < id, clock <= clock',
           Descends(record', record, id), Within(record', clock'),
           record'.mode = "pending" => record'.pend # None,
           record.mode = "active" /\ record'.gen = record.gen /\ record'.ep = record.ep
               => record'.snap.at >= record.snap.at
    PROVE  Moved
<1>1. /\ clock \in Nat /\ clock' \in Nat
      /\ record.gen \in Nat /\ record.ep \in Nat /\ record'.gen \in Nat
  BY DEF TypeOK, State
<1>2. record.gen <= record'.gen /\ record'.gen # None
  BY <1>1 DEF Descends, Follows, RecordFits, Within, None
<1>3. RecordFits'
  BY <1>1, <1>2 DEF RecordFits, Descends, LegacyKey
<1>4. ASSUME NEW v \in Version, Known(v)
      PROVE  /\ Known(v)'
             /\ SameEpoch(record', v) =>
                   SameEpoch(record, v) /\ record'.snap.at >= record.snap.at
  <2>1. v.gen \in Nat /\ v.ep \in Nat
    BY DEF Version
  <2>2. v.gen = record'.gen => /\ v.gen = record.gen /\ record.mode = "active"
                               /\ record'.mode = "active" /\ record'.ident = record.ident
                               /\ record'.ep \in {record.ep, id}
    BY <1>1, <1>4, <2>1 DEF Known, Descends, Follows, RecordFits, Within
  <2> QED
    BY <1>1, <1>2, <1>4, <2>1, <2>2 DEF Known, SameEpoch
<1> QED
  BY <1>3, <1>4 DEF Moved

\* A record that stays moves nowhere.
LEMMA UnchangedMoved ==
    ASSUME TypeOK, RecordFits, UNCHANGED <<record, clock>>
    PROVE  Moved
<1>1. record.snap.at \in Nat /\ clock \in Nat
  BY DEF TypeOK, State
<1> QED
  BY <1>1 DEF Moved, RecordFits, Known, SameEpoch

\* A new epoch moves the record on.
LEMMA ClearMoved ==
    ASSUME TypeOK, TypeOK', RecordFits,
           record' = ClearSnapshot(record, clock + 1), clock' = clock + 1
    PROVE  Moved
<1>1. clock \in Nat /\ record \in State /\ record.ep <= clock
  BY DEF TypeOK, RecordFits, Within
<1>2. Descends(record', record, clock + 1) /\ Within(record', clock')
  BY <1>1, SnapshotSound DEF RecordFits
<1>3. record'.mode = record.mode /\ record'.pend = record.pend /\ record'.ep = clock + 1
  BY <1>1 DEF ClearSnapshot, State
<1> QED
  BY <1>1, <1>2, <1>3, FollowsMoved DEF RecordFits

\* A sign-out or a rejected session moves the record on.
LEMMA DeleteMoved ==
    ASSUME TypeOK, TypeOK', RecordFits,
           record' = Delete(record, clock + 1), clock' = clock + 1
    PROVE  Moved
<1>1. clock \in Nat /\ record \in State /\ record.gen <= clock
  BY DEF TypeOK, RecordFits, Within
<1>2. Descends(record', record, clock + 1) /\ Within(record', clock')
  BY <1>1, DeleteSound
<1>3. record'.mode = "deleted" /\ record'.gen = clock + 1
  BY <1>1, DeleteFields
<1> QED
  BY <1>1, <1>2, <1>3, FollowsMoved

\* Steps on the record that no load takes part in.
LEMMA ChangesMoved ==
    ASSUME TypeOK, TypeOK', RecordFits,
           \/ BeginReconnect \/ CancelReconnect
           \/ \E a \in Accounts : CompleteReconnect(a)
           \/ \E i \in Repositories : ClearPersistent(i)
    PROVE  Moved
<1>0. /\ clock \in Nat /\ record \in State /\ record.gen <= clock /\ LegacyKey <= clock
      /\ Sound(record) /\ Within(record, clock)
  BY DEF TypeOK, RecordFits, Within
<1>1. CASE BeginReconnect
  <2>1. record' = Reconnect(record, clock + 1) /\ clock' = clock + 1
    BY <1>1 DEF BeginReconnect
  <2>2. Descends(record', record, clock + 1) /\ Within(record', clock')
    BY <1>0, <2>1, ReconnectSound
  <2>3. record'.pend = clock + 1 /\ record'.gen = clock + 1
    BY <1>0, <2>1, ReconnectFields
  <2> QED
    BY <1>0, <2>1, <2>2, <2>3, FollowsMoved DEF None
<1>2. CASE CancelReconnect
  <2>1. record' = Cancel(record) /\ clock' = clock /\ record.mode = "pending"
    BY <1>2 DEF CancelReconnect
  <2>2. Descends(record', record, clock + 1) /\ Within(record', clock')
    BY <1>0, <2>1, CancelSound
  <2>3. record'.mode # "pending"
    BY <1>0, <2>1, CancelFields
  <2> QED
    BY <1>0, <2>1, <2>2, <2>3, FollowsMoved
<1>3. ASSUME NEW a \in Accounts, CompleteReconnect(a) PROVE Moved
  <2>1. /\ record' = Activate(record, "complete", record.pend, a, clock + 1)
        /\ clock' = clock + 1 /\ record.mode = "pending"
    BY <1>3 DEF CompleteReconnect
  <2>2. /\ record.pend \in Nat /\ record.pend # None /\ record.pend # LegacyKey
        /\ record.pend <= clock
    BY <1>0, <2>1 DEF RecordFits, Sound, Within, State
  <2>3. Descends(record', record, clock + 1) /\ Within(record', clock')
    BY <1>0, <2>1, <2>2, ActivateSound
  <2>4. record'.mode = "active"
    BY <1>0, <2>1, ActivateFields
  <2> QED
    BY <1>0, <2>1, <2>3, <2>4, FollowsMoved
<1>4. ASSUME NEW i \in Repositories, ClearPersistent(i) PROVE Moved
  BY <1>4, ClearMoved DEF ClearPersistent
<1> QED
  BY <1>1, <1>2, <1>3, <1>4

\* A refresh rotates the secret of the account the record is active for.
LEMMA RotateMoved ==
    ASSUME TypeOK, TypeOK', RecordFits, NEW l \in Loads, Rotate(l)
    PROVE  Moved
<1>0. /\ clock \in Nat /\ record \in State /\ record.gen <= clock /\ LegacyKey <= clock
      /\ Sound(record) /\ Within(record, clock)
  BY DEF TypeOK, RecordFits, Within
<1> DEFINE a == load[l].token.ident
<1>1. /\ record' = Activate(record, "refresh", clock + 1, a, clock + 2)
      /\ clock' = clock + 2 /\ record.mode = "active" /\ a = record.ident
  BY DEF Rotate, SameRevision
<1>2. a \in Accounts
  BY <1>0, <1>1 DEF Sound
<1> HIDE DEF a
<1>3. Within(record, clock + 1)
  BY <1>0, WithinLater
<1>4. Descends(record', record, clock + 2) /\ Within(record', clock + 2)
  <2>1. /\ clock + 1 \in Nat /\ LegacyKey <= clock + 1 /\ clock + 1 # None
        /\ clock + 1 # LegacyKey /\ (clock + 1) + 1 = clock + 2
    BY <1>0 DEF LegacyKey, None
  <2> QED
    BY <1>0, <1>1, <1>2, <1>3, <2>1, ActivateSound
<1>5. record'.mode = "active" /\ record'.snap = record.snap /\ record.snap.at \in Nat
  BY <1>0, <1>1, ActivateFields DEF State
<1> QED
  BY <1>0, <1>1, <1>4, <1>5, FollowsMoved

\* A snapshot is stored under its epoch when it is of the record's account, and
\* not over a newer one.
LEMMA WriteMoved ==
    ASSUME TypeOK, TypeOK', RecordFits, NEW acct, NEW at \in Nat,
           record' = WriteSnapshot(record, acct, at), clock' = clock,
           record.mode = "active", acct = record.ident, at >= record.snap.at
    PROVE  Moved
<1>0. /\ clock \in Nat /\ record \in State
      /\ Sound(record) /\ Within(record, clock)
  BY DEF TypeOK, RecordFits
<1>1. Descends(record', record, clock + 1) /\ Within(record', clock')
  BY <1>0, SnapshotSound
<1>2. record'.mode = "active" /\ record'.snap.at = at
  BY <1>0 DEF WriteSnapshot, State
<1> QED
  BY <1>0, <1>1, <1>2, FollowsMoved

-----------------------------------------------------------------------------
(* Answers are of the account the connection has.                           *)

\* What was known and owned still is after the record moved on.
LEMMA OwnedMoves ==
    ASSUME TypeOK, Moved
    PROVE  /\ \A snap \in Stamped : Owned(snap) => Owned(snap)'
           /\ \A at \in LoadStates : LoadFits(at) => LoadFits(at)'
<1>1. \A v \in Version : Known(v) => Known(v)'
  BY DEF Moved
<1>2. ASSUME NEW snap \in Stamped, Owned(snap) PROVE Owned(snap)'
  BY <1>1, <1>2 DEF Owned, Stamped
<1>3. ASSUME NEW at \in LoadStates, LoadFits(at) PROVE LoadFits(at)'
  BY <1>1, <1>2, <1>3 DEF LoadFits, LoadStates
<1> QED
  BY <1>2, <1>3

\* An absent version is known, nothing is owned, and an ended load holds nothing.
LEMMA EmptyOwned ==
    ASSUME TypeOK, RecordFits
    PROVE  Known(NoVersion) /\ Owned(Nothing) /\ LoadFits(Idle)
<1>1. record.gen \in Nat /\ clock \in Nat /\ record.gen # None
  BY DEF TypeOK, State, RecordFits
<1> QED
  BY <1>1 DEF Known, Owned, LoadFits, NoVersion, Nothing, Idle, None

\* The version of an active record is known; only a record that is not active
\* has none.
LEMMA CurrentKnown ==
    ASSUME TypeOK, RecordFits
    PROVE  /\ Known(CurrentVersion)
           /\ (CurrentVersion # NoVersion) = (record.mode = "active")
           /\ record.mode = "active" =>
                 /\ CurrentVersion = VersionOf(record) /\ SameEpoch(record, CurrentVersion)
                 /\ CurrentVersion.gen = record.gen
<1>1. record.gen \in Nat /\ record.ep \in Nat /\ clock \in Nat /\ record.gen # None
      /\ record.ep <= clock
  BY DEF TypeOK, State, RecordFits, Within
<1> QED
  BY <1>1, EmptyOwned DEF CurrentVersion, VersionOf, Known, SameEpoch, NoVersion

\* A step that leaves owned stamps behind, or took them from owned ones, keeps
\* the invariant.
LEMMA OwnedKept ==
    ASSUME TypeOK, TypeOK', Moved,
           \A i \in Repositories : Owned(memory'[i]) /\ Owned(shown'[i]),
           \A l \in Loads : LoadFits(load'[l])
    PROVE  OwnedInv'
<1>1. /\ \A i \in Repositories : memory'[i] \in Stamped /\ shown'[i] \in Stamped
      /\ \A l \in Loads : load'[l] \in LoadStates
  BY DEF TypeOK
<1>2. \A v \in Version : Known(v) => Known(v)'
  BY DEF Moved
<1>3. ASSUME NEW i \in Repositories PROVE (Owned(memory[i]) /\ Owned(shown[i]))'
  <2>1. Owned(memory'[i]) /\ Owned(shown'[i]) /\ memory'[i] \in Stamped /\ shown'[i] \in Stamped
    BY <1>1
  <2> QED
    BY <1>2, <2>1 DEF Owned, Stamped
<1>4. ASSUME NEW l \in Loads PROVE LoadFits(load[l])'
  <2>1. LoadFits(load'[l]) /\ load'[l] \in LoadStates
    BY <1>1
  <2> QED
    BY <1>2, <2>1 DEF LoadFits, Owned, LoadStates, Stamped
<1> QED
  BY <1>3, <1>4 DEF OwnedInv, Moved

\* Remembering an owned snapshot leaves owned ones.
LEMMA RememberOwned ==
    ASSUME TypeOK, OwnedInv, NEW l \in Loads, NEW snap, Owned(snap), Remember(l, snap)
    PROVE  \A i \in Repositories : Owned(memory'[i])
BY DEF TypeOK, OwnedInv, Remember

\* Another load's state does not move with a step of this one.
LEMMA OneLoad ==
    ASSUME TypeOK, OwnedInv, NEW l \in Loads, NEW at, LoadFits(at),
           load' = [load EXCEPT ![l] = at]
    PROVE  \A m \in Loads : LoadFits(load'[m])
BY DEF TypeOK, OwnedInv

\* A capture holds what was remembered or stored for its version.
LEMMA CapturedOwned ==
    ASSUME TypeOK, OwnedInv, NEW l \in Loads, NEW ver \in Version, Known(ver),
           NEW disk \in Stamped, Owned(disk), Captured(l, ver, disk)
    PROVE  /\ \A i \in Repositories : Owned(memory'[i])
           /\ \A m \in Loads : LoadFits(load'[m])
<1> DEFINE mine   == memory[RepositoryOf[l]]
           kept   == IF ver # NoVersion /\ SameCache(mine.ver, ver) THEN mine ELSE Nothing
           cached == Newest(kept, disk)
           at     == [load[l] EXCEPT !.pc = "queued", !.ver = ver, !.cached = cached]
<1>1. Owned(mine) /\ Owned(Nothing) /\ LoadFits(load[l]) /\ load[l] \in LoadStates
  BY LoadAssumption, EmptyOwned DEF OwnedInv, TypeOK
<1>2. Owned(cached)
  BY <1>1 DEF Newest
<1>3. load' = [load EXCEPT ![l] = at] /\ Remember(l, cached)
  BY DEF Captured, TypeOK
<1> HIDE DEF cached
<1>4. LoadFits(at)
  BY <1>1, <1>2 DEF LoadFits, LoadStates
<1> QED
  BY <1>2, <1>3, <1>4, RememberOwned, OneLoad

\* A response is kept as the newest of owned snapshots.
LEMMA KeepOwned ==
    ASSUME TypeOK, OwnedInv, NEW l \in Loads, NEW kept, Owned(kept), Keep(l, kept),
           Owned(Stamp(load[l].live, load[l].ver))
    PROVE  \A m \in Loads : LoadFits(load'[m])
<1> DEFINE live == Stamp(load[l].live, load[l].ver)
           new  == Newest(kept, load[l].cached)
           at   == [load[l] EXCEPT !.pc = "revalid", !.live = live, !.kept = new]
<1>1. LoadFits(load[l]) /\ load[l] \in LoadStates
  BY DEF OwnedInv, TypeOK
<1>2. Owned(new)
  BY <1>1 DEF Newest, LoadFits
<1>3. load' = [load EXCEPT ![l] = at]
  BY DEF Keep, TypeOK
<1> HIDE DEF live, new
<1>4. LoadFits(at)
  <2>1. Owned(live) /\ live.ver = load[l].ver
    BY DEF live, Stamp
  <2> QED
    BY <1>1, <1>2, <2>1 DEF LoadFits, LoadStates
<1> QED
  BY <1>3, <1>4, OneLoad

\* A load that moves on, and holds what it held, fits where it goes.
LEMMA ContinueOwned ==
    ASSUME TypeOK, OwnedInv, NEW l \in Loads, NEW pc \in Places,
           pc \notin {"fetch", "valid", "store", "recapture", "revalid"}
               \/ (pc = "recapture" /\ load[l].live.ver = load[l].ver),
           Continue(l, pc) \/ End(l)
    PROVE  \A m \in Loads : LoadFits(load'[m])
<1>1. LoadFits(load[l]) /\ load[l] \in LoadStates /\ LoadFits(Idle)
  BY EmptyOwned DEF OwnedInv, TypeOK
<1>2. CASE Continue(l, pc)
  <2> DEFINE at == [load[l] EXCEPT !.pc = pc]
  <2>1. load' = [load EXCEPT ![l] = at]
    BY <1>2 DEF Continue, TypeOK
  <2>2. LoadFits(at)
    BY <1>1 DEF LoadFits, LoadStates
  <2> QED
    BY <2>1, <2>2, OneLoad
<1>3. CASE End(l)
  BY <1>1, <1>3, OneLoad DEF End
<1> QED
  BY <1>2, <1>3

\* Stamping a response once the captured version was found to count: the token
\* it was fetched with is of that version's account.
LEMMA StampOwned ==
    ASSUME TypeOK, OwnedInv, NEW l \in Loads, load[l].pc = "valid",
           SameEpoch(record, load[l].ver)
    PROVE  Owned(Stamp(load[l].live, load[l].ver))
<1> DEFINE at == load[l]
<1>1. LoadFits(at) /\ at.ver.gen \in Nat /\ at.token.gen \in Nat /\ record.gen \in Nat
  BY DEF OwnedInv, TypeOK, LoadStates, Version, State
<1>2. at.token.gen = record.gen /\ at.ver.gen = record.gen
  BY <1>1 DEF LoadFits, Known, SameEpoch
<1>3. at.live.acct = at.ver.ident
  BY <1>1, <1>2 DEF LoadFits, Known, SameEpoch
<1> QED
  BY <1>1, <1>3 DEF LoadFits, Owned, Stamp

\* A response that is stamped already is stamped the same again.
LEMMA StampedOwned ==
    ASSUME TypeOK, OwnedInv, NEW l \in Loads,
           load[l].pc \in {"store", "recapture", "revalid"}
    PROVE  Stamp(load[l].live, load[l].ver) = load[l].live
BY DEF OwnedInv, LoadFits, Stamp, TypeOK, LoadStates, Stamped

\* A live answer that counts is of the account the record is active for, so that
\* storing it keeps the record sound.
LEMMA LiveOwned ==
    ASSUME TypeOK, OwnedInv, NEW snap, Owned(snap), SameEpoch(record, snap.ver)
    PROVE  record.mode = "active" /\ snap.acct = record.ident
<1>1. record.gen # None
  BY DEF OwnedInv, RecordFits
<1> QED
  BY <1>1 DEF Owned, SameEpoch

\* Every step moves the record on.
LEMMA StepMoved ==
    ASSUME TypeOK, TypeOK', OwnedInv, [Next]_vars
    PROVE  Moved
<1>0. RecordFits
  BY DEF OwnedInv
<1>1. CASE UNCHANGED <<record, clock>>
  BY <1>0, <1>1, UnchangedMoved
<1>2. ASSUME NEW l \in Loads, Rotate(l) PROVE Moved
  BY <1>0, <1>2, RotateMoved
<1>3. ASSUME NEW l \in Loads, FetchFails(l) PROVE Moved
  BY <1>0, <1>1, <1>3, DeleteMoved DEF FetchFails
<1>4. ASSUME NEW l \in Loads, ClearOwn(l) PROVE Moved
  BY <1>0, <1>1, <1>4, ClearMoved DEF ClearOwn
<1>5. ASSUME NEW l \in Loads, Store(l) PROVE Moved
  <2> DEFINE live == load[l].live
  <2>1. live \in Stamped /\ Owned(live)
    BY DEF TypeOK, LoadStates, OwnedInv, LoadFits
  <2>2. CASE /\ SameEpoch(record, live.ver) /\ live.at >= record.snap.at
             /\ record' = WriteSnapshot(record, live.acct, live.at)
    <3>1. clock' = clock /\ live.at \in Nat
      BY <1>5, <2>1 DEF Store, Stamped
    <3>2. record.mode = "active" /\ live.acct = record.ident
      BY <2>1, <2>2, LiveOwned
    <3> QED
      BY <1>0, <2>2, <3>1, <3>2, WriteMoved
  <2>3. CASE record' = record
    BY <1>1, <1>5, <2>3 DEF Store
  <2> QED
    BY <1>5, <2>2, <2>3 DEF Store
<1>6. CASE \/ BeginReconnect \/ CancelReconnect
           \/ \E a \in Accounts : CompleteReconnect(a)
           \/ \E i \in Repositories : ClearPersistent(i)
  BY <1>0, <1>6, ChangesMoved
<1>7. ASSUME NEW l \in Loads,
             \/ Start(l) \/ ReadVersion(l) \/ ReadSnapshot(l) \/ Reread(l) \/ Fetch(l)
             \/ Fetched(l) \/ Validate(l) \/ Recapture(l) \/ Revalidate(l) \/ Recover(l)
             \/ Publish(l)
      PROVE  Moved
  BY <1>1, <1>7
  DEF Start, ReadVersion, ReadSnapshot, Reread, Fetch, Fetched, Validate, Recapture,
      Revalidate, Recover, Publish, platform
<1>8. CASE Die \/ UNCHANGED vars \/ \E i \in Repositories : Invalidate(i)
  BY <1>1, <1>8 DEF Die, Invalidate, vars, platform
<1> QED
  BY <1>2, <1>3, <1>4, <1>5, <1>6, <1>7, <1>8 DEF Next, Step, Quiet

\* The first credential is signed in, and nothing is held.
LEMMA InitOwned ==
    ASSUME Init
    PROVE  OwnedInv
<1> DEFINE begun == Reconnect(LegacyState, 2)
<1>1. PICK a \in Accounts : record = Activate(begun, "complete", 2, a, 3)
  BY DEF Init
<1>2. begun \in State /\ Sound(begun) /\ Within(begun, 2) /\ begun.mode = "pending"
  <2>1. LegacyState \in State /\ Sound(LegacyState) /\ Within(LegacyState, LegacyKey)
    BY LegacyStateType, LegacyStateSound
  <2>2. LegacyKey + 1 = 2 /\ LegacyKey \in Nat /\ 2 \in Nat
    BY DEF LegacyKey
  <2> QED
    BY <2>1, <2>2, ReconnectSound, ReconnectType, ReconnectFields DEF Descends
<1>3. begun.gen = 2
  BY LegacyStateType, ReconnectFields
<1> HIDE DEF begun
<1>4. Sound(record) /\ Within(record, 3)
  <2>1. 2 # LegacyKey /\ LegacyKey <= 2 /\ 2 # None /\ 2 \in Nat /\ 2 <= 2 /\ 2 + 1 = 3
    BY DEF LegacyKey, None
  <2>2. "pending" # "active"
    OBVIOUS
  <2>3. begun.mode = "active" => a = begun.ident
    BY <1>2, <2>2
  <2> QED
    BY <1>1, <1>2, <2>1, <2>3, ActivateSound DEF Descends
<1>5. record \in State /\ record.gen = 2 /\ record.mode = "active"
  <2>1. a \in Identities /\ 3 \in Nat /\ 2 \in Nat
    BY DEF Identities
  <2> QED
    BY <1>1, <1>2, <1>3, <2>1, ActivateFields, ActivateType
<1>6. RecordFits
  BY <1>4, <1>5 DEF RecordFits, Init, LegacyKey, None
<1>7. Known(NoVersion) /\ Owned(Nothing) /\ LoadFits(Idle)
  BY <1>5 DEF Init, Known, Owned, LoadFits, NoVersion, Nothing, Idle, None
<1> QED
  BY <1>6, <1>7, LoadAssumption DEF Init, OwnedInv

\* Every step leaves owned stamps behind.
LEMMA NextOwned ==
    ASSUME TypeOK, TypeOK', OwnedInv, [Next]_vars
    PROVE  OwnedInv'
<1> USE LoadAssumption
<1>m. Moved
  BY StepMoved
<1>0. /\ RecordFits /\ Known(NoVersion) /\ Owned(Nothing) /\ LoadFits(Idle)
      /\ Known(CurrentVersion)
  BY EmptyOwned, CurrentKnown DEF OwnedInv
<1>i. \A i \in Repositories : Owned(memory[i]) /\ Owned(shown[i])
  BY DEF OwnedInv
<1>l. ASSUME NEW l \in Loads
      PROVE  /\ load[l] \in LoadStates /\ LoadFits(load[l])
             /\ load[l].ver \in Version /\ Known(load[l].ver) /\ load[l].cached \in Stamped
             /\ Owned(load[l].cached) /\ Owned(load[l].live) /\ Owned(load[l].kept)
  BY DEF OwnedInv, TypeOK, LoadStates, LoadFits
<1>p. {"idle", "version", "snapshot", "reread", "queued", "fetch", "clear", "valid",
       "store", "recapture", "revalid", "recover", "publish"} = Places
  BY DEF Places
<1>n. ASSUME UNCHANGED <<memory, shown, load>> PROVE OwnedInv'
  BY <1>m, <1>i, <1>l, <1>n, OwnedKept
<1>1. ASSUME NEW l \in Loads, Start(l) PROVE OwnedInv'
  <2> DEFINE at == [load[l] EXCEPT !.pc = "version", !.rev = revision[RepositoryOf[l]] + 1]
  <2>1. LoadFits(at)
    BY <1>l DEF LoadFits, LoadStates
  <2>2. load' = [load EXCEPT ![l] = at] /\ UNCHANGED <<memory, shown>>
    BY <1>1 DEF Start, TypeOK
  <2> HIDE DEF at
  <2>3. \A m \in Loads : LoadFits(load'[m])
    BY <2>1, <2>2, OneLoad
  <2> QED
    BY <1>m, <1>i, <2>2, <2>3, OwnedKept
<1>2. ASSUME NEW l \in Loads, ReadVersion(l) PROVE OwnedInv'
  <2>1. CASE UNCHANGED memory
             /\ load' = [load EXCEPT ![l].pc = "snapshot", ![l].ver = CurrentVersion]
    <3> DEFINE at == [load[l] EXCEPT !.pc = "snapshot", !.ver = CurrentVersion]
    <3>1. LoadFits(at)
      BY <1>l, <1>0 DEF LoadFits, LoadStates
    <3>2. load' = [load EXCEPT ![l] = at] /\ UNCHANGED <<memory, shown>>
      BY <1>2, <2>1 DEF ReadVersion, TypeOK
    <3> HIDE DEF at
    <3>3. \A m \in Loads : LoadFits(load'[m])
      BY <3>1, <3>2, OneLoad
    <3> QED
      BY <1>m, <1>i, <3>2, <3>3, OwnedKept
  <2>2. CASE Captured(l, NoVersion, Nothing)
    <3>1. /\ \A i \in Repositories : Owned(memory'[i])
          /\ \A m \in Loads : LoadFits(load'[m])
      BY <1>0, <2>2, EmptyTypes, CapturedOwned
    <3> QED
      BY <1>m, <1>i, <1>2, <3>1, OwnedKept DEF ReadVersion
  <2>3. CASE Remember(l, Nothing) /\ End(l)
    <3>1. /\ \A i \in Repositories : Owned(memory'[i])
          /\ \A m \in Loads : LoadFits(load'[m])
      BY <1>0, <1>p, <2>3, RememberOwned, ContinueOwned
    <3> QED
      BY <1>m, <1>i, <1>2, <3>1, OwnedKept DEF ReadVersion
  <2> QED
    BY <1>2, <2>1, <2>2, <2>3 DEF ReadVersion
<1>3. ASSUME NEW l \in Loads, ReadSnapshot(l) PROVE OwnedInv'
  <2>1. CASE SameEpoch(record, load[l].ver) /\ record.snap # NoSnapshot
             /\ Captured(l, load[l].ver, Stamp(record.snap, load[l].ver))
    <3> DEFINE disk == Stamp(record.snap, load[l].ver)
    <3>1. disk \in Stamped
      BY <1>l, StampTypes DEF TypeOK, State, Identities
    <3>2. Owned(disk)
      BY <1>0, <1>l, <2>1 DEF Owned, Stamp, SameEpoch, RecordFits, Sound
    <3>3. /\ \A i \in Repositories : Owned(memory'[i])
          /\ \A m \in Loads : LoadFits(load'[m])
      BY <1>l, <2>1, <3>1, <3>2, CapturedOwned
    <3> QED
      BY <1>m, <1>i, <1>3, <3>3, OwnedKept DEF ReadSnapshot
  <2>2. CASE Continue(l, "reread") /\ UNCHANGED memory
    <3>1. \A m \in Loads : LoadFits(load'[m])
      BY <1>p, <2>2, ContinueOwned
    <3> QED
      BY <1>m, <1>i, <1>3, <2>2, <3>1, OwnedKept DEF ReadSnapshot
  <2>3. CASE Captured(l, load[l].ver, Nothing)
    <3>1. /\ \A i \in Repositories : Owned(memory'[i])
          /\ \A m \in Loads : LoadFits(load'[m])
      BY <1>0, <1>l, <2>3, EmptyTypes, CapturedOwned
    <3> QED
      BY <1>m, <1>i, <1>3, <3>1, OwnedKept DEF ReadSnapshot
  <2> QED
    BY <1>3, <2>1, <2>2, <2>3 DEF ReadSnapshot
<1>4. ASSUME NEW l \in Loads, Reread(l) PROVE OwnedInv'
  <2> DEFINE ver == IF SameEpoch(record, load[l].ver) THEN load[l].ver ELSE CurrentVersion
  <2>1. ver \in Version /\ Known(ver) /\ Captured(l, ver, Nothing)
    BY <1>0, <1>l, <1>4, CurrentVersionType DEF Reread
  <2> HIDE DEF ver
  <2>2. /\ \A i \in Repositories : Owned(memory'[i])
        /\ \A m \in Loads : LoadFits(load'[m])
    BY <1>0, <2>1, EmptyTypes, CapturedOwned
  <2> QED
    BY <1>m, <1>i, <1>4, <2>2, OwnedKept DEF Reread
<1>5. ASSUME NEW l \in Loads, Fetch(l) PROVE OwnedInv'
  <2>1. CASE CurrentVersion # NoVersion
    <3> DEFINE at == [load[l] EXCEPT !.pc = "fetch", !.token = CurrentVersion]
    <3>1. LoadFits(at)
      BY <1>l, <1>0, <2>1, CurrentKnown DEF LoadFits, LoadStates, Known
    <3>2. load' = [load EXCEPT ![l] = at] /\ UNCHANGED <<memory, shown>>
      BY <1>5, <2>1 DEF Fetch, TypeOK
    <3> HIDE DEF at
    <3>3. \A m \in Loads : LoadFits(load'[m])
      BY <3>1, <3>2, OneLoad
    <3> QED
      BY <1>m, <1>i, <3>2, <3>3, OwnedKept
  <2>2. CASE CurrentVersion = NoVersion
    <3>1. /\ \A i \in Repositories : Owned(memory'[i])
          /\ \A m \in Loads : LoadFits(load'[m])
      BY <1>0, <1>p, <1>5, <2>2, RememberOwned, ContinueOwned DEF Fetch
    <3> QED
      BY <1>m, <1>i, <1>5, <3>1, OwnedKept DEF Fetch
  <2> QED
    BY <2>1, <2>2
<1>6. ASSUME NEW l \in Loads, Rotate(l) PROVE OwnedInv'
  <2>1. /\ record' = Activate(record, "refresh", clock + 1, load[l].token.ident, clock + 2)
        /\ load' = [load EXCEPT ![l].token = VersionOf(record')]
        /\ UNCHANGED <<memory, shown>>
    BY <1>6 DEF Rotate
  <2>2. record'.mode = "active" /\ record'.gen = record.gen /\ record' \in State
    BY <2>1, ActivateFields DEF TypeOK
  <2>3. /\ \A i \in Repositories : (Owned(memory[i]) /\ Owned(shown[i]))'
        /\ \A m \in Loads \ {l} : LoadFits(load[m])'
        /\ RecordFits'
    <3>1. /\ \A snap \in Stamped : Owned(snap) => Owned(snap)'
          /\ \A at \in LoadStates : LoadFits(at) => LoadFits(at)'
      BY <1>m, OwnedMoves
    <3>2. ASSUME NEW i \in Repositories PROVE (Owned(memory[i]) /\ Owned(shown[i]))'
      <4>1. memory[i] \in Stamped /\ shown[i] \in Stamped /\ memory'[i] = memory[i] /\ shown'[i] = shown[i]
        BY <2>1 DEF TypeOK
      <4> QED
        BY <1>i, <1>m, <4>1 DEF Owned, Moved, Stamped
    <3>3. ASSUME NEW m \in Loads, m # l PROVE LoadFits(load[m])'
      <4>1. load'[m] = load[m]
        BY <2>1, <3>3 DEF TypeOK
      <4>2. \A v \in Version : Known(v) => Known(v)'
        BY <1>m DEF Moved
      <4> QED
        BY <1>l, <4>1, <4>2 DEF LoadFits, Owned, LoadStates, Stamped
    <3> QED
      BY <1>m, <3>2, <3>3 DEF Moved
  <2>4. LoadFits(load[l])'
    <3>1. load'[l] = [load[l] EXCEPT !.token = VersionOf(record')] /\ load[l].pc = "fetch"
      BY <1>6, <2>1 DEF TypeOK, Rotate
    <3>2. \A v \in Version : Known(v) => Known(v)'
      BY <1>m DEF Moved
    <3>3. Known(VersionOf(record))'
      BY <2>2, <2>3, CurrentKnown DEF Known, VersionOf, RecordFits, Within, State
    <3>4. VersionOf(record').gen = record.gen /\ load[l].ver.gen <= record.gen
      BY <1>l, <2>2 DEF VersionOf, Known
    <3> QED
      BY <1>l, <3>1, <3>2, <3>3, <3>4 DEF LoadFits, Owned, LoadStates, Stamped
  <2> QED
    BY <2>3, <2>4 DEF OwnedInv
<1>7. ASSUME NEW l \in Loads, Fetched(l) PROVE OwnedInv'
  <2>1. PICK t \in 1..MaxAt :
           load' = [load EXCEPT ![l].pc = "valid",
                       ![l].live = [acct |-> load[l].token.ident, at |-> t, ver |-> NoVersion]]
    BY <1>7 DEF Fetched
  <2> DEFINE live == [acct |-> load[l].token.ident, at |-> t, ver |-> NoVersion]
             at   == [load[l] EXCEPT !.pc = "valid", !.live = live]
  <2>2. load' = [load EXCEPT ![l] = at] /\ UNCHANGED <<memory, shown>> /\ load[l].pc = "fetch"
    BY <1>7, <2>1 DEF Fetched, TypeOK
  <2>3. Owned(live) /\ live.acct = load[l].token.ident /\ live.ver = NoVersion
    BY <1>0 DEF Owned, NoVersion
  <2> HIDE DEF live
  <2>4. LoadFits(at)
    BY <1>l, <2>2, <2>3 DEF LoadFits, LoadStates
  <2> HIDE DEF at
  <2>5. \A m \in Loads : LoadFits(load'[m])
    BY <2>2, <2>4, OneLoad
  <2> QED
    BY <1>m, <1>i, <2>2, <2>5, OwnedKept
<1>8. ASSUME NEW l \in Loads, FetchFails(l) PROVE OwnedInv'
  <2>1. \A m \in Loads : LoadFits(load'[m])
    BY <1>p, <1>8, ContinueOwned DEF FetchFails
  <2> QED
    BY <1>m, <1>i, <1>8, <2>1, OwnedKept DEF FetchFails
<1>9. ASSUME NEW l \in Loads, ClearOwn(l) PROVE OwnedInv'
  <2>1. \A m \in Loads : LoadFits(load'[m])
    BY <1>p, <1>9, ContinueOwned DEF ClearOwn
  <2> QED
    BY <1>m, <1>i, <1>9, <2>1, OwnedKept DEF ClearOwn
<1>10. ASSUME NEW l \in Loads, Validate(l) PROVE OwnedInv'
  <2> DEFINE live == Stamp(load[l].live, load[l].ver)
             pc   == IF Newer(load[l].cached, live) THEN "recapture" ELSE "store"
  <2>1. CASE ~SameEpoch(record, load[l].ver)
    <3>1. /\ \A i \in Repositories : Owned(memory'[i])
          /\ \A m \in Loads : LoadFits(load'[m])
      BY <1>0, <1>p, <1>10, <2>1, RememberOwned, ContinueOwned DEF Validate
    <3> QED
      BY <1>m, <1>i, <1>10, <3>1, OwnedKept DEF Validate
  <2>2. CASE SameEpoch(record, load[l].ver)
    <3>1. Owned(live)
      BY <1>10, <2>2, StampOwned DEF Validate
    <3>2. CASE Keep(l, live)
      <4>1. \A m \in Loads : LoadFits(load'[m])
        BY <3>1, <3>2, KeepOwned
      <4> QED
        BY <1>m, <1>i, <1>10, <2>2, <4>1, OwnedKept DEF Validate
    <3>3. CASE load' = [load EXCEPT ![l].live = live, ![l].pc = pc]
      <4> DEFINE at == [load[l] EXCEPT !.live = live, !.pc = pc]
      <4>1. load' = [load EXCEPT ![l] = at]
        BY <3>3 DEF TypeOK
      <4>2. pc \notin {"fetch", "valid"} /\ live.ver = load[l].ver
        BY DEF Stamp
      <4> HIDE DEF live, pc
      <4>3. LoadFits(at)
        BY <1>l, <3>1, <4>2 DEF LoadFits, LoadStates
      <4> HIDE DEF at
      <4>4. \A m \in Loads : LoadFits(load'[m])
        BY <4>1, <4>3, OneLoad
      <4> QED
        BY <1>m, <1>i, <1>10, <2>2, <4>4, OwnedKept DEF Validate
    <3> QED
      BY <1>10, <2>2, <3>2, <3>3 DEF Validate
  <2> QED
    BY <2>1, <2>2
<1>11. ASSUME NEW l \in Loads, Store(l) PROVE OwnedInv'
  <2>0. /\ load[l].pc = "store" /\ UNCHANGED <<memory, shown>>
        /\ Stamp(load[l].live, load[l].ver) = load[l].live
        /\ load[l].live.ver = load[l].ver
    BY <1>l, <1>11, StampedOwned DEF Store, LoadFits
  <2>1. CASE Keep(l, load[l].live)
    <3>1. \A m \in Loads : LoadFits(load'[m])
      BY <1>l, <2>0, <2>1, KeepOwned
    <3> QED
      BY <1>m, <1>i, <2>0, <3>1, OwnedKept
  <2>2. CASE Continue(l, "recapture")
    <3>1. \A m \in Loads : LoadFits(load'[m])
      BY <1>p, <2>0, <2>2, ContinueOwned
    <3> QED
      BY <1>m, <1>i, <2>0, <3>1, OwnedKept
  <2> QED
    BY <1>11, <2>1, <2>2 DEF Store
<1>12. ASSUME NEW l \in Loads, Recapture(l) PROVE OwnedInv'
  <2> DEFINE live == load[l].live
             disk == IF SameEpoch(record, live.ver) THEN Stamp(record.snap, CurrentVersion)
                     ELSE Nothing
             new  == Newest(live, disk)
  <2>0. /\ load[l].pc = "recapture" /\ UNCHANGED <<memory, shown>>
        /\ Stamp(live, load[l].ver) = live
    BY <1>12, StampedOwned DEF Recapture
  <2>1. Owned(live) /\ live \in Stamped
    BY <1>l DEF LoadStates
  <2>2. Owned(new)
    <3>1. CASE SameEpoch(record, live.ver) /\ record.snap # NoSnapshot
      <4>1. record.mode = "active" /\ record.snap.acct = record.ident
        BY <1>0, <3>1 DEF RecordFits, Sound, SameEpoch
      <4>2. CurrentVersion = VersionOf(record)
        BY <1>0, <4>1, CurrentKnown
      <4>3. Owned(disk)
        BY <1>0, <3>1, <4>1, <4>2 DEF Owned, Stamp, VersionOf
      <4> QED
        BY <2>1, <4>3 DEF Newest
    <3>2. CASE record.snap = NoSnapshot \/ ~SameEpoch(record, live.ver)
      <4>1. disk.at = 0
        BY <3>2 DEF Stamp, NoSnapshot, Nothing
      <4>2. live.at \in Nat
        BY <2>1 DEF Stamped
      <4> HIDE DEF live, disk
      <4>3. Newest(live, disk) = live
        BY <4>1, <4>2 DEF Newest, Newer
      <4> QED
        BY <2>1, <4>3
    <3> QED
      BY <3>1, <3>2
  <2>3. Keep(l, new) \/ Keep(l, live)
    BY <1>12 DEF Recapture
  <2> HIDE DEF new
  <2>4. \A m \in Loads : LoadFits(load'[m])
    BY <2>0, <2>1, <2>2, <2>3, KeepOwned
  <2> QED
    BY <1>m, <1>i, <2>0, <2>4, OwnedKept
<1>13. ASSUME NEW l \in Loads, Revalidate(l) PROVE OwnedInv'
  <2>0. UNCHANGED shown
    BY <1>13 DEF Revalidate
  <2>1. CASE End(l) /\ UNCHANGED memory
    <3>1. \A m \in Loads : LoadFits(load'[m])
      BY <1>p, <2>1, ContinueOwned
    <3> QED
      BY <1>m, <1>i, <2>0, <2>1, <3>1, OwnedKept
  <2>2. CASE /\ Remember(l, load[l].kept)
             /\ load' = [load EXCEPT ![l].pc = "publish", ![l].live = Newest(@, load[l].kept)]
    <3> DEFINE new == Newest(load[l].live, load[l].kept)
               at  == [load[l] EXCEPT !.pc = "publish", !.live = new]
    <3>1. Owned(new)
      BY <1>l DEF Newest
    <3>2. load' = [load EXCEPT ![l] = at]
      BY <2>2 DEF TypeOK
    <3> HIDE DEF new
    <3>3. LoadFits(at)
      BY <1>l, <3>1 DEF LoadFits, LoadStates
    <3> HIDE DEF at
    <3>4. \A m \in Loads : LoadFits(load'[m])
      BY <3>2, <3>3, OneLoad
    <3>5. \A i \in Repositories : Owned(memory'[i])
      BY <1>l, <2>2, RememberOwned
    <3> QED
      BY <1>m, <1>i, <2>0, <3>4, <3>5, OwnedKept
  <2> QED
    BY <1>13, <2>1, <2>2 DEF Revalidate
<1>14. ASSUME NEW l \in Loads, Recover(l) PROVE OwnedInv'
  <2> DEFINE cached == IF Current(l) THEN load[l].cached ELSE Nothing
  <2>0. UNCHANGED shown /\ Owned(cached)
    BY <1>0, <1>l, <1>14 DEF Recover
  <2>1. CASE load' = [load EXCEPT ![l].pc = "publish", ![l].live = cached] /\ UNCHANGED memory
    <3> DEFINE at == [load[l] EXCEPT !.pc = "publish", !.live = cached]
    <3> HIDE DEF cached
    <3>1. load' = [load EXCEPT ![l] = at]
      BY <2>1 DEF TypeOK
    <3>2. LoadFits(at)
      BY <1>l, <2>0 DEF LoadFits, LoadStates
    <3> HIDE DEF at
    <3>3. \A m \in Loads : LoadFits(load'[m])
      BY <3>1, <3>2, OneLoad
    <3> QED
      BY <1>m, <1>i, <2>0, <2>1, <3>3, OwnedKept
  <2>2. CASE Remember(l, Nothing) /\ End(l)
    <3>1. /\ \A i \in Repositories : Owned(memory'[i])
          /\ \A m \in Loads : LoadFits(load'[m])
      BY <1>0, <1>p, <2>2, RememberOwned, ContinueOwned
    <3> QED
      BY <1>m, <1>i, <2>0, <3>1, OwnedKept
  <2> QED
    BY <1>14, <2>1, <2>2 DEF Recover
<1>15. ASSUME NEW l \in Loads, Publish(l) PROVE OwnedInv'
  <2>1. \A m \in Loads : LoadFits(load'[m])
    BY <1>p, <1>15, ContinueOwned DEF Publish
  <2>2. \A i \in Repositories : Owned(shown'[i])
    BY <1>i, <1>l, <1>15 DEF Publish, TypeOK
  <2> QED
    BY <1>m, <1>i, <1>15, <2>1, <2>2, OwnedKept DEF Publish
<1>16. ASSUME NEW i \in Repositories, ClearPersistent(i) PROVE OwnedInv'
  <2>1. \A j \in Repositories : Owned(memory'[j])
    BY <1>0, <1>i, <1>16 DEF ClearPersistent, TypeOK
  <2> QED
    BY <1>m, <1>i, <1>l, <1>16, <2>1, OwnedKept DEF ClearPersistent
<1>17. CASE Die
  <2>1. /\ \A i \in Repositories : Owned(memory'[i])
        /\ \A m \in Loads : LoadFits(load'[m])
    BY <1>0, <1>17 DEF Die
  <2> QED
    BY <1>m, <1>i, <1>17, <2>1, OwnedKept DEF Die
<1>18. CASE \/ BeginReconnect \/ CancelReconnect \/ UNCHANGED vars
            \/ \E a \in Accounts : CompleteReconnect(a)
            \/ \E i \in Repositories : Invalidate(i)
  BY <1>n, <1>18
  DEF BeginReconnect, CancelReconnect, CompleteReconnect, Invalidate, vars, platform
<1> QED
  BY <1>1, <1>2, <1>3, <1>4, <1>5, <1>6, <1>7, <1>8, <1>9, <1>10, <1>11, <1>12, <1>13,
     <1>14, <1>15, <1>16, <1>17, <1>18
  DEF Next, Step, Quiet

\* The invariant holds always.
LEMMA InvariantOwned == Spec => [](TypeOK /\ OwnedInv)
<1>1. Init => OwnedInv
  BY InitOwned
<1>2. TypeOK /\ TypeOK' /\ OwnedInv /\ [Next]_vars => OwnedInv'
  BY NextOwned
<1> QED
  BY <1>1, <1>2, TypesCorrect, PTL DEF Spec

\* What is answered was reported for the account the connection has now, under
\* its present generation and epoch (MergingConnectionRepository).
THEOREM Answers == Spec => AnswersOwned
<1> DEFINE Own ==
      \A i \in Repositories :
          shown'[i] # shown[i] =>
              SameEpoch(record, shown'[i].ver) /\ shown'[i].acct = record.ident
<1>1. ASSUME TypeOK, OwnedInv, [Next]_vars PROVE Own
  <2> SUFFICES ASSUME NEW i \in Repositories, shown'[i] # shown[i]
      PROVE  SameEpoch(record, shown'[i].ver) /\ shown'[i].acct = record.ident
    OBVIOUS
  <2>1. PICK l \in Loads : Publish(l)
    BY <1>1
    DEF Next, Step, Quiet, vars, platform, Start, ReadVersion, ReadSnapshot, Reread, Fetch,
        Rotate, Fetched, FetchFails, ClearOwn, Validate, Store, Recapture, Revalidate,
        Recover, Invalidate, ClearPersistent, BeginReconnect, CancelReconnect,
        CompleteReconnect, Die
  <2>2. SameEpoch(record, load[l].live.ver) /\ shown'[i] = load[l].live
    BY <1>1, <2>1 DEF Publish, TypeOK
  <2>3. Owned(load[l].live)
    BY <1>1 DEF OwnedInv, LoadFits
  <2> QED
    BY <1>1, <2>2, <2>3, LiveOwned
<1>2. TypeOK /\ OwnedInv /\ [Next]_vars => [Own]_vars
  BY <1>1
<1> HIDE DEF Own
<1>3. Spec => [][Own]_vars
  BY <1>2, InvariantOwned, PTL DEF Spec
<1> QED
  BY <1>3 DEF Own, AnswersOwned

-----------------------------------------------------------------------------
(* What was answered is kept, and no reader goes back.                      *)

\* The stamped snapshots of a state are of known versions.
LEMMA HeldKnown ==
    ASSUME TypeOK, OwnedInv
    PROVE  /\ \A i \in Repositories :
                 /\ memory[i] \in Stamped /\ Known(memory[i].ver) /\ memory[i].ver \in Version
                 /\ shown[i] \in Stamped /\ Known(shown[i].ver) /\ shown[i].ver \in Version
                 /\ memory[i].at \in Nat /\ shown[i].at \in Nat
           /\ \A l \in Loads :
                 /\ RepositoryOf[l] \in Repositories
                 /\ load[l].ver \in Version /\ Known(load[l].ver)
                 /\ load[l].cached \in Stamped /\ load[l].cached.at \in Nat
                 /\ load[l].live \in Stamped /\ load[l].live.at \in Nat
                 /\ load[l].kept \in Stamped /\ load[l].kept.at \in Nat
                 /\ Known(load[l].cached.ver) /\ Known(load[l].live.ver)
                 /\ Known(load[l].kept.ver)
BY LoadAssumption DEF TypeOK, OwnedInv, LoadFits, Owned, LoadStates, Stamped

\* No record is in the epoch of an absent version.
LEMMA NoEpoch ==
    ASSUME RecordFits
    PROVE  ~SameEpoch(record, NoVersion) /\ OnDisk(Nothing)
BY DEF RecordFits, SameEpoch, NoVersion, OnDisk, Nothing

\* What is on disk stays there while its epoch counts.
LEMMA OnDiskKept ==
    ASSUME TypeOK, TypeOK', Moved, NEW snap \in Stamped, Known(snap.ver), OnDisk(snap)
    PROVE  OnDisk(snap)'
<1>1. snap.ver \in Version /\ snap.at \in Nat
  BY DEF Stamped
<1>2. record.snap.at \in Nat /\ record'.snap.at \in Nat
  BY DEF TypeOK, State
<1> QED
  BY <1>1, <1>2 DEF Moved, OnDisk

\* A repository that a step leaves alone.
LEMMA RepositoryKept ==
    ASSUME TypeOK, TypeOK', OwnedInv, Moved, NEW i \in Repositories,
           memory'[i] = memory[i], shown'[i] = shown[i]
    PROVE  /\ Remembered(i) => Remembered(i)'
           /\ StoredRepository(i) => StoredRepository(i)'
<1>1. Remembered(i) => Remembered(i)'
  BY HeldKnown DEF Remembered, Moved
<1>2. StoredRepository(i) => StoredRepository(i)'
  <2>1. record.snap.at \in Nat /\ record'.snap.at \in Nat
    BY DEF TypeOK, State
  <2> QED
    BY <2>1, HeldKnown DEF StoredRepository, OnDisk, Moved
<1> QED
  BY <1>1, <1>2

\* Two versions of the record's epoch share what becomes of it.
LEMMA EpochShared ==
    ASSUME Moved, NEW v \in Version, Known(v), SameEpoch(record', v),
           NEW w, SameEpoch(record, w)
    PROVE  SameEpoch(record', w) /\ SameEpoch(record, v) /\ SameCache(v, w)
BY DEF Moved, SameEpoch, SameCache

\* A load that a step leaves alone, and that is not the latest of a repository the
\* step changes.
LEMMA LoadKept ==
    ASSUME TypeOK, TypeOK', OwnedInv, Moved, NEW l \in Loads, load'[l] = load[l],
           Latest(l)' => /\ Latest(l)
                         /\ memory'[RepositoryOf[l]] = memory[RepositoryOf[l]]
                         /\ shown'[RepositoryOf[l]] = shown[RepositoryOf[l]]
    PROVE  /\ Matched(l) => Matched(l)'
           /\ Linked(l) => Linked(l)'
           /\ Lasting(l) => Lasting(l)'
           /\ Ahead(l) => Ahead(l)'
           /\ StoredLoad(l) => StoredLoad(l)'
<1> DEFINE i == RepositoryOf[l]
<1>0. i \in Repositories
  BY HeldKnown
<1>1. Matched(l) => Matched(l)'
  BY DEF Matched
<1>2. Linked(l) => Linked(l)'
  BY DEF Linked
<1>3. ASSUME Lasting(l) PROVE Lasting(l)'
  <2> SUFFICES ASSUME Latest(l)', load'[l].pc # "version", SameEpoch(record', shown'[i].ver)
      PROVE  SameEpoch(record', load'[l].ver)
    BY DEF Lasting
  <2>1. shown'[i] = shown[i] /\ Latest(l)
    OBVIOUS
  <2>2. SameEpoch(record, shown[i].ver)
    BY <1>0, <2>1, HeldKnown DEF Moved
  <2>3. SameEpoch(record, load[l].ver)
    BY <1>3, <2>1, <2>2 DEF Lasting
  <2> QED
    BY <1>0, <2>1, <2>3, HeldKnown, EpochShared
<1>4. ASSUME Ahead(l) PROVE Ahead(l)'
  <2>1. CASE Latest(l)' /\ SameEpoch(record', shown'[i].ver)
    <3>1. /\ Latest(l) /\ SameEpoch(record, shown[i].ver)
          /\ Remembered(i) => Remembered(i)'
      BY <1>0, <2>1, HeldKnown, RepositoryKept DEF Moved
    <3> QED
      BY <1>4, <2>1, <3>1 DEF Ahead
  <2>2. CASE ~(Latest(l)' /\ SameEpoch(record', shown'[i].ver))
    BY <2>2 DEF Ahead
  <2> QED
    BY <2>1, <2>2
<1>5. ASSUME StoredLoad(l) PROVE StoredLoad(l)'
  <2>1. record.snap.at \in Nat /\ record'.snap.at \in Nat
    BY DEF TypeOK, State
  <2>2. \A snap \in Stamped : Known(snap.ver) /\ OnDisk(snap) => OnDisk(snap)'
    BY OnDiskKept
  <2>3. /\ load[l].cached \in Stamped /\ Known(load[l].cached.ver)
        /\ load[l].live \in Stamped /\ Known(load[l].live.ver)
        /\ load[l].kept \in Stamped /\ Known(load[l].kept.ver)
    BY HeldKnown
  <2> QED
    BY <1>5, <2>2, <2>3 DEF StoredLoad, OnDisk
<1> QED
  BY <1>1, <1>2, <1>3, <1>4, <1>5

\* A failure counts as one; nothing else does.
FaultsCounted(rem, sto) ==
    \/ faults' = faults /\ rem /\ sto
    \/ faults' = faults + 1 /\ (rem \/ sto)

\* A step of a load changes only the load and, while it is current, what its
\* repository remembers and shows.
Alone(l) ==
    /\ load[l].pc # "idle" /\ revision' = revision
    /\ load'[l].pc = "idle" \/ load'[l].rev = load[l].rev
    /\ load'[l].rev <= load[l].rev
    /\ \A m \in Loads \ {l} : load'[m] = load[m]
    /\ \A i \in Repositories :
          i # RepositoryOf[l] \/ ~Current(l) => memory'[i] = memory[i] /\ shown'[i] = shown[i]

\* What a step of a load has to show of the load and its repository.
Rem(l) == AllRemembered /\ Current(l) => Remembered(RepositoryOf[l])'
Sto(l) == Stored => StoredRepository(RepositoryOf[l])' /\ StoredLoad(l)'

\* The other loads and repositories take no harm from a step of a load.
LEMMA AloneKept ==
    ASSUME TypeOK, TypeOK', OwnedInv, KeptInv, Moved, NEW l \in Loads, Alone(l),
           Matched(l)', Linked(l)', Lasting(l)',
           faults' \in {faults, faults + 1},
           faults' <= 1 => Ahead(l)' /\ FaultsCounted(Rem(l), Sto(l))
    PROVE  KeptInv'
<1> DEFINE i == RepositoryOf[l]
<1>0. i \in Repositories /\ faults \in Nat
  BY HeldKnown DEF TypeOK
<1>r. /\ \A m \in Loads : load[m].rev \in Nat /\ load'[m].rev \in Nat
      /\ \A j \in Repositories : revision[j] \in Nat
      /\ \A m \in Loads : RepositoryOf[m] \in Repositories
  BY HeldKnown DEF TypeOK, LoadStates
<1>1. Ranked'
  <2>1. ASSUME NEW m \in Loads
        PROVE  /\ load'[m].rev <= load[m].rev
               /\ load'[m].pc # "idle" => load[m].pc # "idle" /\ load'[m].rev = load[m].rev
    BY <1>r DEF Alone
  <2> QED
    BY <1>r, <2>1 DEF Ranked, Alone, KeptInv
<1>2. ASSUME NEW m \in Loads, m # l
      PROVE  /\ load'[m] = load[m]
             /\ Latest(m)' => /\ Latest(m)
                              /\ memory'[RepositoryOf[m]] = memory[RepositoryOf[m]]
                              /\ shown'[RepositoryOf[m]] = shown[RepositoryOf[m]]
  <2>1. load'[m] = load[m] /\ revision' = revision
    BY <1>2 DEF Alone
  <2>2. Latest(m)' => Latest(m)
    BY <2>1 DEF Latest, Current
  <2>3. Latest(m) /\ RepositoryOf[m] = i => ~Current(l)
    BY <1>2 DEF Latest, Current, KeptInv, Ranked, Alone
  <2> QED
    BY <1>r, <2>1, <2>2, <2>3 DEF Alone
<1>3. ASSUME NEW m \in Loads PROVE Matched(m)' /\ Linked(m)' /\ Lasting(m)'
  <2>1. CASE m = l
    BY <2>1
  <2>2. CASE m # l
    BY <1>2, <2>2, LoadKept DEF KeptInv
  <2> QED
    BY <2>1, <2>2
<1>4. ASSUME faults' <= 1, NEW m \in Loads PROVE Ahead(m)'
  <2>1. CASE m = l
    BY <1>4, <2>1
  <2>2. CASE m # l
    <3>1. Ahead(m)
      BY <1>0, <1>4 DEF KeptInv
    <3> QED
      BY <1>2, <2>2, <3>1, LoadKept
  <2> QED
    BY <2>1, <2>2
<1>5. ASSUME AllRemembered, Rem(l) PROVE AllRemembered'
  <2> SUFFICES ASSUME NEW j \in Repositories PROVE Remembered(j)'
    BY DEF AllRemembered
  <2>1. CASE j = i /\ Current(l)
    BY <1>5, <2>1 DEF Rem
  <2>2. CASE j # i \/ ~Current(l)
    BY <1>5, <2>2, RepositoryKept DEF Alone, AllRemembered
  <2> QED
    BY <2>1, <2>2
<1>6. ASSUME Stored, Sto(l) PROVE Stored'
  <2>1. ASSUME NEW j \in Repositories PROVE StoredRepository(j)'
    <3>1. CASE j = i
      BY <1>6, <3>1 DEF Sto
    <3>2. CASE j # i
      BY <1>6, <3>2, RepositoryKept DEF Alone, Stored
    <3> QED
      BY <3>1, <3>2
  <2>2. ASSUME NEW m \in Loads PROVE StoredLoad(m)'
    <3>1. CASE m = l
      BY <1>6, <3>1 DEF Sto
    <3>2. CASE m # l
      BY <1>2, <1>6, <3>2, LoadKept DEF Stored
    <3> QED
      BY <3>1, <3>2
  <2> QED
    BY <2>1, <2>2 DEF Stored
<1>7. Safe'
  <2>1. CASE faults' = faults
    <3>1. ASSUME faults <= 1
          PROVE  (AllRemembered => AllRemembered') /\ (Stored => Stored')
      BY <1>0, <1>5, <1>6, <2>1, <3>1 DEF FaultsCounted
    <3> QED
      BY <1>0, <2>1, <3>1 DEF Safe, KeptInv
  <2>2. CASE faults' = faults + 1
    <3>1. CASE faults = 0
      <4>1. AllRemembered /\ Stored /\ (Rem(l) \/ Sto(l))
        BY <1>0, <2>2, <3>1 DEF Safe, KeptInv, FaultsCounted
      <4>2. AllRemembered' \/ Stored'
        BY <1>5, <1>6, <4>1
      <4> QED
        BY <1>0, <2>2, <3>1, <4>2 DEF Safe
    <3>2. CASE faults # 0
      BY <1>0, <2>2, <3>2 DEF Safe
    <3> QED
      BY <3>1, <3>2
  <2> QED
    BY <2>1, <2>2
<1> QED
  BY <1>1, <1>3, <1>4, <1>7 DEF KeptInv

\* What the invariant says of a load, its repository and the failures so far.
LEMMA KeptFacts ==
    ASSUME TypeOK, KeptInv, NEW l \in Loads
    PROVE  /\ Matched(l) /\ Linked(l) /\ Lasting(l)
           /\ faults <= 1 => Ahead(l) /\ (AllRemembered \/ Stored)
           /\ faults = 0 => AllRemembered /\ Stored
           /\ Stored => StoredLoad(l) /\ StoredRepository(RepositoryOf[l])
           /\ AllRemembered => Remembered(RepositoryOf[l])
           /\ faults \in Nat
<1>1. faults \in Nat /\ RepositoryOf[l] \in Repositories
  BY LoadAssumption DEF TypeOK
<1> QED
  BY <1>1 DEF KeptInv, Safe, Stored, AllRemembered

\* A load that captured waits, fetches or stores with what it captured.
LEMMA CaptiveKept ==
    ASSUME TypeOK, TypeOK', OwnedInv, KeptInv, Moved, NEW l \in Loads,
           load[l].pc \in Captive \ {"revalid"}, load'[l].pc \in Captive \ {"revalid"},
           load'[l].cached = load[l].cached, load'[l].ver = load[l].ver,
           load'[l].rev = load[l].rev,
           \A m \in Loads \ {l} : load'[m] = load[m],
           UNCHANGED <<revision, memory, shown>>, faults' \in {faults, faults + 1},
           faults' = faults /\ Stored /\ Latest(l) /\ load'[l].pc = "recapture" =>
               OnDisk(load[l].live)'
    PROVE  KeptInv'
<1> DEFINE i == RepositoryOf[l]
<1>0. /\ i \in Repositories /\ faults \in Nat
      /\ Matched(l) /\ Linked(l) /\ Lasting(l)
      /\ faults <= 1 => Ahead(l)
      /\ Stored => StoredLoad(l) /\ StoredRepository(i)
      /\ AllRemembered => Remembered(i)
  BY HeldKnown, KeptFacts
<1>1. load'[l].rev \in Nat /\ load[l].rev \in Nat
  BY DEF TypeOK, LoadStates
<1>2. Alone(l)
  BY <1>1 DEF Alone, Captive
<1>3. Matched(l)' /\ Linked(l)'
  BY <1>0 DEF Matched, Linked, Latest, Current, Captive
<1>4. Lasting(l)'
  <2> SUFFICES ASSUME Latest(l)', SameEpoch(record', shown'[i].ver)
      PROVE  SameEpoch(record', load'[l].ver)
    BY DEF Lasting
  <2>1. SameEpoch(record, shown[i].ver) /\ Latest(l) /\ load[l].pc # "version"
    BY <1>0, HeldKnown DEF Moved, Latest, Current, Captive
  <2>2. SameEpoch(record, load[l].ver)
    BY <1>0, <2>1 DEF Lasting
  <2> QED
    BY <1>0, <2>2, HeldKnown, EpochShared
<1>5. faults' <= 1 => Ahead(l)'
  <2> SUFFICES ASSUME faults' <= 1, Latest(l)', SameEpoch(record', shown'[i].ver)
      PROVE  load'[l].cached.at >= shown'[i].at
    BY DEF Ahead, Captive
  <2>1. SameEpoch(record, shown[i].ver) /\ Latest(l) /\ faults <= 1
    BY <1>0, HeldKnown DEF Moved, Latest, Current, Captive
  <2> QED
    BY <1>0, <2>1 DEF Ahead
<1>6. Rem(l)
  BY <1>0, RepositoryKept DEF Rem
<1>7. ASSUME faults' = faults PROVE Sto(l)
  <2> SUFFICES ASSUME Stored PROVE StoredRepository(i)' /\ StoredLoad(l)'
    BY DEF Sto
  <2>1. StoredRepository(i)'
    BY <1>0, RepositoryKept
  <2>2. OnDisk(load[l].cached)'
    <3>1. load[l].cached \in Stamped /\ Known(load[l].cached.ver) /\ OnDisk(load[l].cached)
      BY <1>0, HeldKnown DEF StoredLoad
    <3>2. record.snap.at \in Nat /\ record'.snap.at \in Nat /\ load[l].cached.at \in Nat
      BY HeldKnown DEF TypeOK, State
    <3> QED
      BY <3>1, <3>2 DEF Moved, OnDisk, Stamped
  <2>3. Latest(l)' => Latest(l)
    BY DEF Latest, Current, Captive
  <2>4. load'[l].pc \notin {"revalid", "publish"}
    BY DEF Captive
  <2> QED
    BY <1>7, <2>1, <2>2, <2>3, <2>4 DEF StoredLoad, OnDisk
<1>8. FaultsCounted(Rem(l), Sto(l))
  BY <1>0, <1>6, <1>7 DEF FaultsCounted
<1> QED
  BY <1>2, <1>3, <1>4, <1>5, <1>8, AloneKept

\* A load that ends, or is left to clear what it captured, may forget what is of no
\* use any more.
LEMMA EndKept ==
    ASSUME TypeOK, TypeOK', OwnedInv, KeptInv, Moved, NEW l \in Loads,
           load[l].pc \notin {"idle", "version"}, End(l) \/ Continue(l, "clear"),
           UNCHANGED <<revision, shown, faults>>,
           \/ memory' = memory
           \/ /\ Remember(l, Nothing)
              /\ AllRemembered /\ Current(l) => ~SameEpoch(record', shown[RepositoryOf[l]].ver)
    PROVE  KeptInv'
<1> DEFINE i == RepositoryOf[l]
<1>0. /\ i \in Repositories /\ faults \in Nat
      /\ Lasting(l)
      /\ Stored => StoredLoad(l) /\ StoredRepository(i)
      /\ AllRemembered => Remembered(i)
  BY HeldKnown, KeptFacts
<1>1. /\ load[l].rev \in Nat
      /\ load'[l] = Idle \/ (load'[l] = [load[l] EXCEPT !.pc = "clear"])
      /\ \A m \in Loads \ {l} : load'[m] = load[m]
      /\ load[l] \in LoadStates
  BY DEF TypeOK, LoadStates, End, Continue
<1>2. Alone(l)
  BY <1>1 DEF Alone, Idle, LoadStates, Remember, TypeOK
<1>3. load'[l].pc \in {"idle", "clear"}
  BY <1>1 DEF Idle, LoadStates
<1>4. Matched(l)' /\ Linked(l)' /\ Ahead(l)'
  BY <1>3 DEF Matched, Linked, Ahead, Latest, Captive
<1>5. Lasting(l)'
  <2> SUFFICES ASSUME Latest(l)', SameEpoch(record', shown'[i].ver)
      PROVE  SameEpoch(record', load'[l].ver)
    BY DEF Lasting
  <2>1. load'[l].pc = "clear"
    BY <1>3 DEF Latest
  <2>2. load'[l] = [load[l] EXCEPT !.pc = "clear"]
    BY <1>1, <2>1 DEF Idle
  <2>3. SameEpoch(record, shown[i].ver) /\ Latest(l)
    BY <1>0, <1>1, <2>2, HeldKnown DEF Moved, Latest, Current, LoadStates
  <2>4. SameEpoch(record, load[l].ver)
    BY <1>0, <2>3 DEF Lasting
  <2>5. SameEpoch(record', load[l].ver)
    BY <1>0, <2>4, HeldKnown, EpochShared
  <2> QED
    BY <1>1, <2>2, <2>5 DEF LoadStates
<1>6. Rem(l)
  <2> SUFFICES ASSUME AllRemembered, Current(l) PROVE Remembered(i)'
    BY DEF Rem
  <2>1. CASE memory' = memory
    BY <1>0, <2>1, RepositoryKept
  <2>2. CASE ~SameEpoch(record', shown[i].ver)
    BY <2>2 DEF Remembered
  <2> QED
    BY <2>1, <2>2
<1>7. Sto(l)
  <2> SUFFICES ASSUME Stored PROVE StoredRepository(i)' /\ StoredLoad(l)'
    BY DEF Sto
  <2>1. ~SameEpoch(record', NoVersion)
    BY DEF Moved, RecordFits, SameEpoch, NoVersion
  <2>2. StoredRepository(i)'
    <3>1. CASE memory'[i] = memory[i]
      BY <1>0, <3>1, RepositoryKept
    <3>2. CASE memory'[i] = Nothing
      <4>1. OnDisk(shown[i]) /\ shown[i] \in Stamped /\ Known(shown[i].ver)
        BY <1>0, HeldKnown DEF StoredRepository
      <4>2. record.snap.at \in Nat /\ record'.snap.at \in Nat /\ shown[i].at \in Nat
        BY <1>0, HeldKnown DEF TypeOK, State
      <4> QED
        BY <2>1, <3>2, <4>1, <4>2 DEF StoredRepository, OnDisk, Nothing, Moved, Stamped
    <3> QED
      BY <1>0, <3>1, <3>2 DEF Remember, TypeOK
  <2>3. StoredLoad(l)'
    <3>1. CASE load'[l].cached = Nothing
      BY <1>3, <2>1, <3>1 DEF StoredLoad, OnDisk, Nothing
    <3>2. CASE load'[l].cached = load[l].cached
      <4>1. /\ OnDisk(load[l].cached) /\ load[l].cached \in Stamped
            /\ Known(load[l].cached.ver) /\ load[l].cached.at \in Nat
        BY <1>0, HeldKnown DEF StoredLoad
      <4>2. record.snap.at \in Nat /\ record'.snap.at \in Nat
        BY DEF TypeOK, State
      <4> QED
        BY <1>3, <3>2, <4>1, <4>2 DEF StoredLoad, OnDisk, Moved, Stamped
    <3> QED
      BY <1>1, <3>1, <3>2 DEF Idle, LoadStates
  <2> QED
    BY <2>2, <2>3
<1>8. FaultsCounted(Rem(l), Sto(l))
  BY <1>6, <1>7 DEF FaultsCounted
<1> QED
  BY <1>0, <1>2, <1>4, <1>5, <1>8, AloneKept

\* Two versions the record is in the epoch of are of one cache.
LEMMA EpochOne ==
    ASSUME NEW v, NEW w, SameEpoch(record, v), SameEpoch(record, w)
    PROVE  SameCache(v, w)
BY DEF SameEpoch, SameCache

\* A capture remembers the newest of what was remembered for its version and of
\* what is on disk.
LEMMA CapturedKept ==
    ASSUME TypeOK, TypeOK', OwnedInv, KeptInv, Moved, NEW l \in Loads,
           load[l].pc \in {"version", "snapshot", "reread"},
           NEW ver \in Version, NEW disk \in Stamped, Captured(l, ver, disk),
           disk = Nothing \/ disk.ver = ver, OnDisk(disk),
           UNCHANGED <<platform, revision, shown>>, faults' \in {faults, faults + 1},
           Latest(l) /\ SameEpoch(record, shown[RepositoryOf[l]].ver) =>
               /\ SameEpoch(record, ver)
               /\ faults' <= 1 =>
                     Remembered(RepositoryOf[l]) \/ disk.at >= shown[RepositoryOf[l]].at
    PROVE  KeptInv'
<1> DEFINE i      == RepositoryOf[l]
           mine   == memory[i]
           kept   == IF ver # NoVersion /\ SameCache(mine.ver, ver) THEN mine ELSE Nothing
           cached == Newest(kept, disk)
<1>0. /\ i \in Repositories /\ faults \in Nat
      /\ Stored => StoredRepository(i)
      /\ AllRemembered => Remembered(i)
      /\ mine \in Stamped /\ mine.at \in Nat /\ disk.at \in Nat /\ shown[i].at \in Nat
      /\ Nothing.at = 0 /\ ~SameEpoch(record, NoVersion) /\ OnDisk(Nothing)
      /\ record' = record /\ shown' = shown /\ revision' = revision
  BY HeldKnown, KeptFacts, NoEpoch DEF Stamped, Nothing, OwnedInv, platform
<1>1. /\ load' = [load EXCEPT ![l] = [load[l] EXCEPT !.pc = "queued", !.ver = ver,
                                                     !.cached = cached]]
      /\ memory' = IF Current(l) THEN [memory EXCEPT ![i] = cached] ELSE memory
  BY DEF Captured, Remember, TypeOK
<1>2. cached = Nothing \/ SameCache(cached.ver, ver)
  BY DEF Newest, SameCache
<1>3. SameEpoch(record, shown[i].ver) /\ SameEpoch(record, ver) /\ Remembered(i) =>
        SameCache(cached.ver, shown[i].ver) /\ cached.at >= shown[i].at
  <2> SUFFICES ASSUME SameEpoch(record, shown[i].ver), SameEpoch(record, ver), Remembered(i)
      PROVE  SameCache(cached.ver, shown[i].ver) /\ cached.at >= shown[i].at
    OBVIOUS
  <2>1. SameCache(shown[i].ver, ver) /\ SameCache(mine.ver, shown[i].ver) /\ mine.at >= shown[i].at
    BY EpochOne DEF Remembered
  <2>2. ver # NoVersion
    BY <1>0
  <2>3. kept = mine
    BY <2>1, <2>2 DEF SameCache
  <2>4. Newer(disk, mine) => disk.ver = ver
    BY <1>0 DEF Newer
  <2>5. cached = IF Newer(disk, mine) THEN disk ELSE mine
    BY <2>3 DEF Newest
  <2> QED
    BY <1>0, <2>1, <2>4, <2>5 DEF SameCache, Newer
<1>4. disk.at >= shown[i].at => cached.at >= shown[i].at
  <2>1. kept.at \in Nat
    BY <1>0
  <2> HIDE DEF kept
  <2> QED
    BY <1>0, <2>1 DEF Newest, Newer
<1>5. Stored => OnDisk(cached)
  BY <1>0 DEF Newest, StoredRepository
<1> HIDE DEF cached
<1>6. /\ load'[l].pc = "queued" /\ load'[l].ver = ver /\ load'[l].cached = cached
      /\ load'[l].rev = load[l].rev /\ load[l].rev \in Nat
      /\ \A m \in Loads \ {l} : load'[m] = load[m]
      /\ Latest(l)' = Current(l) /\ Latest(l) = Current(l)
  BY <1>0, <1>1 DEF TypeOK, LoadStates, Latest, Current
<1>7. Alone(l)
  BY <1>0, <1>1, <1>6 DEF Alone, TypeOK
<1>8. Matched(l)' /\ Linked(l)' /\ Lasting(l)'
  <2>1. Matched(l)'
    BY <1>2, <1>6 DEF Matched
  <2>2. Linked(l)'
    BY <1>0, <1>1, <1>6 DEF Linked, TypeOK
  <2>3. Lasting(l)'
    BY <1>0, <1>6 DEF Lasting
  <2> QED
    BY <2>1, <2>2, <2>3
<1>9. faults' <= 1 => Ahead(l)'
  <2> SUFFICES ASSUME faults' <= 1, Latest(l)', SameEpoch(record, shown[i].ver)
      PROVE  cached.at >= shown[i].at
    BY <1>0, <1>6 DEF Ahead
  <2> QED
    BY <1>3, <1>4, <1>6
<1>10. Rem(l)
  <2> SUFFICES ASSUME AllRemembered, Current(l), SameEpoch(record, shown[i].ver)
      PROVE  SameCache(cached.ver, shown[i].ver) /\ cached.at >= shown[i].at
    BY <1>0, <1>1 DEF Rem, Remembered, TypeOK
  <2> QED
    BY <1>0, <1>3, <1>6
<1>11. Sto(l)
  <2> SUFFICES ASSUME Stored PROVE StoredRepository(i)' /\ StoredLoad(l)'
    BY DEF Sto
  <2>1. StoredRepository(i)'
    BY <1>0, <1>1, <1>5 DEF StoredRepository, OnDisk, TypeOK
  <2>2. StoredLoad(l)'
    BY <1>0, <1>5, <1>6 DEF StoredLoad, OnDisk
  <2> QED
    BY <2>1, <2>2
<1>12. FaultsCounted(Rem(l), Sto(l))
  BY <1>0, <1>10, <1>11 DEF FaultsCounted
<1> QED
  BY <1>7, <1>8, <1>9, <1>12, AloneKept

\* A stamped response is kept as the newest of itself, the disk and the capture.
LEMMA KeepKept ==
    ASSUME TypeOK, TypeOK', OwnedInv, KeptInv, Moved, NEW l \in Loads,
           load[l].pc \in Captive, NEW live, live = Stamp(load[l].live, load[l].ver),
           NEW kept \in Stamped, Keep(l, kept),
           SameCache(kept.ver, load[l].ver), kept.at >= live.at,
           UNCHANGED <<revision, memory, shown>>, faults' \in {faults, faults + 1},
           faults' = faults /\ Stored /\ Latest(l) =>
               \A snap \in {live, kept} : SameEpoch(record', snap.ver) => record'.snap.at >= snap.at
    PROVE  KeptInv'
<1> DEFINE i   == RepositoryOf[l]
           new == Newest(kept, load[l].cached)
<1>0. /\ i \in Repositories /\ faults \in Nat
      /\ Matched(l) /\ Linked(l) /\ Lasting(l)
      /\ faults <= 1 => Ahead(l)
      /\ Stored => StoredLoad(l) /\ StoredRepository(i)
      /\ AllRemembered => Remembered(i)
      /\ kept.at \in Nat /\ load[l].cached.at \in Nat /\ live.at \in Nat
      /\ Nothing.at = 0
  BY HeldKnown, KeptFacts DEF Stamp, Stamped, Nothing
<1>1. load' = [load EXCEPT ![l] = [load[l] EXCEPT !.pc = "revalid", !.live = live, !.kept = new]]
  BY DEF Keep, TypeOK
<1>2. /\ SameCache(new.ver, load[l].ver)
      /\ new.at >= load[l].cached.at /\ new.at >= live.at
      /\ new \in {kept, load[l].cached}
  <2>1. Newer(load[l].cached, kept) => SameCache(load[l].cached.ver, load[l].ver)
    BY <1>0 DEF Newer, Matched
  <2> QED
    BY <1>0, <2>1 DEF Newest, Newer
<1> HIDE DEF new
<1>3. /\ load'[l].pc = "revalid" /\ load'[l].ver = load[l].ver
      /\ load'[l].cached = load[l].cached /\ load'[l].live = live /\ load'[l].kept = new
      /\ load'[l].rev = load[l].rev /\ load[l].rev \in Nat
      /\ \A m \in Loads \ {l} : load'[m] = load[m]
      /\ Latest(l)' = Current(l) /\ Latest(l) = Current(l)
  BY <1>1 DEF TypeOK, LoadStates, Latest, Current, Captive
<1>4. Alone(l)
  BY <1>0, <1>3 DEF Alone, Captive
<1>5. Matched(l)' /\ Linked(l)'
  BY <1>0, <1>2, <1>3 DEF Matched, Linked, Captive
<1>6. SameEpoch(record', shown[i].ver) => SameEpoch(record, shown[i].ver)
  BY <1>0, HeldKnown DEF Moved
<1>7. Lasting(l)'
  <2> SUFFICES ASSUME Latest(l)', SameEpoch(record', shown[i].ver)
      PROVE  SameEpoch(record', load[l].ver)
    BY <1>3 DEF Lasting
  <2>1. SameEpoch(record, load[l].ver)
    BY <1>0, <1>3, <1>6 DEF Lasting, Captive
  <2> QED
    BY <1>0, <2>1, HeldKnown, EpochShared
<1>8. faults' <= 1 => Ahead(l)'
  <2> SUFFICES ASSUME faults' <= 1, Latest(l)', SameEpoch(record', shown[i].ver)
      PROVE  load[l].cached.at >= shown[i].at
    BY <1>3 DEF Ahead
  <2> QED
    BY <1>0, <1>3, <1>6 DEF Ahead
<1>9. Rem(l)
  BY <1>0, RepositoryKept DEF Rem
<1>10. ASSUME faults' = faults PROVE Sto(l)
  <2> SUFFICES ASSUME Stored PROVE StoredRepository(i)' /\ StoredLoad(l)'
    BY DEF Sto
  <2>1. StoredRepository(i)'
    BY <1>0, RepositoryKept
  <2>2. SameEpoch(record', load[l].cached.ver) => record'.snap.at >= load[l].cached.at
    <3>1. /\ OnDisk(load[l].cached) /\ load[l].cached \in Stamped
          /\ Known(load[l].cached.ver) /\ load[l].cached.ver \in Version
      BY <1>0, HeldKnown DEF StoredLoad, Stamped
    <3>2. record.snap.at \in Nat /\ record'.snap.at \in Nat
      BY DEF TypeOK, State
    <3> QED
      BY <1>0, <3>1, <3>2 DEF OnDisk, Moved
  <2> QED
    BY <1>2, <1>3, <1>10, <2>1, <2>2 DEF StoredLoad, OnDisk
<1>11. FaultsCounted(Rem(l), Sto(l))
  BY <1>0, <1>9, <1>10 DEF FaultsCounted
<1> QED
  BY <1>4, <1>5, <1>7, <1>8, <1>11, AloneKept

\* A load has the version: the record's, none, or it failed and its repository
\* forgets.
LEMMA ReadVersionKept ==
    ASSUME TypeOK, TypeOK', OwnedInv, KeptInv, Moved, NEW l \in Loads, ReadVersion(l)
    PROVE  KeptInv'
<1> DEFINE i == RepositoryOf[l]
<1>0. /\ i \in Repositories /\ faults \in Nat /\ load[l].pc = "version"
      /\ Stored => StoredLoad(l) /\ StoredRepository(i)
      /\ AllRemembered => Remembered(i)
      /\ ~SameEpoch(record, NoVersion) /\ OnDisk(Nothing) /\ RecordFits
      /\ record' = record /\ shown' = shown /\ revision' = revision
      /\ load[l] \in LoadStates /\ load[l].rev \in Nat
  BY HeldKnown, KeptFacts, NoEpoch
  DEF ReadVersion, platform, OwnedInv, TypeOK, LoadStates
<1>1. CASE /\ CurrentVersion # NoVersion /\ UNCHANGED <<memory, faults>>
           /\ load' = [load EXCEPT ![l].pc = "snapshot", ![l].ver = CurrentVersion]
  <2>1. /\ load'[l].pc = "snapshot" /\ load'[l].ver = CurrentVersion
        /\ load'[l].cached = load[l].cached /\ load'[l].rev = load[l].rev
        /\ \A m \in Loads \ {l} : load'[m] = load[m]
    BY <1>0, <1>1 DEF TypeOK, LoadStates
  <2>2. Alone(l)
    <3>1. memory' = memory
      BY <1>1
    <3> QED
      BY <1>0, <2>1, <3>1 DEF Alone
  <2>3. SameEpoch(record, CurrentVersion)
    BY <1>0, <1>1, CurrentKnown
  <2>4. Matched(l)' /\ Linked(l)' /\ Ahead(l)'
    BY <2>1 DEF Matched, Linked, Ahead, Captive
  <2>5. Lasting(l)'
    BY <1>0, <2>1, <2>3 DEF Lasting
  <2>6. Rem(l)
    BY <1>0, <1>1, RepositoryKept DEF Rem
  <2>7. Sto(l)
    BY <1>0, <1>1, <2>1 DEF Sto, StoredRepository, StoredLoad, OnDisk
  <2> QED
    BY <1>0, <1>1, <2>2, <2>4, <2>5, <2>6, <2>7, AloneKept DEF FaultsCounted
<1>2. CASE CurrentVersion = NoVersion /\ Captured(l, NoVersion, Nothing) /\ UNCHANGED faults
  <2>1. ~SameEpoch(record, shown[i].ver)
    BY <1>0, <1>2, CurrentKnown DEF SameEpoch
  <2> QED
    BY <1>0, <1>2, <2>1, EmptyTypes, CapturedKept DEF ReadVersion
<1>3. CASE Fault /\ Remember(l, Nothing) /\ End(l)
  <2>1. /\ load'[l] = Idle /\ \A m \in Loads \ {l} : load'[m] = load[m]
        /\ faults' = faults + 1
    BY <1>3 DEF End, Fault, TypeOK
  <2>2. Alone(l)
    BY <1>0, <1>3, <2>1 DEF Alone, Idle, Remember, TypeOK
  <2>3. Matched(l)' /\ Linked(l)' /\ Ahead(l)' /\ Lasting(l)'
    BY <2>1 DEF Matched, Linked, Ahead, Lasting, Latest, Captive, Idle
  <2>4. Sto(l)
    <3>1. StoredLoad(l)'
      BY <1>0, <2>1 DEF StoredLoad, OnDisk, Latest, Idle
    <3>2. memory'[i] \in {memory[i], Nothing}
      BY <1>0, <1>3 DEF Remember, TypeOK
    <3>3. Stored => StoredRepository(i)'
      BY <1>0, <3>2 DEF StoredRepository, OnDisk
    <3> QED
      BY <3>1, <3>3 DEF Sto
  <2> QED
    BY <1>0, <2>1, <2>2, <2>3, <2>4, AloneKept DEF FaultsCounted
<1> QED
  BY <1>1, <1>2, <1>3 DEF ReadVersion

\* A load has the stored snapshot of its version, has to read the version again, or
\* failed to read.
LEMMA ReadSnapshotKept ==
    ASSUME TypeOK, TypeOK', OwnedInv, KeptInv, Moved, NEW l \in Loads, ReadSnapshot(l)
    PROVE  KeptInv'
<1> DEFINE i   == RepositoryOf[l]
           ver == load[l].ver
<1>0. /\ i \in Repositories /\ faults \in Nat /\ load[l].pc = "snapshot"
      /\ Lasting(l)
      /\ faults <= 1 => AllRemembered \/ Stored
      /\ faults = 0 => AllRemembered
      /\ Stored => StoredLoad(l) /\ StoredRepository(i)
      /\ AllRemembered => Remembered(i)
      /\ OnDisk(Nothing) /\ ver \in Version
      /\ UNCHANGED <<platform, revision, shown>> /\ record' = record
      /\ load[l] \in LoadStates /\ shown[i].at \in Nat /\ record.snap.at \in Nat
  BY HeldKnown, KeptFacts, NoEpoch
  DEF ReadSnapshot, platform, OwnedInv, TypeOK, LoadStates, State
<1>1. Latest(l) /\ SameEpoch(record, shown[i].ver) => SameEpoch(record, ver)
  BY <1>0 DEF Lasting
<1>2. CASE /\ SameEpoch(record, ver) /\ record.snap # NoSnapshot
           /\ Captured(l, ver, Stamp(record.snap, ver)) /\ UNCHANGED faults
  <2> DEFINE disk == Stamp(record.snap, ver)
  <2>1. disk \in Stamped
    BY <1>0, StampTypes DEF TypeOK, State, Identities
  <2>2. disk.ver = ver /\ disk.at = record.snap.at /\ OnDisk(disk)
    BY <1>0 DEF Stamp, OnDisk
  <2>3. Latest(l) /\ SameEpoch(record, shown[i].ver) =>
          (faults' <= 1 => Remembered(i) \/ disk.at >= shown[i].at)
    BY <1>0, <1>2, <2>2 DEF StoredRepository, OnDisk
  <2> HIDE DEF disk
  <2>4. Captured(l, ver, disk)
    BY <1>2 DEF disk
  <2> QED
    BY <1>0, <1>1, <1>2, <2>1, <2>2, <2>3, <2>4, CapturedKept
<1>3. CASE /\ ~SameEpoch(record, ver) \/ record.snap = NoSnapshot
           /\ Continue(l, "reread") /\ UNCHANGED <<memory, faults>>
  <2>1. /\ load'[l].pc = "reread" /\ load'[l].ver = ver /\ load'[l].rev = load[l].rev
        /\ load'[l].cached = load[l].cached /\ load[l].rev \in Nat
        /\ \A m \in Loads \ {l} : load'[m] = load[m]
        /\ Latest(l)' = Latest(l)
    BY <1>0, <1>3 DEF Continue, TypeOK, LoadStates, Latest, Current
  <2>2. Alone(l)
    BY <1>0, <1>3, <2>1 DEF Alone
  <2>3. Matched(l)' /\ Linked(l)'
    BY <2>1 DEF Matched, Linked, Captive
  <2>4. Lasting(l)'
    BY <1>0, <1>1, <2>1 DEF Lasting
  <2>5. faults' <= 1 => Ahead(l)'
    <3> SUFFICES ASSUME faults' <= 1, Latest(l), SameEpoch(record, shown[i].ver)
        PROVE  Remembered(i)' \/ shown[i].at = 0
      BY <1>0, <2>1 DEF Ahead, Captive
    <3>1. record.snap.at = 0
      BY <1>1, <1>3 DEF NoSnapshot
    <3>2. Remembered(i) => Remembered(i)'
      BY <1>0, <1>3, RepositoryKept
    <3>3. Stored => shown[i].at = 0
      BY <1>0, <3>1 DEF StoredRepository, OnDisk
    <3> QED
      BY <1>0, <1>3, <3>2, <3>3
  <2>6. Rem(l)
    BY <1>0, <1>3, RepositoryKept DEF Rem
  <2>7. Sto(l)
    BY <1>0, <1>3, <2>1 DEF Sto, StoredRepository, StoredLoad, OnDisk
  <2> QED
    BY <1>0, <1>3, <2>2, <2>3, <2>4, <2>5, <2>6, <2>7, AloneKept DEF FaultsCounted
<1>4. CASE Fault /\ Captured(l, ver, Nothing)
  <2>1. faults' = faults + 1
    BY <1>4 DEF Fault
  <2>2. faults' <= 1 => Remembered(i)
    BY <1>0, <2>1
  <2> QED
    BY <1>0, <1>1, <1>4, <2>1, <2>2, EmptyTypes, CapturedKept
<1> QED
  BY <1>2, <1>3, <1>4 DEF ReadSnapshot

\* A load that found nothing stored has the version again, and only what its
\* repository remembers.
LEMMA RereadKept ==
    ASSUME TypeOK, TypeOK', OwnedInv, KeptInv, Moved, NEW l \in Loads, Reread(l)
    PROVE  KeptInv'
<1> DEFINE i   == RepositoryOf[l]
           ver == IF SameEpoch(record, load[l].ver) THEN load[l].ver ELSE CurrentVersion
<1>0. /\ i \in Repositories /\ faults \in Nat /\ load[l].pc = "reread"
      /\ Lasting(l)
      /\ faults <= 1 => Ahead(l)
      /\ OnDisk(Nothing) /\ ver \in Version
      /\ UNCHANGED <<platform, revision, shown, faults>> /\ Captured(l, ver, Nothing)
      /\ Nothing.at = 0
  BY HeldKnown, KeptFacts, NoEpoch, CurrentVersionType DEF Reread, OwnedInv, Nothing
<1>1. Latest(l) /\ SameEpoch(record, shown[i].ver) =>
        /\ SameEpoch(record, ver)
        /\ faults' <= 1 => Remembered(i) \/ Nothing.at >= shown[i].at
  BY <1>0 DEF Lasting, Ahead
<1> HIDE DEF ver
<1> QED
  BY <1>0, <1>1, EmptyTypes, CapturedKept

\* A load reads its token, or there is no session and its repository forgets.
LEMMA FetchKept ==
    ASSUME TypeOK, TypeOK', OwnedInv, KeptInv, Moved, NEW l \in Loads, Fetch(l)
    PROVE  KeptInv'
<1>0. /\ load[l].pc = "queued" /\ UNCHANGED <<record, revision, shown, faults>>
      /\ load[l] \in LoadStates /\ RecordFits
  BY DEF Fetch, TypeOK, OwnedInv
<1>1. CASE CurrentVersion # NoVersion
  <2>1. /\ load' = [load EXCEPT ![l] = [load[l] EXCEPT !.pc = "fetch", !.token = CurrentVersion]]
        /\ memory' = memory
    BY <1>1 DEF Fetch, TypeOK
  <2>2. /\ load'[l].pc = "fetch" /\ load'[l].ver = load[l].ver /\ load'[l].rev = load[l].rev
        /\ load'[l].cached = load[l].cached
        /\ \A m \in Loads \ {l} : load'[m] = load[m]
    BY <1>0, <2>1 DEF TypeOK, LoadStates
  <2> QED
    BY <1>0, <2>1, <2>2, CaptiveKept DEF Captive
<1>2. CASE CurrentVersion = NoVersion
  <2>1. ~SameEpoch(record', shown[RepositoryOf[l]].ver)
    BY <1>0, <1>2, CurrentKnown DEF SameEpoch
  <2>2. Remember(l, Nothing) /\ (End(l) \/ Continue(l, "clear"))
    BY <1>2 DEF Fetch
  <2> QED
    BY <1>0, <2>1, <2>2, EndKept
<1> QED
  BY <1>1, <1>2

\* The fetch rotates its token, answers or fails.
LEMMA FetchingKept ==
    ASSUME TypeOK, TypeOK', OwnedInv, KeptInv, Moved, NEW l \in Loads,
           Rotate(l) \/ Fetched(l) \/ FetchFails(l)
    PROVE  KeptInv'
<1>0. /\ load[l].pc = "fetch" /\ UNCHANGED <<revision, memory, shown, faults>>
      /\ load[l] \in LoadStates
  BY DEF Rotate, Fetched, FetchFails, TypeOK
<1>1. /\ load'[l].pc \in {"fetch", "valid", "recover"}
      /\ load'[l].ver = load[l].ver /\ load'[l].rev = load[l].rev
      /\ load'[l].cached = load[l].cached
      /\ \A m \in Loads \ {l} : load'[m] = load[m]
  <2>1. CASE Rotate(l)
    BY <1>0, <2>1 DEF Rotate, TypeOK, LoadStates
  <2>2. CASE Fetched(l)
    <3>1. PICK at \in 1..MaxAt :
             load' = [load EXCEPT ![l].pc = "valid",
                        ![l].live = [acct |-> load[l].token.ident, at |-> at, ver |-> NoVersion]]
      BY <2>2 DEF Fetched
    <3> QED
      BY <1>0, <3>1 DEF TypeOK, LoadStates
  <2>3. CASE FetchFails(l)
    BY <1>0, <2>3 DEF FetchFails, Continue, TypeOK, LoadStates
  <2> QED
    BY <2>1, <2>2, <2>3
<1> QED
  BY <1>0, <1>1, CaptiveKept DEF Captive

\* What there is no session for goes, and the load ends.
LEMMA ClearOwnKept ==
    ASSUME TypeOK, TypeOK', OwnedInv, KeptInv, Moved, NEW l \in Loads, ClearOwn(l)
    PROVE  KeptInv'
BY EndKept DEF ClearOwn

\* A response is stamped, or the load ends because its version is over.
LEMMA ValidateKept ==
    ASSUME TypeOK, TypeOK', OwnedInv, KeptInv, Moved, NEW l \in Loads, Validate(l)
    PROVE  KeptInv'
<1> DEFINE i    == RepositoryOf[l]
           live == Stamp(load[l].live, load[l].ver)
           pc   == IF Newer(load[l].cached, live) THEN "recapture" ELSE "store"
<1>0. /\ i \in Repositories /\ load[l].pc = "valid" /\ load[l] \in LoadStates
      /\ UNCHANGED <<platform, revision, shown, faults>> /\ record' = record
      /\ Matched(l) /\ Lasting(l)
      /\ Stored => StoredLoad(l)
      /\ load[l].ver \in Version /\ live.at = load[l].live.at /\ live.ver = load[l].ver
      /\ load[l].live.at \in Nat /\ load[l].cached.at \in Nat /\ record.snap.at \in Nat
  BY HeldKnown, KeptFacts DEF Validate, TypeOK, Stamp, platform, State
<1>1. CASE ~SameEpoch(record, load[l].ver)
  <2>1. Remember(l, Nothing) /\ End(l)
    BY <1>1 DEF Validate
  <2>2. Current(l) => ~SameEpoch(record', shown[i].ver)
    BY <1>0, <1>1 DEF Lasting, Latest
  <2> QED
    BY <1>0, <2>1, <2>2, EndKept
<1>2. CASE SameEpoch(record, load[l].ver) /\ ~Current(l)
  <2>1. Keep(l, live) /\ memory' = memory
    BY <1>2 DEF Validate
  <2>2. live \in Stamped /\ SameCache(live.ver, load[l].ver) /\ live.at >= live.at
    BY <1>0, StampTypes DEF LoadStates, SameCache
  <2>3. ~Latest(l)
    BY <1>2 DEF Latest
  <2> HIDE DEF live
  <2>4. live = Stamp(load[l].live, load[l].ver)
    BY DEF live
  <2> QED
    BY <1>0, <2>1, <2>2, <2>3, <2>4, KeepKept DEF Captive
<1>3. CASE SameEpoch(record, load[l].ver) /\ Current(l)
  <2>1. /\ load' = [load EXCEPT ![l] = [load[l] EXCEPT !.live = live, !.pc = pc]]
        /\ memory' = memory
    BY <1>3 DEF Validate, TypeOK
  <2>2. /\ load'[l].pc = pc /\ load'[l].ver = load[l].ver /\ load'[l].rev = load[l].rev
        /\ load'[l].cached = load[l].cached /\ load'[l].live = live
        /\ \A m \in Loads \ {l} : load'[m] = load[m]
    BY <1>0, <2>1 DEF TypeOK, LoadStates
  <2>3. Stored /\ pc = "recapture" => record.snap.at >= live.at
    <3> SUFFICES ASSUME Stored, Newer(load[l].cached, live) PROVE record.snap.at >= live.at
      OBVIOUS
    <3>1. load[l].cached # Nothing
      BY <1>0 DEF Newer, Nothing
    <3>2. SameEpoch(record, load[l].cached.ver)
      BY <1>0, <1>3, <3>1 DEF Matched, SameCache, SameEpoch, Captive
    <3> QED
      BY <1>0, <3>2 DEF StoredLoad, OnDisk, Newer
  <2>4. pc \in {"store", "recapture"}
    OBVIOUS
  <2> HIDE DEF live, pc
  <2>5. Stored /\ load'[l].pc = "recapture" => OnDisk(load[l].live)'
    BY <1>0, <2>2, <2>3 DEF OnDisk
  <2> QED
    BY <1>0, <2>1, <2>2, <2>4, <2>5, CaptiveKept DEF Captive
<1> QED
  BY <1>1, <1>2, <1>3

\* A response is stored, refused or lost.
LEMMA StoreKept ==
    ASSUME TypeOK, TypeOK', OwnedInv, KeptInv, Moved, NEW l \in Loads, Store(l)
    PROVE  KeptInv'
<1> DEFINE live == load[l].live
<1>0. /\ load[l].pc = "store" /\ load[l] \in LoadStates /\ live \in Stamped
      /\ UNCHANGED <<revision, memory, shown>>
      /\ live = Stamp(load[l].live, load[l].ver) /\ live.ver = load[l].ver
      /\ live.at \in Nat /\ record.snap.at \in Nat
  BY HeldKnown, StampedOwned DEF Store, TypeOK, State, OwnedInv, LoadFits
<1>1. CASE /\ record' = WriteSnapshot(record, live.acct, live.at) /\ Keep(l, live)
           /\ UNCHANGED faults
  <2>1. record'.snap.at = live.at
    BY <1>1 DEF WriteSnapshot, TypeOK, State
  <2>2. SameCache(live.ver, load[l].ver) /\ live.at >= live.at
    BY <1>0 DEF SameCache
  <2> HIDE DEF live
  <2>3. Keep(l, live)
    BY <1>1
  <2> QED
    BY <1>0, <1>1, <2>1, <2>2, <2>3, KeepKept DEF Captive
<1>2. ASSUME Continue(l, "recapture")
      PROVE  /\ load'[l].pc = "recapture" /\ load'[l].ver = load[l].ver
             /\ load'[l].rev = load[l].rev /\ load'[l].cached = load[l].cached
             /\ load'[l].live = live
             /\ \A m \in Loads \ {l} : load'[m] = load[m]
  BY <1>0, <1>2 DEF Continue, TypeOK, LoadStates
<1>3. CASE /\ ~(SameEpoch(record, live.ver) /\ live.at >= record.snap.at)
           /\ Continue(l, "recapture") /\ UNCHANGED <<record, faults>>
  <2>1. OnDisk(load[l].live)'
    BY <1>0, <1>2, <1>3 DEF OnDisk
  <2> QED
    BY <1>0, <1>2, <1>3, <2>1, CaptiveKept DEF Captive
<1>4. CASE Fault /\ Continue(l, "recapture")
  <2>1. faults' = faults + 1 /\ faults \in Nat
    BY <1>4 DEF Fault, TypeOK
  <2> QED
    BY <1>0, <1>2, <1>4, <2>1, CaptiveKept DEF Captive
<1> QED
  BY <1>1, <1>3, <1>4 DEF Store

\* A response that was not stored is compared with what is on disk, if it can be
\* read.
LEMMA RecaptureKept ==
    ASSUME TypeOK, TypeOK', OwnedInv, KeptInv, Moved, NEW l \in Loads, Recapture(l)
    PROVE  KeptInv'
<1> DEFINE live == load[l].live
           disk == IF SameEpoch(record, live.ver) THEN Stamp(record.snap, CurrentVersion)
                   ELSE Nothing
           new  == Newest(live, disk)
<1>0. /\ load[l].pc = "recapture" /\ load[l] \in LoadStates /\ live \in Stamped
      /\ UNCHANGED <<platform, revision, memory, shown>> /\ record' = record
      /\ live = Stamp(load[l].live, load[l].ver) /\ live.ver = load[l].ver
      /\ live.at \in Nat /\ record.snap.at \in Nat
      /\ SameCache(live.ver, load[l].ver)
      /\ Stored => StoredLoad(l)
      /\ RecordFits
  BY HeldKnown, KeptFacts, StampedOwned
  DEF Recapture, platform, TypeOK, State, OwnedInv, LoadFits, SameCache
<1>1. Stored /\ Latest(l) => (SameEpoch(record, live.ver) => record.snap.at >= live.at)
  BY <1>0 DEF StoredLoad, OnDisk
<1>2. CASE Keep(l, new) /\ UNCHANGED faults
  <2>1. disk \in Stamped
    <3>1. record.snap \in [acct : Identities, at : Nat]
      BY DEF TypeOK, State, Identities
    <3> QED
      BY <3>1, CurrentVersionType, StampTypes, EmptyTypes
  <2>2. /\ disk = Nothing \/ SameCache(disk.ver, load[l].ver)
        /\ SameEpoch(record, disk.ver) => record.snap.at >= disk.at
        /\ disk.at \in Nat
    <3>1. CASE SameEpoch(record, live.ver)
      <4>1. record.mode = "active"
        BY <3>1 DEF SameEpoch
      <4>2. SameEpoch(record, CurrentVersion)
        BY <1>0, <4>1, CurrentKnown
      <4> QED
        BY <1>0, <3>1, <4>2, EpochOne DEF Stamp
    <3>2. CASE ~SameEpoch(record, live.ver)
      BY <1>0, <3>2, NoEpoch DEF OnDisk, Nothing
    <3> QED
      BY <3>1, <3>2
  <2> HIDE DEF live, disk
  <2>3. /\ new \in Stamped /\ new \in {live, disk}
        /\ SameCache(new.ver, load[l].ver) /\ new.at >= live.at
    BY <1>0, <2>1, <2>2 DEF Newest, Newer, Nothing
  <2> HIDE DEF new
  <2>4. Keep(l, new) /\ live = Stamp(load[l].live, load[l].ver)
    BY <1>0, <1>2
  <2>5. Stored /\ Latest(l) =>
          \A snap \in {live, new} : SameEpoch(record', snap.ver) => record'.snap.at >= snap.at
    BY <1>0, <1>1, <2>2, <2>3
  <2> QED
    BY <1>0, <1>2, <2>3, <2>4, <2>5, KeepKept DEF Captive
<1>3. CASE Fault /\ Keep(l, live)
  <2>1. faults' = faults + 1 /\ faults \in Nat
    BY <1>3 DEF Fault, TypeOK
  <2>2. live.at >= live.at
    BY <1>0
  <2> HIDE DEF live
  <2>3. Keep(l, live) /\ live = Stamp(load[l].live, load[l].ver)
    BY <1>0, <1>3
  <2> QED
    BY <1>0, <2>1, <2>2, <2>3, KeepKept DEF Captive
<1> QED
  BY <1>2, <1>3 DEF Recapture

\* The latest load remembers what it is about to answer, or something newer.
LEMMA RevalidateKept ==
    ASSUME TypeOK, TypeOK', OwnedInv, KeptInv, Moved, NEW l \in Loads, Revalidate(l)
    PROVE  KeptInv'
<1> DEFINE i    == RepositoryOf[l]
           kept == load[l].kept
           new  == Newest(load[l].live, kept)
<1>0. /\ i \in Repositories /\ faults \in Nat /\ load[l].pc = "revalid"
      /\ load[l] \in LoadStates /\ load[l].rev \in Nat
      /\ UNCHANGED <<platform, revision, shown, faults>> /\ record' = record
      /\ Matched(l) /\ Lasting(l)
      /\ faults <= 1 => Ahead(l)
      /\ Stored => StoredLoad(l) /\ StoredRepository(i)
      /\ load[l].live.ver = load[l].ver
      /\ kept.at \in Nat /\ load[l].live.at \in Nat /\ load[l].cached.at \in Nat
      /\ shown[i].at \in Nat
  BY HeldKnown, KeptFacts
  DEF Revalidate, platform, TypeOK, LoadStates, OwnedInv, LoadFits
<1>1. CASE End(l) /\ UNCHANGED memory
  BY <1>0, <1>1, EndKept
<1>2. CASE /\ SameEpoch(record, load[l].ver) /\ Remember(l, kept)
           /\ load' = [load EXCEPT ![l].pc = "publish", ![l].live = Newest(@, kept)]
  <2>1. /\ SameCache(kept.ver, load[l].ver) /\ kept.at >= load[l].cached.at
        /\ kept.at >= load[l].live.at
        /\ SameCache(kept.ver, new.ver) /\ new.at = kept.at
        /\ new \in {load[l].live, kept}
    BY <1>0 DEF Matched, Newest, Newer, SameCache
  <2>2. load' = [load EXCEPT ![l] = [load[l] EXCEPT !.pc = "publish", !.live = new]]
    BY <1>2 DEF TypeOK
  <2> HIDE DEF new
  <2>3. /\ load'[l].pc = "publish" /\ load'[l].ver = load[l].ver /\ load'[l].live = new
        /\ load'[l].cached = load[l].cached /\ load'[l].rev = load[l].rev
        /\ \A m \in Loads \ {l} : load'[m] = load[m]
        /\ Latest(l)' = Current(l) /\ Latest(l) = Current(l)
    BY <1>0, <2>2 DEF TypeOK, LoadStates, Latest, Current
  <2>4. memory' = IF Current(l) THEN [memory EXCEPT ![i] = kept] ELSE memory
    BY <1>2 DEF Remember
  <2>5. Alone(l)
    BY <1>0, <2>3, <2>4 DEF Alone, TypeOK
  <2>6. Matched(l)' /\ Linked(l)' /\ Lasting(l)'
    <3>1. Matched(l)'
      BY <2>3 DEF Matched, Captive
    <3>2. Linked(l)'
      BY <1>0, <2>1, <2>3, <2>4 DEF Linked, Captive, TypeOK
    <3>3. Lasting(l)'
      BY <1>0, <1>2, <2>3 DEF Lasting
    <3> QED
      BY <3>1, <3>2, <3>3
  <2>7. faults <= 1 /\ Current(l) /\ SameEpoch(record, shown[i].ver) => kept.at >= shown[i].at
    BY <1>0, <2>1, <2>3 DEF Ahead, Captive
  <2>8. faults' <= 1 => Ahead(l)'
    <3> SUFFICES ASSUME faults <= 1, Current(l), SameEpoch(record, shown[i].ver)
        PROVE  new.at >= shown[i].at
      BY <1>0, <2>3 DEF Ahead, Captive
    <3> QED
      BY <2>1, <2>7
  <2>9. faults <= 1 => Rem(l)
    <3> SUFFICES ASSUME faults <= 1, Current(l), SameEpoch(record, shown[i].ver)
        PROVE  SameCache(kept.ver, shown[i].ver) /\ kept.at >= shown[i].at
      BY <1>0, <2>4 DEF Rem, Remembered, TypeOK
    <3>1. SameCache(load[l].ver, shown[i].ver)
      BY <1>2, EpochOne
    <3> QED
      BY <2>1, <2>7, <3>1 DEF SameCache
  <2>10. Sto(l)
    <3> SUFFICES ASSUME Stored PROVE StoredRepository(i)' /\ StoredLoad(l)'
      BY DEF Sto
    <3>1. Latest(l) => OnDisk(kept) /\ OnDisk(new)
      BY <1>0, <2>1 DEF StoredLoad
    <3>2. StoredRepository(i)'
      BY <1>0, <2>3, <2>4, <3>1 DEF StoredRepository, OnDisk, TypeOK
    <3>3. StoredLoad(l)'
      BY <1>0, <2>3, <3>1 DEF StoredLoad, OnDisk
    <3> QED
      BY <3>2, <3>3
  <2> QED
    BY <1>0, <2>5, <2>6, <2>8, <2>9, <2>10, AloneKept DEF FaultsCounted
<1> QED
  BY <1>1, <1>2 DEF Revalidate

\* A failed load answers what it captured, which its repository remembers, or its
\* repository forgets what is over.
LEMMA RecoverKept ==
    ASSUME TypeOK, TypeOK', OwnedInv, KeptInv, Moved, NEW l \in Loads, Recover(l)
    PROVE  KeptInv'
<1> DEFINE i      == RepositoryOf[l]
           cached == IF Current(l) THEN load[l].cached ELSE Nothing
<1>0. /\ i \in Repositories /\ faults \in Nat /\ load[l].pc = "recover"
      /\ load[l] \in LoadStates /\ load[l].rev \in Nat
      /\ UNCHANGED <<platform, revision, shown, faults>> /\ record' = record
      /\ Linked(l) /\ Lasting(l)
      /\ faults <= 1 => Ahead(l)
      /\ Stored => StoredLoad(l) /\ StoredRepository(i)
      /\ AllRemembered => Remembered(i)
      /\ ~SameEpoch(record, NoVersion)
      /\ load[l].cached.at \in Nat
  BY HeldKnown, KeptFacts, NoEpoch
  DEF Recover, platform, TypeOK, LoadStates, OwnedInv
<1>1. Current(l) => memory[i] = load[l].cached
  BY <1>0 DEF Linked, Latest, Captive
<1>2. CASE ~SameEpoch(record, cached.ver) /\ Remember(l, Nothing) /\ End(l)
  <2>1. AllRemembered /\ Current(l) => ~SameEpoch(record', shown[i].ver)
    BY <1>0, <1>1, <1>2 DEF Remembered, SameEpoch, SameCache
  <2> QED
    BY <1>0, <1>2, <2>1, EndKept
<1>3. CASE /\ SameEpoch(record, cached.ver) /\ memory' = memory
           /\ load' = [load EXCEPT ![l].pc = "publish", ![l].live = cached]
  <2>1. Current(l) /\ cached = load[l].cached
    BY <1>0, <1>3 DEF Nothing
  <2>2. load' = [load EXCEPT ![l] = [load[l] EXCEPT !.pc = "publish", !.live = cached]]
    BY <1>3 DEF TypeOK
  <2> HIDE DEF cached
  <2>3. /\ load'[l].pc = "publish" /\ load'[l].ver = load[l].ver /\ load'[l].live = cached
        /\ load'[l].cached = load[l].cached /\ load'[l].rev = load[l].rev
        /\ \A m \in Loads \ {l} : load'[m] = load[m]
        /\ Latest(l)' /\ Latest(l)
    BY <1>0, <2>1, <2>2 DEF TypeOK, LoadStates, Latest, Current
  <2>5. Alone(l)
    <3>1. memory' = memory
      BY <1>3
    <3> QED
      BY <1>0, <2>3, <3>1 DEF Alone
  <2>6. Matched(l)' /\ Linked(l)' /\ Lasting(l)'
    <3>1. Matched(l)'
      BY <2>3 DEF Matched, Captive
    <3>2. Linked(l)'
      BY <1>0, <1>1, <1>3, <2>1, <2>3 DEF Linked, Captive, SameCache
    <3>3. Lasting(l)'
      BY <1>0, <2>3 DEF Lasting
    <3> QED
      BY <3>1, <3>2, <3>3
  <2>7. faults' <= 1 => Ahead(l)'
    BY <1>0, <2>1, <2>3 DEF Ahead, Captive
  <2>8. Rem(l)
    BY <1>0, <1>3, RepositoryKept DEF Rem
  <2>9. Sto(l)
    <3>1. Stored => OnDisk(cached)
      BY <1>0, <2>1 DEF StoredLoad
    <3> QED
      BY <1>0, <1>3, <2>1, <2>3, <3>1 DEF Sto, StoredRepository, StoredLoad, OnDisk
  <2> QED
    BY <1>0, <2>5, <2>6, <2>7, <2>8, <2>9, AloneKept DEF FaultsCounted
<1> QED
  BY <1>2, <1>3 DEF Recover

\* The latest load answers what its repository remembers.
LEMMA PublishKept ==
    ASSUME TypeOK, TypeOK', OwnedInv, KeptInv, Moved, NEW l \in Loads, Publish(l)
    PROVE  KeptInv'
<1> DEFINE i    == RepositoryOf[l]
           live == load[l].live
<1>0. /\ i \in Repositories /\ faults \in Nat /\ load[l].pc = "publish"
      /\ UNCHANGED <<platform, revision, memory, faults>> /\ record' = record /\ End(l)
      /\ Linked(l)
      /\ Stored => StoredLoad(l) /\ StoredRepository(i)
      /\ OnDisk(Nothing)
  BY HeldKnown, KeptFacts, NoEpoch DEF Publish, platform, OwnedInv
<1>1. CASE ~(SameEpoch(record, live.ver) /\ Current(l))
  BY <1>0, <1>1, EndKept DEF Publish
<1>2. CASE SameEpoch(record, live.ver) /\ Current(l)
  <2>1. /\ shown' = [shown EXCEPT ![i] = live] /\ Latest(l)
        /\ load'[l] = Idle /\ \A m \in Loads \ {l} : load'[m] = load[m]
        /\ load[l].rev \in Nat
    BY <1>0, <1>2 DEF Publish, Latest, End, TypeOK, LoadStates
  <2>2. Alone(l)
    BY <1>0, <1>2, <2>1 DEF Alone, Idle, TypeOK
  <2>3. Matched(l)' /\ Linked(l)' /\ Ahead(l)' /\ Lasting(l)'
    BY <2>1 DEF Matched, Linked, Ahead, Lasting, Latest, Captive, Idle
  <2>4. Rem(l)
    BY <1>0, <2>1 DEF Rem, Remembered, Linked, Captive, TypeOK
  <2>5. Sto(l)
    <3>1. Stored => StoredRepository(i)'
      BY <1>0, <2>1 DEF StoredRepository, StoredLoad, OnDisk, TypeOK
    <3>2. StoredLoad(l)'
      BY <1>0, <2>1 DEF StoredLoad, OnDisk, Latest, Idle
    <3> QED
      BY <3>1, <3>2 DEF Sto
  <2> QED
    BY <1>0, <2>2, <2>3, <2>4, <2>5, AloneKept DEF FaultsCounted
<1> QED
  BY <1>1, <1>2

\* Steps that leave the loads, and most of what they share, alone: whatever happens
\* to the record, and invalidations, which leave some repositories without a latest
\* load.
LEMMA AroundKept ==
    ASSUME TypeOK, TypeOK', OwnedInv, KeptInv, Moved, UNCHANGED <<load, shown, faults>>,
           \A i \in Repositories : revision[i] <= revision'[i],
           \A i \in Repositories :
              \/ memory'[i] = memory[i]
              \/ /\ memory'[i] = Nothing /\ revision[i] < revision'[i]
                 /\ ~SameEpoch(record', shown[i].ver)
    PROVE  KeptInv'
<1>0. /\ faults \in Nat
      /\ \A i \in Repositories : revision[i] \in Nat /\ revision'[i] \in Nat
      /\ \A l \in Loads : RepositoryOf[l] \in Repositories /\ load[l].rev \in Nat
  BY HeldKnown DEF TypeOK, LoadStates
<1>1. Ranked'
  BY <1>0 DEF KeptInv, Ranked
<1>2. ASSUME NEW l \in Loads
      PROVE  /\ load'[l] = load[l]
             /\ Latest(l)' => /\ Latest(l)
                              /\ memory'[RepositoryOf[l]] = memory[RepositoryOf[l]]
                              /\ shown'[RepositoryOf[l]] = shown[RepositoryOf[l]]
  <2> DEFINE i == RepositoryOf[l]
  <2>1. load[l].rev <= revision[i] /\ revision[i] <= revision'[i]
    BY <1>0 DEF KeptInv, Ranked
  <2>2. Latest(l)' => revision'[i] = revision[i] /\ Latest(l)
    BY <1>0, <2>1 DEF Latest, Current
  <2> QED
    BY <1>0, <2>2
<1>3. ASSUME NEW l \in Loads PROVE Matched(l)' /\ Linked(l)' /\ Lasting(l)'
  BY <1>2, LoadKept DEF KeptInv
<1>4. ASSUME faults' <= 1, NEW l \in Loads PROVE Ahead(l)'
  BY <1>2, <1>4, LoadKept DEF KeptInv
<1>5. ASSUME AllRemembered PROVE AllRemembered'
  <2> SUFFICES ASSUME NEW i \in Repositories PROVE Remembered(i)'
    BY DEF AllRemembered
  <2>1. CASE memory'[i] = memory[i]
    BY <1>5, <2>1, RepositoryKept DEF AllRemembered
  <2>2. CASE ~SameEpoch(record', shown[i].ver)
    BY <2>2 DEF Remembered
  <2> QED
    BY <2>1, <2>2
<1>6. ASSUME Stored PROVE Stored'
  <2>1. ASSUME NEW i \in Repositories PROVE StoredRepository(i)'
    <3>1. CASE memory'[i] = memory[i]
      BY <1>6, <3>1, RepositoryKept DEF Stored
    <3>2. CASE memory'[i] = Nothing /\ ~SameEpoch(record', shown[i].ver)
      <4>1. ~SameEpoch(record', NoVersion)
        BY DEF Moved, RecordFits, SameEpoch, NoVersion
      <4> QED
        BY <3>2, <4>1 DEF StoredRepository, OnDisk, Nothing
    <3> QED
      BY <3>1, <3>2
  <2>2. ASSUME NEW l \in Loads PROVE StoredLoad(l)'
    BY <1>2, <1>6, LoadKept DEF Stored
  <2> QED
    BY <2>1, <2>2 DEF Stored
<1>7. Safe'
  BY <1>5, <1>6 DEF Safe, KeptInv
<1> QED
  BY <1>1, <1>3, <1>4, <1>7 DEF KeptInv

\* A new load is the latest of its repository, and captured nothing yet.
LEMMA StartKept ==
    ASSUME TypeOK, TypeOK', OwnedInv, KeptInv, Moved, NEW l \in Loads, Start(l)
    PROVE  KeptInv'
<1> DEFINE i == RepositoryOf[l]
<1>0. /\ i \in Repositories /\ faults \in Nat /\ revision[i] \in Nat
      /\ UNCHANGED <<record, memory, shown, faults>>
      /\ \A m \in Loads : RepositoryOf[m] \in Repositories /\ load[m].rev \in Nat
      /\ load[l] \in LoadStates
  BY HeldKnown DEF Start, platform, TypeOK, LoadStates
<1>1. /\ revision' = [revision EXCEPT ![i] = revision[i] + 1]
      /\ load' = [load EXCEPT ![l] = [load[l] EXCEPT !.pc = "version", !.rev = revision[i] + 1]]
  BY DEF Start, TypeOK
<1>2. /\ load'[l].pc = "version" /\ load'[l].rev = revision[i] + 1
      /\ load'[l].cached = load[l].cached
      /\ \A m \in Loads \ {l} : load'[m] = load[m]
      /\ revision'[i] = revision[i] + 1
      /\ \A j \in Repositories \ {i} : revision'[j] = revision[j]
  BY <1>0, <1>1 DEF TypeOK, LoadStates
<1>3. \A m \in Loads : load[m].rev <= revision[RepositoryOf[m]]
  BY DEF KeptInv, Ranked
<1>4. Ranked'
  <2> SUFFICES ASSUME NEW m \in Loads
      PROVE  /\ load'[m].rev <= revision'[RepositoryOf[m]]
             /\ \A n \in Loads :
                   /\ m # n /\ RepositoryOf[m] = RepositoryOf[n]
                   /\ load'[m].pc # "idle" /\ load'[n].pc # "idle"
                   => load'[m].rev # load'[n].rev
    BY DEF Ranked
  <2>1. load'[m].rev <= revision'[RepositoryOf[m]]
    <3>1. CASE m = l
      BY <1>0, <1>2, <3>1
    <3>2. CASE m # l /\ RepositoryOf[m] = i
      BY <1>0, <1>2, <1>3, <3>2
    <3>3. CASE m # l /\ RepositoryOf[m] # i
      BY <1>0, <1>2, <1>3, <3>3
    <3> QED
      BY <3>1, <3>2, <3>3
  <2>2. ASSUME NEW n \in Loads, m # n, RepositoryOf[m] = RepositoryOf[n],
               load'[m].pc # "idle", load'[n].pc # "idle"
        PROVE  load'[m].rev # load'[n].rev
    <3>1. CASE m = l
      BY <1>0, <1>2, <1>3, <2>2, <3>1
    <3>2. CASE n = l
      BY <1>0, <1>2, <1>3, <2>2, <3>2
    <3>3. CASE m # l /\ n # l
      BY <1>2, <2>2, <3>3 DEF KeptInv, Ranked
    <3> QED
      BY <3>1, <3>2, <3>3
  <2> QED
    BY <2>1, <2>2
<1>5. ASSUME NEW m \in Loads, m # l
      PROVE  /\ load'[m] = load[m]
             /\ Latest(m)' => /\ Latest(m)
                              /\ memory'[RepositoryOf[m]] = memory[RepositoryOf[m]]
                              /\ shown'[RepositoryOf[m]] = shown[RepositoryOf[m]]
  <2>1. CASE RepositoryOf[m] = i
    BY <1>0, <1>2, <1>3, <1>5, <2>1 DEF Latest, Current
  <2>2. CASE RepositoryOf[m] # i
    BY <1>0, <1>2, <1>5, <2>2 DEF Latest, Current
  <2> QED
    BY <2>1, <2>2
<1>6. ASSUME NEW m \in Loads
      PROVE  /\ Matched(m)' /\ Linked(m)' /\ Lasting(m)'
             /\ faults' <= 1 => Ahead(m)'
             /\ StoredLoad(m) => StoredLoad(m)'
  <2>1. CASE m = l
    <3>1. Matched(l)' /\ Linked(l)' /\ Lasting(l)' /\ Ahead(l)'
      BY <1>2 DEF Matched, Linked, Lasting, Ahead, Captive
    <3>2. StoredLoad(l) => StoredLoad(l)'
      BY <1>0, <1>2 DEF StoredLoad, OnDisk
    <3> QED
      BY <2>1, <3>1, <3>2
  <2>2. CASE m # l
    BY <1>0, <1>5, <2>2, LoadKept DEF KeptInv
  <2> QED
    BY <2>1, <2>2
<1>7. /\ AllRemembered => AllRemembered'
      /\ Stored => Stored'
  BY <1>0, <1>6, RepositoryKept DEF AllRemembered, Stored
<1>8. Safe'
  BY <1>0, <1>7 DEF Safe, KeptInv
<1> QED
  BY <1>4, <1>6, <1>8 DEF KeptInv

\* What only the process held is gone, what is on disk is not.
LEMMA DieKept ==
    ASSUME TypeOK, TypeOK', OwnedInv, KeptInv, Moved, Die
    PROVE  KeptInv'
<1>0. /\ faults \in Nat /\ faults' = faults + 1
      /\ \A l \in Loads : load'[l] = Idle
      /\ \A i \in Repositories : memory'[i] = Nothing
      /\ UNCHANGED <<record, revision, shown>>
      /\ \A i \in Repositories : revision[i] \in Nat
      /\ \A l \in Loads : RepositoryOf[l] \in Repositories
      /\ OnDisk(Nothing)
  BY NoEpoch, HeldKnown DEF Die, Fault, TypeOK, OwnedInv
<1>1. Ranked'
  BY <1>0 DEF Ranked, Idle
<1>2. ASSUME NEW l \in Loads
      PROVE  Matched(l)' /\ Linked(l)' /\ Lasting(l)' /\ Ahead(l)' /\ StoredLoad(l)'
  BY <1>0 DEF Matched, Linked, Lasting, Ahead, StoredLoad, OnDisk, Latest, Captive, Idle
<1>3. Stored => Stored'
  BY <1>0, <1>2 DEF Stored, StoredRepository, OnDisk
<1>4. Safe'
  BY <1>0, <1>3 DEF Safe, KeptInv
<1> QED
  BY <1>1, <1>2, <1>4 DEF KeptInv

\* Every step keeps the invariant.
LEMMA NextKept ==
    ASSUME TypeOK, TypeOK', OwnedInv, KeptInv, [Next]_vars
    PROVE  KeptInv'
<1>m. Moved
  BY StepMoved
<1>r. \A i \in Repositories : revision[i] \in Nat
  BY DEF TypeOK
<1>1. ASSUME NEW l \in Loads, Start(l) \/ Step(l) PROVE KeptInv'
  BY <1>m, <1>1, StartKept, ReadVersionKept, ReadSnapshotKept, RereadKept, FetchKept,
     FetchingKept, ClearOwnKept, ValidateKept, StoreKept, RecaptureKept, RevalidateKept,
     RecoverKept, PublishKept
  DEF Step
<1>2. ASSUME NEW i \in Repositories, Invalidate(i) PROVE KeptInv'
  <2>1. \A j \in Repositories : revision[j] <= revision'[j]
    BY <1>r, <1>2 DEF Invalidate, TypeOK
  <2> QED
    BY <1>m, <1>2, <2>1, AroundKept DEF Invalidate
<1>3. ASSUME NEW i \in Repositories, ClearPersistent(i) PROVE KeptInv'
  <2>1. /\ \A j \in Repositories : revision[j] <= revision'[j]
        /\ revision[i] < revision'[i]
    BY <1>r, <1>3 DEF ClearPersistent, TypeOK
  <2>2. ~SameEpoch(record', shown[i].ver)
    <3>1. shown[i].ver.ep <= clock /\ shown[i].ver.ep \in Nat /\ clock \in Nat
      BY HeldKnown DEF Known, TypeOK, Version
    <3>2. record'.ep = clock + 1
      BY <1>3 DEF ClearPersistent, ClearSnapshot, TypeOK, State
    <3> QED
      BY <3>1, <3>2 DEF SameEpoch
  <2>3. \A j \in Repositories : memory'[j] = memory[j] \/ (j = i /\ memory'[j] = Nothing)
    BY <1>3 DEF ClearPersistent, TypeOK
  <2> QED
    BY <1>m, <1>3, <2>1, <2>2, <2>3, AroundKept DEF ClearPersistent
<1>4. CASE BeginReconnect \/ CancelReconnect \/ \E a \in Accounts : CompleteReconnect(a)
  <2>1. UNCHANGED <<revision, memory, load, shown, faults>>
    BY <1>4 DEF BeginReconnect, CancelReconnect, CompleteReconnect
  <2>2. \A j \in Repositories : revision[j] <= revision'[j] /\ memory'[j] = memory[j]
    BY <1>r, <2>1
  <2> QED
    BY <1>m, <2>1, <2>2, AroundKept
<1>5. CASE Die
  BY <1>m, <1>5, DieKept
<1>6. CASE UNCHANGED vars
  <2>1. UNCHANGED <<revision, memory, load, shown, faults>>
    BY <1>6 DEF vars
  <2>2. \A j \in Repositories : revision[j] <= revision'[j] /\ memory'[j] = memory[j]
    BY <1>r, <2>1
  <2> QED
    BY <1>m, <2>1, <2>2, AroundKept
<1> QED
  BY <1>1, <1>2, <1>3, <1>4, <1>5, <1>6 DEF Next, Quiet

\* Nothing was answered yet.
LEMMA InitKept ==
    ASSUME Init
    PROVE  KeptInv
<1>1. RecordFits
  BY InitOwned DEF OwnedInv
<1>2. /\ \A l \in Loads : load[l] = Idle /\ RepositoryOf[l] \in Repositories
      /\ \A i \in Repositories : memory[i] = Nothing /\ shown[i] = Nothing /\ revision[i] = 0
      /\ faults = 0
      /\ OnDisk(Nothing) /\ ~SameEpoch(record, Nothing.ver)
  BY <1>1, NoEpoch, LoadAssumption DEF Init, Nothing
<1>3. Ranked
  BY <1>2 DEF Ranked, Idle
<1>4. ASSUME NEW l \in Loads
      PROVE  Matched(l) /\ Linked(l) /\ Lasting(l) /\ Ahead(l) /\ StoredLoad(l)
  BY <1>2 DEF Matched, Linked, Lasting, Ahead, StoredLoad, OnDisk, Latest, Captive, Idle
<1>5. AllRemembered
  BY <1>2 DEF AllRemembered, Remembered
<1>6. Stored
  BY <1>2, <1>4 DEF Stored, StoredRepository
<1> QED
  BY <1>3, <1>4, <1>5, <1>6 DEF KeptInv, Safe

\* The invariants hold always.
LEMMA InvariantKept == Spec => [](TypeOK /\ OwnedInv /\ KeptInv)
<1>1. Init => KeptInv
  BY InitKept
<1>2. TypeOK /\ TypeOK' /\ OwnedInv /\ KeptInv /\ [Next]_vars => KeptInv'
  BY NextKept
<1> QED
  BY <1>1, <1>2, InvariantOwned, PTL DEF Spec

\* What a reader saw, or something newer, is on disk and remembered: a restart and a
\* failed refresh show it again (MergingConnectionRepository).
THEOREM AnswersKept == Spec => []ShownIsKept
<1>1. TypeOK /\ KeptInv => ShownIsKept
  <2> SUFFICES ASSUME TypeOK, KeptInv, NEW i \in Repositories, faults = 0,
                      SameEpoch(record, shown[i].ver)
      PROVE  /\ record.snap.at >= shown[i].at
             /\ SameCache(memory[i].ver, shown[i].ver) /\ memory[i].at >= shown[i].at
    BY DEF ShownIsKept
  <2>1. AllRemembered /\ Stored
    BY DEF KeptInv, Safe
  <2> QED
    BY <2>1 DEF AllRemembered, Remembered, Stored, StoredRepository, OnDisk
<1> QED
  BY <1>1, InvariantKept, PTL

\* Until a second failure no reader sees older data than before: not from loads that
\* overlap, a refused or failed write, a wall clock set back or a process death
\* (MergingConnectionRepository).  Two failures may: a write that fails, and the
\* death of the process that alone remembers what was answered.
THEOREM NoReturn ==
    ASSUME MaxFaults <= 1
    PROVE  Spec => NeverBack
<1> DEFINE Forward ==
      \A i \in Repositories :
          shown'[i] # shown[i] /\ SameCache(shown[i].ver, shown'[i].ver) =>
              shown'[i].at >= shown[i].at
       Bounded == faults <= MaxFaults
<1>1. Spec => []Bounded
  <2>1. Init => Bounded
    BY LoadAssumption DEF Init
  <2>2. ASSUME TypeOK, Bounded, [Next]_vars PROVE Bounded'
    <3>1. faults' = faults \/ Fault
      BY <2>2
      DEF Next, Step, Quiet, vars, Start, ReadVersion, ReadSnapshot, Reread, Fetch, Rotate,
          Fetched, FetchFails, ClearOwn, Validate, Store, Recapture, Revalidate, Recover,
          Publish, Invalidate, ClearPersistent, BeginReconnect, CancelReconnect,
          CompleteReconnect, Die
    <3>2. faults \in Nat /\ MaxFaults \in Nat
      BY <2>2, LoadAssumption DEF TypeOK
    <3>3. faults <= MaxFaults
      BY <2>2
    <3>4. faults' <= MaxFaults
      BY <3>1, <3>2, <3>3 DEF Fault
    <3> QED
      BY <3>4
  <2>3. TypeOK /\ Bounded /\ [Next]_vars => Bounded'
    BY <2>2
  <2> HIDE DEF Bounded
  <2> QED
    BY <2>1, <2>3, TypesCorrect, PTL DEF Spec
<1>2. ASSUME TypeOK, OwnedInv, KeptInv, Bounded, [Next]_vars PROVE Forward
  <2> SUFFICES ASSUME NEW i \in Repositories, shown'[i] # shown[i],
                      SameCache(shown[i].ver, shown'[i].ver)
      PROVE  shown'[i].at >= shown[i].at
    BY SMTT(30)
  <2>1. PICK l \in Loads : Publish(l)
    BY <1>2
    DEF Next, Step, Quiet, vars, platform, Start, ReadVersion, ReadSnapshot, Reread, Fetch,
        Rotate, Fetched, FetchFails, ClearOwn, Validate, Store, Recapture, Revalidate,
        Recover, Invalidate, ClearPersistent, BeginReconnect, CancelReconnect,
        CompleteReconnect, Die
  <2>2. /\ SameEpoch(record, load[l].live.ver) /\ shown'[i] = load[l].live
        /\ i = RepositoryOf[l] /\ Latest(l) /\ load[l].pc = "publish"
    BY <1>2, <2>1 DEF Publish, TypeOK, Latest
  <2>3. SameEpoch(record, shown[i].ver)
    BY <2>2 DEF SameEpoch, SameCache
  <2>4. faults <= 1
    BY <1>2, LoadAssumption DEF TypeOK
  <2>5. Ahead(l)
    BY <1>2, <2>4 DEF KeptInv
  <2> QED
    BY <2>2, <2>3, <2>5, SMTT(30) DEF Ahead
<1>3. TypeOK /\ OwnedInv /\ KeptInv /\ Bounded /\ [Next]_vars => [Forward]_vars
  BY <1>2
<1> HIDE DEF Forward, Bounded
<1>4. Spec => [][Forward]_vars
  BY <1>1, <1>3, InvariantKept, PTL DEF Spec
<1> QED
  BY <1>4 DEF Forward, NeverBack
=============================================================================

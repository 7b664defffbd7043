---------------------------- MODULE ConnectionLoad ----------------------------
(***************************************************************************)
(* MergingConnectionRepository for one subscription plan, its persistent     *)
(* snapshot cache and the record they share with the credential.  Every      *)
(* Flutter engine has a repository of its own; its loads overlap, and those   *)
(* of the others, except while they hold the fetch lease.                     *)
(*                                                                          *)
(* Each action ends where the code awaits the platform or the network.  A     *)
(* snapshot is the account it reports on, the instant it was generated at     *)
(* and the version it is stamped with; other connections are left out.        *)
(***************************************************************************)
EXTENDS CredentialRecord

CONSTANTS
    Loads,         \* slots for loads that run at the same time
    Repositories,  \* one in each Flutter engine
    RepositoryOf,  \* the repository a load belongs to
    NoLoad,
    MaxAt,         \* the instants the wall clock may show, set back or not
    MaxLoads,      \* bounds on the loads of a repository and its invalidations
    MaxChanges,    \* bound on what happens to the credential and its epoch
    MaxFaults      \* bound on failures of the platform, process deaths included

ASSUME LoadAssumption ==
    /\ RepositoryOf \in [Loads -> Repositories]
    /\ NoLoad \notin Loads
    /\ MaxLoads \in [Repositories -> Nat]
    /\ {MaxAt, MaxChanges, MaxFaults} \subseteq Nat

VARIABLES
    record,     \* the record of the connection, as ConnectionCacheEngine keeps it
    clock,      \* the last unique id drawn
    fetching,   \* the load that holds the fetch lease
    revision,   \* _cacheRevision of each repository
    memory,     \* _lastSuccessfulConnectionSnapshot of each repository
    load,       \* where each load is, and what it holds
    shown,      \* what each repository last answered, kept over process deaths
    changes, faults

platform == <<record, clock, fetching>>
vars == <<platform, revision, memory, load, shown, changes, faults>>

Stamped == [acct : Accounts \cup {NoAccount}, at : Nat, ver : Version]
Nothing == [acct |-> NoAccount, at |-> 0, ver |-> NoVersion]
Stamp(snap, ver) == [acct |-> snap.acct, at |-> snap.at, ver |-> ver]

Places == {"idle", "version", "snapshot", "reread", "queued", "fetch", "clear", "valid",
           "store", "recapture", "revalid", "recover", "publish"}
Idle == [pc |-> "idle", rev |-> 0, ver |-> NoVersion, token |-> NoVersion,
         cached |-> Nothing, live |-> Nothing, kept |-> Nothing]
LoadStates == [pc : Places, rev : Nat, ver : Version, token : Version,
               cached : Stamped, live : Stamped, kept : Stamped]

TypeOK ==
    /\ record \in State /\ clock \in Nat
    /\ fetching \in Loads \cup {NoLoad}
    /\ revision \in [Repositories -> Nat]
    /\ memory \in [Repositories -> Stamped]
    /\ load \in [Loads -> LoadStates]
    /\ shown \in [Repositories -> Stamped]
    /\ changes \in Nat /\ faults \in Nat

-----------------------------------------------------------------------------
SameCache(a, b) == a.gen = b.gen /\ a.ep = b.ep /\ a.ident = b.ident
Newer(a, b) == a.at > b.at
Newest(a, b) == IF Newer(b, a) THEN b ELSE a

Current(l) == load[l].rev = revision[RepositoryOf[l]]
\* Mutant: a superseded load still assigns the memory.
RememberAlways(l, snap) == memory' = [memory EXCEPT ![RepositoryOf[l]] = snap]

Remember(l, snap) ==
    memory' = IF Current(l) THEN [memory EXCEPT ![RepositoryOf[l]] = snap] ELSE memory
Continue(l, pc) == load' = [load EXCEPT ![l].pc = pc]
End(l) == load' = [load EXCEPT ![l] = Idle]
Fault == faults < MaxFaults /\ faults' = faults + 1

Init ==
    /\ \E a \in Accounts : record = Activate(Reconnect(LegacyState, 2), "complete", 2, a, 3)
    /\ clock = 3
    /\ fetching = NoLoad
    /\ revision = [i \in Repositories |-> 0]
    /\ memory = [i \in Repositories |-> Nothing]
    /\ load = [l \in Loads |-> Idle]
    /\ shown = [i \in Repositories |-> Nothing]
    /\ changes = 0 /\ faults = 0

(***************************************************************************)
(* The capture of the cache: the version, the snapshot under it, and when    *)
(* there is none, the version again if the first one is over.                *)
(***************************************************************************)
Start(l) ==
    LET i == RepositoryOf[l]
    IN /\ load[l].pc = "idle" /\ revision[i] < MaxLoads[i]
       /\ revision' = [revision EXCEPT ![i] = @ + 1]
       /\ load' = [load EXCEPT ![l].pc = "version", ![l].rev = revision[i] + 1]
       /\ UNCHANGED <<platform, memory, shown, changes, faults>>

CurrentVersion == IF record.mode = "active" THEN VersionOf(record) ELSE NoVersion

\* capture() is over: a remembered snapshot counts while its stamp has the
\* captured version, and a stored one that is newer replaces it.
Captured(l, ver, disk) ==
    LET mine == memory[RepositoryOf[l]]
        kept == IF ver # NoVersion /\ SameCache(mine.ver, ver) THEN mine ELSE Nothing
        cached == Newest(kept, disk)
    IN /\ load' = [load EXCEPT ![l].pc = "queued", ![l].ver = ver, ![l].cached = cached]
       /\ Remember(l, cached)

ReadVersion(l) ==
    /\ load[l].pc = "version"
    /\ \/ /\ CurrentVersion # NoVersion
          /\ load' = [load EXCEPT ![l].pc = "snapshot", ![l].ver = CurrentVersion]
          /\ UNCHANGED <<memory, faults>>
       \/ /\ CurrentVersion = NoVersion
          /\ Captured(l, NoVersion, Nothing)
          /\ UNCHANGED faults
       \/ /\ Fault /\ Remember(l, Nothing) /\ End(l)
    /\ UNCHANGED <<platform, revision, shown, changes>>

ReadSnapshot(l) ==
    /\ load[l].pc = "snapshot"
    /\ \/ /\ SameEpoch(record, load[l].ver) /\ record.snap # NoSnapshot
          /\ Captured(l, load[l].ver, Stamp(record.snap, load[l].ver))
          /\ UNCHANGED faults
       \/ /\ ~SameEpoch(record, load[l].ver) \/ record.snap = NoSnapshot
          /\ Continue(l, "reread")
          /\ UNCHANGED <<memory, faults>>
       \/ /\ Fault /\ Captured(l, load[l].ver, Nothing)
    /\ UNCHANGED <<platform, revision, shown, changes>>

Reread(l) ==
    /\ load[l].pc = "reread"
    /\ Captured(l, IF SameEpoch(record, load[l].ver) THEN load[l].ver ELSE CurrentVersion, Nothing)
    /\ UNCHANGED <<platform, revision, shown, changes, faults>>

(***************************************************************************)
(* The account service fetches a report under the lease: it reads the        *)
(* session, may rotate its token, and gives up when the session changed.     *)
(***************************************************************************)
Fetch(l) ==
    /\ load[l].pc = "queued" /\ fetching = NoLoad
    /\ IF CurrentVersion # NoVersion
       THEN /\ fetching' = l
            /\ load' = [load EXCEPT ![l].pc = "fetch", ![l].token = CurrentVersion]
            /\ UNCHANGED memory
       ELSE /\ Remember(l, Nothing)
            /\ IF Current(l) /\ load[l].ver # NoVersion THEN Continue(l, "clear") ELSE End(l)
            /\ UNCHANGED fetching
    /\ UNCHANGED <<record, clock, revision, shown, changes, faults>>

Rotate(l) ==
    /\ load[l].pc = "fetch" /\ SameRevision(record, load[l].token)
    /\ changes < MaxChanges /\ changes' = changes + 1
    /\ record' = Activate(record, "refresh", clock + 1, load[l].token.ident, clock + 2)
    /\ clock' = clock + 2
    /\ load' = [load EXCEPT ![l].token = VersionOf(record')]
    /\ UNCHANGED <<fetching, revision, memory, shown, faults>>

Fetched(l) ==
    /\ load[l].pc = "fetch" /\ SameRevision(record, load[l].token)
    /\ \E at \in 1..MaxAt :
          load' = [load EXCEPT ![l].pc = "valid",
                               ![l].live = [acct |-> load[l].token.ident, at |-> at, ver |-> NoVersion]]
    /\ fetching' = NoLoad
    /\ UNCHANGED <<record, clock, revision, memory, shown, changes, faults>>

\* The provider fails, or the session changed; a rejected session is deleted
\* when it still is the one that was sent.
FetchFails(l) ==
    /\ load[l].pc = "fetch"
    /\ \/ UNCHANGED <<record, clock, changes>>
       \/ /\ SameRevision(record, load[l].token)
          /\ changes < MaxChanges /\ changes' = changes + 1
          /\ record' = Delete(record, clock + 1) /\ clock' = clock + 1
    /\ fetching' = NoLoad
    /\ Continue(l, "recover")
    /\ UNCHANGED <<revision, memory, shown, faults>>

\* There is no session: what the captured version stored goes.
ClearOwn(l) ==
    /\ load[l].pc = "clear"
    /\ IF SameEpoch(record, load[l].ver)
       THEN record' = ClearSnapshot(record, clock + 1) /\ clock' = clock + 1
       ELSE UNCHANGED <<record, clock>>
    /\ End(l)
    /\ UNCHANGED <<fetching, revision, memory, shown, changes, faults>>

(***************************************************************************)
(* A response is stamped, stored unless something newer is known, and        *)
(* answered, or what is newer in its place.                                  *)
(***************************************************************************)
\* Mutant: the captured snapshot is not compared with the response.
KeepResponse(l, kept) ==
    load' = [load EXCEPT ![l].pc = "revalid", ![l].live = Stamp(@, load[l].ver), ![l].kept = kept]

\* What the load will remember once storing is over.
Keep(l, kept) ==
    load' = [load EXCEPT ![l].pc = "revalid", ![l].live = Stamp(@, load[l].ver),
                         ![l].kept = Newest(kept, load[l].cached)]

Validate(l) ==
    LET live == Stamp(load[l].live, load[l].ver)
    IN /\ load[l].pc = "valid"
       /\ IF ~SameEpoch(record, load[l].ver) THEN Remember(l, Nothing) /\ End(l)
          ELSE /\ IF ~Current(l) THEN Keep(l, live)
                  ELSE load' = [load EXCEPT ![l].live = live,
                                            ![l].pc = IF Newer(load[l].cached, live)
                                                      THEN "recapture" ELSE "store"]
               /\ UNCHANGED memory
       /\ UNCHANGED <<platform, revision, shown, changes, faults>>

\* writeSnapshot refuses what is stamped with another epoch or is older.
Store(l) ==
    LET live == load[l].live
        written == WriteSnapshot(record, live.acct, live.at)
        accepted == SameEpoch(record, live.ver) /\ live.at >= record.snap.at
    IN /\ load[l].pc = "store"
       /\ \/ /\ accepted /\ record' = written /\ Keep(l, live)
             /\ UNCHANGED faults
          \/ /\ ~accepted /\ Continue(l, "recapture")
             /\ UNCHANGED <<record, faults>>
          \/ /\ accepted /\ Fault /\ record' \in {record, written} /\ Continue(l, "recapture")
       /\ UNCHANGED <<clock, fetching, revision, memory, shown, changes>>

\* The second capture counts when it is of the same version.
Recapture(l) ==
    LET live == load[l].live
        disk == IF SameEpoch(record, live.ver) THEN Stamp(record.snap, CurrentVersion) ELSE Nothing
    IN /\ load[l].pc = "recapture"
       /\ \/ Keep(l, Newest(live, disk)) /\ UNCHANGED faults
          \/ Fault /\ Keep(l, live)
       /\ UNCHANGED <<platform, revision, memory, shown, changes>>

Revalidate(l) ==
    LET kept == load[l].kept
    IN /\ load[l].pc = "revalid"
       /\ IF ~SameEpoch(record, load[l].ver) THEN End(l) /\ UNCHANGED memory
          ELSE /\ Remember(l, kept)
               /\ load' = [load EXCEPT ![l].pc = "publish", ![l].live = Newest(@, kept)]
       /\ UNCHANGED <<platform, revision, shown, changes, faults>>

\* A failed load falls back on what it captured, while that is valid.
Recover(l) ==
    LET cached == IF Current(l) THEN load[l].cached ELSE Nothing
    IN /\ load[l].pc = "recover"
       /\ IF SameEpoch(record, cached.ver)
          THEN load' = [load EXCEPT ![l].pc = "publish", ![l].live = cached] /\ UNCHANGED memory
          ELSE Remember(l, Nothing) /\ End(l)
       /\ UNCHANGED <<platform, revision, shown, changes, faults>>

\* Mutant: the answer is not checked again after the last await.
PublishUnchecked(l) ==
    /\ load[l].pc = "publish"
    /\ shown' = IF Current(l) THEN [shown EXCEPT ![RepositoryOf[l]] = load[l].live] ELSE shown
    /\ End(l)
    /\ UNCHANGED <<platform, revision, memory, changes, faults>>

\* The answer is checked once more; a load that another one or an invalidation
\* superseded answers nothing.
Publish(l) ==
    /\ load[l].pc = "publish"
    /\ shown' = IF SameEpoch(record, load[l].live.ver) /\ Current(l)
                THEN [shown EXCEPT ![RepositoryOf[l]] = load[l].live] ELSE shown
    /\ End(l)
    /\ UNCHANGED <<platform, revision, memory, changes, faults>>

(***************************************************************************)
(* What happens around the loads.                                           *)
(***************************************************************************)
Change == changes < MaxChanges /\ changes' = changes + 1

\* Mutant: an invalidation counts the other way.
InvalidateBack(i) ==
    /\ revision[i] < MaxLoads[i]
    /\ revision' = [revision EXCEPT ![i] = @ - 1]
    /\ UNCHANGED <<platform, memory, load, shown, changes, faults>>

\* Stamped memory is left to be validated by the next load.
Invalidate(i) ==
    /\ revision[i] < MaxLoads[i]
    /\ revision' = [revision EXCEPT ![i] = @ + 1]
    /\ UNCHANGED <<platform, memory, load, shown, changes, faults>>

BeginReconnect ==
    /\ Change /\ record.mode \in {"active", "deleted"}
    /\ record' = Reconnect(record, clock + 1) /\ clock' = clock + 1
    /\ UNCHANGED <<fetching, revision, memory, load, shown, faults>>

CompleteReconnect(a) ==
    /\ Change /\ record.mode = "pending"
    /\ record' = Activate(record, "complete", record.pend, a, clock + 1) /\ clock' = clock + 1
    /\ UNCHANGED <<fetching, revision, memory, load, shown, faults>>

CancelReconnect ==
    /\ Change /\ record.mode = "pending"
    /\ record' = Cancel(record)
    /\ UNCHANGED <<clock, fetching, revision, memory, load, shown, faults>>

\* clearPersistentSnapshots of a repository; its native half comes right after.
ClearPersistent(i) ==
    /\ Change /\ revision[i] < MaxLoads[i]
    /\ revision' = [revision EXCEPT ![i] = @ + 1]
    /\ memory' = [memory EXCEPT ![i] = Nothing]
    /\ record' = ClearSnapshot(record, clock + 1) /\ clock' = clock + 1
    /\ UNCHANGED <<fetching, load, shown, faults>>

\* The process dies: what only it held is gone, the record is not.
Die ==
    /\ Fault
    /\ fetching' = NoLoad
    /\ memory' = [i \in Repositories |-> Nothing]
    /\ load' = [l \in Loads |-> Idle]
    /\ UNCHANGED <<record, clock, revision, shown, changes>>

Step(l) ==
    \/ ReadVersion(l) \/ ReadSnapshot(l) \/ Reread(l)
    \/ Fetch(l) \/ Rotate(l) \/ Fetched(l) \/ FetchFails(l) \/ ClearOwn(l)
    \/ Validate(l) \/ Store(l) \/ Recapture(l) \/ Revalidate(l)
    \/ Recover(l) \/ Publish(l)

\* Every load has ended: the instance may end here.
Quiet == (\A l \in Loads : load[l].pc = "idle") /\ UNCHANGED vars

Next ==
    \/ \E l \in Loads : Start(l) \/ Step(l)
    \/ \E i \in Repositories : Invalidate(i) \/ ClearPersistent(i)
    \/ BeginReconnect \/ CancelReconnect
    \/ \E a \in Accounts : CompleteReconnect(a)
    \/ Die \/ Quiet

Spec == Init /\ [][Next]_vars

-----------------------------------------------------------------------------
\* What is answered was reported for the account the connection has now, and
\* under its present generation and epoch: no load that began before a
\* reconnect, a sign-out or a purge answers after it.
AnswersOwned ==
    [][\A i \in Repositories :
          shown'[i] # shown[i] =>
              SameEpoch(record, shown'[i].ver) /\ shown'[i].acct = record.ident]_vars

\* While the credential stays, a reader never sees older data than before:
\* not from overlapping loads of several engines, a refused or failed write, a
\* wall clock set back or one process death.
NeverBack ==
    [][\A i \in Repositories :
          shown'[i] # shown[i] /\ SameCache(shown[i].ver, shown'[i].ver) =>
              shown'[i].at >= shown[i].at]_vars

\* What a reader saw, or something newer, is on disk, so that a restart shows it
\* again, and remembered, so that a failed refresh does, even if it could not be
\* stored.
ShownIsKept ==
    \A i \in Repositories :
        faults = 0 /\ SameEpoch(record, shown[i].ver) =>
            /\ record.snap.at >= shown[i].at
            /\ SameCache(memory[i].ver, shown[i].ver) /\ memory[i].at >= shown[i].at
=============================================================================

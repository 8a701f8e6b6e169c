---------------------------- MODULE MediaCache ----------------------------
(***************************************************************************)
(* The media cache (cache.rs) and the guards of the artifact store it      *)
(* shares its directory with (media_store.rs): content-addressed files,    *)
(* a catalogue of them with leases in the job database, one lock file per  *)
(* artifact, publication, reuse, and eviction under a budget.              *)
(*                                                                         *)
(* A step is one SQLite transaction, one file operation or one change of a *)
(* lock. An eviction unlinks inside its IMMEDIATE transaction: no other    *)
(* writer comes between the two, only a failure or a crash does.           *)
(*                                                                         *)
(* A file is there or not; a damaged one counts as not there. All          *)
(* artifacts have size 1. Sessions before the present one own no lease,    *)
(* since a start removes theirs before anything else looks.                *)
(***************************************************************************)
EXTENDS Naturals, FiniteSets

CONSTANTS
  Keys,          \* artifacts
  Owners,        \* window labels and projects, which own leases
  Clients,       \* calls that publish or reuse artifacts
  Enforcers,     \* calls of status and enforce_budget
  Budget,        \* managed_cache_budget_bytes_v1
  Found,         \* sets of artifacts earlier sessions may have left
  Nobody,        \* holder of a free lock
  MaxCalls,      \* bound: artifacts the clients' calls ask for
  MaxTroubles    \* bound: failing transactions and file operations, files removed by
                 \* something else than the application, and crashes, together

ASSUME CacheAssumption ==
  /\ Clients \cap Enforcers = {}
  /\ Clients \cap Owners = {}
  /\ Nobody \notin Clients \cup Enforcers
  /\ Keys # {} /\ Owners # {}
  /\ Found \subseteq SUBSET Keys
  /\ Budget \in Nat
  /\ MaxCalls \in Nat /\ MaxTroubles \in Nat

VARIABLES
  files,      \* keys whose file is in place
  catalog,    \* availability of each key's row, "none" without a row
  leases,     \* <<owner, key>>: rows of cache_leases of this session
  locks,      \* holder of each artifact's lock file
  pending,    \* failed_evictions
  client,     \* a client's call: where it is, its key, its owner, keys left
  enforcer,   \* an enforcement: where it is, the rows it read, its candidate
  spoilt,     \* history: keys that lost their file otherwise than by a committed
              \* eviction and were not registered since
  calls, troubles   \* used-up bounds

actors == <<client, enforcer>>
bounds == <<calls, troubles>>
vars == <<files, catalog, leases, locks, pending, actors, spoilt, bounds>>

Availability == {"none", "available", "reserved", "missing", "invalid"}

CallPlaces == {"idle", "next", "locked", "published", "ready", "leased", "probe", "release"}
EnforcementPlaces == {"idle", "repair", "inventory", "inspect", "mark", "reserve", "lock", "evict",
                      "failed", "reconcile"}

Call == [at : CallPlaces, kind : {"publish", "reuse"}, key : Keys, owner : Owners,
         todo : SUBSET Keys]
Enforcement == [at : EnforcementPlaces, trim : BOOLEAN, rows : SUBSET Keys, gone : SUBSET Keys,
                key : Keys]

\* A call publishes one artifact ("publish"), or revalidates the artifacts of a
\* finished preparation ("reuse") under leases of its own, named after the call.
IdleClient == [at |-> "idle", kind |-> "publish", key |-> CHOOSE k \in Keys : TRUE,
               owner |-> CHOOSE o \in Owners : TRUE, todo |-> {}]
IdleEnforcer == [at |-> "idle", trim |-> FALSE, rows |-> {}, gone |-> {},
                 key |-> CHOOSE k \in Keys : TRUE]

Leased(k) == \E l \in leases : l[2] = k
LeasesOf(h) == {l \in leases : l[1] = h}

\* The holder a registration of call c leases for.
Holder(c) == IF client[c].kind = "reuse" THEN c ELSE client[c].owner

Fault == troubles < MaxTroubles /\ troubles' = troubles + 1
NoFault == UNCHANGED troubles

ClientMoves(c, at) ==
  client' = [client EXCEPT ![c] = IF at = "idle" THEN IdleClient ELSE [@ EXCEPT !.at = at]]
\* Only an enforcement has a next round; a new round knows nothing of the last one.
EnforcerMoves(e, at) ==
  enforcer' = [enforcer EXCEPT ![e] =
    CASE at = "idle" -> IdleEnforcer
      [] at = "repair" -> [IdleEnforcer EXCEPT !.at = at, !.trim = TRUE]
      [] OTHER -> [@ EXCEPT !.at = at, !.rows = {}]]
LockFor(a, k) == locks[k] = Nobody /\ locks' = [locks EXCEPT ![k] = a]
Unlock(k) == locks' = [locks EXCEPT ![k] = Nobody]

-----------------------------------------------------------------------------
(* Publication and reuse *)

StartCall(c) ==
  /\ client[c].at = "idle"
  /\ \E o \in Owners, kind \in {"publish", "reuse"}, ks \in SUBSET Keys :
       /\ IF kind = "publish" THEN Cardinality(ks) = 1 ELSE Cardinality(ks) > 1
       /\ calls + Cardinality(ks) <= MaxCalls /\ calls' = calls + Cardinality(ks)
       /\ client' = [client EXCEPT ![c] =
            [IdleClient EXCEPT !.at = "next", !.kind = kind, !.owner = o, !.todo = ks]]
  /\ UNCHANGED <<files, catalog, leases, locks, pending, enforcer, spoilt, troubles>>

\* acquire_artifact, acquire_source_lock: one lock at a time.
AcquireArtifact(c) ==
  /\ client[c].at = "next"
  /\ \E k \in client[c].todo :
       /\ LockFor(c, k)
       /\ client' = [client EXCEPT ![c].key = k, ![c].todo = @ \ {k},
                       ![c].at = IF client[c].kind = "reuse" THEN "ready" ELSE "locked"]
  /\ UNCHANGED <<files, catalog, leases, pending, enforcer, spoilt, bounds>>

\* The end of a call that failed: the attempt's leases go, if it has any.
Abandon(c) == ClientMoves(c, IF client[c].kind = "reuse" THEN "release" ELSE "idle")

\* lock_file gives up after its timeout.
LockTimeout(c) ==
  /\ client[c].at = "next"
  /\ \E k \in client[c].todo : locks[k] # Nobody
  /\ Abandon(c)
  /\ UNCHANGED <<files, catalog, leases, locks, pending, enforcer, spoilt, bounds>>

\* Under the lock a file in place is validated and reused.
ReuseCached(c) ==
  /\ client[c].at = "locked"
  /\ client[c].key \in files
  /\ ClientMoves(c, "ready")
  /\ UNCHANGED <<files, catalog, leases, locks, pending, enforcer, spoilt, bounds>>

\* The build or copy fails before it publishes anything.
BuildFails(c) ==
  /\ client[c].at = "locked"
  /\ Fault
  /\ Unlock(client[c].key)
  /\ Abandon(c)
  /\ UNCHANGED <<files, catalog, leases, pending, enforcer, spoilt, calls>>

\* durable_publish renames the finished temporary over the destination: there was
\* no file, or a probe that failed judged it useless.
DurablePublish(c) ==
  /\ client[c].at = "locked"
  /\ \/ client[c].key \notin files /\ NoFault
     \/ client[c].key \in files /\ Fault
  /\ files' = files \cup {client[c].key}
  /\ ClientMoves(c, "published")
  /\ UNCHANGED <<catalog, leases, locks, pending, enforcer, spoilt, calls>>

\* The published file is validated once more where it is now.
ValidateFinal(c) ==
  /\ client[c].at = "published"
  /\ client[c].key \in files
  /\ ClientMoves(c, "ready")
  /\ UNCHANGED <<files, catalog, leases, locks, pending, enforcer, spoilt, bounds>>

\* The directory's sync or the last validation fails: what was published is removed,
\* whoever leases the artifact.
RemoveExact(c) ==
  /\ client[c].at = "published"
  /\ IF client[c].key \in files THEN Fault ELSE NoFault
  /\ files' = files \ {client[c].key}
  /\ spoilt' = spoilt \cup {client[c].key}
  /\ Unlock(client[c].key)
  /\ Abandon(c)
  /\ UNCHANGED <<catalog, leases, pending, enforcer, calls>>

\* Mutant: the registration leaves a reservation standing.
RegisterReserved(c) ==
  LET k == client[c].key IN
  /\ client[c].at = "ready"
  /\ k \in files
  /\ catalog' = [catalog EXCEPT ![k] = IF @ = "reserved" THEN @ ELSE "available"]
  /\ leases' = leases \cup {<<Holder(c), k>>}
  /\ spoilt' = spoilt \ {k}
  /\ ClientMoves(c, "leased")
  /\ UNCHANGED <<files, locks, pending, enforcer, bounds>>

\* register_and_lease: catalogue row and lease in one transaction, under the caller's
\* lock; the file is looked at inside it.
RegisterAndLease(c) ==
  LET k == client[c].key IN
  /\ client[c].at = "ready"
  /\ k \in files
  /\ catalog' = [catalog EXCEPT ![k] = "available"]
  /\ leases' = leases \cup {<<Holder(c), k>>}
  /\ spoilt' = spoilt \ {k}
  /\ ClientMoves(c, "leased")
  /\ UNCHANGED <<files, locks, pending, enforcer, bounds>>

\* It fails, for want of the file or of the database; nothing is committed.
RegisterFails(c) ==
  /\ client[c].at = "ready"
  /\ IF client[c].key \in files THEN Fault ELSE NoFault
  /\ Unlock(client[c].key)
  /\ Abandon(c)
  /\ UNCHANGED <<files, catalog, leases, pending, enforcer, spoilt, calls>>

\* The guard is dropped after the commit.
DropGuard(c) ==
  /\ client[c].at = "leased"
  /\ Unlock(client[c].key)
  /\ ClientMoves(c, IF client[c].kind = "publish" THEN "idle"
                    ELSE IF client[c].todo = {} THEN "probe" ELSE "next")
  /\ UNCHANGED <<files, catalog, leases, pending, enforcer, spoilt, bounds>>

\* The revalidated artifacts are probed without a lock.
ProbeRejects(c) ==
  /\ client[c].at = "probe"
  /\ ClientMoves(c, "release")
  /\ UNCHANGED <<files, catalog, leases, locks, pending, enforcer, spoilt, bounds>>

\* transfer_attempt_leases: every lease of the attempt becomes one of the owner, in
\* one transaction, after lease_on has looked at each row and file again.
Transferable(c) == \A l \in LeasesOf(c) : catalog[l[2]] \in {"available", "reserved"} /\ l[2] \in files

TransferAttemptLeases(c) ==
  /\ client[c].at = "probe"
  /\ Transferable(c)
  /\ catalog' = [k \in Keys |-> IF <<c, k>> \in leases THEN "available" ELSE catalog[k]]
  /\ leases' = (leases \ LeasesOf(c)) \cup {<<client[c].owner, l[2]>> : l \in LeasesOf(c)}
  /\ ClientMoves(c, "idle")
  /\ UNCHANGED <<files, locks, pending, enforcer, spoilt, bounds>>

TransferFails(c) ==
  /\ client[c].at = "probe"
  /\ IF Transferable(c) THEN Fault ELSE NoFault
  /\ ClientMoves(c, "release")
  /\ UNCHANGED <<files, catalog, leases, locks, pending, enforcer, spoilt, calls>>

\* release_owner of the attempt, on every way out but success.
ReleaseAttempt(c) ==
  /\ client[c].at = "release"
  /\ leases' = leases \ LeasesOf(c)
  /\ ClientMoves(c, "idle")
  /\ UNCHANGED <<files, catalog, locks, pending, enforcer, spoilt, bounds>>

\* release_owner and release_project, when a window or a project is closed; nothing
\* stops the calls that work for it.
ReleaseOwner(o) ==
  /\ leases' = leases \ LeasesOf(o)
  /\ UNCHANGED <<files, catalog, locks, pending, actors, spoilt, bounds>>

-----------------------------------------------------------------------------
(* Status and budget *)

StartEnforcement(e) ==
  /\ enforcer[e].at = "idle"
  /\ \E trim \in BOOLEAN :
       enforcer' = [enforcer EXCEPT ![e] = [IdleEnforcer EXCEPT !.at = "repair", !.trim = trim]]
  /\ UNCHANGED <<files, catalog, leases, locks, pending, client, spoilt, bounds>>

\* Mutant: the bytes are not looked at again.
MarkMissingUnchecked(e) ==
  /\ enforcer[e].at = "mark"
  /\ \E k \in enforcer[e].gone :
       /\ catalog' = [catalog EXCEPT ![k] = "missing"]
       /\ enforcer' = [enforcer EXCEPT ![e].gone = @ \ {k}]
  /\ UNCHANGED <<files, leases, locks, pending, client, spoilt, bounds>>

\* reconcile_failed_evictions: one transaction under the list's mutex. A reservation
\* an eviction left behind becomes available again, or missing if the bytes are gone.
ReconcileFailedEvictions ==
  /\ catalog' = [k \in Keys |->
       IF k \in pending /\ catalog[k] = "reserved"
         THEN IF k \in files THEN "available" ELSE "missing" ELSE catalog[k]]
  /\ pending' = {}

\* The first step of every status, hence of every round of an enforcement.
StatusRepairs(e) ==
  /\ enforcer[e].at = "repair"
  /\ \/ ReconcileFailedEvictions /\ NoFault /\ EnforcerMoves(e, "inventory")
     \/ Fault /\ EnforcerMoves(e, "idle") /\ UNCHANGED <<catalog, pending>>
  /\ UNCHANGED <<files, leases, locks, client, spoilt, calls>>

\* The rows are read in one statement, the files looked at afterwards.
ReadInventory(e) ==
  /\ enforcer[e].at = "inventory"
  /\ enforcer' = [enforcer EXCEPT ![e].at = "inspect",
                    ![e].rows = {k \in Keys : catalog[k] = "available"}]
  /\ UNCHANGED <<files, catalog, leases, locks, pending, client, spoilt, bounds>>

InspectFiles(e) ==
  /\ enforcer[e].at = "inspect"
  /\ enforcer' = [enforcer EXCEPT ![e].at = "mark", ![e].rows = @ \cap files,
                    ![e].gone = enforcer[e].rows \ files]
  /\ UNCHANGED <<files, catalog, leases, locks, pending, client, spoilt, bounds>>

\* Each row without its file is looked at again under the writer's lock.
MarkMissing(e) ==
  /\ enforcer[e].at = "mark"
  /\ \E k \in enforcer[e].gone :
       /\ catalog' = IF catalog[k] = "available" /\ k \notin files
                       THEN [catalog EXCEPT ![k] = "missing"] ELSE catalog
       /\ enforcer' = [enforcer EXCEPT ![e].gone = @ \ {k}]
  /\ UNCHANGED <<files, leases, locks, pending, client, spoilt, bounds>>

\* The status is complete: the call ends unless it trims and is over the budget.
StatusReturns(e) ==
  /\ enforcer[e].at = "mark"
  /\ enforcer[e].gone = {}
  /\ EnforcerMoves(e, IF enforcer[e].trim /\ Cardinality(enforcer[e].rows) > Budget
                        THEN "reserve" ELSE "idle")
  /\ UNCHANGED <<files, catalog, leases, locks, pending, client, spoilt, bounds>>

\* Mutant: leased artifacts are candidates too.
EvictableLeased == {k \in Keys : catalog[k] = "available"}

\* reserve_lru_candidate; which unleased artifact is the oldest is left open. Without
\* one the enforcement ends under pinned pressure.
Evictable == {k \in Keys : catalog[k] = "available" /\ ~Leased(k)}

ReserveCandidate(e) ==
  /\ enforcer[e].at = "reserve"
  /\ \/ \E k \in Evictable :
          /\ catalog' = [catalog EXCEPT ![k] = "reserved"]
          /\ enforcer' = [enforcer EXCEPT ![e].at = "lock", ![e].key = k]
     \/ Evictable = {} /\ EnforcerMoves(e, "idle") /\ UNCHANGED catalog
  /\ UNCHANGED <<files, leases, locks, pending, client, spoilt, bounds>>

\* Mutant: the file lock is only waited for.
LockCandidateBriefly(e) ==
  /\ enforcer[e].at = "lock"
  /\ locks[enforcer[e].key] = Nobody
  /\ EnforcerMoves(e, "evict")
  /\ UNCHANGED <<files, catalog, leases, locks, pending, client, spoilt, bounds>>

\* CacheFileLock::acquire, or its timeout.
LockCandidate(e) ==
  /\ enforcer[e].at = "lock"
  /\ \/ LockFor(e, enforcer[e].key) /\ EnforcerMoves(e, "evict")
     \/ locks[enforcer[e].key] # Nobody /\ EnforcerMoves(e, "failed") /\ UNCHANGED locks
  /\ UNCHANGED <<files, catalog, leases, pending, client, spoilt, bounds>>

\* The transaction of evict_reserved_candidate_inner when it deletes nothing: the
\* reservation is gone, a lease came in between, or there are no bytes to remove.
SkipCandidate(e) ==
  LET k == enforcer[e].key IN
  /\ enforcer[e].at = "evict"
  /\ \/ catalog[k] # "reserved" /\ UNCHANGED catalog
     \/ /\ catalog[k] = "reserved" /\ Leased(k)
        /\ catalog' = [catalog EXCEPT ![k] = "available"]
     \/ /\ catalog[k] = "reserved" /\ ~Leased(k) /\ k \notin files
        /\ catalog' = [catalog EXCEPT ![k] = "invalid"]
  /\ Unlock(k)
  /\ EnforcerMoves(e, "repair")
  /\ UNCHANGED <<files, leases, pending, client, spoilt, bounds>>

\* The same when it evicts.
EvictCandidate(e) ==
  LET k == enforcer[e].key IN
  /\ enforcer[e].at = "evict"
  /\ catalog[k] = "reserved" /\ ~Leased(k) /\ k \in files
  /\ files' = files \ {k}
  /\ catalog' = [catalog EXCEPT ![k] = "none"]
  /\ Unlock(k)
  /\ EnforcerMoves(e, "repair")
  /\ UNCHANGED <<leases, pending, client, spoilt, bounds>>

\* The same when it fails: before the file is removed, or after, when the row's
\* deletion or the commit rolls back.
EvictionFails(e) ==
  LET k == enforcer[e].key IN
  /\ enforcer[e].at = "evict"
  /\ Fault
  /\ \/ UNCHANGED <<files, spoilt>>
     \/ /\ catalog[k] = "reserved" /\ ~Leased(k) /\ k \in files
        /\ files' = files \ {k}
        /\ spoilt' = spoilt \cup {k}
  /\ Unlock(k)
  /\ EnforcerMoves(e, "failed")
  /\ UNCHANGED <<catalog, leases, pending, client, calls>>

\* evict_reserved_candidate after an error: the candidate is put on the list, then
\* the list is reconciled, which may fail too. The enforcement ends either way.
RecordFailedEviction(e) ==
  /\ enforcer[e].at = "failed"
  /\ pending' = pending \cup {enforcer[e].key}
  /\ EnforcerMoves(e, "reconcile")
  /\ UNCHANGED <<files, catalog, leases, locks, client, spoilt, bounds>>

\* Mutant: a failed eviction is only reported.
RepairNothing(e) ==
  /\ enforcer[e].at = "reconcile"
  /\ pending' = {}
  /\ EnforcerMoves(e, "idle")
  /\ UNCHANGED <<files, catalog, leases, locks, client, spoilt, bounds>>

RepairFailedEviction(e) ==
  /\ enforcer[e].at = "reconcile"
  /\ \/ ReconcileFailedEvictions /\ NoFault
     \/ Fault /\ UNCHANGED <<catalog, pending>>
  /\ EnforcerMoves(e, "idle")
  /\ UNCHANGED <<files, leases, locks, client, spoilt, calls>>

-----------------------------------------------------------------------------
(* The world *)

\* A file of the cache is removed from outside.
LoseFile(k) ==
  /\ Fault
  /\ k \in files
  /\ files' = files \ {k}
  /\ spoilt' = spoilt \cup {k}
  /\ UNCHANGED <<catalog, leases, locks, pending, actors, calls>>

\* A crash, at worst inside an eviction's transaction after its unlink, and the start
\* that follows: recovery deletes the old session's leases, rebuild_owned_inventory
\* registers every file it finds, and what it does not find keeps its row.
Restart ==
  /\ Fault
  /\ \E removed \in SUBSET {enforcer[e].key : e \in
          {x \in Enforcers : enforcer[x].at = "evict" /\ catalog[enforcer[x].key] = "reserved"
                               /\ ~Leased(enforcer[x].key)}} :
       /\ Cardinality(removed) <= 1
       /\ files' = files \ removed
       /\ spoilt' = (spoilt \cup removed) \ files'
  /\ catalog' = [k \in Keys |-> IF k \in files' THEN "available" ELSE catalog[k]]
  /\ leases' = {}
  /\ locks' = [k \in Keys |-> Nobody]
  /\ pending' = {}
  /\ client' = [c \in Clients |-> IdleClient]
  /\ enforcer' = [e \in Enforcers |-> IdleEnforcer]
  /\ UNCHANGED calls

-----------------------------------------------------------------------------
\* After rebuild_owned_inventory: the files of earlier sessions are listed.
Init ==
  /\ files \in Found
  /\ catalog = [k \in Keys |-> IF k \in files THEN "available" ELSE "none"]
  /\ leases = {}
  /\ locks = [k \in Keys |-> Nobody]
  /\ pending = {}
  /\ client = [c \in Clients |-> IdleClient]
  /\ enforcer = [e \in Enforcers |-> IdleEnforcer]
  /\ spoilt = {}
  /\ calls = 0 /\ troubles = 0

ClientStep(c) ==
  \/ AcquireArtifact(c) \/ LockTimeout(c) \/ ReuseCached(c) \/ BuildFails(c)
  \/ DurablePublish(c) \/ ValidateFinal(c) \/ RemoveExact(c) \/ RegisterAndLease(c)
  \/ RegisterFails(c) \/ DropGuard(c) \/ ProbeRejects(c) \/ TransferAttemptLeases(c)
  \/ TransferFails(c) \/ ReleaseAttempt(c)

EnforcerStep(e) ==
  \/ StatusRepairs(e) \/ ReadInventory(e) \/ InspectFiles(e) \/ MarkMissing(e)
  \/ StatusReturns(e) \/ ReserveCandidate(e) \/ LockCandidate(e) \/ SkipCandidate(e)
  \/ EvictCandidate(e) \/ EvictionFails(e) \/ RecordFailedEviction(e) \/ RepairFailedEviction(e)

Next ==
  \/ \E c \in Clients : StartCall(c) \/ ClientStep(c)
  \/ \E e \in Enforcers : StartEnforcement(e) \/ EnforcerStep(e)
  \/ \E o \in Owners : ReleaseOwner(o)
  \/ \E k \in Keys : LoseFile(k)
  \/ Restart

\* Blocking tasks run to their end. Nothing is assumed of the calls an enforcement meets:
\* what it waits for has a timeout.
Fairness == \A e \in Enforcers : WF_vars(EnforcerStep(e))

Spec == Init /\ [][Next]_vars
FairSpec == Spec /\ Fairness

-----------------------------------------------------------------------------
TypeOK ==
  /\ files \subseteq Keys
  /\ catalog \in [Keys -> Availability]
  /\ leases \subseteq (Owners \cup Clients) \X Keys
  /\ locks \in [Keys -> Clients \cup Enforcers \cup {Nobody}]
  /\ pending \subseteq Keys
  /\ client \in [Clients -> Call]
  /\ enforcer \in [Enforcers -> Enforcement]
  /\ spoilt \subseteq Keys

\* A lease pins: as long as one is committed the artifact has its file and is listed as
\* available, whatever evictions, reuses, repairs and failures meet. Only a removal from
\* outside, or a publisher that withdraws what it has just published, takes it away.
LeasedArtifactsAreThere ==
  \A k \in Keys : Leased(k) => \/ k \in spoilt
                               \/ k \in files /\ catalog[k] = "available"

\* Between taking an artifact's lock and dropping it a publisher that has seen or
\* published the file keeps it: no eviction works on an artifact under its guard.
GuardedBytesStay ==
  \A c \in Clients : client[c].at \in {"published", "leased"} \/
                     (client[c].at = "ready" /\ client[c].kind = "publish")
    => client[c].key \in files \cup spoilt

\* No artifact is left behind reserved, neither evicted nor offered: whoever reserved it
\* is still at work on it, or it is on the list the next status repairs. A crash after
\* the unlink leaves such a row, but without its file.
ReservationsAreClaimed ==
  \A k \in Keys : catalog[k] = "reserved" =>
    \/ k \in pending \/ k \in spoilt
    \/ \E e \in Enforcers : enforcer[e].key = k /\ enforcer[e].at \in {"lock", "evict", "failed"}

\* A row is written off only while its file is not there: an observation made before
\* never overwrites what a publisher has committed since.
WrittenOffOnlyWhenGone ==
  [][\A k \in Keys : catalog'[k] \in {"missing", "invalid"} /\ catalog'[k] # catalog[k]
       => k \notin files]_vars

\* Every status and every enforcement returns, however its rounds meet leases, repairs and
\* other enforcements: each round but the last evicts, or finds a lease, a repair or a loss
\* that came in between, and only publications bring artifacts back.
EnforcementsEnd == \A e \in Enforcers : enforcer[e].at # "idle" ~> enforcer[e].at = "idle"
=============================================================================

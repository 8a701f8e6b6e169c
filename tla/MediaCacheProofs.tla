-------------------------- MODULE MediaCacheProofs --------------------------
(* The invariants of MediaCache for every number of artifacts, owners,     *)
(* calls and enforcements, and any number of failures and crashes.         *)
EXTENDS MediaCache, TLAPS

USE DEF bounds, actors

-----------------------------------------------------------------------------
(* What moving a call or an enforcement changes *)

LEMMA IdleCallType == IdleClient \in Call
  BY CacheAssumption DEF IdleClient, Call, CallPlaces

LEMMA IdleEnforcementType == IdleEnforcer \in Enforcement
  BY CacheAssumption DEF IdleEnforcer, Enforcement, EnforcementPlaces

LEMMA CallMoves ==
  ASSUME client \in [Clients -> Call], NEW c \in Clients, NEW at \in CallPlaces,
         ClientMoves(c, at)
  PROVE  /\ client' \in [Clients -> Call]
         /\ client'[c].at = at
         /\ at # "idle" => client'[c].key = client[c].key /\ client'[c].kind = client[c].kind
         /\ \A x \in Clients \ {c} : client'[x] = client[x]
  <1>1. CASE at = "idle"
    BY <1>1, IdleCallType DEF ClientMoves, IdleClient
  <1>2. CASE at # "idle"
    BY <1>2 DEF ClientMoves, Call
  <1> QED BY <1>1, <1>2

LEMMA EnforcementMoves ==
  ASSUME enforcer \in [Enforcers -> Enforcement], NEW e \in Enforcers,
         NEW at \in EnforcementPlaces, EnforcerMoves(e, at)
  PROVE  /\ enforcer' \in [Enforcers -> Enforcement]
         /\ enforcer'[e].at = at
         /\ at \notin {"idle", "repair"} => enforcer'[e].key = enforcer[e].key
         /\ \A x \in Enforcers \ {e} : enforcer'[x] = enforcer[x]
  <1>1. CASE at = "idle"
    BY <1>1, IdleEnforcementType DEF EnforcerMoves, IdleEnforcer
  <1>2. CASE at = "repair"
    <2>1. [IdleEnforcer EXCEPT !.at = "repair", !.trim = TRUE] \in Enforcement
      BY IdleEnforcementType DEF Enforcement, EnforcementPlaces
    <2>2. enforcer' = [enforcer EXCEPT ![e] = [IdleEnforcer EXCEPT !.at = "repair", !.trim = TRUE]]
      BY <1>2 DEF EnforcerMoves
    <2>3. [IdleEnforcer EXCEPT !.at = "repair", !.trim = TRUE].at = "repair"
      BY DEF IdleEnforcer
    <2> QED BY <1>2, <2>1, <2>2, <2>3
  <1>3. CASE at \notin {"idle", "repair"}
    <2>1. enforcer' = [enforcer EXCEPT ![e] = [@ EXCEPT !.at = at, !.rows = {}]]
      BY <1>3 DEF EnforcerMoves
    <2> QED BY <1>3, <2>1 DEF Enforcement
  <1> QED BY <1>1, <1>2, <1>3

-----------------------------------------------------------------------------
(* Types *)

LEMMA InitType == Init => TypeOK
  BY IdleCallType, IdleEnforcementType, CacheAssumption DEF Init, TypeOK, Availability

LEMMA CallStepType ==
  ASSUME TypeOK, NEW c \in Clients, ClientStep(c)
  PROVE  TypeOK'
  <1> USE DEF TypeOK
  <1>h. Holder(c) \in Owners \cup Clients
    BY DEF Holder, Call
  <1>k. client[c].key \in Keys /\ client[c].owner \in Owners
    BY DEF Call
  <1>a. Abandon(c) => client' \in [Clients -> Call]
    BY CallMoves DEF Abandon, CallPlaces
  <1>m. \A at \in CallPlaces : ClientMoves(c, at) => client' \in [Clients -> Call]
    BY CallMoves
  <1>1. CASE AcquireArtifact(c)
    <2> PICK k \in client[c].todo :
          /\ LockFor(c, k)
          /\ client' = [client EXCEPT ![c].key = k, ![c].todo = @ \ {k},
                          ![c].at = IF client[c].kind = "reuse" THEN "ready" ELSE "locked"]
      BY <1>1 DEF AcquireArtifact
    <2>1. k \in Keys
      BY DEF Call
    <2>2. client' \in [Clients -> Call]
      BY <2>1 DEF Call, CallPlaces
    <2>3. locks' \in [Keys -> Clients \cup Enforcers \cup {Nobody}]
      BY <2>1 DEF LockFor
    <2> QED BY <1>1, <2>2, <2>3 DEF AcquireArtifact
  <1>2. CASE LockTimeout(c)
    BY <1>2, <1>a DEF LockTimeout
  <1>3. CASE ReuseCached(c)
    BY <1>3, <1>m DEF ReuseCached, CallPlaces
  <1>4. CASE BuildFails(c)
    BY <1>4, <1>a, <1>k DEF BuildFails, Unlock
  <1>5. CASE DurablePublish(c)
    BY <1>5, <1>m, <1>k DEF DurablePublish, CallPlaces
  <1>6. CASE ValidateFinal(c)
    BY <1>6, <1>m DEF ValidateFinal, CallPlaces
  <1>7. CASE RemoveExact(c)
    BY <1>7, <1>a, <1>k DEF RemoveExact, Unlock
  <1>8. CASE RegisterAndLease(c)
    BY <1>8, <1>m, <1>k, <1>h DEF RegisterAndLease, CallPlaces, Availability
  <1>9. CASE RegisterFails(c)
    BY <1>9, <1>a, <1>k DEF RegisterFails, Unlock
  <1>10. CASE DropGuard(c)
    BY <1>10, <1>m, <1>k DEF DropGuard, Unlock, CallPlaces
  <1>11. CASE ProbeRejects(c)
    BY <1>11, <1>m DEF ProbeRejects, CallPlaces
  <1>12. CASE TransferAttemptLeases(c)
    BY <1>12, <1>m, <1>k DEF TransferAttemptLeases, CallPlaces, Availability, LeasesOf
  <1>13. CASE TransferFails(c)
    BY <1>13, <1>m DEF TransferFails, CallPlaces
  <1>14. CASE ReleaseAttempt(c)
    BY <1>14, <1>m DEF ReleaseAttempt, CallPlaces, LeasesOf
  <1> QED
    BY <1>1, <1>2, <1>3, <1>4, <1>5, <1>6, <1>7, <1>8, <1>9, <1>10, <1>11, <1>12, <1>13, <1>14
    DEF ClientStep

LEMMA EnforcementStepType ==
  ASSUME TypeOK, NEW e \in Enforcers, EnforcerStep(e)
  PROVE  TypeOK'
  <1> USE DEF TypeOK
  <1>e. enforcer[e] \in Enforcement
    OBVIOUS
  <1>k. enforcer[e].key \in Keys
    BY <1>e DEF Enforcement
  <1>m. \A at \in EnforcementPlaces : EnforcerMoves(e, at) => enforcer' \in [Enforcers -> Enforcement]
    BY EnforcementMoves
  <1>r. ReconcileFailedEvictions => catalog' \in [Keys -> Availability] /\ pending' \subseteq Keys
    BY DEF ReconcileFailedEvictions, Availability
  <1>1. CASE StatusRepairs(e)
    BY <1>1, <1>m, <1>r DEF StatusRepairs, EnforcementPlaces
  <1>2. CASE ReadInventory(e)
    <2>1. enforcer' \in [Enforcers -> Enforcement]
      <3> DEFINE rows == {k \in Keys : catalog[k] = "available"}
      <3>1. [enforcer[e] EXCEPT !.at = "inspect", !.rows = rows] \in Enforcement
        BY <1>e DEF Enforcement, EnforcementPlaces
      <3>2. enforcer' = [enforcer EXCEPT ![e] = [enforcer[e] EXCEPT !.at = "inspect", !.rows = rows]]
        BY <1>2 DEF ReadInventory
      <3> HIDE DEF rows
      <3> QED BY <3>1, <3>2
    <2> QED BY <1>2, <2>1 DEF ReadInventory
  <1>3. CASE InspectFiles(e)
    <2>1. enforcer' \in [Enforcers -> Enforcement]
      <3> DEFINE rows == enforcer[e].rows \cap files
                 gone == enforcer[e].rows \ files
      <3>1. [enforcer[e] EXCEPT !.at = "mark", !.rows = rows, !.gone = gone] \in Enforcement
        BY <1>e DEF Enforcement, EnforcementPlaces
      <3>2. enforcer' = [enforcer EXCEPT ![e] =
                           [enforcer[e] EXCEPT !.at = "mark", !.rows = rows, !.gone = gone]]
        BY <1>3 DEF InspectFiles
      <3> HIDE DEF rows, gone
      <3> QED BY <3>1, <3>2
    <2> QED BY <1>3, <2>1 DEF InspectFiles
  <1>4. CASE MarkMissing(e)
    BY <1>4 DEF MarkMissing, Enforcement, Availability
  <1>5. CASE StatusReturns(e)
    BY <1>5, <1>m DEF StatusReturns, EnforcementPlaces
  <1>6. CASE ReserveCandidate(e)
    <2>0. UNCHANGED <<files, leases, locks, pending, client, spoilt, bounds>>
      BY <1>6 DEF ReserveCandidate
    <2>1. CASE \E k \in Evictable :
                 /\ catalog' = [catalog EXCEPT ![k] = "reserved"]
                 /\ enforcer' = [enforcer EXCEPT ![e].at = "lock", ![e].key = k]
      <3> PICK k \in Evictable :
            /\ catalog' = [catalog EXCEPT ![k] = "reserved"]
            /\ enforcer' = [enforcer EXCEPT ![e].at = "lock", ![e].key = k]
        BY <2>1
      <3>1. k \in Keys
        BY DEF Evictable
      <3>2. [enforcer[e] EXCEPT !.at = "lock", !.key = k] \in Enforcement
        BY <1>e, <3>1 DEF Enforcement, EnforcementPlaces
      <3>3. enforcer' = [enforcer EXCEPT ![e] = [enforcer[e] EXCEPT !.at = "lock", !.key = k]]
        OBVIOUS
      <3>4. catalog' \in [Keys -> Availability]
        BY <3>1 DEF Availability
      <3>5. enforcer' \in [Enforcers -> Enforcement]
        BY <3>2, <3>3
      <3> QED BY <2>0, <3>4, <3>5
    <2>2. CASE EnforcerMoves(e, "idle") /\ UNCHANGED catalog
      BY <1>6, <2>2, <1>m DEF ReserveCandidate, EnforcementPlaces
    <2> QED BY <1>6, <2>1, <2>2 DEF ReserveCandidate
  <1>7. CASE LockCandidate(e)
    BY <1>7, <1>m, <1>k DEF LockCandidate, LockFor, EnforcementPlaces
  <1>8. CASE SkipCandidate(e)
    BY <1>8, <1>m, <1>k DEF SkipCandidate, Unlock, EnforcementPlaces, Availability
  <1>9. CASE EvictCandidate(e)
    BY <1>9, <1>m, <1>k DEF EvictCandidate, Unlock, EnforcementPlaces, Availability
  <1>10. CASE EvictionFails(e)
    BY <1>10, <1>m, <1>k DEF EvictionFails, Unlock, EnforcementPlaces
  <1>11. CASE RecordFailedEviction(e)
    BY <1>11, <1>m, <1>k DEF RecordFailedEviction, EnforcementPlaces
  <1>12. CASE RepairFailedEviction(e)
    BY <1>12, <1>m, <1>r DEF RepairFailedEviction, EnforcementPlaces
  <1> QED
    BY <1>1, <1>2, <1>3, <1>4, <1>5, <1>6, <1>7, <1>8, <1>9, <1>10, <1>11, <1>12
    DEF EnforcerStep

LEMMA NextType == TypeOK /\ [Next]_vars => TypeOK'
  <1> SUFFICES ASSUME TypeOK, [Next]_vars PROVE TypeOK'
    OBVIOUS
  <1> USE DEF TypeOK
  <1>1. ASSUME NEW c \in Clients, StartCall(c) PROVE TypeOK'
    <2> PICK o \in Owners, kind \in {"publish", "reuse"}, ks \in SUBSET Keys :
          client' = [client EXCEPT ![c] =
            [IdleClient EXCEPT !.at = "next", !.kind = kind, !.owner = o, !.todo = ks]]
      BY <1>1 DEF StartCall
    <2>1. [IdleClient EXCEPT !.at = "next", !.kind = kind, !.owner = o, !.todo = ks] \in Call
      BY IdleCallType DEF Call, CallPlaces
    <2> QED BY <1>1, <2>1 DEF StartCall
  <1>2. ASSUME NEW e \in Enforcers, StartEnforcement(e) PROVE TypeOK'
    <2> PICK trim \in BOOLEAN :
          enforcer' = [enforcer EXCEPT ![e] = [IdleEnforcer EXCEPT !.at = "repair", !.trim = trim]]
      BY <1>2 DEF StartEnforcement
    <2>1. [IdleEnforcer EXCEPT !.at = "repair", !.trim = trim] \in Enforcement
      BY IdleEnforcementType DEF Enforcement, EnforcementPlaces
    <2> QED BY <1>2, <2>1 DEF StartEnforcement
  <1>3. ASSUME NEW o \in Owners, ReleaseOwner(o) PROVE TypeOK'
    BY <1>3 DEF ReleaseOwner, LeasesOf
  <1>4. ASSUME NEW k \in Keys, LoseFile(k) PROVE TypeOK'
    BY <1>4 DEF LoseFile
  <1>5. CASE Restart
    <2>1. /\ files' \subseteq Keys /\ spoilt' \subseteq Keys
      BY <1>5 DEF Restart, Enforcement
    <2> QED BY <1>5, <2>1, IdleCallType, IdleEnforcementType DEF Restart, Availability
  <1>6. CASE UNCHANGED vars
    BY <1>6 DEF vars
  <1> QED BY <1>1, <1>2, <1>3, <1>4, <1>5, <1>6, CallStepType, EnforcementStepType DEF Next

\* Every variable keeps its type.
THEOREM TypeCorrect == Spec => []TypeOK
  BY InitType, NextType, PTL DEF Spec

-----------------------------------------------------------------------------
(* The inductive invariant *)

\* What is listed was published, and is there or was taken away.
ListedWerePublished ==
  \A k \in Keys : catalog[k] \in {"available", "reserved"} => k \in files \cup spoilt

\* Who works on an artifact has its lock.
WorkersHoldTheirLocks ==
  /\ \A c \in Clients : client[c].at \in {"locked", "published", "ready", "leased"}
                           => locks[client[c].key] = c
  /\ \A e \in Enforcers : enforcer[e].at = "evict" => locks[enforcer[e].key] = e

CacheInv ==
  /\ TypeOK
  /\ LeasedArtifactsAreThere
  /\ ListedWerePublished
  /\ WorkersHoldTheirLocks
  /\ GuardedBytesStay
  /\ ReservationsAreClaimed

\* The steps that change the files or the books.
BookStep ==
  \/ \E c \in Clients :
       \/ DurablePublish(c) \/ RemoveExact(c) \/ RegisterAndLease(c)
       \/ TransferAttemptLeases(c) \/ ReleaseAttempt(c)
  \/ \E e \in Enforcers :
       \/ StatusRepairs(e) \/ MarkMissing(e) \/ ReserveCandidate(e) \/ SkipCandidate(e)
       \/ EvictCandidate(e) \/ EvictionFails(e) \/ RepairFailedEviction(e)
  \/ \E o \in Owners : ReleaseOwner(o)
  \/ \E k \in Keys : LoseFile(k)
  \/ Restart

LEMMA OtherStepsKeepTheBooks ==
  ASSUME [Next]_vars, ~BookStep
  PROVE  UNCHANGED <<files, catalog, leases, spoilt>>
  <1>1. ASSUME NEW c \in Clients, StartCall(c) \/ ClientStep(c)
        PROVE  UNCHANGED <<files, catalog, leases, spoilt>>
    BY <1>1 DEF BookStep, ClientStep, StartCall, AcquireArtifact, LockTimeout, ReuseCached,
      BuildFails, ValidateFinal, RegisterFails, DropGuard, ProbeRejects, TransferFails
  <1>2. ASSUME NEW e \in Enforcers, StartEnforcement(e) \/ EnforcerStep(e)
        PROVE  UNCHANGED <<files, catalog, leases, spoilt>>
    BY <1>2 DEF BookStep, EnforcerStep, StartEnforcement, ReadInventory, InspectFiles,
      StatusReturns, LockCandidate, RecordFailedEviction
  <1> QED BY <1>1, <1>2 DEF Next, vars, BookStep

LEMMA LeasedKept ==
  ASSUME TypeOK, LeasedArtifactsAreThere, [Next]_vars
  PROVE  LeasedArtifactsAreThere'
  <1> USE DEF TypeOK, LeasedArtifactsAreThere, Leased, LeasesOf
  <1>r. ASSUME ReconcileFailedEvictions, UNCHANGED <<files, leases, spoilt>>
        PROVE  LeasedArtifactsAreThere'
    BY <1>r DEF ReconcileFailedEvictions
  <1>1. ASSUME NEW c \in Clients, DurablePublish(c) PROVE LeasedArtifactsAreThere'
    BY <1>1 DEF DurablePublish
  <1>2. ASSUME NEW c \in Clients, RemoveExact(c) PROVE LeasedArtifactsAreThere'
    BY <1>2 DEF RemoveExact
  <1>3. ASSUME NEW c \in Clients, RegisterAndLease(c) PROVE LeasedArtifactsAreThere'
    BY <1>3 DEF RegisterAndLease, Call
  <1>4. ASSUME NEW c \in Clients, TransferAttemptLeases(c) PROVE LeasedArtifactsAreThere'
    <2>1. \A k \in Keys : (\E l \in leases' : l[2] = k) => (\E l \in leases : l[2] = k)
      BY <1>4 DEF TransferAttemptLeases
    <2>2. \A k \in Keys : <<c, k>> \in leases => k \in files
      BY <1>4 DEF TransferAttemptLeases, Transferable
    <2> QED BY <1>4, <2>1, <2>2 DEF TransferAttemptLeases
  <1>5. ASSUME NEW c \in Clients, ReleaseAttempt(c) PROVE LeasedArtifactsAreThere'
    BY <1>5 DEF ReleaseAttempt
  <1>6. ASSUME NEW e \in Enforcers, StatusRepairs(e) PROVE LeasedArtifactsAreThere'
    BY <1>6, <1>r DEF StatusRepairs
  <1>7. ASSUME NEW e \in Enforcers, MarkMissing(e) PROVE LeasedArtifactsAreThere'
    BY <1>7 DEF MarkMissing, Enforcement
  <1>8. ASSUME NEW e \in Enforcers, ReserveCandidate(e) PROVE LeasedArtifactsAreThere'
    BY <1>8 DEF ReserveCandidate, Evictable
  <1>9. ASSUME NEW e \in Enforcers, SkipCandidate(e) PROVE LeasedArtifactsAreThere'
    BY <1>9 DEF SkipCandidate, Enforcement
  <1>10. ASSUME NEW e \in Enforcers, EvictCandidate(e) PROVE LeasedArtifactsAreThere'
    BY <1>10 DEF EvictCandidate, Enforcement
  <1>11. ASSUME NEW e \in Enforcers, EvictionFails(e) PROVE LeasedArtifactsAreThere'
    BY <1>11 DEF EvictionFails, Enforcement
  <1>12. ASSUME NEW e \in Enforcers, RepairFailedEviction(e) PROVE LeasedArtifactsAreThere'
    BY <1>12, <1>r DEF RepairFailedEviction
  <1>13. ASSUME NEW o \in Owners, ReleaseOwner(o) PROVE LeasedArtifactsAreThere'
    BY <1>13 DEF ReleaseOwner
  <1>14. ASSUME NEW k \in Keys, LoseFile(k) PROVE LeasedArtifactsAreThere'
    BY <1>14 DEF LoseFile
  <1>15. CASE Restart
    BY <1>15 DEF Restart
  <1>16. CASE ~BookStep
    BY <1>16, OtherStepsKeepTheBooks
  <1> QED
    BY <1>1, <1>2, <1>3, <1>4, <1>5, <1>6, <1>7, <1>8, <1>9, <1>10, <1>11, <1>12, <1>13, <1>14,
       <1>15, <1>16 DEF BookStep

LEMMA ListedKept ==
  ASSUME TypeOK, ListedWerePublished, [Next]_vars
  PROVE  ListedWerePublished'
  <1> USE DEF TypeOK, ListedWerePublished
  <1>r. ASSUME ReconcileFailedEvictions, UNCHANGED <<files, spoilt>>
        PROVE  ListedWerePublished'
    BY <1>r DEF ReconcileFailedEvictions
  <1>1. ASSUME NEW c \in Clients, DurablePublish(c) PROVE ListedWerePublished'
    BY <1>1 DEF DurablePublish
  <1>2. ASSUME NEW c \in Clients, RemoveExact(c) PROVE ListedWerePublished'
    BY <1>2 DEF RemoveExact
  <1>3. ASSUME NEW c \in Clients, RegisterAndLease(c) PROVE ListedWerePublished'
    BY <1>3 DEF RegisterAndLease, Call
  <1>4. ASSUME NEW c \in Clients, TransferAttemptLeases(c) PROVE ListedWerePublished'
    <2>1. \A k \in Keys : <<c, k>> \in leases => k \in files
      BY <1>4 DEF TransferAttemptLeases, Transferable, LeasesOf
    <2> QED BY <1>4, <2>1 DEF TransferAttemptLeases
  <1>5. ASSUME NEW c \in Clients, ReleaseAttempt(c) PROVE ListedWerePublished'
    BY <1>5 DEF ReleaseAttempt
  <1>6. ASSUME NEW e \in Enforcers, StatusRepairs(e) PROVE ListedWerePublished'
    BY <1>6, <1>r DEF StatusRepairs
  <1>7. ASSUME NEW e \in Enforcers, MarkMissing(e) PROVE ListedWerePublished'
    BY <1>7 DEF MarkMissing, Enforcement
  <1>8. ASSUME NEW e \in Enforcers, ReserveCandidate(e) PROVE ListedWerePublished'
    BY <1>8 DEF ReserveCandidate, Evictable
  <1>9. ASSUME NEW e \in Enforcers, SkipCandidate(e) PROVE ListedWerePublished'
    BY <1>9 DEF SkipCandidate, Enforcement
  <1>10. ASSUME NEW e \in Enforcers, EvictCandidate(e) PROVE ListedWerePublished'
    BY <1>10 DEF EvictCandidate, Enforcement
  <1>11. ASSUME NEW e \in Enforcers, EvictionFails(e) PROVE ListedWerePublished'
    BY <1>11 DEF EvictionFails, Enforcement
  <1>12. ASSUME NEW e \in Enforcers, RepairFailedEviction(e) PROVE ListedWerePublished'
    BY <1>12, <1>r DEF RepairFailedEviction
  <1>13. ASSUME NEW o \in Owners, ReleaseOwner(o) PROVE ListedWerePublished'
    BY <1>13 DEF ReleaseOwner
  <1>14. ASSUME NEW k \in Keys, LoseFile(k) PROVE ListedWerePublished'
    BY <1>14 DEF LoseFile
  <1>15. CASE Restart
    BY <1>15 DEF Restart
  <1>16. CASE ~BookStep
    BY <1>16, OtherStepsKeepTheBooks
  <1> QED
    BY <1>1, <1>2, <1>3, <1>4, <1>5, <1>6, <1>7, <1>8, <1>9, <1>10, <1>11, <1>12, <1>13, <1>14,
       <1>15, <1>16 DEF BookStep
-----------------------------------------------------------------------------
(* Locks *)

LEMMA LocksOfOthers ==
  ASSUME TypeOK, NEW a \in Clients \cup Enforcers, NEW k \in Keys,
         LockFor(a, k) \/ (Unlock(k) /\ locks[k] = a) \/ UNCHANGED locks,
         NEW x \in (Clients \cup Enforcers) \ {a}, NEW q \in Keys, locks[q] = x
  PROVE  locks'[q] = x
  BY CacheAssumption DEF TypeOK, LockFor, Unlock

LEMMA CallStepKeepsLocks ==
  ASSUME TypeOK, WorkersHoldTheirLocks, NEW c \in Clients, ClientStep(c)
  PROVE  WorkersHoldTheirLocks'
  <1> DEFINE busy == {"locked", "published", "ready", "leased"}
  <1>t. client \in [Clients -> Call] /\ enforcer \in [Enforcers -> Enforcement]
        /\ locks \in [Keys -> Clients \cup Enforcers \cup {Nobody}]
    BY DEF TypeOK
  <1>k. \A x \in Clients : client[x].key \in Keys
    BY <1>t DEF Call
  <1>ke. \A x \in Enforcers : enforcer[x].key \in Keys
    BY <1>t DEF Enforcement
  <1>w. client[c].at \in busy => locks[client[c].key] = c
    BY DEF WorkersHoldTheirLocks
  <1>m. ASSUME NEW at \in CallPlaces, ClientMoves(c, at)
        PROVE  /\ \A x \in Clients \ {c} : client'[x] = client[x]
               /\ client'[c].at = at
               /\ at # "idle" => client'[c].key = client[c].key
    BY <1>m, <1>t, CallMoves
  <1>a. ASSUME Abandon(c)
        PROVE  /\ \A x \in Clients \ {c} : client'[x] = client[x]
               /\ client'[c].at \notin busy
    BY <1>a, <1>m DEF Abandon, CallPlaces
  \* Every step of a call keeps the others' locks and, while it works, its own.
  <1> DEFINE Good ==
        /\ \A x \in Clients \ {c} : client'[x] = client[x]
        /\ UNCHANGED enforcer
        /\ \E k \in Keys : LockFor(c, k) \/ (Unlock(k) /\ locks[k] = c) \/ UNCHANGED locks
        /\ client'[c].at \in busy => locks'[client'[c].key] = c
  <1>1. ASSUME AcquireArtifact(c) PROVE Good
    <2> PICK k \in client[c].todo :
          /\ LockFor(c, k)
          /\ client' = [client EXCEPT ![c].key = k, ![c].todo = @ \ {k},
                          ![c].at = IF client[c].kind = "reuse" THEN "ready" ELSE "locked"]
      BY <1>1 DEF AcquireArtifact
    <2>1. k \in Keys
      BY <1>t DEF Call
    <2>2. client'[c].key = k /\ \A x \in Clients \ {c} : client'[x] = client[x]
      BY <1>t DEF Call
    <2>3. locks'[k] = c
      BY <2>1, <1>t DEF LockFor
    <2> QED BY <1>1, <2>1, <2>2, <2>3 DEF AcquireArtifact
  <1>2. ASSUME LockTimeout(c) PROVE Good
    BY <1>2, <1>a, <1>k DEF LockTimeout
  <1>3. ASSUME ReuseCached(c) PROVE Good
    BY <1>3, <1>m, <1>w, <1>k DEF ReuseCached, CallPlaces
  <1>4. ASSUME BuildFails(c) PROVE Good
    BY <1>4, <1>a, <1>w, <1>k DEF BuildFails
  <1>5. ASSUME DurablePublish(c) PROVE Good
    BY <1>5, <1>m, <1>w, <1>k DEF DurablePublish, CallPlaces
  <1>6. ASSUME ValidateFinal(c) PROVE Good
    BY <1>6, <1>m, <1>w, <1>k DEF ValidateFinal, CallPlaces
  <1>7. ASSUME RemoveExact(c) PROVE Good
    BY <1>7, <1>a, <1>w, <1>k DEF RemoveExact
  <1>8. ASSUME RegisterAndLease(c) PROVE Good
    BY <1>8, <1>m, <1>w, <1>k DEF RegisterAndLease, CallPlaces
  <1>9. ASSUME RegisterFails(c) PROVE Good
    BY <1>9, <1>a, <1>w, <1>k DEF RegisterFails
  <1>10. ASSUME DropGuard(c) PROVE Good
    <2>1. client'[c].at \notin busy /\ \A x \in Clients \ {c} : client'[x] = client[x]
      BY <1>10, <1>m DEF DropGuard, CallPlaces
    <2> QED BY <1>10, <2>1, <1>w, <1>k DEF DropGuard
  <1>11. ASSUME ProbeRejects(c) PROVE Good
    BY <1>11, <1>m, <1>k DEF ProbeRejects, CallPlaces
  <1>12. ASSUME TransferAttemptLeases(c) PROVE Good
    BY <1>12, <1>m, <1>k DEF TransferAttemptLeases, CallPlaces
  <1>13. ASSUME TransferFails(c) PROVE Good
    BY <1>13, <1>m, <1>k DEF TransferFails, CallPlaces
  <1>14. ASSUME ReleaseAttempt(c) PROVE Good
    BY <1>14, <1>m, <1>k DEF ReleaseAttempt, CallPlaces
  <1>15. Good
    BY <1>1, <1>2, <1>3, <1>4, <1>5, <1>6, <1>7, <1>8, <1>9, <1>10, <1>11, <1>12, <1>13, <1>14
    DEF ClientStep
  <1>16. \A x \in (Clients \cup Enforcers) \ {c}, q \in Keys : locks[q] = x => locks'[q] = x
    BY <1>15, LocksOfOthers
  <1>17. c \notin Enforcers
    BY CacheAssumption
  <1>18. ASSUME NEW x \in Clients, client'[x].at \in busy PROVE locks'[client'[x].key] = x
    BY <1>15, <1>16, <1>18, <1>k DEF WorkersHoldTheirLocks
  <1>19. ASSUME NEW x \in Enforcers, enforcer'[x].at = "evict" PROVE locks'[enforcer'[x].key] = x
    BY <1>15, <1>16, <1>17, <1>19, <1>ke DEF WorkersHoldTheirLocks
  <1> QED BY <1>18, <1>19 DEF WorkersHoldTheirLocks

LEMMA EnforcementStepKeepsLocks ==
  ASSUME TypeOK, WorkersHoldTheirLocks, NEW e \in Enforcers, EnforcerStep(e)
  PROVE  WorkersHoldTheirLocks'
  <1>t. client \in [Clients -> Call] /\ enforcer \in [Enforcers -> Enforcement]
        /\ locks \in [Keys -> Clients \cup Enforcers \cup {Nobody}]
    BY DEF TypeOK
  <1>k. \A x \in Clients : client[x].key \in Keys
    BY <1>t DEF Call
  <1>ke. \A x \in Enforcers : enforcer[x].key \in Keys
    BY <1>t DEF Enforcement
  <1>w. enforcer[e].at = "evict" => locks[enforcer[e].key] = e
    BY DEF WorkersHoldTheirLocks
  <1>m. ASSUME NEW at \in EnforcementPlaces, EnforcerMoves(e, at)
        PROVE  /\ \A x \in Enforcers \ {e} : enforcer'[x] = enforcer[x]
               /\ enforcer'[e].at = at
               /\ at \notin {"idle", "repair"} => enforcer'[e].key = enforcer[e].key
    BY <1>m, <1>t, EnforcementMoves
  <1> DEFINE Good ==
        /\ \A x \in Enforcers \ {e} : enforcer'[x] = enforcer[x]
        /\ UNCHANGED client
        /\ \E k \in Keys : LockFor(e, k) \/ (Unlock(k) /\ locks[k] = e) \/ UNCHANGED locks
        /\ enforcer'[e].at = "evict" => locks'[enforcer'[e].key] = e
  <1>1. ASSUME StatusRepairs(e) PROVE Good
    BY <1>1, <1>m, <1>ke DEF StatusRepairs, EnforcementPlaces
  <1>2. ASSUME ReadInventory(e) PROVE Good
    BY <1>2, <1>t, <1>ke DEF ReadInventory, Enforcement
  <1>3. ASSUME InspectFiles(e) PROVE Good
    BY <1>3, <1>t, <1>ke DEF InspectFiles, Enforcement
  <1>4. ASSUME MarkMissing(e) PROVE Good
    BY <1>4, <1>t, <1>ke DEF MarkMissing, Enforcement
  <1>5. ASSUME StatusReturns(e) PROVE Good
    BY <1>5, <1>m, <1>ke DEF StatusReturns, EnforcementPlaces
  <1>6. ASSUME ReserveCandidate(e) PROVE Good
    <2>1. UNCHANGED <<client, locks>>
      BY <1>6 DEF ReserveCandidate
    <2>2. /\ \A x \in Enforcers \ {e} : enforcer'[x] = enforcer[x]
          /\ enforcer'[e].at # "evict"
      <3>1. CASE EnforcerMoves(e, "idle")
        BY <3>1, <1>m DEF EnforcementPlaces
      <3>2. CASE \E k \in Evictable : enforcer' = [enforcer EXCEPT ![e].at = "lock", ![e].key = k]
        BY <3>2, <1>t DEF Enforcement
      <3> QED BY <1>6, <3>1, <3>2 DEF ReserveCandidate
    <2> QED BY <2>1, <2>2, <1>ke
  <1>7. ASSUME LockCandidate(e) PROVE Good
    <2>0. UNCHANGED client
      BY <1>7 DEF LockCandidate
    <2>1. CASE LockFor(e, enforcer[e].key) /\ EnforcerMoves(e, "evict")
      <3>1. /\ \A x \in Enforcers \ {e} : enforcer'[x] = enforcer[x]
            /\ enforcer'[e].key = enforcer[e].key
        BY <2>1, <1>m DEF EnforcementPlaces
      <3>2. locks'[enforcer[e].key] = e
        BY <2>1, <1>t, <1>ke DEF LockFor
      <3> QED BY <2>0, <2>1, <3>1, <3>2, <1>ke
    <2>2. CASE EnforcerMoves(e, "failed") /\ UNCHANGED locks
      BY <2>0, <2>2, <1>m, <1>ke DEF EnforcementPlaces
    <2> QED BY <1>7, <2>1, <2>2 DEF LockCandidate
  <1>8. ASSUME SkipCandidate(e) PROVE Good
    BY <1>8, <1>m, <1>w, <1>ke DEF SkipCandidate, EnforcementPlaces
  <1>9. ASSUME EvictCandidate(e) PROVE Good
    BY <1>9, <1>m, <1>w, <1>ke DEF EvictCandidate, EnforcementPlaces
  <1>10. ASSUME EvictionFails(e) PROVE Good
    BY <1>10, <1>m, <1>w, <1>ke DEF EvictionFails, EnforcementPlaces
  <1>11. ASSUME RecordFailedEviction(e) PROVE Good
    BY <1>11, <1>m, <1>ke DEF RecordFailedEviction, EnforcementPlaces
  <1>12. ASSUME RepairFailedEviction(e) PROVE Good
    BY <1>12, <1>m, <1>ke DEF RepairFailedEviction, EnforcementPlaces
  <1>15. Good
    BY <1>1, <1>2, <1>3, <1>4, <1>5, <1>6, <1>7, <1>8, <1>9, <1>10, <1>11, <1>12
    DEF EnforcerStep
  <1>16. \A x \in (Clients \cup Enforcers) \ {e}, q \in Keys : locks[q] = x => locks'[q] = x
    BY <1>15, LocksOfOthers
  <1>17. e \notin Clients
    BY CacheAssumption
  <1>18. ASSUME NEW x \in Clients, client'[x].at \in {"locked", "published", "ready", "leased"}
         PROVE  locks'[client'[x].key] = x
    BY <1>15, <1>16, <1>17, <1>18, <1>k DEF WorkersHoldTheirLocks
  <1>19. ASSUME NEW x \in Enforcers, enforcer'[x].at = "evict" PROVE locks'[enforcer'[x].key] = x
    BY <1>15, <1>16, <1>19, <1>ke DEF WorkersHoldTheirLocks
  <1> QED BY <1>18, <1>19 DEF WorkersHoldTheirLocks

LEMMA LocksKept ==
  ASSUME TypeOK, WorkersHoldTheirLocks, [Next]_vars
  PROVE  WorkersHoldTheirLocks'
  <1> USE DEF TypeOK, WorkersHoldTheirLocks
  <1>1. ASSUME NEW c \in Clients, StartCall(c) PROVE WorkersHoldTheirLocks'
    <2>1. /\ client'[c].at = "next" /\ \A x \in Clients \ {c} : client'[x] = client[x]
          /\ UNCHANGED <<locks, enforcer>>
      BY <1>1 DEF StartCall, IdleClient
    <2> QED BY <2>1
  <1>2. ASSUME NEW e \in Enforcers, StartEnforcement(e) PROVE WorkersHoldTheirLocks'
    <2>1. /\ enforcer'[e].at = "repair" /\ \A x \in Enforcers \ {e} : enforcer'[x] = enforcer[x]
          /\ UNCHANGED <<locks, client>>
      BY <1>2 DEF StartEnforcement, IdleEnforcer
    <2> QED BY <2>1
  <1>3. ASSUME NEW o \in Owners, ReleaseOwner(o) PROVE WorkersHoldTheirLocks'
    BY <1>3 DEF ReleaseOwner
  <1>4. ASSUME NEW k \in Keys, LoseFile(k) PROVE WorkersHoldTheirLocks'
    BY <1>4 DEF LoseFile
  <1>5. CASE Restart
    BY <1>5 DEF Restart, IdleClient, IdleEnforcer
  <1>6. CASE UNCHANGED vars
    BY <1>6 DEF vars
  <1> QED
    BY <1>1, <1>2, <1>3, <1>4, <1>5, <1>6, CallStepKeepsLocks, EnforcementStepKeepsLocks DEF Next

-----------------------------------------------------------------------------
(* Guards and reservations *)

Guards(c) == client[c].at \in {"published", "leased"} \/
             (client[c].at = "ready" /\ client[c].kind = "publish")

\* Nobody but an eviction under the artifact's lock takes bytes away unrecorded.
LEMMA GuardedBytesKept ==
  ASSUME TypeOK, WorkersHoldTheirLocks, GuardedBytesStay, [Next]_vars, ~Restart,
         NEW c \in Clients, Guards(c)
  PROVE  client[c].key \in files' \cup spoilt'
  <1> USE DEF TypeOK
  <1>k. client[c].key \in Keys
    BY DEF Call
  <1>g. client[c].key \in files \cup spoilt
    BY DEF GuardedBytesStay, Guards
  <1>l. locks[client[c].key] = c
    BY DEF WorkersHoldTheirLocks, Guards
  <1>1. ASSUME NEW x \in Clients, ClientStep(x) PROVE client[c].key \in files' \cup spoilt'
    BY <1>1, <1>g DEF ClientStep, AcquireArtifact, LockTimeout, ReuseCached, BuildFails,
      DurablePublish, ValidateFinal, RemoveExact, RegisterAndLease, RegisterFails, DropGuard,
      ProbeRejects, TransferAttemptLeases, TransferFails, ReleaseAttempt
  <1>2. ASSUME NEW e \in Enforcers, EvictCandidate(e) PROVE client[c].key \in files' \cup spoilt'
    <2>1. locks[enforcer[e].key] = e
      BY <1>2 DEF EvictCandidate, WorkersHoldTheirLocks
    <2>2. client[c].key # enforcer[e].key
      BY <2>1, <1>l, CacheAssumption
    <2> QED BY <1>2, <2>2, <1>g DEF EvictCandidate
  <1>3. ASSUME NEW e \in Enforcers, EvictionFails(e) PROVE client[c].key \in files' \cup spoilt'
    BY <1>3, <1>g DEF EvictionFails
  <1>4. ASSUME NEW e \in Enforcers, EnforcerStep(e), ~EvictCandidate(e), ~EvictionFails(e)
        PROVE client[c].key \in files' \cup spoilt'
    BY <1>4, <1>g DEF EnforcerStep, StatusRepairs, ReadInventory, InspectFiles, MarkMissing,
      StatusReturns, ReserveCandidate, LockCandidate, SkipCandidate, RecordFailedEviction,
      RepairFailedEviction
  <1>5. ASSUME NEW x \in Clients, StartCall(x) PROVE client[c].key \in files' \cup spoilt'
    BY <1>5, <1>g DEF StartCall
  <1>6. ASSUME NEW e \in Enforcers, StartEnforcement(e) PROVE client[c].key \in files' \cup spoilt'
    BY <1>6, <1>g DEF StartEnforcement
  <1>7. ASSUME NEW o \in Owners, ReleaseOwner(o) PROVE client[c].key \in files' \cup spoilt'
    BY <1>7, <1>g DEF ReleaseOwner
  <1>8. ASSUME NEW k \in Keys, LoseFile(k) PROVE client[c].key \in files' \cup spoilt'
    BY <1>8, <1>g DEF LoseFile
  <1>9. CASE UNCHANGED vars
    BY <1>9, <1>g DEF vars
  <1> QED BY <1>1, <1>2, <1>3, <1>4, <1>5, <1>6, <1>7, <1>8, <1>9 DEF Next

\* A call that comes to guard an artifact has just seen or published its file.
LEMMA GuardsSeeTheBytes ==
  ASSUME TypeOK, GuardedBytesStay, NEW c \in Clients, ClientStep(c), Guards(c)'
  PROVE  /\ client'[c].key = client[c].key
         /\ Guards(c) \/ client'[c].key \in files'
  <1>t. client \in [Clients -> Call]
    BY DEF TypeOK
  <1>m. ASSUME NEW at \in CallPlaces, ClientMoves(c, at)
        PROVE  /\ client'[c].at = at
               /\ at # "idle" => client'[c].key = client[c].key /\ client'[c].kind = client[c].kind
    BY <1>m, <1>t, CallMoves
  <1>n. ASSUME NEW at \in {"idle", "next", "probe", "release"}, ClientMoves(c, at)
        PROVE  FALSE
    BY <1>n, <1>m DEF Guards, CallPlaces
  <1>1. CASE AcquireArtifact(c)
    BY <1>1, <1>t DEF AcquireArtifact, Call, Guards
  <1>2. CASE LockTimeout(c)
    BY <1>2, <1>n DEF LockTimeout, Abandon
  <1>3. CASE ReuseCached(c)
    BY <1>3, <1>m DEF ReuseCached, CallPlaces
  <1>4. CASE BuildFails(c)
    BY <1>4, <1>n DEF BuildFails, Abandon
  <1>5. CASE DurablePublish(c)
    BY <1>5, <1>m DEF DurablePublish, CallPlaces
  <1>6. CASE ValidateFinal(c)
    BY <1>6, <1>m DEF ValidateFinal, CallPlaces
  <1>7. CASE RemoveExact(c)
    BY <1>7, <1>n DEF RemoveExact, Abandon
  <1>8. CASE RegisterAndLease(c)
    BY <1>8, <1>m DEF RegisterAndLease, CallPlaces
  <1>9. CASE RegisterFails(c)
    BY <1>9, <1>n DEF RegisterFails, Abandon
  <1>10. CASE DropGuard(c)
    BY <1>10, <1>n DEF DropGuard
  <1>11. CASE ProbeRejects(c)
    BY <1>11, <1>n DEF ProbeRejects
  <1>12. CASE TransferAttemptLeases(c)
    BY <1>12, <1>n DEF TransferAttemptLeases
  <1>13. CASE TransferFails(c)
    BY <1>13, <1>n DEF TransferFails
  <1>14. CASE ReleaseAttempt(c)
    BY <1>14, <1>n DEF ReleaseAttempt
  <1> QED
    BY <1>1, <1>2, <1>3, <1>4, <1>5, <1>6, <1>7, <1>8, <1>9, <1>10, <1>11, <1>12, <1>13, <1>14
    DEF ClientStep

LEMMA GuardedKept ==
  ASSUME TypeOK, WorkersHoldTheirLocks, GuardedBytesStay, [Next]_vars
  PROVE  GuardedBytesStay'
  <1> SUFFICES ASSUME NEW c \in Clients, Guards(c)'
               PROVE  client'[c].key \in files' \cup spoilt'
    BY DEF GuardedBytesStay, Guards
  <1>t. client \in [Clients -> Call]
    BY DEF TypeOK
  <1>1. CASE Restart
    BY <1>1 DEF Restart, Guards, IdleClient
  <1>2. CASE ~Restart /\ client'[c] = client[c]
    BY <1>2, GuardedBytesKept DEF Guards
  <1>3. CASE ~Restart /\ client'[c] # client[c] /\ ClientStep(c)
    BY <1>3, GuardedBytesKept, GuardsSeeTheBytes
  <1>4. ASSUME ~Restart, client'[c] # client[c], ~ClientStep(c) PROVE FALSE
    <2>1. ASSUME NEW x \in Clients, StartCall(x) PROVE FALSE
      <3>1. x = c \/ client'[c] = client[c]
        BY <2>1, <1>t DEF StartCall
      <3>2. x = c => client'[c].at = "next"
        BY <2>1, <1>t DEF StartCall, IdleClient
      <3> QED BY <1>4, <3>1, <3>2 DEF Guards
    <2>2. ASSUME NEW x \in Clients \ {c}, ClientStep(x) PROVE FALSE
      <3>1. \A at \in CallPlaces : ClientMoves(x, at) => client'[c] = client[c]
        BY <1>t, CallMoves
      <3>2. AcquireArtifact(x) => client'[c] = client[c]
        BY <1>t DEF AcquireArtifact
      <3>3. Abandon(x) => client'[c] = client[c]
        BY <3>1 DEF Abandon, CallPlaces
      <3> QED BY <1>4, <2>2, <3>1, <3>2, <3>3 DEF ClientStep, LockTimeout, ReuseCached, BuildFails,
        DurablePublish, ValidateFinal, RemoveExact, RegisterAndLease, RegisterFails, DropGuard,
        ProbeRejects, TransferAttemptLeases, TransferFails, ReleaseAttempt, CallPlaces
    <2>3. ASSUME NEW e \in Enforcers, StartEnforcement(e) \/ EnforcerStep(e) PROVE FALSE
      BY <1>4, <2>3 DEF StartEnforcement, EnforcerStep, StatusRepairs, ReadInventory, InspectFiles,
        MarkMissing, StatusReturns, ReserveCandidate, LockCandidate, SkipCandidate, EvictCandidate,
        EvictionFails, RecordFailedEviction, RepairFailedEviction
    <2>4. ASSUME NEW o \in Owners, ReleaseOwner(o) PROVE FALSE
      BY <1>4, <2>4 DEF ReleaseOwner
    <2>5. ASSUME NEW k \in Keys, LoseFile(k) PROVE FALSE
      BY <1>4, <2>5 DEF LoseFile
    <2>6. CASE UNCHANGED vars
      BY <1>4, <2>6 DEF vars
    <2> QED BY <1>4, <2>1, <2>2, <2>3, <2>4, <2>5, <2>6 DEF Next
  <1> QED BY <1>1, <1>2, <1>3, <1>4

Claimed(k) ==
  \/ k \in pending \/ k \in spoilt
  \/ \E e \in Enforcers : enforcer[e].key = k /\ enforcer[e].at \in {"lock", "evict", "failed"}

LEMMA EnforcementKeepsClaims ==
  ASSUME TypeOK, ReservationsAreClaimed, NEW e \in Enforcers, EnforcerStep(e),
         NEW k \in Keys, catalog'[k] = "reserved"
  PROVE  Claimed(k)'
  <1> USE DEF TypeOK
  <1>t. enforcer \in [Enforcers -> Enforcement] /\ enforcer[e].key \in Keys
    BY DEF Enforcement
  <1>m. ASSUME NEW at \in EnforcementPlaces, EnforcerMoves(e, at)
        PROVE  /\ \A x \in Enforcers \ {e} : enforcer'[x] = enforcer[x]
               /\ enforcer'[e].at = at
               /\ at \notin {"idle", "repair"} => enforcer'[e].key = enforcer[e].key
    BY <1>m, <1>t, EnforcementMoves
  <1>c. catalog[k] = "reserved" => Claimed(k)
    BY DEF ReservationsAreClaimed, Claimed
  \* The claims of the others, and those that need nobody, last.
  <1>o. ASSUME \A x \in Enforcers \ {e} : enforcer'[x] = enforcer[x], spoilt \subseteq spoilt',
               k \in pending => k \in pending', catalog[k] = "reserved",
               enforcer[e].at \notin {"lock", "evict", "failed"} \/ enforcer[e].key # k
        PROVE  Claimed(k)'
    BY <1>o, <1>c DEF Claimed
  <1>p. ASSUME \A x \in Enforcers \ {e} : enforcer'[x] = enforcer[x], spoilt \subseteq spoilt',
               pending \subseteq pending', catalog[k] = "reserved",
               enforcer'[e].at \in {"lock", "evict", "failed"}, enforcer'[e].key = enforcer[e].key
        PROVE  Claimed(k)'
    BY <1>p, <1>c DEF Claimed
  <1>r. ReconcileFailedEvictions => catalog[k] = "reserved" /\ k \notin pending
    BY DEF ReconcileFailedEvictions
  <1>1. CASE StatusRepairs(e)
    <2>1. /\ enforcer[e].at = "repair" /\ UNCHANGED spoilt
          /\ \A x \in Enforcers \ {e} : enforcer'[x] = enforcer[x]
      BY <1>1, <1>m DEF StatusRepairs, EnforcementPlaces
    <2>2. catalog[k] = "reserved" /\ (k \in pending => k \in pending')
      BY <1>1, <1>r DEF StatusRepairs
    <2> QED BY <2>1, <2>2, <1>o
  <1>2. CASE ReadInventory(e)
    BY <1>2, <1>o, <1>t DEF ReadInventory
  <1>3. CASE InspectFiles(e)
    BY <1>3, <1>o, <1>t DEF InspectFiles
  <1>4. CASE MarkMissing(e)
    <2>1. catalog[k] = "reserved"
      BY <1>4 DEF MarkMissing, Enforcement
    <2>2. /\ \A x \in Enforcers \ {e} : enforcer'[x] = enforcer[x]
          /\ UNCHANGED <<spoilt, pending>> /\ enforcer[e].at = "mark"
      BY <1>4, <1>t DEF MarkMissing
    <2> QED BY <2>1, <2>2, <1>o
  <1>5. CASE StatusReturns(e)
    BY <1>5, <1>m, <1>o DEF StatusReturns, EnforcementPlaces
  <1>6. CASE ReserveCandidate(e)
    <2>0. UNCHANGED <<spoilt, pending>> /\ enforcer[e].at = "reserve"
      BY <1>6 DEF ReserveCandidate
    <2>1. CASE EnforcerMoves(e, "idle") /\ UNCHANGED catalog
      BY <2>0, <2>1, <1>m, <1>o DEF EnforcementPlaces
    <2>2. CASE \E q \in Evictable :
                 /\ catalog' = [catalog EXCEPT ![q] = "reserved"]
                 /\ enforcer' = [enforcer EXCEPT ![e].at = "lock", ![e].key = q]
      <3> PICK q \in Evictable :
            /\ catalog' = [catalog EXCEPT ![q] = "reserved"]
            /\ enforcer' = [enforcer EXCEPT ![e].at = "lock", ![e].key = q]
        BY <2>2
      <3>1. \A x \in Enforcers \ {e} : enforcer'[x] = enforcer[x]
        BY <1>t
      <3>2. CASE q = k
        <4>1. enforcer'[e].at = "lock" /\ enforcer'[e].key = k
          BY <3>2, <1>t DEF Enforcement
        <4> QED BY <4>1 DEF Claimed
      <3>3. CASE q # k
        <4>1. catalog[k] = "reserved"
          BY <3>3 DEF Evictable
        <4> QED BY <4>1, <2>0, <3>1, <1>o
      <3> QED BY <3>2, <3>3
    <2> QED BY <1>6, <2>1, <2>2 DEF ReserveCandidate
  <1>7. CASE LockCandidate(e)
    BY <1>7, <1>m, <1>p DEF LockCandidate, EnforcementPlaces
  <1>8. CASE SkipCandidate(e)
    <2>1. catalog[k] = "reserved" /\ enforcer[e].key # k
      BY <1>8, <1>t DEF SkipCandidate
    <2> QED BY <2>1, <1>8, <1>m, <1>o DEF SkipCandidate, EnforcementPlaces
  <1>9. CASE EvictCandidate(e)
    <2>1. catalog[k] = "reserved" /\ enforcer[e].key # k
      BY <1>9, <1>t DEF EvictCandidate
    <2> QED BY <2>1, <1>9, <1>m, <1>o DEF EvictCandidate, EnforcementPlaces
  <1>10. CASE EvictionFails(e)
    BY <1>10, <1>m, <1>p DEF EvictionFails, EnforcementPlaces
  <1>11. CASE RecordFailedEviction(e)
    <2>1. /\ \A x \in Enforcers \ {e} : enforcer'[x] = enforcer[x]
          /\ pending' = pending \cup {enforcer[e].key}
          /\ UNCHANGED <<catalog, spoilt>>
      BY <1>11, <1>m DEF RecordFailedEviction, EnforcementPlaces
    <2>2. CASE enforcer[e].key = k
      BY <2>1, <2>2 DEF Claimed
    <2>3. CASE enforcer[e].key # k
      BY <2>1, <2>3, <1>o
    <2> QED BY <2>2, <2>3
  <1>12. CASE RepairFailedEviction(e)
    <2>1. /\ enforcer[e].at = "reconcile" /\ UNCHANGED spoilt
          /\ \A x \in Enforcers \ {e} : enforcer'[x] = enforcer[x]
      BY <1>12, <1>m DEF RepairFailedEviction, EnforcementPlaces
    <2>2. catalog[k] = "reserved" /\ (k \in pending => k \in pending')
      BY <1>12, <1>r DEF RepairFailedEviction
    <2> QED BY <2>1, <2>2, <1>o
  <1> QED
    BY <1>1, <1>2, <1>3, <1>4, <1>5, <1>6, <1>7, <1>8, <1>9, <1>10, <1>11, <1>12
    DEF EnforcerStep

LEMMA ReservationsKept ==
  ASSUME TypeOK, ListedWerePublished, ReservationsAreClaimed, [Next]_vars
  PROVE  ReservationsAreClaimed'
  <1> SUFFICES ASSUME NEW k \in Keys, catalog'[k] = "reserved" PROVE Claimed(k)'
    BY DEF ReservationsAreClaimed, Claimed
  <1> USE DEF TypeOK
  <1>c. catalog[k] = "reserved" => Claimed(k)
    BY DEF ReservationsAreClaimed, Claimed
  <1>1. ASSUME NEW c \in Clients, StartCall(c) \/ ClientStep(c) PROVE Claimed(k)'
    <2>1. UNCHANGED <<pending, enforcer>>
      BY <1>1 DEF StartCall, ClientStep, AcquireArtifact, LockTimeout, ReuseCached, BuildFails,
        DurablePublish, ValidateFinal, RemoveExact, RegisterAndLease, RegisterFails, DropGuard,
        ProbeRejects, TransferAttemptLeases, TransferFails, ReleaseAttempt
    <2>2. catalog[k] = "reserved" /\ (k \in spoilt => k \in spoilt')
      BY <1>1 DEF StartCall, ClientStep, AcquireArtifact, LockTimeout, ReuseCached, BuildFails,
        DurablePublish, ValidateFinal, RemoveExact, RegisterAndLease, RegisterFails, DropGuard,
        ProbeRejects, TransferAttemptLeases, TransferFails, ReleaseAttempt
    <2> QED BY <2>1, <2>2, <1>c DEF Claimed
  <1>2. ASSUME NEW e \in Enforcers, StartEnforcement(e) PROVE Claimed(k)'
    <2>1. /\ UNCHANGED <<catalog, pending, spoilt>> /\ enforcer[e].at = "idle"
          /\ \A x \in Enforcers \ {e} : enforcer'[x] = enforcer[x]
      BY <1>2 DEF StartEnforcement
    <2> QED BY <2>1, <1>c DEF Claimed
  <1>3. ASSUME NEW o \in Owners, ReleaseOwner(o) PROVE Claimed(k)'
    BY <1>3, <1>c DEF ReleaseOwner, Claimed
  <1>4. ASSUME NEW q \in Keys, LoseFile(q) PROVE Claimed(k)'
    BY <1>4, <1>c DEF LoseFile, Claimed
  <1>5. CASE Restart
    <2>1. k \in files \cup spoilt /\ k \notin files'
      BY <1>5 DEF Restart, ListedWerePublished
    <2>2. k \in spoilt'
      BY <1>5, <2>1 DEF Restart
    <2> QED BY <2>2 DEF Claimed
  <1>6. CASE UNCHANGED vars
    BY <1>6, <1>c DEF vars, Claimed
  <1> QED BY <1>1, <1>2, <1>3, <1>4, <1>5, <1>6, EnforcementKeepsClaims DEF Next

-----------------------------------------------------------------------------
(* The results *)

LEMMA InitCacheInv == Init => CacheInv
  <1> SUFFICES ASSUME Init PROVE CacheInv
    OBVIOUS
  <1>1. LeasedArtifactsAreThere
    BY DEF Init, LeasedArtifactsAreThere, Leased
  <1>2. ListedWerePublished /\ ReservationsAreClaimed
    BY DEF Init, ListedWerePublished, ReservationsAreClaimed
  <1>3. WorkersHoldTheirLocks /\ GuardedBytesStay
    BY DEF Init, WorkersHoldTheirLocks, GuardedBytesStay, IdleClient, IdleEnforcer
  <1> QED BY <1>1, <1>2, <1>3, InitType DEF CacheInv

LEMMA NextCacheInv == CacheInv /\ [Next]_vars => CacheInv'
  BY NextType, LeasedKept, ListedKept, LocksKept, GuardedKept, ReservationsKept DEF CacheInv

LEMMA CacheInvAlways == Spec => []CacheInv
  BY InitCacheInv, NextCacheInv, PTL DEF Spec

\* A committed lease pins its artifact: through evictions, reuses, repairs, failing
\* transactions and crashes the file stays and the row stays available, unless the file
\* is removed from outside or by the publisher that withdraws it.
THEOREM LeasesPin == Spec => []LeasedArtifactsAreThere
  <1>1. CacheInv => LeasedArtifactsAreThere
    BY DEF CacheInv
  <1> QED BY <1>1, CacheInvAlways, PTL

\* What a publisher has seen or published under the artifact's lock is still there when
\* it registers it and until it drops the guard.
THEOREM GuardsProtect == Spec => []GuardedBytesStay
  <1>1. CacheInv => GuardedBytesStay
    BY DEF CacheInv
  <1> QED BY <1>1, CacheInvAlways, PTL

\* A reserved artifact is being evicted or will be repaired: a failing eviction loses
\* no artifact to the catalogue.
THEOREM ReservationsAreNotLost == Spec => []ReservationsAreClaimed
  <1>1. CacheInv => ReservationsAreClaimed
    BY DEF CacheInv
  <1> QED BY <1>1, CacheInvAlways, PTL

LEMMA WriteOffs ==
  ASSUME TypeOK, [Next]_vars, NEW k \in Keys,
         catalog'[k] \in {"missing", "invalid"}, catalog'[k] # catalog[k]
  PROVE  k \notin files
  <1> USE DEF TypeOK
  <1>r. ReconcileFailedEvictions => k \notin files
    BY DEF ReconcileFailedEvictions
  <1>1. ASSUME NEW c \in Clients, RegisterAndLease(c) \/ TransferAttemptLeases(c) PROVE FALSE
    BY <1>1 DEF RegisterAndLease, TransferAttemptLeases
  <1>2. ASSUME NEW e \in Enforcers, StatusRepairs(e) \/ RepairFailedEviction(e) PROVE k \notin files
    BY <1>2, <1>r DEF StatusRepairs, RepairFailedEviction
  <1>3. ASSUME NEW e \in Enforcers, MarkMissing(e) PROVE k \notin files
    BY <1>3 DEF MarkMissing
  <1>4. ASSUME NEW e \in Enforcers, ReserveCandidate(e) \/ EvictCandidate(e) PROVE FALSE
    BY <1>4 DEF ReserveCandidate, EvictCandidate
  <1>5. ASSUME NEW e \in Enforcers, SkipCandidate(e) PROVE k \notin files
    BY <1>5 DEF SkipCandidate
  <1>6. ASSUME Restart PROVE FALSE
    BY <1>6 DEF Restart
  <1>7. ASSUME UNCHANGED catalog PROVE FALSE
    BY <1>7
  <1>8. CASE \E c \in Clients : DurablePublish(c) \/ RemoveExact(c) \/ ReleaseAttempt(c)
    BY <1>7, <1>8 DEF DurablePublish, RemoveExact, ReleaseAttempt
  <1>9. CASE \/ \E e \in Enforcers : EvictionFails(e)
             \/ \E o \in Owners : ReleaseOwner(o)
             \/ \E q \in Keys : LoseFile(q)
    BY <1>7, <1>9 DEF EvictionFails, ReleaseOwner, LoseFile
  <1>10. CASE ~BookStep
    BY <1>7, <1>10, OtherStepsKeepTheBooks
  <1> QED BY <1>1, <1>2, <1>3, <1>4, <1>5, <1>6, <1>8, <1>9, <1>10 DEF BookStep

\* No artifact is written off as missing or invalid while its file is there: what an
\* inventory saw is looked at again before it counts.
THEOREM WriteOffsAreTrue == Spec => WrittenOffOnlyWhenGone
  <1>1. TypeOK /\ [Next]_vars =>
          [\A k \in Keys : catalog'[k] \in {"missing", "invalid"} /\ catalog'[k] # catalog[k]
             => k \notin files]_vars
    BY WriteOffs
  <1> QED BY <1>1, TypeCorrect, PTL DEF Spec, WrittenOffOnlyWhenGone
=============================================================================

---------------------------- MODULE CohortSlabs -----------------------------
(***************************************************************************)
(* BoundedCohortStateManager of adaptation/governor.py: the metadata of    *)
(* per-tenant cohort states that live in a fixed number of equal HBM slabs *)
(* and, when cold offload is enabled, in a bounded host tier.              *)
(*                                                                         *)
(* A call that the code refuses (by raising or by a negative admission)    *)
(* leaves the manager as it was and is a stuttering step.  Times are       *)
(* passed in by the caller and need not be monotone.  Keys are numbered in *)
(* the order the code sorts them by.                                       *)
(***************************************************************************)
EXTENDS Naturals, FiniteSets

CONSTANTS
    Keys,               \* cohort state keys, as naturals in sort order
    TenantOf,           \* the tenant of a key
    Quota,              \* tenant_quotas, a function on the known tenants
    Capacity,           \* number of slabs
    OffloadedCapacity,  \* host tier; 0 exactly when offload is disabled
    TTL,                \* ttl_seconds
    Times,              \* bound: the instants callers pass
    MaxActive,          \* bound: concurrent requests of one cohort
    MaxVersion          \* bound: published versions of one cohort

ASSUME KeysAssumption == Keys \subseteq Nat /\ DOMAIN TenantOf = Keys
ASSUME CapacityAssumption ==
    /\ Capacity \in Nat \ {0}
    /\ OffloadedCapacity \in Nat
    /\ \A t \in DOMAIN Quota : Quota[t] \in 1..Capacity
ASSUME TimesAssumption ==
    Times \subseteq Nat /\ TTL \in Nat \ {0} /\ MaxActive \in Nat /\ MaxVersion \in Nat

VARIABLES
    states,     \* _states: admitted keys to their cohort state
    free        \* _free_slabs

slabsVars == << states, free >>

Slabs == 0..(Capacity - 1)
NoSlab == Capacity
State ==
    [slab : Slabs \cup {NoSlab}, version : Nat, created : Times, used : Times,
     active : Nat, offloaded : BOOLEAN]

Later(s, t) == IF s >= t THEN s ELSE t
Touched(state, now) == [state EXCEPT !.used = Later(@, now)]

Admitted == DOMAIN states
Inactive == {k \in Admitted : states[k].active = 0}
Offloaded == {k \in Admitted : states[k].offloaded}
Resident == {k \in Admitted : states[k].slab # NoSlab}
ResidentOf(tenant) == {k \in Admitted \ Offloaded : TenantOf[k] = tenant}
LowestFree == {s \in free : \A t \in free : s <= t}

Put(k, state) ==
    states' = [j \in Admitted \cup {k} |-> IF j = k THEN state ELSE states[j]]
Remove(gone) == states' = [k \in Admitted \ gone |-> states[k]]
-----------------------------------------------------------------------------
SlabsInit == states = << >> /\ free = Slabs

QuotaOffByOne(k) ==
    /\ TenantOf[k] \in DOMAIN Quota
    /\ Cardinality(ResidentOf(TenantOf[k])) <= Quota[TenantOf[k]]
\* The tenant is known and may have one more resident cohort.
WithinQuota(k) ==
    /\ TenantOf[k] \in DOMAIN Quota
    /\ Cardinality(ResidentOf(TenantOf[k])) < Quota[TenantOf[k]]

\* The manager may hold one more cohort.
WithinCapacity ==
    /\ Cardinality(Admitted) < Capacity + OffloadedCapacity
    /\ Cardinality(Resident) < Capacity

\* admit: a resident cohort is touched, an absent one gets the lowest free
\* slab, everything else is refused.
Admit(k, now, version) ==
    \/ /\ k \in Admitted \ Offloaded
       /\ Put(k, Touched(states[k], now))
       /\ UNCHANGED free
    \/ /\ k \notin Admitted
       /\ WithinQuota(k)
       /\ WithinCapacity
       /\ \E s \in LowestFree :
             /\ free' = free \ {s}
             /\ Put(k, [slab |-> s, version |-> version, created |-> now,
                        used |-> now, active |-> 0, offloaded |-> FALSE])

Acquire(k, now) ==
    /\ k \in Resident \ Offloaded
    /\ states[k].active < MaxActive
    /\ Put(k, Touched([states[k] EXCEPT !.active = @ + 1], now))
    /\ UNCHANGED free

Release(k, now) ==
    /\ k \in Admitted
    /\ states[k].active > 0
    /\ Put(k, Touched([states[k] EXCEPT !.active = @ - 1], now))
    /\ UNCHANGED free

\* publish_version: the caller names the version it started from.
PublishVersion(k, source, now) ==
    /\ k \in Admitted \ Offloaded
    /\ states[k].version = source
    /\ source < MaxVersion
    /\ Put(k, Touched([states[k] EXCEPT !.version = source + 1], now))
    /\ UNCHANGED free

\* The slabs of the cohorts in gone become free.
ReturnSlabs(gone) == free' = free \cup {states[k].slab : k \in gone \cap Resident}

\* reclaim, for one inactive cohort.
Reclaim(k) ==
    /\ k \in Inactive
    /\ ReturnSlabs({k})
    /\ Remove({k})

ExpiredActiveToo(now) == {k \in Admitted : now >= states[k].used + TTL}
Expired(now) == {k \in Inactive : now >= states[k].used + TTL}

\* reclaim_expired: every expired inactive cohort, in one call.
ReclaimExpired(now) == ReturnSlabs(Expired(now)) /\ Remove(Expired(now))

\* The order reclaim_lru sorts by: last use, creation, key.
Colder(j, k) ==
    \/ states[j].used < states[k].used
    \/ /\ states[j].used = states[k].used
       /\ \/ states[j].created < states[k].created
          \/ states[j].created = states[k].created /\ j < k
Coldest(count) ==
    {k \in Inactive : Cardinality({j \in Inactive : Colder(j, k)}) < count}

\* reclaim_lru: the count coldest inactive cohorts, resident or offloaded.
ReclaimLru(count) == ReturnSlabs(Coldest(count)) /\ Remove(Coldest(count))

\* Only an idle resident cohort is cold.
MayOffload(k) == k \in Inactive \cap (Resident \ Offloaded)

HostTierUnbounded == OffloadedCapacity > 0
HostTierHasRoom == Cardinality(Offloaded) < OffloadedCapacity

OffloadCold(k, completed) ==
    /\ OffloadedCapacity > 0
    /\ MayOffload(k)
    /\ HostTierHasRoom
    /\ free' = free \cup {states[k].slab}
    /\ Put(k, Touched([states[k] EXCEPT !.slab = NoSlab, !.offloaded = TRUE], completed))

SlabKept(s) == free' = free
TakeSlab(s) == free' = free \ {s}

\* restore_cold needs a free slab and looks at nothing else.
RestoreCold(k, completed) ==
    /\ OffloadedCapacity > 0
    /\ k \in Offloaded \ Resident
    /\ \E s \in LowestFree :
          /\ TakeSlab(s)
          /\ Put(k, Touched([states[k] EXCEPT !.slab = s, !.offloaded = FALSE], completed))

SlabsNext ==
    \E now \in Times :
        \/ \E k \in Keys :
              \/ \E version \in 0..MaxVersion : Admit(k, now, version)
              \/ Acquire(k, now)
              \/ Release(k, now)
              \/ \E source \in 0..MaxVersion : PublishVersion(k, source, now)
              \/ Reclaim(k)
              \/ OffloadCold(k, now)
              \/ RestoreCold(k, now)
        \/ ReclaimExpired(now)
        \/ \E count \in 1..Capacity : ReclaimLru(count)

SlabsSpec == SlabsInit /\ [][SlabsNext]_slabsVars
-----------------------------------------------------------------------------
\* Type invariant of the manager.
SlabsTypeOK ==
    /\ Admitted \subseteq Keys
    /\ states \in [Admitted -> State]
    /\ free \subseteq Slabs

\* The slabs are partitioned into the free ones and one for each resident
\* cohort, through every admission, transfer and reclamation: none is lost
\* and none holds the state of two cohorts.  A cohort is marked offloaded
\* exactly when it has no slab.
SlabsPartitioned ==
    /\ \A k \in Admitted : states[k].offloaded <=> states[k].slab = NoSlab
    /\ \A j, k \in Resident : states[j].slab = states[k].slab => j = k
    /\ free \cap {states[k].slab : k \in Resident} = {}
    /\ free \cup {states[k].slab : k \in Resident} = Slabs

\* The host tier never holds more than offloaded_capacity cohorts, and a
\* cohort with active requests is never in it.
HostTierBounded ==
    /\ Cardinality(Offloaded) <= OffloadedCapacity
    /\ Offloaded \subseteq Inactive

\* A cohort that serves requests keeps its slab and its version history: no
\* reclamation, expiry, LRU eviction or transfer touches it, however late or
\* early the times the callers pass.
ActiveCohortsStay ==
    [][\A k \in Admitted :
          states[k].active > 0 =>
              /\ k \in DOMAIN states'
              /\ states'[k].slab = states[k].slab
              /\ states'[k].version \in {states[k].version, states[k].version + 1}]_slabsVars

\* Admission never takes a tenant over its quota: whenever a step leaves a
\* tenant with more resident cohorts than its quota, what became resident came
\* back from the host tier, where the quota does not count it.
AdmissionWithinQuota ==
    [][\A t \in DOMAIN Quota :
          Cardinality(ResidentOf(t)') > Quota[t] =>
              ResidentOf(t)' \ ResidentOf(t) \subseteq Offloaded]_slabsVars
=============================================================================

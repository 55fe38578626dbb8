------------------------- MODULE CohortStateProofs --------------------------
(***************************************************************************)
(* Proofs about the state a cohort keeps: its slab in the state manager    *)
(* (CohortSlabs) and the KV history of its requests (FrozenKVHistory).     *)
(*                                                                         *)
(* CohortSlabs, for any number of keys, tenants and slabs: the slabs stay  *)
(* partitioned, active cohorts keep theirs, and admission keeps a tenant   *)
(* within its quota.                                                       *)
(*                                                                         *)
(* FrozenKVHistory, for histories of any length: the segments stay         *)
(* canonical, and the history implements KVVersions.                       *)
(***************************************************************************)
EXTENDS CohortSlabs, FrozenKVHistory, FiniteSetTheorems, SequenceTheorems, TLAPS

-----------------------------------------------------------------------------
(* CohortSlabs: the slabs, the host tier and the quotas.                    *)

\* What every step keeps about the slabs, and about the host tier.
Inductive == SlabsTypeOK /\ SlabsPartitioned
HostTier == IsFiniteSet(Admitted) /\ HostTierBounded

\* A later time is one of the two times.
LEMMA LaterIsOneOf == \A s, t : Later(s, t) \in {s, t}
BY DEF Later

\* Touching a state changes its time of last use and nothing else.
LEMMA TouchedKeepsRest ==
    ASSUME NEW state \in State, NEW now \in Times
    PROVE  /\ Touched(state, now) \in State
           /\ Touched(state, now).slab = state.slab
           /\ Touched(state, now).offloaded = state.offloaded
           /\ Touched(state, now).active = state.active
           /\ Touched(state, now).version = state.version
BY LaterIsOneOf DEF Touched, State

\* Giving a key a new state of type State preserves the typing of states.
LEMMA PutTyped ==
    ASSUME SlabsTypeOK, NEW k \in Keys, NEW state \in State, Put(k, state)
    PROVE  /\ DOMAIN states' = Admitted \cup {k}
           /\ DOMAIN states' \subseteq Keys
           /\ states' \in [DOMAIN states' -> State]
           /\ states'[k] = state
           /\ \A j \in Admitted \ {k} : states'[j] = states[j]
BY DEF SlabsTypeOK, Put, Admitted

\* Replacing the state of an admitted key by one with the same slab and
\* offload mark keeps the partition.
LEMMA PutSameSlab ==
    ASSUME Inductive, UNCHANGED free,
           NEW k \in Admitted, NEW state \in State, Put(k, state),
           state.slab = states[k].slab, state.offloaded = states[k].offloaded
    PROVE  Inductive'
<1>0. k \in Keys  BY DEF Inductive, SlabsTypeOK
<1>1. /\ DOMAIN states' = Admitted
      /\ SlabsTypeOK'
      /\ \A j \in Admitted : /\ states'[j].slab = states[j].slab
                             /\ states'[j].offloaded = states[j].offloaded
  BY <1>0, PutTyped, Zenon DEF Inductive, SlabsTypeOK, Admitted
<1>2. Resident' = Resident  BY <1>1 DEF Resident, Admitted
<1>3. {states[j].slab : j \in Resident}' = {states[j].slab : j \in Resident}
  BY <1>1, <1>2 DEF Resident, Admitted
<1>4. SlabsPartitioned'
  BY <1>1, <1>2, <1>3 DEF Inductive, SlabsPartitioned, Admitted, Resident
<1>. QED  BY <1>1, <1>4, Zenon DEF Inductive

\* Giving a key without a slab one of the free slabs keeps the partition.
LEMMA PutFreeSlab ==
    ASSUME Inductive, NEW k \in Keys, k \notin Resident,
           NEW s \in free, free' = free \ {s},
           NEW state \in State, Put(k, state), state.slab = s, ~state.offloaded
    PROVE  Inductive'
<1>1. /\ DOMAIN states' = Admitted \cup {k}
      /\ SlabsTypeOK'
      /\ states'[k] = state
      /\ \A j \in Admitted \ {k} : states'[j] = states[j]
  BY PutTyped, Zenon DEF Inductive, SlabsTypeOK, Admitted
<1>2. s \in Slabs /\ s # NoSlab
  BY CapacityAssumption DEF Inductive, SlabsTypeOK, Slabs, NoSlab
<1>3. Resident' = Resident \cup {k} /\ Resident \subseteq Admitted
  BY <1>1, <1>2, Zenon DEF Resident, Admitted
<1>4. {states[j].slab : j \in Resident}' = {states[j].slab : j \in Resident} \cup {s}
  BY <1>1, <1>3 DEF Resident, Admitted
<1>5. \A j \in Admitted' : states'[j].offloaded <=> states'[j].slab = NoSlab
  BY <1>1, <1>2, Zenon DEF Inductive, SlabsPartitioned, Admitted
<1>6. \A i, j \in Resident' : states'[i].slab = states'[j].slab => i = j
  BY <1>1, <1>3 DEF Inductive, SlabsPartitioned, Admitted, Resident
<1>. QED  BY <1>1, <1>2, <1>4, <1>5, <1>6 DEF Inductive, SlabsPartitioned

\* Taking the slab of a resident key into the free set keeps the partition.
LEMMA PutNoSlab ==
    ASSUME Inductive, NEW k \in Resident, free' = free \cup {states[k].slab},
           NEW state \in State, Put(k, state), state.slab = NoSlab, state.offloaded
    PROVE  Inductive'
<1>0. k \in Keys /\ k \in Admitted  BY DEF Inductive, SlabsTypeOK, Resident
<1>1. /\ DOMAIN states' = Admitted
      /\ states' \in [DOMAIN states' -> State]
      /\ states'[k] = state
      /\ \A j \in Admitted \ {k} : states'[j] = states[j]
  BY <1>0, PutTyped, Zenon DEF Inductive, SlabsTypeOK, Admitted
<1>2. states[k].slab \in Slabs
  BY <1>0, Zenon DEF Inductive, SlabsTypeOK, State, Resident
<1>3. SlabsTypeOK'
  BY <1>1, <1>2, Zenon DEF Inductive, SlabsTypeOK, Admitted
<1>4. Resident' = Resident \ {k} /\ Resident \subseteq Admitted
  BY <1>1, Zenon DEF Resident, Admitted
<1>5. {states[j].slab : j \in Resident}' = {states[j].slab : j \in Resident} \ {states[k].slab}
  BY <1>1, <1>4 DEF Inductive, SlabsPartitioned, Resident, Admitted
<1>6. \A j \in Admitted' : states'[j].offloaded <=> states'[j].slab = NoSlab
  BY <1>1, Zenon DEF Inductive, SlabsPartitioned, Admitted
<1>7. \A i, j \in Resident' : states'[i].slab = states'[j].slab => i = j
  BY <1>1, <1>4 DEF Inductive, SlabsPartitioned, Admitted, Resident
<1>. QED  BY <1>2, <1>3, <1>5, <1>6, <1>7, Zenon DEF Inductive, SlabsPartitioned

\* Removing any set of keys and returning their slabs keeps the partition.
LEMMA RemoveKeeps ==
    ASSUME Inductive, NEW gone, gone \subseteq Admitted, ReturnSlabs(gone), Remove(gone)
    PROVE  Inductive'
<1>1. /\ DOMAIN states' = Admitted \ gone
      /\ \A j \in Admitted \ gone : states'[j] = states[j]
      /\ states' \in [DOMAIN states' -> State]
  BY DEF Remove, Inductive, SlabsTypeOK, Admitted
<1>2. \A j \in Resident : states[j].slab \in Slabs
  BY DEF Inductive, SlabsTypeOK, State, Resident, Admitted
<1>3. SlabsTypeOK'
  BY <1>1, <1>2 DEF Inductive, SlabsTypeOK, Admitted, ReturnSlabs
<1>4. Resident' = Resident \ gone /\ Resident \subseteq Admitted
  BY <1>1 DEF Resident, Admitted
<1>5. {states[j].slab : j \in Resident}'
          = {states[j].slab : j \in Resident} \ {states[j].slab : j \in gone \cap Resident}
  BY <1>1, <1>4 DEF Inductive, SlabsPartitioned, Resident, Admitted
<1>6. \A j \in Admitted' : states'[j].offloaded <=> states'[j].slab = NoSlab
  BY <1>1 DEF Inductive, SlabsPartitioned, Admitted
<1>7. \A i, j \in Resident' : states'[i].slab = states'[j].slab => i = j
  BY <1>1, <1>4 DEF Inductive, SlabsPartitioned, Admitted, Resident
<1>8. {states[j].slab : j \in gone \cap Resident} \subseteq {states[j].slab : j \in Resident}
  OBVIOUS
<1>. QED  BY <1>3, <1>5, <1>6, <1>7, <1>8, Zenon DEF Inductive, SlabsPartitioned, ReturnSlabs

\* What a step of SlabsNext is, by action.
LEMMA NextByAction ==
    ASSUME SlabsNext
    PROVE  \/ \E now \in Times, k \in Keys, version \in Nat : Admit(k, now, version)
           \/ \E now \in Times, k \in Keys :
                 Acquire(k, now) \/ Release(k, now) \/ OffloadCold(k, now) \/ RestoreCold(k, now)
           \/ \E now \in Times, k \in Keys, source \in Nat : PublishVersion(k, source, now)
           \/ \E gone \in SUBSET Inactive : ReturnSlabs(gone) /\ Remove(gone)
<1>1. \A k \in Keys : Reclaim(k) => {k} \in SUBSET Inactive /\ ReturnSlabs({k}) /\ Remove({k})
  BY DEF Reclaim
<1>2. \A now \in Times : ReclaimExpired(now) =>
          Expired(now) \in SUBSET Inactive /\ ReturnSlabs(Expired(now)) /\ Remove(Expired(now))
  BY DEF ReclaimExpired, Expired
<1>3. \A count \in 1..Capacity : ReclaimLru(count) =>
          Coldest(count) \in SUBSET Inactive /\ ReturnSlabs(Coldest(count)) /\ Remove(Coldest(count))
  BY DEF ReclaimLru, Coldest
<1>4. 0..MaxVersion \subseteq Nat  BY TimesAssumption
<1>. QED  BY <1>1, <1>2, <1>3, <1>4, Zenon DEF SlabsNext

\* Every step keeps the types and the partition.
LEMMA StepKeepsPartition ==
    ASSUME Inductive, [SlabsNext]_slabsVars
    PROVE  Inductive'
<1>0. \A k \in Admitted : states[k] \in State /\ k \in Keys
  BY DEF Inductive, SlabsTypeOK
<1>1. ASSUME NEW now \in Times, NEW k \in Keys, NEW version \in Nat, Admit(k, now, version)
      PROVE  Inductive'
  <2>1. CASE k \in Admitted
    BY <1>0, <1>1, <2>1, TouchedKeepsRest, PutSameSlab, Zenon DEF Admit
  <2>2. CASE k \notin Admitted
    <3>1. PICK s \in free :
             /\ free' = free \ {s}
             /\ Put(k, [slab |-> s, version |-> version, created |-> now,
                        used |-> now, active |-> 0, offloaded |-> FALSE])
      BY <1>1, <2>2, Zenon DEF Admit, LowestFree
    <3>2. s \in Slabs  BY Zenon DEF Inductive, SlabsTypeOK
    <3>3. [slab |-> s, version |-> version, created |-> now,
           used |-> now, active |-> 0, offloaded |-> FALSE] \in State
      BY <3>2, Zenon DEF State
    <3>4. k \notin Resident  BY <2>2, Zenon DEF Resident
    <3>. QED  BY <3>1, <3>3, <3>4, PutFreeSlab, Zenon
  <2>. QED  BY <2>1, <2>2, Zenon
<1>2. ASSUME NEW now \in Times, NEW k \in Keys, Acquire(k, now)
      PROVE  Inductive'
  <2>1. k \in Admitted  BY <1>2, Zenon DEF Acquire, Resident
  <2>2. [states[k] EXCEPT !.active = @ + 1] \in State  BY <1>0, <2>1 DEF State
  <2>. QED  BY <1>0, <1>2, <2>1, <2>2, TouchedKeepsRest, PutSameSlab DEF Acquire, State
<1>3. ASSUME NEW now \in Times, NEW k \in Keys, Release(k, now)
      PROVE  Inductive'
  <2>1. k \in Admitted  BY <1>3, Zenon DEF Release
  <2>2. [states[k] EXCEPT !.active = @ - 1] \in State
    BY <1>0, <1>3, <2>1 DEF Release, State
  <2>. QED  BY <1>0, <1>3, <2>1, <2>2, TouchedKeepsRest, PutSameSlab, Zenon DEF Release, State
<1>4. ASSUME NEW now \in Times, NEW k \in Keys, NEW source \in Nat, PublishVersion(k, source, now)
      PROVE  Inductive'
  <2>1. k \in Admitted  BY <1>4, Zenon DEF PublishVersion
  <2>2. [states[k] EXCEPT !.version = source + 1] \in State  BY <1>0, <2>1 DEF State
  <2>. QED  BY <1>0, <1>4, <2>1, <2>2, TouchedKeepsRest, PutSameSlab DEF PublishVersion, State
<1>5. ASSUME NEW now \in Times, NEW k \in Keys, OffloadCold(k, now)
      PROVE  Inductive'
  <2>1. k \in Resident /\ k \in Admitted  BY <1>5, Zenon DEF OffloadCold, MayOffload, Resident
  <2> DEFINE cold == [states[k] EXCEPT !.slab = NoSlab, !.offloaded = TRUE]
  <2>2. cold \in State /\ cold.slab = NoSlab /\ cold.offloaded
    BY <1>0, <2>1, Zenon DEF State
  <2>3. free' = free \cup {states[k].slab} /\ Put(k, Touched(cold, now))
    BY <1>5, Zenon DEF OffloadCold
  <2> HIDE DEF cold
  <2>4. /\ Touched(cold, now) \in State
        /\ Touched(cold, now).slab = NoSlab
        /\ Touched(cold, now).offloaded
    BY <2>2, TouchedKeepsRest, Zenon
  <2>. QED  BY <2>1, <2>3, <2>4, PutNoSlab, Zenon
<1>6. ASSUME NEW now \in Times, NEW k \in Keys, RestoreCold(k, now)
      PROVE  Inductive'
  <2>1. PICK s \in free :
           /\ free' = free \ {s}
           /\ Put(k, Touched([states[k] EXCEPT !.slab = s, !.offloaded = FALSE], now))
    BY <1>6, Zenon DEF RestoreCold, TakeSlab, LowestFree
  <2>2. k \in Admitted /\ k \notin Resident  BY <1>6, Zenon DEF RestoreCold, Offloaded
  <2> DEFINE warm == [states[k] EXCEPT !.slab = s, !.offloaded = FALSE]
  <2>3. warm \in State /\ warm.slab = s /\ ~warm.offloaded
    BY <1>0, <2>2, Zenon DEF State, Inductive, SlabsTypeOK
  <2>4. Put(k, Touched(warm, now))  BY <2>1, Zenon
  <2> HIDE DEF warm
  <2>5. /\ Touched(warm, now) \in State
        /\ Touched(warm, now).slab = s
        /\ ~Touched(warm, now).offloaded
    BY <2>3, TouchedKeepsRest
  <2>. QED  BY <2>1, <2>2, <2>4, <2>5, PutFreeSlab, Zenon
<1>7. ASSUME NEW gone \in SUBSET Inactive, ReturnSlabs(gone), Remove(gone)
      PROVE  Inductive'
  BY <1>7, RemoveKeeps, Zenon DEF Inactive
<1>8. CASE UNCHANGED slabsVars
  BY <1>8 DEF slabsVars, Inductive, SlabsTypeOK, SlabsPartitioned, Admitted, Resident
<1>. QED  BY <1>1, <1>2, <1>3, <1>4, <1>5, <1>6, <1>7, <1>8, NextByAction, Zenon

\* A step that gives one key a new state changes the host tier by that key.
LEMMA PutHostTier ==
    ASSUME HostTier, NEW k, NEW state, Put(k, state),
           state.offloaded => /\ state.active = 0
                              /\ k \in Offloaded \/ HostTierHasRoom
    PROVE  HostTier'
<1>1. /\ Admitted' = Admitted \cup {k}
      /\ \A j \in Admitted' : states'[j] = IF j = k THEN state ELSE states[j]
  BY Zenon DEF Put, Admitted
<1>2. IsFiniteSet(Admitted')
  BY <1>1, FS_AddElement, Zenon DEF HostTier
<1>3. IsFiniteSet(Offloaded) /\ Cardinality(Offloaded) \in Nat
  BY FS_Subset, FS_CardinalityType, Zenon DEF HostTier, Offloaded
<1>4. Offloaded' \subseteq Inactive'
  BY <1>1, Zenon DEF HostTier, HostTierBounded, Offloaded, Inactive
<1>5. CASE ~state.offloaded
  <2>1. Offloaded' \subseteq Offloaded  BY <1>1, <1>5, Zenon DEF Offloaded
  <2>2. Cardinality(Offloaded') <= Cardinality(Offloaded) /\ Cardinality(Offloaded') \in Nat
    BY <1>3, <2>1, FS_Subset, FS_CardinalityType, Zenon
  <2>. QED  BY <1>2, <1>3, <1>4, <2>2, CapacityAssumption DEF HostTier, HostTierBounded
<1>6. CASE state.offloaded
  <2>1. Offloaded' = Offloaded \cup {k}  BY <1>1, <1>6, Zenon DEF Offloaded
  <2>2. Cardinality(Offloaded') = IF k \in Offloaded THEN Cardinality(Offloaded)
                                  ELSE Cardinality(Offloaded) + 1
    BY <1>3, <2>1, FS_AddElement, Zenon
  <2>. QED
    BY <1>2, <1>3, <1>4, <1>6, <2>2, CapacityAssumption
    DEF HostTier, HostTierBounded, HostTierHasRoom
<1>. QED  BY <1>5, <1>6, Zenon

\* Every step keeps the host tier within its bound and idle.
LEMMA StepKeepsHostTier ==
    ASSUME Inductive, HostTier, [SlabsNext]_slabsVars
    PROVE  HostTier'
<1>0. \A k \in Admitted : states[k] \in State /\ k \in Keys
  BY DEF Inductive, SlabsTypeOK
<1>1. ASSUME NEW now \in Times, NEW k \in Keys, NEW version \in Nat, Admit(k, now, version)
      PROVE  HostTier'
  <2>1. CASE k \in Admitted
    BY <1>0, <1>1, <2>1, TouchedKeepsRest, PutHostTier DEF Admit, Offloaded
  <2>2. CASE k \notin Admitted
    BY <1>1, <2>2, PutHostTier, Zenon DEF Admit
  <2>. QED  BY <2>1, <2>2
<1>2. ASSUME NEW now \in Times, NEW k \in Keys, Acquire(k, now)
      PROVE  HostTier'
  <2>1. k \in Admitted /\ k \notin Offloaded  BY <1>2, Zenon DEF Acquire, Resident
  <2>2. [states[k] EXCEPT !.active = @ + 1] \in State  BY <1>0, <2>1 DEF State
  <2>. QED
    BY <1>0, <1>2, <2>1, <2>2, TouchedKeepsRest, PutHostTier, Zenon DEF Acquire, State, Offloaded
<1>3. ASSUME NEW now \in Times, NEW k \in Keys, Release(k, now)
      PROVE  HostTier'
  <2>1. k \in Admitted /\ k \notin Offloaded
    BY <1>3 DEF Release, HostTier, HostTierBounded, Inactive
  <2>2. [states[k] EXCEPT !.active = @ - 1] \in State  BY <1>0, <1>3, <2>1 DEF Release, State
  <2>. QED
    BY <1>0, <1>3, <2>1, <2>2, TouchedKeepsRest, PutHostTier, Zenon DEF Release, State, Offloaded
<1>4. ASSUME NEW now \in Times, NEW k \in Keys, NEW source \in Nat, PublishVersion(k, source, now)
      PROVE  HostTier'
  <2>1. k \in Admitted /\ k \notin Offloaded  BY <1>4, Zenon DEF PublishVersion
  <2>2. [states[k] EXCEPT !.version = source + 1] \in State  BY <1>0, <2>1 DEF State
  <2>. QED
    BY <1>0, <1>4, <2>1, <2>2, TouchedKeepsRest, PutHostTier, Zenon DEF PublishVersion, State, Offloaded
<1>5. ASSUME NEW now \in Times, NEW k \in Keys, OffloadCold(k, now)
      PROVE  HostTier'
  <2>1. k \in Inactive /\ k \in Admitted /\ HostTierHasRoom
    BY <1>5, Zenon DEF OffloadCold, MayOffload, Inactive
  <2> DEFINE cold == [states[k] EXCEPT !.slab = NoSlab, !.offloaded = TRUE]
  <2>2. cold \in State /\ cold.active = 0
    BY <1>0, <2>1, Zenon DEF State, Inactive
  <2>3. Put(k, Touched(cold, now))  BY <1>5, Zenon DEF OffloadCold
  <2> HIDE DEF cold
  <2>. QED  BY <2>1, <2>2, <2>3, TouchedKeepsRest, PutHostTier, Zenon
<1>6. ASSUME NEW now \in Times, NEW k \in Keys, RestoreCold(k, now)
      PROVE  HostTier'
  <2>1. PICK s \in free :
           Put(k, Touched([states[k] EXCEPT !.slab = s, !.offloaded = FALSE], now))
    BY <1>6, Zenon DEF RestoreCold, LowestFree
  <2> DEFINE warm == [states[k] EXCEPT !.slab = s, !.offloaded = FALSE]
  <2>2. warm \in State /\ ~warm.offloaded
    BY <1>0, <1>6, Zenon DEF RestoreCold, Offloaded, State, Inductive, SlabsTypeOK
  <2>3. Put(k, Touched(warm, now))  BY <2>1, Zenon
  <2> HIDE DEF warm
  <2>. QED  BY <2>2, <2>3, TouchedKeepsRest, PutHostTier
<1>7. ASSUME NEW gone \in SUBSET Inactive, ReturnSlabs(gone), Remove(gone)
      PROVE  HostTier'
  <2>1. /\ Admitted' = Admitted \ gone
        /\ \A k \in Admitted' : states'[k] = states[k]
    BY <1>7, Zenon DEF Remove, Admitted
  <2>2. Admitted' \subseteq Admitted /\ Offloaded' \subseteq Offloaded /\ Offloaded' \subseteq Inactive'
    BY <2>1, Zenon DEF HostTier, HostTierBounded, Offloaded, Inactive
  <2>3. IsFiniteSet(Admitted') /\ IsFiniteSet(Offloaded)
    BY <2>2, FS_Subset, Zenon DEF HostTier, Offloaded
  <2>4. /\ Cardinality(Offloaded') <= Cardinality(Offloaded)
        /\ Cardinality(Offloaded') \in Nat /\ Cardinality(Offloaded) \in Nat
    BY <2>2, <2>3, FS_Subset, FS_CardinalityType, Zenon
  <2>. QED  BY <2>2, <2>3, <2>4, CapacityAssumption DEF HostTier, HostTierBounded
<1>8. CASE UNCHANGED slabsVars
  BY <1>8, Zenon DEF slabsVars, HostTier, HostTierBounded, Offloaded, Inactive, Admitted
<1>. QED  BY <1>1, <1>2, <1>3, <1>4, <1>5, <1>6, <1>7, <1>8, NextByAction

\* The invariant that both facts need together.
LEMMA SlabInvariant == SlabsSpec => [](Inductive /\ HostTier)
<1>1. SlabsInit => Inductive
  BY DEF SlabsInit, Inductive, SlabsTypeOK, SlabsPartitioned, Admitted, Resident
<1>2. SlabsInit => HostTier
  BY FS_EmptySet, CapacityAssumption
  DEF SlabsInit, HostTier, HostTierBounded, Admitted, Offloaded, Inactive
<1>3. Inductive /\ HostTier /\ [SlabsNext]_slabsVars => (Inductive /\ HostTier)'
  BY StepKeepsPartition, StepKeepsHostTier, Zenon
<1>. QED  BY <1>1, <1>2, <1>3, PTL DEF SlabsSpec

\* BoundedCohortStateManager never loses a slab and never gives one slab to
\* two cohorts.
THEOREM SlabsStayPartitioned == SlabsSpec => [](SlabsTypeOK /\ SlabsPartitioned)
BY SlabInvariant, PTL DEF Inductive

\* The cold tier holds at most offloaded_capacity cohorts, all of them idle.
THEOREM HostTierStaysBounded == SlabsSpec => []HostTierBounded
BY SlabInvariant, PTL DEF HostTier

\* No reclamation, expiry, eviction or transfer takes the slab of a cohort
\* with active requests.
THEOREM ActiveCohortsKeepSlab == SlabsSpec => ActiveCohortsStay
<1> DEFINE Stays(k) ==
        states[k].active > 0 =>
              /\ k \in DOMAIN states'
              /\ states'[k].slab = states[k].slab
              /\ states'[k].version \in {states[k].version, states[k].version + 1}
<1>1. ASSUME Inductive, HostTier, SlabsNext, NEW k \in Admitted
      PROVE  Stays(k)
  <2>0. \A j \in Admitted : states[j] \in State /\ j \in Keys
    BY <1>1, Zenon DEF Inductive, SlabsTypeOK
  <2>1. ASSUME NEW j \in Keys, NEW state, Put(j, state),
               j = k => /\ state.slab = states[k].slab
                        /\ state.version \in {states[k].version, states[k].version + 1}
        PROVE  Stays(k)
    BY <2>1, Zenon DEF Put, Admitted
  <2>2. ASSUME NEW now \in Times, NEW j \in Keys, NEW version \in Nat, Admit(j, now, version)
        PROVE  Stays(k)
    <3>1. CASE j \in Admitted
      BY <2>0, <2>1, <2>2, <3>1, TouchedKeepsRest DEF Admit
    <3>2. CASE j \notin Admitted
      BY <2>1, <2>2, <3>2, Zenon DEF Admit
    <3>. QED  BY <3>1, <3>2, Zenon
  <2>3. ASSUME NEW now \in Times, NEW j \in Keys, Acquire(j, now)
        PROVE  Stays(k)
    <3>1. j \in Admitted  BY <2>3, Zenon DEF Acquire, Resident
    <3>2. [states[j] EXCEPT !.active = @ + 1] \in State  BY <2>0, <3>1 DEF State
    <3>. QED  BY <2>0, <2>1, <2>3, <3>1, <3>2, TouchedKeepsRest DEF Acquire, State
  <2>4. ASSUME NEW now \in Times, NEW j \in Keys, Release(j, now)
        PROVE  Stays(k)
    <3>1. j \in Admitted  BY <2>4, Zenon DEF Release
    <3>2. [states[j] EXCEPT !.active = @ - 1] \in State  BY <2>0, <2>4, <3>1 DEF Release, State
    <3>. QED  BY <2>0, <2>1, <2>4, <3>1, <3>2, TouchedKeepsRest DEF Release, State
  <2>5. ASSUME NEW now \in Times, NEW j \in Keys, NEW source \in Nat, PublishVersion(j, source, now)
        PROVE  Stays(k)
    <3>1. j \in Admitted /\ states[j].version = source  BY <2>5, Zenon DEF PublishVersion
    <3>2. [states[j] EXCEPT !.version = source + 1] \in State  BY <2>0, <3>1 DEF State
    <3>. QED  BY <2>0, <2>1, <2>5, <3>1, <3>2, TouchedKeepsRest DEF PublishVersion, State
  <2>6. ASSUME NEW now \in Times, NEW j \in Keys, OffloadCold(j, now)
        PROVE  Stays(k)
    <3>1. j \in Inactive  BY <2>6, Zenon DEF OffloadCold, MayOffload
    <3>2. CASE j = k  BY <3>1, <3>2 DEF Inactive
    <3>3. CASE j # k  BY <2>1, <2>6, <3>3, Zenon DEF OffloadCold
    <3>. QED  BY <3>2, <3>3, Zenon
  <2>7. ASSUME NEW now \in Times, NEW j \in Keys, RestoreCold(j, now)
        PROVE  Stays(k)
    <3>1. CASE j = k
      BY <1>1, <2>7, <3>1 DEF RestoreCold, HostTier, HostTierBounded, Inactive
    <3>2. CASE j # k  BY <2>1, <2>7, <3>2, Zenon DEF RestoreCold
    <3>. QED  BY <3>1, <3>2
  <2>8. ASSUME NEW gone \in SUBSET Inactive, ReturnSlabs(gone), Remove(gone)
        PROVE  Stays(k)
    BY <2>8 DEF Inactive, Remove, Admitted
  <2>. QED  BY <1>1, <2>2, <2>3, <2>4, <2>5, <2>6, <2>7, <2>8, NextByAction, Zenon
<1>2. Inductive /\ HostTier /\ [SlabsNext]_slabsVars => [\A k \in Admitted : Stays(k)]_slabsVars
  BY <1>1, Zenon
<1>. QED  BY <1>2, SlabInvariant, PTL DEF SlabsSpec, ActiveCohortsStay

\* admit never takes a tenant over its quota; what does came back with
\* restore_cold, which asks for a free slab only.
THEOREM AdmissionKeepsQuota == SlabsSpec => AdmissionWithinQuota
<1> DEFINE Within(t) == Cardinality(ResidentOf(t)') > Quota[t] =>
                            ResidentOf(t)' \ ResidentOf(t) \subseteq Offloaded
<1>1. ASSUME Inductive, HostTier, SlabsNext, NEW t \in DOMAIN Quota
      PROVE  Within(t)
  <2>1. ASSUME NEW k \in Admitted, NEW state, Put(k, state)
        PROVE  Within(t)
    <3>1. DOMAIN states' = Admitted /\ \A j \in Admitted \ {k} : states'[j] = states[j]
      BY <2>1, Zenon DEF Put, Admitted
    <3>2. ASSUME NEW j \in ResidentOf(t)' \ ResidentOf(t)  PROVE j \in Offloaded
      <4>1. j \in Admitted /\ TenantOf[j] = t  BY <3>1, <3>2, Zenon DEF ResidentOf, Admitted
      <4>. QED  BY <3>2, <4>1, Zenon DEF ResidentOf
    <3>. QED  BY <3>2, Zenon
  <2>2. ASSUME NEW k \in Keys, k \notin Admitted, WithinQuota(k), NEW state, Put(k, state)
        PROVE  Within(t)
    <3>1. /\ DOMAIN states' = Admitted \cup {k}
          /\ \A j \in Admitted : states'[j] = states[j]
      BY <2>2, Zenon DEF Put, Admitted
    <3>2. \A j \in Admitted : j \in ResidentOf(t)' => j \in ResidentOf(t)
      BY <3>1, Zenon DEF ResidentOf, Offloaded, Admitted
    <3>3. ResidentOf(t)' \subseteq ResidentOf(t) \cup {k}
      BY <3>1, <3>2, Zenon DEF ResidentOf, Admitted
    <3>4. CASE TenantOf[k] = t
      <4>1. IsFiniteSet(ResidentOf(t)) /\ k \notin ResidentOf(t)
        BY <1>1, <2>2, FS_Subset, Zenon DEF HostTier, ResidentOf
      <4>2. /\ IsFiniteSet(ResidentOf(t) \cup {k})
            /\ Cardinality(ResidentOf(t) \cup {k}) = Cardinality(ResidentOf(t)) + 1
        BY <4>1, FS_AddElement, Zenon
      <4>3. Cardinality(ResidentOf(t)') <= Cardinality(ResidentOf(t) \cup {k})
            /\ IsFiniteSet(ResidentOf(t)')
        BY <3>3, <4>2, FS_Subset, Zenon
      <4>4. Cardinality(ResidentOf(t)) \in Nat /\ Cardinality(ResidentOf(t)') \in Nat
        BY <4>1, <4>3, FS_CardinalityType, Zenon
      <4>5. Cardinality(ResidentOf(t)) < Quota[t] /\ Quota[t] \in Nat
        BY <2>2, <3>4, CapacityAssumption DEF WithinQuota
      <4>. QED  BY <4>2, <4>3, <4>4, <4>5
    <3>5. CASE TenantOf[k] # t
      <4>1. k \notin ResidentOf(t)'  BY <3>5, Zenon DEF ResidentOf
      <4>. QED  BY <3>3, <4>1, Zenon
    <3>. QED  BY <3>4, <3>5, Zenon
  <2>3. ASSUME NEW now \in Times, NEW k \in Keys, NEW version \in Nat, Admit(k, now, version)
        PROVE  Within(t)
    BY <2>1, <2>2, <2>3, Zenon DEF Admit
  <2>4. ASSUME NEW now \in Times, NEW k \in Keys,
               \/ Acquire(k, now) \/ Release(k, now)
               \/ \E source \in Nat : PublishVersion(k, source, now)
               \/ OffloadCold(k, now) \/ RestoreCold(k, now)
        PROVE  Within(t)
    BY <2>1, <2>4, Zenon
    DEF Acquire, Release, PublishVersion, OffloadCold, RestoreCold, MayOffload, Inactive, Resident,
        Offloaded
  <2>5. ASSUME NEW gone \in SUBSET Inactive, ReturnSlabs(gone), Remove(gone)
        PROVE  Within(t)
    <3>1. DOMAIN states' \subseteq Admitted /\ \A j \in DOMAIN states' : states'[j] = states[j]
      BY <2>5, Zenon DEF Remove, Admitted
    <3>2. ResidentOf(t)' \subseteq ResidentOf(t)
      BY <3>1, Zenon DEF ResidentOf, Offloaded, Admitted
    <3>. QED  BY <3>2, Zenon
  <2>. QED  BY <1>1, <2>3, <2>4, <2>5, NextByAction, Zenon
<1>2. Inductive /\ HostTier /\ [SlabsNext]_slabsVars => [\A t \in DOMAIN Quota : Within(t)]_slabsVars
  BY <1>1, Zenon
<1>. QED  BY <1>2, SlabInvariant, PTL DEF SlabsSpec, AdmissionWithinQuota

-----------------------------------------------------------------------------
(* FrozenKVHistory: the segments, and the version of every token.           *)

\* The parts of a typed history.
LEMMA HistoryShape ==
    HistoryTypeOK => /\ Len(segments) \in Nat
                     /\ DOMAIN segments = 1..Len(segments)
                     /\ \A i \in 1..Len(segments) : /\ segments[i] \in KVSegment
                                                    /\ segments[i].start \in Nat
                                                    /\ segments[i].stop \in Nat
                     /\ Length \in Nat
                     /\ Len(segments) = 0 => segments = << >> /\ Length = 0
                     /\ Len(segments) > 0 => /\ segments # << >>
                                            /\ Length = segments[Len(segments)].stop
<1> SUFFICES ASSUME HistoryTypeOK
             PROVE  HistoryShape!2
  BY Zenon
<1>1. /\ Len(segments) \in Nat
      /\ DOMAIN segments = 1..Len(segments)
      /\ \A i \in 1..Len(segments) : segments[i] \in KVSegment
  BY LenProperties, ElementOfSeq, Zenon DEF HistoryTypeOK
<1>2. \A i \in 1..Len(segments) : segments[i].start \in Nat /\ segments[i].stop \in Nat
  BY <1>1, Zenon DEF KVSegment
<1>3. segments # << >> => Len(segments) \in Nat \ {0}
  BY EmptySeq, Zenon DEF HistoryTypeOK
<1>4. segments = << >> => Len(segments) = 0
  BY EmptySeq, Zenon
<1>5. /\ Len(segments) = 0 => segments = << >> /\ Length = 0
      /\ Len(segments) > 0 => segments # << >> /\ Length = segments[Len(segments)].stop
  BY <1>3, <1>4 DEF Length
<1>6. Length \in Nat
  BY <1>1, <1>2, <1>5
<1>. QED  BY <1>1, <1>2, <1>5, <1>6, Zenon

\* Segments that are ordered and non-empty end at the length at the latest.
LEMMA StopsWithinLength ==
    ASSUME HistoryInv, NEW i \in 1..Len(segments)
    PROVE  segments[i].stop <= Length
<1> DEFINE n == Len(segments)
<1>1. /\ n \in Nat /\ DOMAIN segments = 1..n
      /\ Length \in Nat
      /\ n > 0 => Length = segments[n].stop
      /\ \A j \in 1..n : segments[j].start \in Nat /\ segments[j].stop \in Nat
  BY HistoryShape, Zenon DEF HistoryInv
<1> HIDE DEF n
<1>2. i \in 1..n /\ n \in 1..n  BY <1>1 DEF n
<1>3. CASE i = n  BY <1>1, <1>2, <1>3
<1>4. CASE i # n
  <2>1. i < n  BY <1>1, <1>2, <1>4
  <2>2. segments[i].stop <= segments[n].start
    BY <1>1, <1>2, <2>1, Zenon DEF HistoryInv, SegmentsOrdered
  <2>3. segments[n].start < segments[n].stop
    BY <1>1, <1>2 DEF HistoryInv, SegmentsCanonical
  <2>. QED  BY <1>1, <1>2, <2>2, <2>3
<1>. QED  BY <1>3, <1>4, Zenon

\* The segment that covers a token is the one version_at finds.
VersionsFound ==
    \A t \in Nat : \A i \in 1..Len(segments) :
        Covers(i, t) => VersionAt(t) = segments[i].version
LEMMA VersionOfCovered == HistoryInv => VersionsFound
<1> SUFFICES ASSUME HistoryInv, NEW t \in Nat, NEW i \in 1..Len(segments), Covers(i, t)
             PROVE  VersionAt(t) = segments[i].version
  BY Zenon DEF VersionsFound
<1> DEFINE n == Len(segments)
<1>0. /\ n \in Nat /\ DOMAIN segments = 1..n
      /\ \A j \in 1..n : segments[j].start \in Nat /\ segments[j].stop \in Nat
  BY HistoryShape, Zenon DEF HistoryInv
<1> HIDE DEF n
<1>1. ASSUME NEW j \in 1..n, Covers(j, t), j # i
      PROVE  FALSE
  <2>0. i \in 1..n  BY Zenon DEF n
  <2>1. /\ segments[i].start <= t /\ t < segments[i].stop
        /\ segments[j].start <= t /\ t < segments[j].stop
    BY <1>1, Zenon DEF Covers
  <2>2. CASE j < i
    <3>1. segments[j].stop <= segments[i].start
      BY <1>0, <2>0, <2>2, Zenon DEF HistoryInv, SegmentsOrdered
    <3>. QED  BY <1>0, <2>0, <2>1, <3>1
  <2>3. CASE i < j
    <3>1. segments[i].stop <= segments[j].start
      BY <1>0, <2>0, <2>3, Zenon DEF HistoryInv, SegmentsOrdered
    <3>. QED  BY <1>0, <2>0, <2>1, <3>1
  <2>. QED  BY <1>0, <1>1, <2>0, <2>2, <2>3
<1>2. i \in 1..n /\ \A j \in 1..(i - 1) : j \in 1..n /\ j # i  BY <1>0 DEF n
<1>3. SegmentOf(t) = i
  BY <1>0, <1>1, <1>2 DEF SegmentOf
<1>. QED  BY <1>3, Zenon DEF VersionAt

\* append keeps the invariant, the versions of the tokens there are, and
\* gives the new tokens the version it was called with.
LEMMA AppendStep ==
    ASSUME HistoryInv, NEW count \in Nat \ {0}, NEW version \in Versions, AppendKV(count, version)
    PROVE  /\ HistoryInv'
           /\ Length' = Length + count
           /\ \A t \in 0..(Length - 1) : VersionAt(t)' = VersionAt(t)
           /\ \A t \in Length..(Length + count - 1) : VersionAt(t)' = version
<1>n. PICK n \in Nat : n = Len(segments)
  BY HistoryShape, Zenon DEF HistoryInv
<1>0. /\ Length \in Nat /\ n \in Nat /\ DOMAIN segments = 1..n
      /\ \A i \in 1..n : segments[i].start \in Nat /\ segments[i].stop \in Nat
      /\ HistoryTypeOK
  BY <1>n, HistoryShape, Zenon DEF HistoryInv
<1>a. HistoryInv' => VersionsFound'
  BY VersionOfCovered, PTL
<1>1. CASE segments # << >> /\ segments[n].version = version
  <2>1. segments' = [segments EXCEPT ![n] = Merged(count, version)]
    BY <1>n, <1>1, Zenon DEF AppendKV, Mergeable
  <2>2. /\ n \in 1..n
        /\ Length = segments[n].stop
        /\ segments[n] \in KVSegment
    BY <1>n, <1>0, <1>1, HistoryShape
  <2>3. /\ Len(segments') = n /\ DOMAIN segments' = 1..n
        /\ segments'[n] = [start |-> segments[n].start, stop |-> Length + count, version |-> version]
        /\ \A i \in 1..(n - 1) : segments'[i] = segments[i]
        /\ HistoryTypeOK'
    BY <1>n, <1>0, <2>1, <2>2 DEF HistoryTypeOK, Merged, Segment, KVSegment
  <2>4. Length' = Length + count
    BY <1>0, <2>2, <2>3 DEF Length
  <2>5. SegmentsCanonical'
    <3> SUFFICES ASSUME NEW i \in 1..n
                 PROVE  /\ segments'[i].start < segments'[i].stop
                        /\ segments'[i].start = IF i = 1 THEN 0 ELSE segments'[i - 1].stop
                        /\ i > 1 => segments'[i].version # segments'[i - 1].version
      BY <2>3, Zenon DEF SegmentsCanonical
    <3>1. /\ segments[i].start < segments[i].stop
          /\ segments[i].start = IF i = 1 THEN 0 ELSE segments[i - 1].stop
          /\ i > 1 => segments[i].version # segments[i - 1].version
      BY <1>0, Zenon DEF HistoryInv, SegmentsCanonical
    <3>2. CASE i < n  BY <1>0, <2>3, <3>1, <3>2
    <3>3. CASE i = n  BY <1>0, <1>1, <2>2, <2>3, <3>1, <3>3
    <3>. QED  BY <1>0, <3>2, <3>3
  <2>6. SegmentsOrdered'
    <3> SUFFICES ASSUME NEW i \in 1..n, NEW j \in 1..n, i < j
                 PROVE  segments'[i].stop <= segments'[j].start
      BY <2>3, Zenon DEF SegmentsOrdered
    <3>1. segments[i].stop <= segments[j].start
      BY <1>0, Zenon DEF HistoryInv, SegmentsOrdered
    <3>2. i \in 1..(n - 1) /\ (j \in 1..(n - 1) \/ j = n)  BY <1>0
    <3>3. segments'[i].stop = segments[i].stop /\ segments'[j].start = segments[j].start
      BY <2>3, <3>2
    <3>. QED  BY <3>1, <3>3, Zenon
  <2>7. ASSUME NEW t \in 0..(Length - 1), NEW i \in 1..n, Covers(i, t)
        PROVE  Covers(i, t)'
    <3>1. segments[i].start <= t /\ t < segments[i].stop  BY <2>7, Zenon DEF Covers
    <3>2. CASE i = n
      <4>1. segments'[i].start = segments[i].start /\ segments'[i].stop = Length + count
        BY <2>3, <3>2
      <4>. QED  BY <1>0, <3>1, <4>1 DEF Covers
    <3>3. CASE i # n
      <4>1. segments'[i] = segments[i]  BY <1>0, <2>3, <3>3
      <4>. QED  BY <3>1, <4>1, Zenon DEF Covers
    <3>. QED  BY <3>2, <3>3, Zenon
  <2>8. ASSUME NEW t \in Length..(Length + count - 1)
        PROVE  Covers(n, t)'
    <3>1. segments'[n].start = segments[n].start /\ segments'[n].stop = Length + count
      BY <2>3
    <3>2. segments[n].start < Length
      BY <1>0, <2>2, Zenon DEF HistoryInv, SegmentsCanonical
    <3>. QED  BY <1>0, <2>2, <3>1, <3>2 DEF Covers
  <2>9. TokensCovered'
    <3> SUFFICES ASSUME NEW t \in 0..(Length' - 1)
                 PROVE  \E i \in DOMAIN segments' : Covers(i, t)'
      BY Zenon DEF TokensCovered
    <3>0. t \in 0..(Length + count - 1) /\ DOMAIN segments' = 1..n  BY <1>0, <2>3, <2>4
    <3>1. CASE t < Length
      <4>0. t \in 0..(Length - 1)  BY <1>0, <3>0, <3>1
      <4>1. PICK i \in 1..n : Covers(i, t)  BY <1>0, <4>0, Zenon DEF HistoryInv, TokensCovered
      <4>2. Covers(i, t)'  BY <2>7, <4>0, <4>1, Zenon
      <4>. QED  BY <3>0, <4>2, Zenon
    <3>2. CASE t >= Length
      <4>1. t \in Length..(Length + count - 1)  BY <1>0, <3>0, <3>2
      <4>2. Covers(n, t)'  BY <2>8, <4>1, Zenon
      <4>. QED  BY <2>2, <3>0, <4>2, Zenon
    <3>. QED  BY <1>0, <3>0, <3>1, <3>2
  <2>10. HistoryInv'  BY <2>3, <2>5, <2>6, <2>9, Zenon DEF HistoryInv
  <2>11. \A i \in 1..n : segments'[i].version = segments[i].version
    BY <1>0, <1>1, <2>3
  <2>12. ASSUME NEW t \in 0..(Length - 1) PROVE VersionAt(t)' = VersionAt(t)
    <3>1. PICK i \in 1..n : Covers(i, t)  BY <1>0, Zenon DEF HistoryInv, TokensCovered
    <3>2. Covers(i, t)' /\ t \in Nat  BY <1>0, <2>7, <3>1
    <3>3. VersionAt(t) = segments[i].version  BY <1>n, <1>0, <3>1, VersionOfCovered DEF VersionsFound
    <3>4. VersionAt(t)' = segments'[i].version  BY <1>a, <2>3, <2>10, <3>2, Zenon DEF VersionsFound
    <3>. QED  BY <2>11, <3>3, <3>4, Zenon
  <2>13. ASSUME NEW t \in Length..(Length + count - 1) PROVE VersionAt(t)' = version
    <3>1. t \in Nat /\ Covers(n, t)'  BY <1>0, <2>8
    <3>2. VersionAt(t)' = segments'[n].version  BY <1>a, <2>2, <2>3, <2>10, <3>1, Zenon DEF VersionsFound
    <3>. QED  BY <2>3, <3>2
  <2>. QED  BY <2>4, <2>10, <2>12, <2>13, Zenon
<1>2. CASE ~(segments # << >> /\ segments[n].version = version)
  <2>1. segments' = Append(segments, Segment(Length, Length + count, version))
    BY <1>n, <1>2, Zenon DEF AppendKV, Mergeable
  <2>2. Segment(Length, Length + count, version) \in KVSegment
    BY <1>0 DEF Segment, KVSegment
  <2>3. /\ Len(segments') = n + 1 /\ DOMAIN segments' = 1..(n + 1)
        /\ segments'[n + 1] = [start |-> Length, stop |-> Length + count, version |-> version]
        /\ \A i \in 1..n : segments'[i] = segments[i]
        /\ HistoryTypeOK'
    BY <1>n, <1>0, <2>1, <2>2 DEF HistoryTypeOK, Segment
  <2>4. Length' = Length + count
    BY <1>0, <2>3 DEF Length
  <2>5. /\ n = 0 => segments = << >> /\ Length = 0
        /\ n > 0 => segments # << >> /\ Length = segments[n].stop
    BY <1>n, <1>0, HistoryShape, Zenon
  <2>6. SegmentsCanonical'
    <3> SUFFICES ASSUME NEW i \in 1..(n + 1)
                 PROVE  /\ segments'[i].start < segments'[i].stop
                        /\ segments'[i].start = IF i = 1 THEN 0 ELSE segments'[i - 1].stop
                        /\ i > 1 => segments'[i].version # segments'[i - 1].version
      BY <2>3, Zenon DEF SegmentsCanonical
    <3>1. CASE i <= n
      <4>1. /\ segments[i].start < segments[i].stop
            /\ segments[i].start = IF i = 1 THEN 0 ELSE segments[i - 1].stop
            /\ i > 1 => segments[i].version # segments[i - 1].version
        BY <1>0, <3>1 DEF HistoryInv, SegmentsCanonical
      <4>2. segments'[i] = segments[i] /\ (i > 1 => segments'[i - 1] = segments[i - 1])
        BY <1>0, <2>3, <3>1
      <4>. QED  BY <4>1, <4>2
    <3>2. CASE i = n + 1
      BY <1>0, <1>2, <2>3, <2>5, <3>2
    <3>. QED  BY <1>0, <3>1, <3>2
  <2>7. SegmentsOrdered'
    <3> SUFFICES ASSUME NEW i \in 1..(n + 1), NEW j \in 1..(n + 1), i < j
                 PROVE  segments'[i].stop <= segments'[j].start
      BY <2>3, Zenon DEF SegmentsOrdered
    <3>1. CASE j <= n
      <4>1. segments[i].stop <= segments[j].start  BY <1>0, <3>1 DEF HistoryInv, SegmentsOrdered
      <4>2. segments'[i] = segments[i] /\ segments'[j] = segments[j]  BY <1>0, <2>3, <3>1
      <4>. QED  BY <4>1, <4>2, Zenon
    <3>2. CASE j = n + 1
      <4>1. i \in 1..n  BY <1>0, <3>2
      <4>2. segments[i].stop <= Length  BY <1>n, <4>1, StopsWithinLength, Zenon
      <4>. QED  BY <2>3, <3>2, <4>1, <4>2
    <3>. QED  BY <1>0, <3>1, <3>2
  <2>8. ASSUME NEW t, NEW i \in 1..n, Covers(i, t)
        PROVE  Covers(i, t)'
    <3>1. segments'[i] = segments[i]  BY <1>0, <2>3, Zenon
    <3>. QED  BY <2>8, <3>1, Zenon DEF Covers
  <2>9. ASSUME NEW t \in Length..(Length + count - 1)
        PROVE  Covers(n + 1, t)'
    <3>1. segments'[n + 1].start = Length /\ segments'[n + 1].stop = Length + count
      BY <2>3
    <3>. QED  BY <1>0, <3>1 DEF Covers
  <2>10. TokensCovered'
    <3> SUFFICES ASSUME NEW t \in 0..(Length' - 1)
                 PROVE  \E i \in DOMAIN segments' : Covers(i, t)'
      BY DEF TokensCovered
    <3>0. t \in 0..(Length + count - 1) /\ DOMAIN segments' = 1..(n + 1)  BY <1>0, <2>3, <2>4
    <3>1. CASE t < Length
      <4>0. t \in 0..(Length - 1)  BY <1>0, <3>0, <3>1
      <4>1. PICK i \in 1..n : Covers(i, t)  BY <1>0, <4>0 DEF HistoryInv, TokensCovered
      <4>2. Covers(i, t)'  BY <2>8, <4>1, Zenon
      <4>3. i \in 1..(n + 1)  BY <1>0
      <4>. QED  BY <3>0, <4>2, <4>3, Zenon
    <3>2. CASE t >= Length
      <4>0. t \in Length..(Length + count - 1)  BY <1>0, <3>0, <3>2
      <4>1. Covers(n + 1, t)'  BY <2>9, <4>0, Zenon
      <4>2. n + 1 \in 1..(n + 1)  BY <1>0
      <4>. QED  BY <3>0, <4>1, <4>2, Zenon
    <3>. QED  BY <1>0, <3>0, <3>1, <3>2
  <2>11. HistoryInv'  BY <2>3, <2>6, <2>7, <2>10, Zenon DEF HistoryInv
  <2>12. ASSUME NEW t \in 0..(Length - 1) PROVE VersionAt(t)' = VersionAt(t)
    <3>1. PICK i \in 1..n : Covers(i, t)  BY <1>0 DEF HistoryInv, TokensCovered
    <3>2. Covers(i, t)' /\ i \in 1..(n + 1) /\ t \in Nat  BY <1>0, <2>3, <2>8, <3>1
    <3>3. VersionAt(t) = segments[i].version  BY <1>n, <1>0, <3>1, VersionOfCovered DEF VersionsFound
    <3>4. VersionAt(t)' = segments'[i].version  BY <1>a, <2>3, <2>11, <3>2, Zenon DEF VersionsFound
    <3>. QED  BY <2>3, <3>3, <3>4, Zenon
  <2>13. ASSUME NEW t \in Length..(Length + count - 1) PROVE VersionAt(t)' = version
    <3>1. t \in Nat /\ Covers(n + 1, t)' /\ n + 1 \in 1..(n + 1)  BY <1>0, <2>9
    <3>2. VersionAt(t)' = segments'[n + 1].version  BY <1>a, <2>3, <2>11, <3>1, Zenon DEF VersionsFound
    <3>. QED  BY <2>3, <3>2
  <2>. QED  BY <2>4, <2>11, <2>12, <2>13
<1>. QED  BY <1>1, <1>2, Zenon

\* retract keeps the invariant and the versions of the retained tokens.
LEMMA RetractStep ==
    ASSUME HistoryInv, NEW length \in Nat, Retract(length)
    PROVE  /\ HistoryInv'
           /\ Length' = length
           /\ \A t \in 0..(length - 1) : VersionAt(t)' = VersionAt(t)
<1>n. PICK n \in Nat : n = Len(segments)
  BY HistoryShape, Zenon DEF HistoryInv
<1>0. /\ Length \in Nat /\ DOMAIN segments = 1..n
      /\ \A i \in 1..n : /\ segments[i] \in KVSegment
                         /\ segments[i].start \in Nat
                         /\ segments[i].stop \in Nat
      /\ length <= Length
  BY <1>n, HistoryShape, Zenon DEF HistoryInv, Retract
<1>b. \A i, j \in 1..n : i < j => segments[i].stop <= segments[j].start
  BY <1>0, Zenon DEF HistoryInv, SegmentsOrdered
<1>a. HistoryInv' => VersionsFound'
  BY VersionOfCovered, PTL
\* The retained segments are the first m, and only the last of them is cut.
<1>1. PICK m \in 0..n :
         /\ Retained(length) = 1..m
         /\ m = 0 => length = 0
         /\ m > 0 => segments[m].start < length /\ length <= segments[m].stop
  <2>1. CASE length = 0
    <3>1. Retained(length) = {}
      BY <1>0, <2>1 DEF Retained
    <3>2. Retained(length) = 1..0  BY <3>1
    <3>3. 0 \in 0..n  OBVIOUS
    <3> WITNESS 0 \in 0..n
    <3>. QED  BY <2>1, <3>2
  <2>2. CASE length # 0
    <3>1. length - 1 \in 0..(Length - 1)  BY <1>0, <2>2
    <3>2. PICK m \in 1..n : Covers(m, length - 1)
      BY <1>0, <3>1, Zenon DEF HistoryInv, TokensCovered
    <3>3. segments[m].start < length /\ length <= segments[m].stop
      BY <1>0, <3>2 DEF Covers
    <3>4. ASSUME NEW i \in 1..n
          PROVE  segments[i].start < length <=> i <= m
      <4>1. CASE i < m
        <5>1. segments[i].stop <= segments[m].start
          BY <1>b, <4>1, Zenon
        <5>2. segments[i].start < segments[i].stop
          BY <1>0, Zenon DEF HistoryInv, SegmentsCanonical
        <5>. QED  BY <1>0, <3>3, <4>1, <5>1, <5>2
      <4>2. CASE i = m  BY <3>3, <4>2
      <4>3. CASE m < i
        <5>1. segments[m].stop <= segments[i].start
          BY <1>b, <4>3, Zenon
        <5>. QED  BY <1>0, <3>3, <4>3, <5>1
      <4>. QED  BY <4>1, <4>2, <4>3
    <3>5. Retained(length) = 1..m
      BY <1>0, <3>4 DEF Retained
    <3>6. m \in 0..n /\ m # 0  OBVIOUS
    <3>. QED  BY <3>3, <3>5, <3>6, Zenon
  <2>. QED  BY <2>1, <2>2
<1>2. segments' = [i \in 1..m |-> Cut(segments[i], length)]
  BY <1>1, Zenon DEF Retract
<1>3. ASSUME NEW i \in 1..m
      PROVE  /\ i \in 1..n
             /\ segments'[i] \in KVSegment
             /\ segments'[i].start = segments[i].start
             /\ segments'[i].version = segments[i].version
             /\ segments'[i].stop = IF i = m THEN length ELSE segments[i].stop
             /\ segments[i].start < length
  <2>1. i \in 1..n /\ m \in 1..n  BY <1>1
  <2>2. segments'[i] = [start |-> segments[i].start, stop |-> Lesser(segments[i].stop, length),
                       version |-> segments[i].version]
    BY <1>2, Zenon DEF Cut, Segment
  <2>3. i \in Retained(length)  BY <1>1, Zenon
  <2>4. segments[i].start < length  BY <1>0, <2>1, <2>3 DEF Retained
  <2>5. Lesser(segments[i].stop, length) = IF i = m THEN length ELSE segments[i].stop
    <3>1. CASE i = m  BY <1>0, <1>1, <2>1, <3>1 DEF Lesser
    <3>2. CASE i # m
      <4>0. i < m  BY <1>1, <3>2
      <4>1. segments[i].stop <= segments[m].start
        BY <1>b, <2>1, <4>0, Zenon
      <4>. QED  BY <1>0, <1>1, <2>1, <3>2, <4>1 DEF Lesser
    <3>. QED  BY <3>1, <3>2, Zenon
  <2>6. Lesser(segments[i].stop, length) \in Nat  BY <1>0, <2>1, Zenon DEF Lesser
  <2>7. segments[i].start < Lesser(segments[i].stop, length)
    BY <1>0, <2>1, <2>4, Zenon DEF Lesser, KVSegment
  <2>8. segments'[i] \in KVSegment  BY <1>0, <2>1, <2>2, <2>6, <2>7 DEF KVSegment
  <2>. QED  BY <2>1, <2>2, <2>4, <2>5, <2>8
<1>4. /\ segments' \in Seq(KVSegment)
      /\ Len(segments') = m /\ DOMAIN segments' = 1..m
  <2>1. segments' \in [1..m -> KVSegment]  BY <1>2, <1>3, Zenon
  <2>. QED  BY <1>1, <2>1
<1>5. Length' = length
  <2>1. CASE m = 0
    <3>1. segments' = << >>  BY <1>4, <2>1, EmptySeq, Zenon
    <3>. QED  BY <1>1, <2>1, <3>1, Zenon DEF Length
  <2>2. CASE m > 0
    <3>1. segments' # << >>  BY <1>4, <2>2, EmptySeq
    <3>2. m \in 1..m  BY <1>1, <2>2
    <3>3. segments'[m].stop = length  BY <1>3, <3>2, Zenon
    <3>. QED  BY <1>4, <3>1, <3>3, Zenon DEF Length
  <2>. QED  BY <1>1, <2>1, <2>2
<1>6. SegmentsCanonical'
  <2> SUFFICES ASSUME NEW i \in 1..m
               PROVE  /\ segments'[i].start < segments'[i].stop
                      /\ segments'[i].start = IF i = 1 THEN 0 ELSE segments'[i - 1].stop
                      /\ i > 1 => segments'[i].version # segments'[i - 1].version
    BY <1>4, Zenon DEF SegmentsCanonical
  <2>1. /\ segments[i].start < segments[i].stop
        /\ segments[i].start = IF i = 1 THEN 0 ELSE segments[i - 1].stop
        /\ i > 1 => segments[i].version # segments[i - 1].version
    BY <1>0, <1>3, Zenon DEF HistoryInv, SegmentsCanonical
  <2>2. segments'[i].start < segments'[i].stop
    BY <1>3, <2>1, Zenon
  <2>3. i > 1 => i - 1 \in 1..m /\ i - 1 # m  BY <1>1
  <2>4. i > 1 => /\ segments'[i - 1].stop = segments[i - 1].stop
                 /\ segments'[i - 1].version = segments[i - 1].version
    BY <1>3, <2>3, Zenon
  <2>. QED  BY <1>3, <2>1, <2>2, <2>4
<1>7. SegmentsOrdered'
  <2> SUFFICES ASSUME NEW i \in 1..m, NEW j \in 1..m, i < j
               PROVE  segments'[i].stop <= segments'[j].start
    BY <1>4, Zenon DEF SegmentsOrdered
  <2>1. segments[i].stop <= segments[j].start  BY <1>0, <1>3, Zenon DEF HistoryInv, SegmentsOrdered
  <2>2. i # m  BY <1>1
  <2>. QED  BY <1>3, <2>1, <2>2, Zenon
<1>8. ASSUME NEW t \in 0..(length - 1)
      PROVE  \E i \in 1..m : Covers(i, t) /\ Covers(i, t)'
  <2>1. t \in 0..(Length - 1)  BY <1>0
  <2>2. PICK i \in 1..n : Covers(i, t)  BY <1>0, <2>1, Zenon DEF HistoryInv, TokensCovered
  <2>3. segments[i].start <= t /\ t < segments[i].stop  BY <2>2, Zenon DEF Covers
  <2>4. i \in 1..m
    <3>1. CASE i <= m  BY <1>1, <3>1
    <3>2. CASE m < i
      <4>1. m \in 1..n /\ m > 0  BY <1>1
      <4>2. segments[m].stop <= segments[i].start
        BY <1>0, <3>2, <4>1, Zenon DEF HistoryInv, SegmentsOrdered
      <4>. QED  BY <1>0, <1>1, <2>3, <4>1, <4>2
    <3>. QED  BY <1>1, <3>1, <3>2
  <2>5. segments'[i].start <= t /\ t < segments'[i].stop
    BY <1>3, <2>3, <2>4
  <2>. QED  BY <2>2, <2>4, <2>5, Zenon DEF Covers
<1>9. TokensCovered'
  <2> SUFFICES ASSUME NEW t \in 0..(Length' - 1)
               PROVE  \E i \in DOMAIN segments' : Covers(i, t)'
    BY DEF TokensCovered
  <2>. QED  BY <1>4, <1>5, <1>8, Zenon
<1>10. HistoryInv'  BY <1>4, <1>6, <1>7, <1>9 DEF HistoryInv, HistoryTypeOK
<1>11. ASSUME NEW t \in 0..(length - 1)
       PROVE  VersionAt(t)' = VersionAt(t)
  <2>1. PICK i \in 1..m : Covers(i, t) /\ Covers(i, t)'  BY <1>8, Zenon
  <2>2. t \in Nat /\ i \in 1..n  BY <1>3
  <2>3. VersionAt(t) = segments[i].version
    BY <1>n, <2>1, <2>2, VersionOfCovered, Zenon DEF VersionsFound
  <2>4. VersionAt(t)' = segments'[i].version
    BY <1>a, <1>4, <1>10, <2>1, <2>2, Zenon DEF VersionsFound
  <2>. QED  BY <1>3, <2>3, <2>4, Zenon
<1>. QED  BY <1>5, <1>10, <1>11, Zenon

\* The invariant is inductive.
LEMMA HistoryInvariant == HistorySpec => []HistoryInv
<1>1. HistoryInit => HistoryInv
  BY EmptySeq DEF HistoryInit, HistoryInv, HistoryTypeOK, SegmentsCanonical, SegmentsOrdered, TokensCovered, Length
<1>2. HistoryInv /\ [HistoryNext]_segments => HistoryInv'
  <2>1. ASSUME HistoryInv, UNCHANGED segments PROVE HistoryInv'
    BY <2>1, Zenon DEF HistoryInv, HistoryTypeOK, SegmentsCanonical, SegmentsOrdered, TokensCovered, Covers, Length
  <2>2. 1..MaxTokens \subseteq Nat \ {0} /\ 0..MaxTokens \subseteq Nat
    BY HistoryAssumption
  <2>. QED  BY <2>1, <2>2, AppendStep, RetractStep, Zenon DEF HistoryNext
<1>. QED  BY <1>1, <1>2, PTL DEF HistorySpec

\* The segments of a history stay canonical, however long it grows.
THEOREM HistoryCanonical == HistorySpec => [](HistoryTypeOK /\ SegmentsCanonical)
BY HistoryInvariant, PTL DEF HistoryInv

\* FrozenKVHistory is a history of token versions: an append adds tokens of
\* its version, a retraction drops the last tokens, and no step changes the
\* version of a token that stays.
THEOREM HistoryImplements == HistorySpec => ImplementsTokenVersions
<1>1. HistoryInit => Abstract!Init
  BY DEF HistoryInit, Abstract!Init, Length
<1> DEFINE T == [t \in 1..Length |-> VersionAt(t - 1)]
<1>2. ASSUME HistoryInv, HistoryNext PROVE Abstract!Next
  <2>0. /\ Length \in Nat /\ Len(T) = Length
        /\ \A t \in 1..Length : T[t] = VersionAt(t - 1)
    BY <1>2, HistoryShape DEF HistoryInv
  <2>1. ASSUME NEW count \in 1..MaxTokens, NEW version \in Versions, AppendKV(count, version)
        PROVE  Abstract!AppendTokens(count, version)
    <3>1. count \in Nat \ {0}  BY HistoryAssumption
    <3>2. /\ Length' = Length + count
          /\ \A t \in 0..(Length - 1) : VersionAt(t)' = VersionAt(t)
          /\ \A t \in Length..(Length + count - 1) : VersionAt(t)' = version
      BY <1>2, <2>1, <3>1, AppendStep, Zenon
    <3>3. ASSUME NEW t \in 1..(Length + count)
          PROVE  VersionAt(t - 1)' = IF t <= Len(T) THEN T[t] ELSE version
      <4>1. CASE t <= Length
        <5>1. t \in 1..Length /\ t - 1 \in 0..(Length - 1)  BY <2>0, <3>1, <4>1
        <5>. QED  BY <2>0, <3>2, <4>1, <5>1, Zenon
      <4>2. CASE ~(t <= Length)
        <5>1. t - 1 \in Length..(Length + count - 1)  BY <2>0, <3>1, <4>2
        <5>. QED  BY <2>0, <3>2, <4>2, <5>1, Zenon
      <4>. QED  BY <4>1, <4>2, Zenon
    <3>4. T' = [t \in 1..(Len(T) + count) |-> IF t <= Len(T) THEN T[t] ELSE version]
      BY <2>0, <3>2, <3>3, Zenon
    <3>5. Len(T) + count <= MaxTokens  BY <2>0, <2>1, Zenon DEF AppendKV
    <3>. QED  BY <3>4, <3>5, Zenon DEF Abstract!AppendTokens
  <2>2. ASSUME NEW length \in 0..MaxTokens, Retract(length)
        PROVE  Abstract!RetractTokens(length)
    <3>1. length \in Nat /\ length <= Length  BY <2>2, HistoryAssumption DEF Retract
    <3>2. /\ Length' = length
          /\ \A t \in 0..(length - 1) : VersionAt(t)' = VersionAt(t)
      BY <1>2, <2>2, <3>1, RetractStep, Zenon
    <3>3. ASSUME NEW t \in 1..length
          PROVE  VersionAt(t - 1)' = T[t]
      <4>1. t \in 1..Length /\ t - 1 \in 0..(length - 1)  BY <2>0, <3>1
      <4>. QED  BY <2>0, <3>2, <4>1, Zenon
    <3>4. T' = [t \in 1..length |-> T[t]]
      BY <3>2, <3>3, Zenon
    <3>. QED  BY <2>0, <3>1, <3>4, Zenon DEF Abstract!RetractTokens
  <2>. QED  BY <1>2, <2>1, <2>2, Zenon DEF HistoryNext, Abstract!Next
<1>3. UNCHANGED segments => UNCHANGED T
  BY DEF Length, VersionAt, SegmentOf, Covers
<1>. QED
  BY <1>1, <1>2, <1>3, HistoryInvariant, PTL DEF HistorySpec, ImplementsTokenVersions, Abstract!Spec
=============================================================================

--------------------------- MODULE CPUStatsProofs ---------------------------
(***************************************************************************)
(* Proofs about CPUStats: the invariant of the cache and the condition     *)
(* under which a counter goes back.                                        *)
(***************************************************************************)
EXTENDS CPUStats, FiniteSetTheorems, TLAPS

-----------------------------------------------------------------------------
(* The operators on readings.                                              *)

LEMMA MergeType ==
    ASSUME NEW old \in Stat, NEW new \in Stat
    PROVE  Merge(old, new) \in Stat
  <1>1. Base(old, new) \in Stat
    BY CPUsAssumption DEF Base, Zero, Stat
  <1> QED
    BY <1>1 DEF Merge, Stat

LEMMA MergeCovers ==
    ASSUME NEW old \in Stat, NEW new \in Stat, NEW m \in Modes
    PROVE  Merge(old, new)[m] >= new[m]
  <1>1. Base(old, new) \in Stat
    BY CPUsAssumption DEF Base, Zero, Stat
  <1> QED
    BY <1>1 DEF Merge, Stat

(* A merged counter is lower than the cached one only after a jump, and    *)
(* then the whole reading is taken.                                        *)
LEMMA MergeBack ==
    ASSUME NEW old \in Stat, NEW new \in Stat, GoesBack(old, Merge(old, new))
    PROVE  /\ Merge(old, new) = new
           /\ old["idle"] - new["idle"] >= JumpBack
  <1>1. JumpsBack(old, new)
    <2>1. SUFFICES ASSUME ~JumpsBack(old, new) PROVE FALSE
      OBVIOUS
    <2>2. Base(old, new) = old
      BY <2>1 DEF Base
    <2> QED
      BY <2>2 DEF GoesBack, Merge, Stat
  <1>2. \A m \in Modes : Base(old, new)[m] = 0
    BY <1>1 DEF Base, Zero
  <1>3. Merge(old, new) = [m \in Modes |-> new[m]]
    BY <1>2 DEF Merge, Stat
  <1> QED
    BY <1>1, <1>3 DEF JumpsBack, Stat

LEMMA ZeroType == Zero \in Stat
  BY DEF Zero, Stat

LEMMA MergeAllType ==
    ASSUME NEW new, IsStats(cache), IsStats(new)
    PROVE  /\ IsStats(MergeAll(new))
           /\ DOMAIN MergeAll(new) = DOMAIN cache \cup DOMAIN new
           /\ \A c \in DOMAIN new : MergeAll(new)[c] = Merge(Cached(c), new[c])
           /\ \A c \in DOMAIN new : Cached(c) \in Stat
  <1>1. \A c \in DOMAIN new : Cached(c) \in Stat
    BY ZeroType DEF Cached, IsStats
  <1>2. \A c \in DOMAIN new : Merge(Cached(c), new[c]) \in Stat
    BY <1>1, MergeType DEF IsStats
  <1>3. \A c \in DOMAIN cache \cup DOMAIN new : MergeAll(new)[c] \in Stat
    BY <1>2 DEF MergeAll, IsStats
  <1> QED
    BY <1>1, <1>3 DEF MergeAll, IsStats

(* The comparison of the two numbers of CPUs finds every CPU that went     *)
(* offline: after the merge the cache has all CPUs of the reading, so      *)
(* equal numbers are equal sets.                                           *)
LEMMA RemoveOfflineExact ==
    ASSUME NEW all, NEW new, IsStats(all), IsStats(new),
           DOMAIN new \subseteq DOMAIN all
    PROVE  /\ IsStats(RemoveOffline(all, new))
           /\ DOMAIN RemoveOffline(all, new) = DOMAIN new
           /\ \A c \in DOMAIN new : RemoveOffline(all, new)[c] = all[c]
  <1>1. CASE Cardinality(DOMAIN new) # Cardinality(DOMAIN all)
    <2>1. RemoveOffline(all, new) = [c \in DOMAIN all \cap DOMAIN new |-> all[c]]
      BY <1>1 DEF RemoveOffline, Keep
    <2> QED
      BY <2>1 DEF IsStats
  <1>2. CASE Cardinality(DOMAIN new) = Cardinality(DOMAIN all)
    <2>1. IsFiniteSet(DOMAIN all)
      BY CPUsAssumption, FS_Subset DEF IsStats
    <2>2. DOMAIN new = DOMAIN all
      BY <1>2, <2>1, FS_Subset
    <2> QED
      BY <1>2, <2>2 DEF RemoveOffline
  <1> QED
    BY <1>1, <1>2

-----------------------------------------------------------------------------
(* The inductive invariant.                                                *)

CacheInv == TypeOK /\ CacheHasMergedCPUs /\ CacheCoversReading

LEMMA Start == Init => CacheInv
  <1> SUFFICES ASSUME Init PROVE CacheInv
    OBVIOUS
  <1>1. IsStats(NoStats)
    BY DEF IsStats, NoStats
  <1>2. TypeOK
    BY <1>1, ZeroType, MachinesAssumption DEF TypeOK, Init
  <1> QED
    BY <1>2 DEF CacheInv, CacheHasMergedCPUs, CacheCoversReading, Init, NoStats

LEMMA KernelStep ==
    ASSUME CacheInv, Kernel
    PROVE  CacheInv' /\ UNCHANGED <<cache, merged, shown>>
  <1> USE DEF CacheInv, TypeOK
  <1>1. PICK c \in CPUs : \/ \E m \in Modes : Count(c, m)
                          \/ StepBack(c) \/ Unplug(c) \/ Plug(c)
    BY DEF Kernel
  <1>2. UNCHANGED <<machine, pc, read, cache, merged, shown>>
    BY <1>1 DEF Count, StepBack, Unplug, Plug
  <1>3. kernel[c] \in Stat
    OBVIOUS
  <1>4. /\ kernel' \in [CPUs -> Stat]
        /\ online' \subseteq CPUs
        /\ plugged' \subseteq CPUs
    <2>1. CASE \E m \in Modes : Count(c, m)
      <3>1. PICK m \in Modes : Count(c, m)
        BY <2>1
      <3>2. [kernel[c] EXCEPT ![m] = kernel[c][m] + 1] \in Stat
        BY <1>3 DEF Stat
      <3>3. kernel' = [kernel EXCEPT ![c] = [kernel[c] EXCEPT ![m] = kernel[c][m] + 1]]
        BY <3>1 DEF Count
      <3>4. UNCHANGED <<online, plugged>>
        BY <3>1 DEF Count
      <3> QED
        BY <3>2, <3>3, <3>4
    <2>2. CASE StepBack(c)
      <3>1. PICK d \in 1..MaxJitter :
              /\ d <= kernel[c]["idle"]
              /\ kernel' = [kernel EXCEPT ![c]["idle"] = @ - d]
        BY <2>2 DEF StepBack
      <3>2. [kernel[c] EXCEPT !["idle"] = kernel[c]["idle"] - d] \in Stat
        BY <1>3, <3>1, CPUsAssumption, JumpAssumption DEF Stat
      <3>3. kernel' = [kernel EXCEPT ![c] =
                         [kernel[c] EXCEPT !["idle"] = kernel[c]["idle"] - d]]
        BY <3>1
      <3>4. UNCHANGED <<online, plugged>>
        BY <2>2 DEF StepBack
      <3> QED
        BY <3>2, <3>3, <3>4
    <2>3. CASE Unplug(c)
      BY <2>3 DEF Unplug
    <2>4. CASE Plug(c)
      <3>1. PICK kept \in SUBSET (Modes \ {"idle"}) :
              kernel' = [kernel EXCEPT ![c] =
                           [m \in Modes |-> IF m \in kept THEN @[m] ELSE 0]]
        BY <2>4 DEF Plug
      <3>2. [m \in Modes |-> IF m \in kept THEN kernel[c][m] ELSE 0] \in Stat
        BY <1>3 DEF Stat
      <3>3. online' \subseteq CPUs /\ UNCHANGED plugged
        BY <2>4 DEF Plug
      <3> QED
        BY <3>1, <3>2, <3>3
    <2> QED
      BY <1>1, <2>1, <2>2, <2>3, <2>4
  <1> QED
    BY <1>2, <1>4 DEF CacheHasMergedCPUs, CacheCoversReading, IsStats

LEMMA ReadStep ==
    ASSUME CacheInv, NEW s \in Scrapes, ReadStat(s)
    PROVE  CacheInv'
  <1> USE DEF CacheInv, TypeOK, ReadStat
  <1>1. IsStats([c \in online |-> kernel[c]])
    BY DEF IsStats
  <1>2. /\ read' = [t \in Scrapes |-> read'[t]]
        /\ \A t \in Scrapes : IsStats(read'[t])
    BY <1>1
  <1>3. pc' \in [Scrapes -> {"idle", "merge", "expose"}]
    OBVIOUS
  <1>4. /\ UNCHANGED <<machine, kernel, online, plugged, cache, merged>>
        /\ IsStats(cache') /\ IsStats(merged') /\ IsStats(shown')
    BY DEF environment
  <1> QED
    BY <1>2, <1>3, <1>4 DEF CacheHasMergedCPUs, CacheCoversReading

LEMMA UpdateStep ==
    ASSUME CacheInv, NEW s \in Scrapes, UpdateCPUStats(s)
    PROVE  CacheInv'
  <1> USE DEF CacheInv, TypeOK
  <1>1. PICK new : new = read[s]
    OBVIOUS
  <1>2. IsStats(new) /\ IsStats(cache)
    BY <1>1
  <1>3. PICK all : all = MergeAll(new)
    OBVIOUS
  <1>4. /\ IsStats(all) /\ DOMAIN new \subseteq DOMAIN all
        /\ \A c \in DOMAIN new : all[c] = Merge(Cached(c), new[c])
        /\ \A c \in DOMAIN new : Cached(c) \in Stat
    BY <1>2, <1>3, MergeAllType
  <1>5. cache' = RemoveOffline(all, new) /\ merged' = new
    BY <1>1, <1>3 DEF UpdateCPUStats
  <1>6. /\ IsStats(cache')
        /\ DOMAIN cache' = DOMAIN new
        /\ \A c \in DOMAIN new : cache'[c] = all[c]
    BY <1>2, <1>4, <1>5, RemoveOfflineExact
  <1>7. \A c \in DOMAIN new : \A m \in Modes : cache'[c][m] >= new[c][m]
    BY <1>2, <1>4, <1>6, MergeCovers DEF IsStats
  <1>8. /\ UNCHANGED <<environment, read, shown>>
        /\ pc' \in [Scrapes -> {"idle", "merge", "expose"}]
    BY DEF UpdateCPUStats
  <1>9. IsStats(merged')
    BY <1>2, <1>5
  <1> QED
    BY <1>5, <1>6, <1>7, <1>8, <1>9
    DEF CacheHasMergedCPUs, CacheCoversReading, environment, IsStats

LEMMA ExposeStep ==
    ASSUME CacheInv, NEW s \in Scrapes, Expose(s)
    PROVE  CacheInv'
  <1> USE DEF CacheInv, TypeOK, Expose
  <1>1. IsStats(NoStats)
    BY DEF IsStats, NoStats
  <1>2. /\ read' = [t \in Scrapes |-> read'[t]]
        /\ \A t \in Scrapes : IsStats(read'[t])
    BY <1>1
  <1>3. pc' \in [Scrapes -> {"idle", "merge", "expose"}]
    OBVIOUS
  <1>4. /\ UNCHANGED <<machine, kernel, online, plugged, cache, merged>>
        /\ IsStats(cache') /\ IsStats(merged') /\ IsStats(shown')
    BY DEF environment
  <1> QED
    BY <1>2, <1>3, <1>4 DEF CacheHasMergedCPUs, CacheCoversReading

LEMMA StutterStep == CacheInv /\ UNCHANGED vars => CacheInv'
  BY DEF CacheInv, TypeOK, CacheHasMergedCPUs, CacheCoversReading, vars,
         environment, IsStats

(* The types, the CPUs of the cache and the lower bound on its counters    *)
(* are invariants of updateStat, for any number of CPUs and scrapes.       *)
THEOREM CacheCorrect == Spec => []CacheInv
  <1>1. CacheInv /\ [Next]_vars => CacheInv'
    BY KernelStep, ReadStep, UpdateStep, ExposeStep, StutterStep DEF Next
  <1> QED
    BY Start, <1>1, PTL DEF Spec

(* The types of the variables.                                             *)
THEOREM TypeCorrect == Spec => []TypeOK
  BY CacheCorrect, PTL DEF CacheInv

(* After every merge the cache has exactly the CPUs of the reading, even   *)
(* though updateCPUStats compares only the numbers of CPUs.                *)
THEOREM CacheHasMergedCPUsHolds == Spec => []CacheHasMergedCPUs
  BY CacheCorrect, PTL DEF CacheInv

(* No cached counter is below the reading merged last.                     *)
THEOREM CacheCoversReadingHolds == Spec => []CacheCoversReading
  BY CacheCorrect, PTL DEF CacheInv

-----------------------------------------------------------------------------
(* The action property.                                                    *)

BackByJump ==
    \A c \in DOMAIN cache \cap DOMAIN cache' :
       GoesBack(cache[c], cache'[c]) =>
          /\ cache[c]["idle"] - cache'[c]["idle"] >= JumpBack
          /\ cache'[c] = merged'[c]

LEMMA UnchangedCache ==
    ASSUME TypeOK, UNCHANGED cache
    PROVE  BackByJump
  BY DEF TypeOK, BackByJump, GoesBack, IsStats, Stat

LEMMA UpdateBackByJump ==
    ASSUME TypeOK, NEW s \in Scrapes, UpdateCPUStats(s)
    PROVE  BackByJump
  <1>1. PICK new : new = read[s]
    OBVIOUS
  <1>2. IsStats(new) /\ IsStats(cache)
    BY <1>1 DEF TypeOK
  <1>3. PICK all : all = MergeAll(new)
    OBVIOUS
  <1>4. /\ IsStats(all) /\ DOMAIN new \subseteq DOMAIN all
        /\ \A c \in DOMAIN new : all[c] = Merge(Cached(c), new[c])
    BY <1>2, <1>3, MergeAllType
  <1>5. cache' = RemoveOffline(all, new) /\ merged' = new
    BY <1>1, <1>3 DEF UpdateCPUStats
  <1>6. /\ DOMAIN cache' = DOMAIN new
        /\ \A c \in DOMAIN new : cache'[c] = all[c]
    BY <1>2, <1>4, <1>5, RemoveOfflineExact
  <1>7. SUFFICES ASSUME NEW c \in DOMAIN cache, c \in DOMAIN new,
                        GoesBack(cache[c], cache'[c])
                 PROVE  /\ cache[c]["idle"] - cache'[c]["idle"] >= JumpBack
                        /\ cache'[c] = new[c]
    BY <1>5, <1>6 DEF BackByJump
  <1>8. cache'[c] = Merge(cache[c], new[c])
    BY <1>4, <1>6, <1>7 DEF Cached
  <1>9. cache[c] \in Stat /\ new[c] \in Stat
    BY <1>2, <1>7 DEF IsStats
  <1> QED
    BY <1>7, <1>8, <1>9, MergeBack

(* A cached counter goes back only together with a jump of that CPU's idle *)
(* counter, and then the CPU's whole reading is taken.                     *)
THEOREM BackOnlyByJumpHolds == Spec => BackOnlyByJump
  <1>1. TypeOK /\ [Next]_vars => [BackByJump]_vars
    <2> SUFFICES ASSUME TypeOK, [Next]_vars PROVE [BackByJump]_vars
      OBVIOUS
    <2>1. CASE UNCHANGED vars
      BY <2>1
    <2>2. CASE \E s \in Scrapes : UpdateCPUStats(s)
      BY <2>2, UpdateBackByJump
    <2>3. CASE Kernel \/ \E s \in Scrapes : ReadStat(s) \/ Expose(s)
      <3>1. UNCHANGED cache
        BY <2>3 DEF Kernel, Count, StepBack, Unplug, Plug, ReadStat, Expose
      <3> QED
        BY <3>1, UnchangedCache
    <2> QED
      BY <2>1, <2>2, <2>3 DEF Next
  <1> QED
    BY <1>1, TypeCorrect, PTL DEF Spec, BackOnlyByJump, BackByJump
=============================================================================

------------------------------ MODULE CPUStats ------------------------------
(***************************************************************************)
(* The cache of CPU counters in cpu_linux.go.  A scrape reads /proc/stat,  *)
(* merges what it read into the cache under cpuStatsMutex, unlocks, and    *)
(* locks again to expose the whole cache; other scrapes run in between.    *)
(* The kernel's idle counters may step back a little, and CPUs come and go. *)
(***************************************************************************)
EXTENDS Integers, FiniteSets

CONSTANTS
    CPUs,           \* CPU numbers
    Modes,          \* counters of a CPU; "idle" is one of them
    Scrapes,        \* scrapes in updateStat at once
    JumpBack,       \* jumpBackSeconds
    MaxJitter,      \* how far the kernel's idle counter may step back
    Machines        \* machines it may run on: the CPUs they have, the modes
                    \* these may be in, and a bound on their counters

ASSUME CPUsAssumption == IsFiniteSet(CPUs) /\ "idle" \in Modes
ASSUME JumpAssumption == JumpBack \in Nat \ {0} /\ MaxJitter \in Nat
ASSUME MachinesAssumption ==
    Machines \subseteq [cpus : SUBSET CPUs, modes : SUBSET Modes, max : Nat]

Stat == [Modes -> Nat]

IsStats(f) ==
    /\ f = [c \in DOMAIN f |-> f[c]]
    /\ DOMAIN f \subseteq CPUs
    /\ \A c \in DOMAIN f : f[c] \in Stat

NoStats == [c \in {} |-> [m \in Modes |-> 0]]
Zero == [m \in Modes |-> 0]

VARIABLES
    machine,        \* the machine it runs on
    kernel,         \* the kernel's counters
    online,         \* CPUs listed in /proc/stat
    plugged,        \* CPUs that were hotplugged at some time
    pc,             \* where each scrape is
    read,           \* what it read from /proc/stat
    cache,          \* c.cpuStats
    merged,         \* the reading merged last
    shown           \* what the scrape that ended last exposed

environment == <<machine, kernel, online, plugged>>
vars == <<environment, pc, read, cache, merged, shown>>

Init ==
    /\ machine \in Machines
    /\ kernel = [c \in CPUs |-> Zero]
    /\ online = machine.cpus
    /\ plugged = {}
    /\ pc = [s \in Scrapes |-> "idle"]
    /\ read = [s \in Scrapes |-> NoStats]
    /\ cache = NoStats
    /\ merged = NoStats
    /\ shown = NoStats

-----------------------------------------------------------------------------
(* The kernel.                                                             *)

Count(c, m) ==
    /\ c \in online /\ m \in machine.modes
    /\ kernel[c][m] < machine.max
    /\ kernel' = [kernel EXCEPT ![c][m] = @ + 1]
    /\ UNCHANGED <<machine, online, plugged, pc, read, cache, merged, shown>>

StepBack(c) ==
    /\ c \in online
    /\ \E d \in 1..MaxJitter :
         /\ d <= kernel[c]["idle"]
         /\ kernel' = [kernel EXCEPT ![c]["idle"] = @ - d]
    /\ UNCHANGED <<machine, online, plugged, pc, read, cache, merged, shown>>

Unplug(c) ==
    /\ c \in online
    /\ online' = online \ {c}
    /\ plugged' = plugged \cup {c}
    /\ UNCHANGED <<machine, kernel, pc, read, cache, merged, shown>>

(* A CPU that comes back starts its idle counter again; whether the other  *)
(* counters are kept depends on the kernel.                                *)
Plug(c) ==
    /\ c \in machine.cpus \ online
    /\ online' = online \cup {c}
    /\ \E kept \in SUBSET (Modes \ {"idle"}) :
         kernel' = [kernel EXCEPT ![c] =
                      [m \in Modes |-> IF m \in kept THEN @[m] ELSE 0]]
    /\ UNCHANGED <<machine, plugged, pc, read, cache, merged, shown>>

-----------------------------------------------------------------------------
(* updateStat and updateCPUStats.                                          *)

ReadStat(s) ==
    /\ pc[s] = "idle"
    /\ read' = [read EXCEPT ![s] = [c \in online |-> kernel[c]]]
    /\ pc' = [pc EXCEPT ![s] = "merge"]
    /\ UNCHANGED <<environment, cache, merged, shown>>

Cached(c) == IF c \in DOMAIN cache THEN cache[c] ELSE Zero

JumpsBack(old, new) == old["idle"] - new["idle"] >= JumpBack

Base(old, new) == IF JumpsBack(old, new) THEN Zero ELSE old

(* Mutant: the last reading wins.                                          *)
TakeNew(old, new) == new

(* Mutant: a reading whose idle counter stepped back is dropped.           *)
DropSteppedBack(old, new) ==
    IF new["idle"] >= Base(old, new)["idle"] THEN new ELSE Base(old, new)

(* Mutant: what is kept is the change since the last reading.              *)
TakeChange(old, new) == [m \in Modes |-> new[m] - Base(old, new)[m]]

Merge(old, new) ==
    [m \in Modes |-> IF new[m] >= Base(old, new)[m] THEN new[m]
                                                    ELSE Base(old, new)[m]]

MergeAll(new) ==
    [c \in DOMAIN cache \cup DOMAIN new |->
        IF c \in DOMAIN new THEN Merge(Cached(c), new[c]) ELSE cache[c]]

Keep(all, cs) == [c \in DOMAIN all \cap cs |-> all[c]]

(* Mutant: the CPUs are counted before the new ones are in the cache.      *)
RemoveOfflineEarly(all, new) ==
    IF Cardinality(DOMAIN new) # Cardinality(DOMAIN cache)
    THEN Keep(all, DOMAIN new) ELSE all

(* Offline CPUs are looked for only when the numbers of CPUs differ.       *)
RemoveOffline(all, new) ==
    IF Cardinality(DOMAIN new) # Cardinality(DOMAIN all)
    THEN Keep(all, DOMAIN new) ELSE all

UpdateCPUStats(s) ==
    /\ pc[s] = "merge"
    /\ cache' = RemoveOffline(MergeAll(read[s]), read[s])
    /\ merged' = read[s]
    /\ pc' = [pc EXCEPT ![s] = "expose"]
    /\ UNCHANGED <<environment, read, shown>>

Expose(s) ==
    /\ pc[s] = "expose"
    /\ shown' = cache
    /\ pc' = [pc EXCEPT ![s] = "idle"]
    /\ read' = [read EXCEPT ![s] = NoStats]
    /\ UNCHANGED <<environment, cache, merged>>

-----------------------------------------------------------------------------
Kernel ==
    \E c \in CPUs : \/ \E m \in Modes : Count(c, m)
                    \/ StepBack(c) \/ Unplug(c) \/ Plug(c)

Next == Kernel \/ \E s \in Scrapes : ReadStat(s) \/ UpdateCPUStats(s) \/ Expose(s)

Spec == Init /\ [][Next]_vars

-----------------------------------------------------------------------------
(* Properties.                                                             *)

(* The types of the variables.                                             *)
TypeOK ==
    /\ machine \in Machines
    /\ kernel \in [CPUs -> Stat]
    /\ online \subseteq CPUs
    /\ plugged \subseteq CPUs
    /\ pc \in [Scrapes -> {"idle", "merge", "expose"}]
    /\ read = [s \in Scrapes |-> read[s]]
    /\ \A s \in Scrapes : IsStats(read[s])
    /\ IsStats(cache) /\ IsStats(merged) /\ IsStats(shown)

(* The cache holds the CPUs of the reading merged last, no CPU that went   *)
(* offline and every CPU that came online, even when one of each leaves    *)
(* their number unchanged.                                                 *)
CacheHasMergedCPUs == DOMAIN cache = DOMAIN merged

(* A cached counter is at least what the last reading says: a scrape never *)
(* loses time it has read itself.                                          *)
CacheCoversReading ==
    \A c \in DOMAIN merged : \A m \in Modes : cache[c][m] >= merged[c][m]

(* A cached counter of a CPU goes back only when that CPU's idle counter   *)
(* goes back by at least JumpBack: small steps back are never exposed, and *)
(* a reset is never partial.                                               *)
GoesBack(old, new) == \E m \in Modes : new[m] < old[m]

BackOnlyByJump ==
    [][\A c \in DOMAIN cache \cap DOMAIN cache' :
          GoesBack(cache[c], cache'[c]) =>
             /\ cache[c]["idle"] - cache'[c]["idle"] >= JumpBack
             /\ cache'[c] = merged'[c]]_vars

(* The comment on the reset takes a jump back for a hotplug event: what is *)
(* exposed goes back only for a CPU that was hotplugged.                   *)
ResetOnlyByHotplug ==
    [][\A c \in DOMAIN shown \cap DOMAIN shown' :
          GoesBack(shown[c], shown'[c]) => c \in plugged]_vars
=============================================================================

-------------------------------- MODULE GPU --------------------------------
(***************************************************************************)
(* The gpu collector (gpu.go, gpu_linux.go) over the NVML library.  A      *)
(* scrape initialises the library, asks for the number of devices, queries *)
(* each, shuts the library down and sends what it has.  The library counts *)
(* its initialisations; GpuCount is a package variable that every scrape   *)
(* writes and reads without a lock.                                        *)
(***************************************************************************)
EXTENDS Integers, Sequences, FiniteSets

CONSTANTS
    Scrapes,
    Hosts,          \* the GPUs a host may have, a sequence for each host
    Labels,         \* what tells GPUs apart: "ID", "UUID" and "Types"
    Failing,        \* those whose call may fail
    Unknown         \* the value of a label whose call has failed

ASSUME LabelsAssumption == "Types" \in Labels /\ Failing \subseteq Labels
ASSUME ScrapesAssumption == IsFiniteSet(Scrapes)

Device == [Labels -> STRING]
ASSUME HostsAssumption == Hosts \subseteq Seq(Device) /\ Unknown \in STRING

VARIABLES
    gpus,           \* the GPUs of the host
    lost,           \* positions of those that have fallen off the bus
    inits,          \* NVML's count of initialisations
    GpuCount,
    recent,         \* history: the counts made since a scrape made its own, with it
    pc,             \* where each scrape is
    num,            \* the number of devices it goes through
    result,         \* the labels of those it has queried
    sent,           \* how many of these it has sent
    counts          \* the values of gpuCount it has sent

host == <<gpus, lost>>
vars == <<host, inits, GpuCount, recent, pc, num, result, sent, counts>>

Init ==
    /\ gpus \in Hosts
    /\ lost = {}
    /\ inits = 0
    /\ GpuCount = 0
    /\ recent = [s \in Scrapes |-> {}]
    /\ pc = [s \in Scrapes |-> "idle"]
    /\ num = [s \in Scrapes |-> 0]
    /\ result = [s \in Scrapes |-> <<>>]
    /\ sent = [s \in Scrapes |-> 0]
    /\ counts = [s \in Scrapes |-> <<>>]

Goto(s, label) == pc' = [pc EXCEPT ![s] = label]

-----------------------------------------------------------------------------
(* The host.  A reload of the driver, which nothing may use then, brings   *)
(* lost devices back.                                                      *)

Lose(i) ==
    /\ i \in DOMAIN gpus
    /\ lost' = lost \cup {i}
    /\ UNCHANGED <<gpus, inits, GpuCount, recent, pc, num, result, sent, counts>>

Reload ==
    /\ inits = 0
    /\ lost' = {}
    /\ UNCHANGED <<gpus, inits, GpuCount, recent, pc, num, result, sent, counts>>

-----------------------------------------------------------------------------
(* gpuCache.Stat.                                                          *)

(* Mutant: Shutdown is deferred before the error of Init is looked at; the *)
(* library does not count below 0.                                         *)
ShutdownAnyway == IF inits > 0 THEN inits - 1 ELSE 0

AfterFailedInit == inits

NvmlInit(s) ==
    /\ pc[s] \in {"idle", "done"}
    /\ \/ inits' = inits + 1 /\ Goto(s, "count")
       \/ inits' = AfterFailedInit /\ Goto(s, "idle")
    /\ num' = [num EXCEPT ![s] = 0]
    /\ result' = [result EXCEPT ![s] = <<>>]
    /\ sent' = [sent EXCEPT ![s] = 0]
    /\ counts' = [counts EXCEPT ![s] = <<>>]
    /\ UNCHANGED <<host, GpuCount, recent>>

(* Mutant: the devices are added up over the scrapes.                      *)
AddedUp(n) == GpuCount + n

SetCount(n) == n

(* A failed call counts 0 devices.                                         *)
DeviceGetCount(s) ==
    /\ pc[s] = "count"
    /\ \E n \in {0, Len(gpus)} :
         /\ num' = [num EXCEPT ![s] = n]
         /\ GpuCount' = SetCount(n)
         /\ recent' = [t \in Scrapes |-> IF t = s THEN {n} ELSE recent[t] \cup {n}]
    /\ Goto(s, "devices")
    /\ UNCHANGED <<host, inits, result, sent, counts>>

Queried(s) == Len(result[s])

(* Mutant: tmp is declared once, outside the loop.                         *)
Leftover(s) == IF result[s] = <<>> THEN [l \in Labels |-> Unknown]
                                   ELSE result[s][Queried(s)]

(* A new tmp for each device.                                              *)
Blank(s) == [l \in Labels |-> Unknown]

(* Without a handle every call fails; with one, some may.  A device that   *)
(* fails is appended all the same.                                         *)
QueryDevice(s) ==
    /\ pc[s] = "devices" /\ Queried(s) < num[s]
    /\ \E failed \in IF Queried(s) + 1 \in lost THEN {Labels} ELSE SUBSET Failing :
         result' = [result EXCEPT ![s] = Append(@,
                      [l \in Labels |-> IF l \in failed THEN Blank(s)[l]
                                        ELSE gpus[Queried(s) + 1][l]])]
    /\ UNCHANGED <<host, inits, GpuCount, recent, pc, num, sent, counts>>

(* The deferred Shutdown at the end of Stat.                               *)
NvmlShutdown(s) ==
    /\ pc[s] = "devices" /\ Queried(s) = num[s]
    /\ inits' = inits - 1
    /\ Goto(s, "send")
    /\ UNCHANGED <<host, GpuCount, recent, num, result, sent, counts>>

-----------------------------------------------------------------------------
(* gpuCollector.updateStat.                                                *)

(* Is this the first of its type?  The host is the same for all.           *)
NotSeen(s) ==
    \A i \in 1..sent[s] : result[s][i]["Types"] # result[s][sent[s] + 1]["Types"]

SendDevice(s) ==
    /\ pc[s] = "send" /\ sent[s] < Queried(s)
    /\ sent' = [sent EXCEPT ![s] = @ + 1]
    /\ counts' = IF NotSeen(s) THEN [counts EXCEPT ![s] = Append(@, GpuCount)]
                              ELSE counts
    /\ UNCHANGED <<host, inits, GpuCount, recent, pc, num, result>>

End(s) ==
    /\ pc[s] = "send" /\ sent[s] = Queried(s)
    /\ Goto(s, "done")
    /\ UNCHANGED <<host, inits, GpuCount, recent, num, result, sent, counts>>

-----------------------------------------------------------------------------
Scrape(s) ==
    \/ NvmlInit(s) \/ DeviceGetCount(s) \/ QueryDevice(s) \/ NvmlShutdown(s)
    \/ SendDevice(s) \/ End(s)

Next == Reload \/ (\E i \in DOMAIN gpus : Lose(i)) \/ \E s \in Scrapes : Scrape(s)

Spec == Init /\ [][Next]_vars

-----------------------------------------------------------------------------
(* Properties.                                                             *)

(* The types of the variables.                                             *)
TypeOK ==
    /\ gpus \in Hosts
    /\ lost \subseteq DOMAIN gpus
    /\ inits \in Nat
    /\ GpuCount \in {0, Len(gpus)}
    /\ recent \in [Scrapes -> SUBSET {0, Len(gpus)}]
    /\ pc \in [Scrapes -> {"idle", "count", "devices", "send", "done"}]
    /\ num \in [Scrapes -> {0, Len(gpus)}]
    /\ result \in [Scrapes -> Seq(Device)]
    /\ sent \in [Scrapes -> Nat]
    /\ counts \in [Scrapes -> Seq({0, Len(gpus)})]

Users == {s \in Scrapes : pc[s] \in {"count", "devices"}}

(* No scrape shuts the library down under another: while a scrape makes    *)
(* calls the library is initialised, and when none does it is not.         *)
InitialisedWhileUsed == inits > 0 <=> Users # {}

(* A device is reported under its own labels or without them, never under  *)
(* another's, and every device that was counted is reported.               *)
OwnLabels ==
    \A s \in Scrapes :
       /\ pc[s] \in {"send", "done"} => Queried(s) = num[s]
       /\ \A i \in 1..Queried(s) : \A l \in Labels :
             result[s][i][l] \in {gpus[i][l], Unknown}

(* A scrape that reports devices also sends a number of them: the one it   *)
(* has counted itself, unless another scrape has counted since (GpuCount   *)
(* is shared, and that count may have failed), or then one of those counts.*)
OwnCount ==
    \A s \in Scrapes :
       /\ \A i \in DOMAIN counts[s] : counts[s][i] \in recent[s]
       /\ pc[s] = "done" /\ num[s] > 0 => counts[s] # <<>>

(* A scrape reports its devices as themselves and the number it counted,   *)
(* whatever fails and whichever scrapes run beside it, but for the counts  *)
(* that others make while it does.                                         *)
ReportsItsOwn == OwnLabels /\ OwnCount

(* "Skip if it has been collected already", says the comment on seen, but  *)
(* the key of seen has a label, the type, that gpuCount has not.           *)
CountSentOnce == \A s \in Scrapes : Len(counts[s]) <= 1
=============================================================================

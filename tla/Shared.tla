-------------------------------- MODULE Shared ---------------------------------
(***************************************************************************)
(* What two scrapes of one collector share, besides what the modules of    *)
(* their own have: the descriptors that netdev, ethtool, netclass,         *)
(* zoneinfo and meminfo_numa keep in a map and make when they first meet a *)
(* name, and the midnight of the leap second that ntp keeps.               *)
(***************************************************************************)
EXTENDS Integers, FiniteSets

CONSTANTS
    Scrapes,    \* scrapes, which run at the same time
    Names,      \* the names of statistics a host may have
    Day,        \* ticks of the clock in a day
    LeapDay,    \* the day a leap second ends
    LastTime    \* bound: the clock stops there

ASSUME DayAssumption == Day \in Nat \ {0}
ASSUME LeapAssumption == LeapDay \in Nat \ {0} /\ LastTime \in Nat

VARIABLES
    collector,      \* the collector that is scraped
    pc,             \* where each scrape is
    todo,           \* the names each has still to send
    name,           \* the name each looks for
    mutex,          \* the scrapes that hold the mutex of the collector
    descs,          \* the map: the scrape that made the descriptor of each name
    time,           \* the clock
    response,       \* the answer of the server to each scrape
    leapMidnight,   \* the midnight that is kept
    announced,      \* whether a scrape has dealt with an announcement
    tolerant        \* whether each scrape has tolerated smearing

vars == <<collector, pc, todo, name, mutex, descs, time, response, leapMidnight, announced, tolerant>>
ntpVars == <<time, response, leapMidnight, announced, tolerant>>
mapVars == <<todo, name, mutex, descs>>

-----------------------------------------------------------------------------
(* Mutant: ethtool takes no mutex.                                         *)
NetDevOnly == {"netdev"}

Guarded == {"netdev", "ethtool"}

DescKeepers == {"netdev", "ethtool", "netclass", "zoneinfo", "meminfo_numa"}

(* The time before any.                                                    *)
Never == -2 * Day

Init ==
    /\ collector \in DescKeepers \cup {"ntp"}
    /\ pc = [s \in Scrapes |-> "idle"]
    /\ todo = [s \in Scrapes |-> {}]
    /\ name = [s \in Scrapes |-> "none"]
    /\ mutex = {}
    /\ descs = <<>>
    /\ time = 0
    /\ response = [s \in Scrapes |-> [time |-> 0, leap |-> FALSE]]
    /\ leapMidnight = Never
    /\ announced = FALSE
    /\ tolerant = [s \in Scrapes |-> FALSE]

-----------------------------------------------------------------------------
(* Descriptors.                                                            *)

StartScrape(s) ==
    /\ collector \in DescKeepers
    /\ pc[s] = "idle"
    /\ \E found \in SUBSET Names : todo' = [todo EXCEPT ![s] = found]
    /\ pc' = [pc EXCEPT ![s] = "next"]
    /\ UNCHANGED <<collector, name, mutex, descs, ntpVars>>

EndScrape(s) ==
    /\ pc[s] = "next"
    /\ todo[s] = {}
    /\ pc' = [pc EXCEPT ![s] = "idle"]
    /\ UNCHANGED <<collector, mapVars, ntpVars>>

(* A scrape that has to takes the mutex; then it starts to read the map.   *)
LookUp(s) ==
    /\ pc[s] = "next"
    /\ collector \in Guarded => mutex = {}
    /\ \E n \in todo[s] : name' = [name EXCEPT ![s] = n] /\ todo' = [todo EXCEPT ![s] = @ \ {n}]
    /\ mutex' = IF collector \in Guarded THEN {s} ELSE mutex
    /\ pc' = [pc EXCEPT ![s] = "reading"]
    /\ UNCHANGED <<collector, descs, ntpVars>>

(* Mutant: the mutex is let go only where a descriptor is stored.          *)
FoundLocked(s) ==
    /\ pc[s] = "reading"
    /\ name[s] \in DOMAIN descs
    /\ pc' = [pc EXCEPT ![s] = "next"]
    /\ UNCHANGED <<collector, mapVars, ntpVars>>

(* The name is there: it is sent, the mutex let go.  Or it starts to write *)
(* the map.                                                                *)
Found(s) ==
    /\ pc[s] = "reading"
    /\ name[s] \in DOMAIN descs
    /\ mutex' = mutex \ {s}
    /\ pc' = [pc EXCEPT ![s] = "next"]
    /\ UNCHANGED <<collector, todo, name, descs, ntpVars>>

NotFound(s) ==
    /\ pc[s] = "reading"
    /\ name[s] \notin DOMAIN descs
    /\ pc' = [pc EXCEPT ![s] = "writing"]
    /\ UNCHANGED <<collector, mapVars, ntpVars>>

Store(s) ==
    /\ pc[s] = "writing"
    /\ descs' = [n \in DOMAIN descs \cup {name[s]} |-> IF n = name[s] THEN s ELSE descs[n]]
    /\ mutex' = mutex \ {s}
    /\ pc' = [pc EXCEPT ![s] = "next"]
    /\ UNCHANGED <<collector, todo, name, ntpVars>>

-----------------------------------------------------------------------------
(* ntp.  The server announces the leap second, perhaps not in every        *)
(* answer, on the day that ends with it.                                   *)

Tick ==
    /\ collector = "ntp"
    /\ time < LastTime
    /\ time' = time + 1
    /\ UNCHANGED <<collector, pc, mapVars, response, leapMidnight, announced, tolerant>>

QueryWithOptions(s) ==
    /\ collector = "ntp"
    /\ pc[s] = "idle"
    /\ \E leap \in BOOLEAN :
         /\ leap => time \div Day = LeapDay - 1
         /\ response' = [response EXCEPT ![s] = [time |-> time, leap |-> leap]]
    /\ pc' = [pc EXCEPT ![s] = "answered"]
    /\ UNCHANGED <<collector, mapVars, time, leapMidnight, announced, tolerant>>

(* The midnight that follows an answer.                                    *)
MidnightAfter(answer) == (answer.time \div Day + 1) * Day

(* Mutant: without an announcement nothing is kept.                        *)
DroppedWithFlag(answer) == IF answer.leap THEN MidnightAfter(answer) ELSE Never

KeptMidnight(answer) == IF answer.leap THEN MidnightAfter(answer) ELSE leapMidnight

(* The section of the mutex: tolerant is whether the answer is of less     *)
(* than a day before or after the midnight that is kept.                   *)
CheckSanity(s) ==
    /\ pc[s] = "answered"
    /\ leapMidnight' = KeptMidnight(response[s])
    /\ announced' = (announced \/ response[s].leap)
    /\ tolerant' = [tolerant EXCEPT ![s] = /\ leapMidnight' - Day < response[s].time
                                           /\ response[s].time < leapMidnight' + Day]
    /\ pc' = [pc EXCEPT ![s] = "idle"]
    /\ UNCHANGED <<collector, mapVars, time, response>>

Next ==
    \/ \E s \in Scrapes : \/ StartScrape(s) \/ EndScrape(s) \/ LookUp(s) \/ Found(s) \/ NotFound(s) \/ Store(s)
                          \/ QueryWithOptions(s) \/ CheckSanity(s)
    \/ Tick

(* A scrape that runs goes on, and one that waits for the mutex gets it,   *)
(* as Go's starvation mode has it.                                         *)
Fairness ==
    \A s \in Scrapes : /\ WF_vars(EndScrape(s) \/ Found(s) \/ NotFound(s) \/ Store(s))
                       /\ SF_vars(LookUp(s))

Spec == Init /\ [][Next]_vars /\ Fairness

-----------------------------------------------------------------------------
(* Types; the mutex is held exactly by those who use a map it guards.      *)
TypeOK ==
    /\ collector \in DescKeepers \cup {"ntp"}
    /\ pc \in [Scrapes -> {"idle", "next", "reading", "writing", "answered"}]
    /\ todo \in [Scrapes -> SUBSET Names]
    /\ name \in [Scrapes -> Names \cup {"none"}]
    /\ mutex = {s \in Scrapes : collector \in {"netdev", "ethtool"} /\ pc[s] \in {"reading", "writing"}}
    /\ DOMAIN descs \subseteq Names /\ \A n \in DOMAIN descs : descs[n] \in Scrapes
    /\ time \in Nat
    /\ response \in [Scrapes -> [time : Nat, leap : BOOLEAN]]
    /\ leapMidnight \in Int
    /\ announced \in BOOLEAN
    /\ tolerant \in [Scrapes -> BOOLEAN]

(* In netdev and in ethtool no scrape uses the map while another writes    *)
(* it, at which the Go runtime ends the process.                           *)
NoMapRace ==
    collector \in {"netdev", "ethtool"} =>
      \A s, t \in Scrapes : pc[s] = "writing" /\ pc[t] \in {"reading", "writing"} => s = t

(* In these two the descriptor of a name is made once and never replaced.  *)
DescsKept ==
    (collector \in {"netdev", "ethtool"}) =>
      \A n \in DOMAIN descs : n \in DOMAIN descs' /\ descs'[n] = descs[n]

(* What the mutex of the two is for: no step leads to a race, and none     *)
(* acts on a check that was made before another scrape's store.            *)
DescsGuarded == [][NoMapRace' /\ DescsKept]_vars

(* Each scrape gets through its names, whatever others do to the mutex.    *)
ScrapesEnd == \A s \in Scrapes : (pc[s] = "next") ~> (pc[s] = "idle")

(* Once the leap second has been announced, an offset is tolerated less    *)
(* than a day before it and less than a day after, in every scrape and in  *)
(* any order of them, also after the server has dropped the announcement;  *)
(* and at no other time.                                                   *)
LeapTolerated ==
    [][\A s \in Scrapes :
         pc[s] = "answered" /\ pc'[s] = "idle" =>
           (tolerant'[s] <=> /\ announced'
                             /\ (LeapDay - 1) * Day < response[s].time
                             /\ response[s].time < (LeapDay + 1) * Day)]_vars
=============================================================================

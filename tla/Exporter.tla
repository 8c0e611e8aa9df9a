------------------------------ MODULE Exporter ------------------------------
(***************************************************************************)
(* The core of the exporter: node_exporter.go and collector/collector.go.  *)
(* A process parses its command line, builds the unfiltered handler (which *)
(* instantiates every enabled collector) and then serves scrapes.  A       *)
(* scrape with collect[] filters builds a handler of its own; every scrape *)
(* runs one goroutine per collector and joins them with a wait group.      *)
(* A panic in a collector, which nothing recovers, ends the process; the   *)
(* service manager starts it again with the same command line.             *)
(***************************************************************************)
EXTENDS Integers, FiniteSets

CONSTANTS
    Collectors,         \* names passed to registerCollector
    DefaultEnabled,     \* those registered with defaultEnabled
    UnknownName,        \* a collect[] value that no collector has
    CommandLines,       \* the command lines the process may be started with
    FilterSets,         \* the sets of collect[] values that requests carry
    Requests,           \* HTTP requests that may be in progress at once
    MaxRequests,        \* --web.max-requests, 0 disables the limit
    Flaky,              \* collectors whose factory may return an error
    Hanging,            \* collectors whose Update may never return
    Panicking           \* collectors whose Update may panic

Settings == {"on", "off", "unset"}
AllCommandLines ==
    [explicit : [Collectors -> Settings], disableDefaults : BOOLEAN]

ASSUME CollectorsAssumption ==
    /\ IsFiniteSet(Collectors)
    /\ UnknownName \notin Collectors
    /\ DefaultEnabled \subseteq Collectors
    /\ Flaky \subseteq Collectors
    /\ Hanging \subseteq Collectors
    /\ Panicking \subseteq Collectors
ASSUME RequestsAssumption == IsFiniteSet(Requests) /\ MaxRequests \in Nat
ASSUME InputsAssumption ==
    /\ CommandLines \subseteq AllCommandLines
    /\ FilterSets \subseteq SUBSET (Collectors \cup {UnknownName})

VARIABLES
    cmdline,            \* the command line, kept by the service manager
    phase,              \* where main is, or "down"
    collectorState,     \* collectorState: is the collector enabled?
    forced,             \* forcedCollectors
    initiated,          \* initiatedCollectors: the cached instance, 0 if none
    built,              \* how many instances the factory has returned
    unfiltered,         \* Collectors map of the unfiltered handler
    slots,              \* in-flight semaphore of the unfiltered handler
    stage,              \* progress of each request
    code,               \* outcome of each request
    filters,            \* its collect[] values
    handler,            \* Collectors map of the handler that serves it
    task,               \* the goroutine of each of its collectors
    outcome,            \* what Update returned to that goroutine
    reported,           \* the collector_success sample the scrape received
    wg                  \* counter of its wait group

process == <<collectorState, forced, initiated, built, unfiltered>>
scrapes == <<slots, stage, code, filters, handler, task, outcome, reported, wg>>
vars == <<cmdline, phase, process, scrapes>>

Phases == {"parse", "main", "handler", "serving", "down"}
Stages == {"idle", "build", "admit", "collect", "done"}
Codes == {"none", "ok", "bad", "busy", "lost"}
Running == {"update", "report", "exit"}
Tasks == Running \cup {"none", "done"}
Outcomes == {"ok", "nodata", "error"}

NoInstances == [c \in Collectors |-> 0]
NoTasks == [c \in Collectors |-> "none"]

-----------------------------------------------------------------------------
(* Process start: package variables, then main up to ListenAndServe.       *)

FreshProcess ==
    /\ collectorState' = [c \in Collectors |-> FALSE]
    /\ forced' = {}
    /\ initiated' = NoInstances
    /\ built' = NoInstances
    /\ unfiltered' = NoInstances

Init ==
    /\ cmdline \in CommandLines
    /\ phase = "parse"
    /\ collectorState = [c \in Collectors |-> FALSE]
    /\ forced = {}
    /\ initiated = NoInstances
    /\ built = NoInstances
    /\ unfiltered = NoInstances
    /\ slots = 0
    /\ stage = [r \in Requests |-> "idle"]
    /\ code = [r \in Requests |-> "none"]
    /\ filters = [r \in Requests |-> {}]
    /\ handler = [r \in Requests |-> NoInstances]
    /\ task = [r \in Requests |-> NoTasks]
    /\ outcome = [r \in Requests |-> NoTasks]
    /\ reported = [r \in Requests |-> NoTasks]
    /\ wg = [r \in Requests |-> 0]

(* kingpin.Parse: every flag gets its default or the value given, and the  *)
(* action of a flag that was given records it in forcedCollectors.         *)
ParseFlags ==
    /\ phase = "parse"
    /\ phase' = "main"
    /\ collectorState' =
         [c \in Collectors |->
            \/ cmdline.explicit[c] = "on"
            \/ cmdline.explicit[c] = "unset" /\ c \in DefaultEnabled]
    /\ forced' = {c \in Collectors : cmdline.explicit[c] # "unset"}
    /\ UNCHANGED <<cmdline, initiated, built, unfiltered, scrapes>>

(* Mutant: explicitly enabled collectors are switched off as well.         *)
DisableEverything == [c \in Collectors |-> FALSE]

AfterDisableDefaults == [c \in Collectors |-> collectorState[c] /\ c \in forced]

ApplyDefaults ==
    /\ phase = "main"
    /\ phase' = "handler"
    /\ collectorState' = IF cmdline.disableDefaults THEN AfterDisableDefaults
                                                    ELSE collectorState
    /\ UNCHANGED <<cmdline, forced, initiated, built, unfiltered, scrapes>>

-----------------------------------------------------------------------------
(* NewNodeCollector: filters are validated, then, under the mutex, the     *)
(* wanted collectors are taken from the cache or made by their factories.  *)

Enabled == {c \in Collectors : collectorState[c]}

(* Mutant: a disabled collector passes for an enabled one.                 *)
UnknownFilter(f) == ~(f \subseteq Collectors)

BadFilter(f) == ~(f \subseteq Enabled)

(* Mutant: the filters are validated but not applied.                      *)
WantedUnfiltered(f) == Enabled

Wanted(f) == {c \in Enabled : f = {} \/ c \in f}

(* Mutant: initiatedCollectors is never consulted.                         *)
MissingUncached(f) == Wanted(f)

Missing(f) == {c \in Wanted(f) : initiated[c] = 0}

Instances(f) ==
    [c \in Collectors |-> IF c \notin Wanted(f) THEN 0
                          ELSE IF c \in Missing(f) THEN built[c] + 1
                          ELSE initiated[c]]

MakeInstances(cs) ==
    /\ initiated' = [c \in Collectors |-> IF c \in cs THEN built[c] + 1
                                                      ELSE initiated[c]]
    /\ built' = [c \in Collectors |-> IF c \in cs THEN built[c] + 1
                                                  ELSE built[c]]

NewNodeCollector(f) == ~BadFilter(f) /\ MakeInstances(Missing(f))

(* The first factory to fail ends the loop; those that ran before it, in   *)
(* the random order of a map, stay in initiatedCollectors.                 *)
NewNodeCollectorFails(f) ==
    \/ BadFilter(f) /\ UNCHANGED <<initiated, built>>
    \/ /\ ~BadFilter(f)
       /\ \E c \in Missing(f) \cap Flaky :
            \E before \in SUBSET (Missing(f) \ {c}) : MakeInstances(before)

NewHandler ==
    /\ phase = "handler"
    /\ NewNodeCollector({})
    /\ unfiltered' = Instances({})
    /\ phase' = "serving"
    /\ UNCHANGED <<cmdline, collectorState, forced, scrapes>>

NewHandlerPanics ==
    /\ phase = "handler"
    /\ NewNodeCollectorFails({})
    /\ phase' = "down"
    /\ UNCHANGED <<cmdline, collectorState, forced, unfiltered, scrapes>>

-----------------------------------------------------------------------------
(* ServeHTTP.                                                              *)

Arrive(r) ==
    /\ phase = "serving"
    /\ stage[r] = "idle"
    /\ \E f \in FilterSets :
         /\ filters' = [filters EXCEPT ![r] = f]
         /\ stage' = [stage EXCEPT ![r] = IF f = {} THEN "admit" ELSE "build"]
         /\ handler' = [handler EXCEPT ![r] = IF f = {} THEN unfiltered
                                                        ELSE NoInstances]
    /\ UNCHANGED <<cmdline, phase, process, slots, code, task, outcome,
                   reported, wg>>

BuildFiltered(r) ==
    /\ stage[r] = "build"
    /\ NewNodeCollector(filters[r])
    /\ handler' = [handler EXCEPT ![r] = Instances(filters[r])]
    /\ stage' = [stage EXCEPT ![r] = "admit"]
    /\ UNCHANGED <<cmdline, phase, collectorState, forced, unfiltered, slots,
                   code, filters, task, outcome, reported, wg>>

RejectFiltered(r) ==
    /\ stage[r] = "build"
    /\ NewNodeCollectorFails(filters[r])
    /\ stage' = [stage EXCEPT ![r] = "done"]
    /\ code' = [code EXCEPT ![r] = "bad"]
    /\ UNCHANGED <<cmdline, phase, collectorState, forced, unfiltered, slots,
                   filters, handler, task, outcome, reported, wg>>

(* Mutant: one request too many is let in.                                 *)
SaturatedLate(r) == MaxRequests > 0 /\ filters[r] = {} /\ slots > MaxRequests

(* promhttp: MaxRequestsInFlight bounds the requests of ONE handler, and   *)
(* only the unfiltered handler serves more than one.                       *)
Saturated(r) == MaxRequests > 0 /\ filters[r] = {} /\ slots >= MaxRequests

Scope(r) == {c \in Collectors : handler[r][c] # 0}

TakeSlot(r) == IF filters[r] = {} THEN slots + 1 ELSE slots
FreeSlot(r) == IF filters[r] = {} THEN slots - 1 ELSE slots

(* Mutants: the wait group starts one short, or one too high.              *)
WgSizeShort(r) == IF Scope(r) = {} THEN 0 ELSE Cardinality(Scope(r)) - 1
WgSizeHigh(r) == Cardinality(Scope(r)) + 1

WgSize(r) == Cardinality(Scope(r))

(* The handler is entered: Gather calls Collect, which sizes its wait      *)
(* group and starts a goroutine per collector.                             *)
Admit(r) ==
    /\ stage[r] = "admit"
    /\ ~Saturated(r)
    /\ slots' = TakeSlot(r)
    /\ stage' = [stage EXCEPT ![r] = "collect"]
    /\ wg' = [wg EXCEPT ![r] = WgSize(r)]
    /\ task' = [task EXCEPT ![r] =
                  [c \in Collectors |-> IF c \in Scope(r) THEN "update"
                                                          ELSE "none"]]
    /\ UNCHANGED <<cmdline, phase, process, code, filters, handler, outcome,
                   reported>>

RejectBusy(r) ==
    /\ stage[r] = "admit"
    /\ Saturated(r)
    /\ stage' = [stage EXCEPT ![r] = "done"]
    /\ code' = [code EXCEPT ![r] = "busy"]
    /\ UNCHANGED <<cmdline, phase, process, slots, filters, handler, task,
                   outcome, reported, wg>>

-----------------------------------------------------------------------------
(* Collect and execute: one goroutine per collector.                       *)

UpdateReturns(r, c) ==
    /\ task[r][c] = "update"
    /\ \E o \in Outcomes : outcome' = [outcome EXCEPT ![r][c] = o]
    /\ task' = [task EXCEPT ![r][c] = "report"]
    /\ UNCHANGED <<cmdline, phase, process, slots, stage, code, filters,
                   handler, reported, wg>>

(* Mutant: only errors are turned into 0.                                  *)
SuccessSampleRaw(o) == IF o = "ok" THEN "1" ELSE IF o = "error" THEN "0" ELSE o

SuccessSample(o) == IF o = "ok" THEN "1" ELSE "0"

Report(r, c) ==
    /\ task[r][c] = "report"
    /\ reported' = [reported EXCEPT ![r][c] = SuccessSample(outcome[r][c])]
    /\ task' = [task EXCEPT ![r][c] = "exit"]
    /\ UNCHANGED <<cmdline, phase, process, slots, stage, code, filters,
                   handler, outcome, wg>>

WgDone(r, c) ==
    /\ task[r][c] = "exit"
    /\ wg' = [wg EXCEPT ![r] = @ - 1]
    /\ task' = [task EXCEPT ![r][c] = "done"]
    /\ UNCHANGED <<cmdline, phase, process, slots, stage, code, filters,
                   handler, outcome, reported>>

(* wg.Wait returns, Collect and Gather return, the answer is written and   *)
(* the deferred release gives the slot back.                               *)
Finish(r) ==
    /\ stage[r] = "collect"
    /\ wg[r] = 0
    /\ stage' = [stage EXCEPT ![r] = "done"]
    /\ code' = [code EXCEPT ![r] = "ok"]
    /\ slots' = FreeSlot(r)
    /\ UNCHANGED <<cmdline, phase, process, filters, handler, task, outcome,
                   reported, wg>>

(* The client has its answer; the request's identity may be used again.    *)
Forget(r) ==
    /\ stage[r] = "done"
    /\ stage' = [stage EXCEPT ![r] = "idle"]
    /\ code' = [code EXCEPT ![r] = "none"]
    /\ filters' = [filters EXCEPT ![r] = {}]
    /\ handler' = [handler EXCEPT ![r] = NoInstances]
    /\ task' = [task EXCEPT ![r] = NoTasks]
    /\ outcome' = [outcome EXCEPT ![r] = NoTasks]
    /\ reported' = [reported EXCEPT ![r] = NoTasks]
    /\ wg' = [wg EXCEPT ![r] = 0]
    /\ UNCHANGED <<cmdline, phase, process, slots>>

-----------------------------------------------------------------------------
(* A panic in Update kills the process and every scrape in progress.       *)

InProgress(r) == stage[r] \in {"build", "admit", "collect"}

UpdatePanics(r, c) ==
    /\ c \in Panicking
    /\ task[r][c] = "update"
    /\ phase' = "down"
    /\ stage' = [q \in Requests |-> IF InProgress(q) THEN "done" ELSE stage[q]]
    /\ code' = [q \in Requests |-> IF InProgress(q) THEN "lost" ELSE code[q]]
    /\ task' = [q \in Requests |-> IF InProgress(q) THEN NoTasks ELSE task[q]]
    /\ wg' = [q \in Requests |-> IF InProgress(q) THEN 0 ELSE wg[q]]
    /\ slots' = 0
    /\ UNCHANGED <<cmdline, process, filters, handler, outcome, reported>>

Restart ==
    /\ phase = "down"
    /\ phase' = "parse"
    /\ FreshProcess
    /\ UNCHANGED <<cmdline, scrapes>>

-----------------------------------------------------------------------------
Startup == ParseFlags \/ ApplyDefaults \/ NewHandler \/ NewHandlerPanics
              \/ Restart

Serve(r) ==
    \/ BuildFiltered(r) \/ RejectFiltered(r)
    \/ Admit(r) \/ RejectBusy(r)
    \/ Finish(r)

Goroutine(r, c) == UpdateReturns(r, c) \/ Report(r, c) \/ WgDone(r, c)

Next ==
    \/ Startup
    \/ \E r \in Requests : Arrive(r) \/ Serve(r) \/ Forget(r)
    \/ \E r \in Requests, c \in Collectors :
         Goroutine(r, c) \/ UpdatePanics(r, c)

Spec == Init /\ [][Next]_vars

(* The Go scheduler runs every goroutine that can run.  Update returns     *)
(* unless the collector hangs; clients and panics owe nothing.             *)
Fairness ==
    /\ WF_vars(Startup)
    /\ \A r \in Requests : WF_vars(Serve(r))
    /\ \A r \in Requests, c \in Collectors :
         /\ WF_vars(Report(r, c) \/ WgDone(r, c))
         /\ c \notin Hanging => WF_vars(UpdateReturns(r, c))

FairSpec == Spec /\ Fairness

-----------------------------------------------------------------------------
(* Properties.                                                             *)

(* The types of the variables.                                             *)
TypeOK ==
    /\ cmdline \in AllCommandLines
    /\ phase \in Phases
    /\ collectorState \in [Collectors -> BOOLEAN]
    /\ forced \in SUBSET Collectors
    /\ initiated \in [Collectors -> Nat]
    /\ built \in [Collectors -> Nat]
    /\ unfiltered \in [Collectors -> Nat]
    /\ slots \in Int
    /\ stage \in [Requests -> Stages]
    /\ code \in [Requests -> Codes]
    /\ filters \in [Requests -> SUBSET (Collectors \cup {UnknownName})]
    /\ handler \in [Requests -> [Collectors -> Nat]]
    /\ task \in [Requests -> [Collectors -> Tasks]]
    /\ outcome \in [Requests -> [Collectors -> Outcomes \cup {"none"}]]
    /\ reported \in [Requests -> [Collectors -> {"none", "0", "1"}]]
    /\ wg \in [Requests -> Int]

(* What the command line asks for: a collector is enabled when its flag    *)
(* says so or, unset, when it is on by default and the defaults are kept.  *)
EnabledBy(cl) ==
    {c \in Collectors :
        \/ cl.explicit[c] = "on"
        \/ /\ cl.explicit[c] = "unset"
           /\ c \in DefaultEnabled
           /\ ~cl.disableDefaults}

(* A collector is instantiated once in the life of a process, and a        *)
(* goroutine only ever runs the Update of that cached instance: the state  *)
(* a collector keeps between scrapes is never split over two instances.    *)
OneInstance ==
    /\ \A c \in Collectors : built[c] <= 1 /\ initiated[c] = built[c]
    /\ \A r \in Requests, c \in Collectors :
         task[r][c] \in Running => handler[r][c] = initiated[c]

(* Once the process serves, the unfiltered handler holds an instance of    *)
(* exactly the collectors the command line enables, so a filtered request  *)
(* never calls a factory (whose error would be answered with a 400).       *)
ServesCommandLine ==
    phase = "serving" =>
        \A c \in Collectors :
            (unfiltered[c] # 0) = (c \in EnabledBy(cmdline))

(* A 200 answer carries a collector_success sample for exactly the enabled *)
(* collectors the request asked for, no fewer (a goroutine not waited for) *)
(* and no more (a filter or a disabled collector ignored).                 *)
AnswerInScope ==
    \A r \in Requests : code[r] = "ok" =>
        {c \in Collectors : reported[r][c] # "none"} =
            {c \in EnabledBy(cmdline) : filters[r] = {} \/ c \in filters[r]}

(* A request gets a 400 if and only if one of its filters does not name an *)
(* enabled collector: a failing factory is never blamed on the client.     *)
BadRequestIsClients ==
    \A r \in Requests :
        /\ code[r] = "bad" => ~(filters[r] \subseteq EnabledBy(cmdline))
        /\ code[r] = "ok" => filters[r] \subseteq EnabledBy(cmdline)

(* The wait group counts the goroutines still running, and no goroutine    *)
(* outlives its Collect: one that did would send on a closed channel.      *)
NoGoroutineOutlivesCollect ==
    \A r \in Requests :
        /\ stage[r] = "collect" =>
             wg[r] = Cardinality({c \in Collectors : task[r][c] \in Running})
        /\ \A c \in Collectors : task[r][c] \in Running => stage[r] = "collect"

(* The semaphore of the unfiltered handler counts the unfiltered scrapes   *)
(* in progress and never exceeds its limit, whatever ends a scrape.        *)
UnfilteredScrapes ==
    {r \in Requests : stage[r] = "collect" /\ filters[r] = {}}

SlotsAccounted ==
    /\ slots = Cardinality(UnfilteredScrapes)
    /\ MaxRequests > 0 => slots <= MaxRequests

(* Unfiltered scrapes that hang in a collector take every slot, but a      *)
(* filtered scrape is never turned away with a 503 because of them.        *)
FilteredNeverBusy == \A r \in Requests : code[r] = "busy" => filters[r] = {}

(* A scrape whose collectors all return is answered (or lost in a crash),  *)
(* even while other scrapes hang: nothing is shared that they could hold.  *)
HealthyScrapeAnswered ==
    \A r \in Requests :
        (InProgress(r) /\ filters[r] # {} /\ filters[r] \cap Hanging = {})
            ~> (stage[r] = "done")

(* Where no collector hangs, a semaphore that is full empties again: every *)
(* scrape that took a slot gives it back.                                  *)
SlotsRecover == (slots = MaxRequests) ~> (slots < MaxRequests)

(* The exporter implements the service ScrapeService promises: what a      *)
(* client sees of a request is its outcome, its filters and, in a 200, the *)
(* collector_success samples.                                              *)
RequestState ==
    [r \in Requests |-> IF stage[r] = "idle" THEN "none"
                        ELSE IF stage[r] = "done" THEN code[r]
                        ELSE "pending"]

AnswerSamples ==
    [r \in Requests |-> IF code[r] = "ok" THEN reported[r] ELSE NoTasks]

Service == INSTANCE ScrapeService
    WITH Names <- Collectors \cup {UnknownName}, Limit <- MaxRequests,
         served <- EnabledBy(cmdline), state <- RequestState,
         ask <- filters, samples <- AnswerSamples

ImplementsService == Service!Spec
=============================================================================

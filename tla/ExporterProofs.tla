--------------------------- MODULE ExporterProofs ---------------------------
(***************************************************************************)
(* Proofs about Exporter, for every set of collectors, command lines,      *)
(* filters and requests.  The invariant is built in layers, each inductive *)
(* relative to those before it: types, the process, the scrapes, the wait  *)
(* groups and the semaphore.                                               *)
(***************************************************************************)
EXTENDS Exporter, FiniteSetTheorems, TLAPS

(* What main has established at each point of its run.  While the process  *)
(* serves, every enabled collector is in the cache and none is missing.    *)
Parsed == [c \in Collectors |-> \/ cmdline.explicit[c] = "on"
                                \/ cmdline.explicit[c] = "unset"
                                     /\ c \in DefaultEnabled]

ProcessInv ==
    /\ phase = "main" =>
         /\ collectorState = Parsed
         /\ forced = {c \in Collectors : cmdline.explicit[c] # "unset"}
    /\ phase \in {"handler", "serving"} => Enabled = EnabledBy(cmdline)
    /\ \A c \in Collectors : built[c] <= 1 /\ initiated[c] = built[c]
    /\ phase = "serving" => \A c \in Collectors :
         IF c \in Enabled THEN initiated[c] # 0 /\ unfiltered[c] = initiated[c]
                          ELSE unfiltered[c] = 0
    /\ phase # "serving" => \A r \in Requests : ~InProgress(r)

(* What is true of a scrape at each stage: it asks for enabled collectors  *)
(* only, its handler holds the cached instance of each, and its goroutines *)
(* and samples are those of the collectors it asks for.                    *)
Asked(r) == {c \in EnabledBy(cmdline) : filters[r] = {} \/ c \in filters[r]}

ScrapeInvOf(r) ==
    /\ stage[r] \in {"admit", "collect"} =>
         /\ filters[r] \subseteq EnabledBy(cmdline)
         /\ \A c \in Collectors :
              IF c \in Asked(r) THEN handler[r][c] = initiated[c]
                                     /\ handler[r][c] # 0
                                ELSE handler[r][c] = 0
    /\ stage[r] \in {"idle", "build", "admit"} => \A c \in Collectors :
         task[r][c] = "none" /\ reported[r][c] = "none"
    /\ stage[r] = "collect" => \A c \in Collectors :
         /\ (task[r][c] # "none") = (c \in Asked(r))
         /\ (reported[r][c] # "none") = (task[r][c] \in {"exit", "done"})
    /\ stage[r] # "collect" => \A c \in Collectors : task[r][c] \notin Running
    /\ (stage[r] # "done") = (code[r] = "none")
    /\ code[r] = "ok" =>
         /\ filters[r] \subseteq EnabledBy(cmdline)
         /\ {c \in Collectors : reported[r][c] # "none"} = Asked(r)
    /\ code[r] = "bad" => ~(filters[r] \subseteq EnabledBy(cmdline))

ScrapeInv == \A r \in Requests : ScrapeInvOf(r)

(* The goroutines a wait group has to wait for.                            *)
RunningTasks(r) == {c \in Collectors : task[r][c] \in Running}

WgInv == \A r \in Requests :
    stage[r] = "collect" => wg[r] = Cardinality(RunningTasks(r))

-----------------------------------------------------------------------------
(* Making instances, or none, keeps the types of the cache.                *)
LEMMA MakeInstancesTyped ==
    ASSUME initiated \in [Collectors -> Nat], built \in [Collectors -> Nat],
           NEW cs, MakeInstances(cs) \/ UNCHANGED <<initiated, built>>
    PROVE  initiated' \in [Collectors -> Nat] /\ built' \in [Collectors -> Nat]
<1>1. CASE MakeInstances(cs)  BY <1>1 DEF MakeInstances
<1>2. CASE UNCHANGED <<initiated, built>>  BY <1>2
<1>3. QED  BY <1>1, <1>2

(* The variables keep their types in every behaviour of the exporter.      *)
THEOREM TypeCorrect == Spec => []TypeOK
<1> USE DEF TypeOK, Phases, Stages, Codes, Tasks, Running, Outcomes, Settings,
            AllCommandLines, NoInstances, NoTasks
<1>1. Init => TypeOK
  BY CollectorsAssumption, InputsAssumption DEF Init
<1>2. TypeOK /\ [Next]_vars => TypeOK'
  <2> SUFFICES ASSUME TypeOK, [Next]_vars PROVE TypeOK'
    OBVIOUS
  <2>1. CASE ParseFlags
    BY <2>1 DEF ParseFlags, scrapes
  <2>2. CASE ApplyDefaults
    BY <2>2 DEF ApplyDefaults, AfterDisableDefaults, scrapes
  <2>3. CASE NewHandler
    BY <2>3 DEF NewHandler, NewNodeCollector, MakeInstances, Instances, scrapes
  <2>4. CASE NewHandlerPanics
    <3>1. PICK cs \in SUBSET Collectors :
               MakeInstances(cs) \/ UNCHANGED <<initiated, built>>
      BY <2>4 DEF NewHandlerPanics, NewNodeCollectorFails, Missing, Wanted, Enabled
    <3>2. initiated' \in [Collectors -> Nat] /\ built' \in [Collectors -> Nat]
      BY <3>1, MakeInstancesTyped
    <3>3. QED  BY <2>4, <3>2 DEF NewHandlerPanics, scrapes
  <2>5. CASE Restart
    BY <2>5 DEF Restart, FreshProcess, scrapes
  <2>6. ASSUME NEW r \in Requests, Arrive(r) PROVE TypeOK'
    BY <2>6, InputsAssumption DEF Arrive, process
  <2>7. ASSUME NEW r \in Requests, BuildFiltered(r) PROVE TypeOK'
    BY <2>7 DEF BuildFiltered, NewNodeCollector, MakeInstances, Instances
  <2>8. ASSUME NEW r \in Requests, RejectFiltered(r) PROVE TypeOK'
    <3>1. PICK cs \in SUBSET Collectors :
               MakeInstances(cs) \/ UNCHANGED <<initiated, built>>
      BY <2>8 DEF RejectFiltered, NewNodeCollectorFails, Missing, Wanted, Enabled
    <3>2. initiated' \in [Collectors -> Nat] /\ built' \in [Collectors -> Nat]
      BY <3>1, MakeInstancesTyped
    <3>3. QED  BY <2>8, <3>2 DEF RejectFiltered
  <2>9. ASSUME NEW r \in Requests, Admit(r) PROVE TypeOK'
    <3>1. Cardinality(Scope(r)) \in Nat
      BY CollectorsAssumption, FS_Subset, FS_CardinalityType DEF Scope
    <3>2. QED  BY <2>9, <3>1 DEF Admit, TakeSlot, WgSize, process
  <2>10. ASSUME NEW r \in Requests, RejectBusy(r) PROVE TypeOK'
    BY <2>10 DEF RejectBusy, process
  <2>11. ASSUME NEW r \in Requests, Finish(r) PROVE TypeOK'
    BY <2>11 DEF Finish, FreeSlot, process
  <2>12. ASSUME NEW r \in Requests, Forget(r) PROVE TypeOK'
    BY <2>12 DEF Forget, process
  <2>13. ASSUME NEW r \in Requests, NEW c \in Collectors, UpdateReturns(r, c)
         PROVE TypeOK'
    BY <2>13 DEF UpdateReturns, process
  <2>14. ASSUME NEW r \in Requests, NEW c \in Collectors, Report(r, c)
         PROVE TypeOK'
    BY <2>14 DEF Report, SuccessSample, process
  <2>15. ASSUME NEW r \in Requests, NEW c \in Collectors, WgDone(r, c)
         PROVE TypeOK'
    BY <2>15 DEF WgDone, process
  <2>16. ASSUME NEW r \in Requests, NEW c \in Collectors, UpdatePanics(r, c)
         PROVE TypeOK'
    BY <2>16 DEF UpdatePanics, process
  <2>17. CASE UNCHANGED vars
    BY <2>17 DEF vars, process, scrapes
  <2>18. QED
    BY <2>1, <2>2, <2>3, <2>4, <2>5, <2>6, <2>7, <2>8, <2>9, <2>10, <2>11,
       <2>12, <2>13, <2>14, <2>15, <2>16, <2>17
       DEF Next, Startup, Serve, Goroutine
<1>3. QED  BY <1>1, <1>2, PTL DEF Spec

-----------------------------------------------------------------------------
(* While the process serves, no factory is left to call: building a        *)
(* filtered handler leaves the cache alone and fails for filters only.     *)
LEMMA NothingMissing ==
    ASSUME TypeOK, ProcessInv, phase = "serving", NEW f
    PROVE  /\ Missing(f) = {}
           /\ NewNodeCollector(f) => ~BadFilter(f) /\ UNCHANGED <<initiated, built>>
           /\ NewNodeCollectorFails(f) => BadFilter(f) /\ UNCHANGED <<initiated, built>>
<1>1. Missing(f) = {}
  BY DEF ProcessInv, Missing, Wanted, Enabled
<1>2. ASSUME NewNodeCollector(f)
      PROVE  ~BadFilter(f) /\ UNCHANGED <<initiated, built>>
  <2>1. MakeInstances({})
    BY <1>1, <1>2 DEF NewNodeCollector
  <2>2. QED  BY <2>1, <1>2 DEF MakeInstances, TypeOK, NewNodeCollector
<1>3. ASSUME NewNodeCollectorFails(f)
      PROVE  BadFilter(f) /\ UNCHANGED <<initiated, built>>
  BY <1>1, <1>3 DEF NewNodeCollectorFails
<1>4. QED  BY <1>1, <1>2, <1>3

(* Instances are only made of collectors the cache lacks, so each is made  *)
(* once.                                                                   *)
LEMMA MadeOnce ==
    ASSUME TypeOK, ProcessInv, NEW cs, MakeInstances(cs),
           \A c \in cs : initiated[c] = 0
    PROVE  \A c \in Collectors : built'[c] <= 1 /\ initiated'[c] = built'[c]
<1>1. \A c \in Collectors : built[c] \in Nat /\ built[c] <= 1 /\ initiated[c] = built[c]
  BY DEF TypeOK, ProcessInv
<1>2. QED  BY <1>1 DEF MakeInstances

THEOREM ProcessCorrect == Spec => []ProcessInv
<1>1. Init => ProcessInv
  BY DEF Init, ProcessInv, NoInstances, InProgress
<1>2. TypeOK /\ ProcessInv /\ [Next]_vars => ProcessInv'
  <2> SUFFICES ASSUME TypeOK, ProcessInv, [Next]_vars PROVE ProcessInv'
    OBVIOUS
  <2>1. CASE ParseFlags
    BY <2>1 DEF ParseFlags, ProcessInv, Parsed, InProgress, scrapes
  <2>2. CASE ApplyDefaults
    <3>1. (Enabled = EnabledBy(cmdline))'
      BY <2>2 DEF ApplyDefaults, ProcessInv, Parsed, Enabled, EnabledBy,
                  AfterDisableDefaults, TypeOK, AllCommandLines
    <3>2. QED  BY <2>2, <3>1 DEF ApplyDefaults, ProcessInv, InProgress, scrapes
  <2>3. CASE NewHandler
    <3>1. \A c \in Missing({}) : initiated[c] = 0
      BY DEF Missing
    <3>2. \A c \in Collectors : built'[c] <= 1 /\ initiated'[c] = built'[c]
      BY <2>3, <3>1, MadeOnce DEF NewHandler, NewNodeCollector
    <3>3. \A c \in Collectors :
            IF c \in Enabled THEN initiated'[c] # 0 /\ unfiltered'[c] = initiated'[c]
                             ELSE unfiltered'[c] = 0
      BY <2>3 DEF NewHandler, NewNodeCollector, MakeInstances, Instances, Missing,
                  Wanted, Enabled, TypeOK
    <3>4. (Enabled = EnabledBy(cmdline))'
      BY <2>3 DEF NewHandler, ProcessInv, Enabled, EnabledBy
    <3>5. QED
      BY <2>3, <3>2, <3>3, <3>4 DEF NewHandler, ProcessInv, Enabled, scrapes
  <2>4. CASE NewHandlerPanics
    <3>1. PICK cs : /\ MakeInstances(cs) \/ UNCHANGED <<initiated, built>>
                    /\ \A c \in cs : initiated[c] = 0
      BY <2>4 DEF NewHandlerPanics, NewNodeCollectorFails, Missing
    <3>2. \A c \in Collectors : built'[c] <= 1 /\ initiated'[c] = built'[c]
      BY <3>1, MadeOnce DEF ProcessInv
    <3>3. QED
      BY <2>4, <3>2 DEF NewHandlerPanics, ProcessInv, InProgress, scrapes
  <2>5. CASE Restart
    BY <2>5 DEF Restart, FreshProcess, ProcessInv, NoInstances, InProgress, scrapes
  <2>6. ASSUME NEW r \in Requests, Arrive(r) PROVE ProcessInv'
    BY <2>6 DEF Arrive, ProcessInv, Enabled, EnabledBy, process
  <2>7. ASSUME NEW r \in Requests, BuildFiltered(r) PROVE ProcessInv'
    <3>1. phase = "serving"
      BY <2>7 DEF BuildFiltered, ProcessInv, InProgress
    <3>2. UNCHANGED <<initiated, built>>
      BY <2>7, <3>1, NothingMissing DEF BuildFiltered
    <3>3. QED
      BY <2>7, <3>1, <3>2 DEF BuildFiltered, ProcessInv, Enabled, EnabledBy
  <2>8. ASSUME NEW r \in Requests, RejectFiltered(r) PROVE ProcessInv'
    <3>1. phase = "serving"
      BY <2>8 DEF RejectFiltered, ProcessInv, InProgress
    <3>2. UNCHANGED <<initiated, built>>
      BY <2>8, <3>1, NothingMissing DEF RejectFiltered
    <3>3. QED
      BY <2>8, <3>1, <3>2 DEF RejectFiltered, ProcessInv, Enabled, EnabledBy
  <2>9. ASSUME NEW r \in Requests,
               Admit(r) \/ RejectBusy(r) \/ Finish(r) \/ Forget(r)
        PROVE  ProcessInv'
    <3>1. UNCHANGED <<cmdline, phase, process>>
      BY <2>9 DEF Admit, RejectBusy, Finish, Forget
    <3>2. \A q \in Requests : InProgress(q)' => InProgress(q)
      BY <2>9 DEF Admit, RejectBusy, Finish, Forget, InProgress, TypeOK
    <3>3. QED
      BY <3>1, <3>2 DEF ProcessInv, Parsed, Enabled, EnabledBy, process
  <2>10. ASSUME NEW r \in Requests, NEW c \in Collectors, Goroutine(r, c)
         PROVE  ProcessInv'
    BY <2>10 DEF Goroutine, UpdateReturns, Report, WgDone, ProcessInv, Parsed,
                 Enabled, EnabledBy, InProgress, process
  <2>11. ASSUME NEW r \in Requests, NEW c \in Collectors, UpdatePanics(r, c)
         PROVE  ProcessInv'
    BY <2>11 DEF UpdatePanics, ProcessInv, InProgress, process
  <2>12. CASE UNCHANGED vars
    BY <2>12 DEF vars, process, scrapes, ProcessInv, Parsed, Enabled, EnabledBy,
                 InProgress
  <2>13. QED
    BY <2>1, <2>2, <2>3, <2>4, <2>5, <2>6, <2>7, <2>8, <2>9, <2>10, <2>11, <2>12
       DEF Next, Startup, Serve
<1>3. QED  BY <1>1, <1>2, TypeCorrect, PTL DEF Spec

-----------------------------------------------------------------------------
(* The wait group counts the goroutines that have not called Done.         *)
THEOREM WgCorrect == Spec => []WgInv
<1>1. Init => WgInv
  BY DEF Init, WgInv
<1>2. TypeOK /\ WgInv /\ [Next]_vars => WgInv'
  <2> SUFFICES ASSUME TypeOK, WgInv, [Next]_vars, NEW r \in Requests,
                      stage'[r] = "collect"
               PROVE  wg'[r] = Cardinality(RunningTasks(r)')
    BY DEF WgInv
  <2>0. IsFiniteSet(RunningTasks(r))
    BY CollectorsAssumption, FS_Subset DEF RunningTasks
  <2>1. ASSUME UNCHANGED <<task[r], wg[r], stage[r]>>
        PROVE  wg'[r] = Cardinality(RunningTasks(r)')
    <3>1. RunningTasks(r)' = RunningTasks(r)
      BY <2>1 DEF RunningTasks
    <3>2. QED  BY <2>1, <3>1 DEF WgInv
  <2>2. CASE Startup
    BY <2>1, <2>2 DEF Startup, ParseFlags, ApplyDefaults, NewHandler,
                      NewHandlerPanics, Restart, scrapes
  <2>3. ASSUME NEW q \in Requests,
               \/ Arrive(q) \/ BuildFiltered(q) \/ RejectFiltered(q)
               \/ RejectBusy(q) \/ Finish(q) \/ Forget(q)
        PROVE  UNCHANGED <<task[r], wg[r], stage[r]>>
    BY <2>3 DEF Arrive, BuildFiltered, RejectFiltered, RejectBusy, Finish,
                Forget, TypeOK
  <2>4. ASSUME NEW q \in Requests, Admit(q)
        PROVE  wg'[r] = Cardinality(RunningTasks(r)')
    <3>1. CASE q # r
      BY <2>1, <2>4, <3>1 DEF Admit, TypeOK
    <3>2. CASE q = r
      <4>1. RunningTasks(r)' = Scope(r)
        BY <2>4, <3>2 DEF Admit, RunningTasks, Running, Scope, TypeOK
      <4>2. wg'[r] = Cardinality(Scope(r))
        BY <2>4, <3>2 DEF Admit, WgSize, TypeOK
      <4>3. QED  BY <4>1, <4>2
    <3>3. QED  BY <3>1, <3>2
  <2>5. ASSUME NEW q \in Requests, NEW c \in Collectors,
               UpdateReturns(q, c) \/ Report(q, c)
        PROVE  wg'[r] = Cardinality(RunningTasks(r)')
    <3>1. RunningTasks(r)' = RunningTasks(r)
      <4>1. PICK t \in Running : /\ task[q][c] \in Running
                                /\ task' = [task EXCEPT ![q][c] = t]
        BY <2>5 DEF UpdateReturns, Report, Running
      <4>2. \A d \in Collectors : task'[r][d] \in Running <=> task[r][d] \in Running
        BY <4>1 DEF TypeOK
      <4>3. QED  BY <4>2 DEF RunningTasks
    <3>2. wg'[r] = wg[r] /\ stage'[r] = stage[r]
      BY <2>5 DEF UpdateReturns, Report
    <3>3. QED  BY <3>1, <3>2 DEF WgInv
  <2>6. ASSUME NEW q \in Requests, NEW c \in Collectors, WgDone(q, c)
        PROVE  wg'[r] = Cardinality(RunningTasks(r)')
    <3>1. CASE q # r
      BY <2>1, <2>6, <3>1 DEF WgDone, TypeOK
    <3>2. CASE q = r
      <4>1. c \in RunningTasks(r)
        BY <2>6, <3>2 DEF WgDone, RunningTasks, Running
      <4>2. RunningTasks(r)' = RunningTasks(r) \ {c}
        BY <2>6, <3>2 DEF WgDone, RunningTasks, Running, TypeOK
      <4>3. Cardinality(RunningTasks(r)') = Cardinality(RunningTasks(r)) - 1
        BY <2>0, <4>1, <4>2, FS_RemoveElement
      <4>4. wg'[r] = wg[r] - 1 /\ stage[r] = "collect"
        BY <2>6, <3>2 DEF WgDone, TypeOK
      <4>5. QED  BY <4>3, <4>4 DEF WgInv
    <3>3. QED  BY <3>1, <3>2
  <2>7. ASSUME NEW q \in Requests, NEW c \in Collectors, UpdatePanics(q, c)
        PROVE  FALSE
    BY <2>7 DEF UpdatePanics, InProgress, TypeOK
  <2>8. CASE UNCHANGED vars
    BY <2>1, <2>8 DEF vars, scrapes
  <2>9. QED
    BY <2>1, <2>2, <2>3, <2>4, <2>5, <2>6, <2>7, <2>8
       DEF Next, Serve, Goroutine
<1>3. QED  BY <1>1, <1>2, TypeCorrect, PTL DEF Spec

-----------------------------------------------------------------------------
(* A step that leaves the cache and the command line alone, and everything *)
(* of a request, keeps what the invariant says of that request.            *)
ScrapeOf(r) == <<stage[r], code[r], filters[r], handler[r], task[r], reported[r]>>

LEMMA ScrapeUntouched ==
    ASSUME NEW r \in Requests, ScrapeInvOf(r), UNCHANGED ScrapeOf(r),
           UNCHANGED cmdline,
           UNCHANGED initiated \/ ~InProgress(r)
    PROVE  ScrapeInvOf(r)'
<1>1. Asked(r)' = Asked(r) /\ EnabledBy(cmdline)' = EnabledBy(cmdline)
  BY DEF ScrapeOf, Asked, EnabledBy
<1>2. CASE UNCHANGED initiated
  BY <1>1, <1>2 DEF ScrapeInvOf, ScrapeOf
<1>3. CASE ~InProgress(r)
  BY <1>1, <1>3 DEF ScrapeInvOf, ScrapeOf, InProgress
<1>4. QED  BY <1>2, <1>3

THEOREM ScrapesCorrect == Spec => []ScrapeInv
<1>1. Init => ScrapeInv
  BY DEF Init, ScrapeInv, ScrapeInvOf, NoTasks, Running
<1>2. TypeOK /\ ProcessInv /\ WgInv /\ ScrapeInv /\ [Next]_vars => ScrapeInv'
  <2> SUFFICES ASSUME TypeOK, ProcessInv, WgInv, ScrapeInv, [Next]_vars,
                      NEW r \in Requests
               PROVE  ScrapeInvOf(r)'
    BY DEF ScrapeInv
  <2>0. ScrapeInvOf(r)
    BY DEF ScrapeInv
  <2>1. CASE Startup
    <3>1. UNCHANGED <<cmdline, scrapes>>
      BY <2>1 DEF Startup, ParseFlags, ApplyDefaults, NewHandler,
                  NewHandlerPanics, Restart
    <3>2. ~InProgress(r)
      BY <2>1 DEF Startup, ParseFlags, ApplyDefaults, NewHandler,
                  NewHandlerPanics, Restart, ProcessInv
    <3>3. QED  BY <2>0, <3>1, <3>2, ScrapeUntouched DEF scrapes, ScrapeOf
  <2>2. ASSUME NEW q \in Requests, Arrive(q) PROVE ScrapeInvOf(r)'
    <3>1. CASE q # r
      BY <2>0, <2>2, <3>1, ScrapeUntouched DEF Arrive, ScrapeOf, process, TypeOK
    <3>2. CASE q = r
      <4>1. PICK f \in FilterSets :
              /\ filters'[r] = f
              /\ stage'[r] = IF f = {} THEN "admit" ELSE "build"
              /\ handler'[r] = IF f = {} THEN unfiltered ELSE NoInstances
        BY <2>2, <3>2 DEF Arrive, TypeOK
      <4>2. Asked(r)' = {c \in EnabledBy(cmdline) : f = {} \/ c \in f}
        BY <2>2, <4>1 DEF Arrive, Asked, EnabledBy
      <4>3. code[r] = "none" /\ \A c \in Collectors :
                    task[r][c] = "none" /\ reported[r][c] = "none"
        BY <2>0, <2>2, <3>2 DEF ScrapeInvOf, Arrive
      <4>4. Enabled = EnabledBy(cmdline) /\ EnabledBy(cmdline)' = EnabledBy(cmdline)
        BY <2>2 DEF Arrive, ProcessInv, EnabledBy
      <4>5. f = {} => \A c \in Collectors :
              IF c \in Enabled THEN handler'[r][c] = initiated[c]
                                    /\ handler'[r][c] # 0
                               ELSE handler'[r][c] = 0
        BY <2>2, <4>1 DEF Arrive, ProcessInv
      <4>6. UNCHANGED <<initiated, code, task, reported>>
        BY <2>2 DEF Arrive, process
      <4>7. QED
        BY <4>1, <4>2, <4>3, <4>4, <4>5, <4>6 DEF ScrapeInvOf, Running
    <3>3. QED  BY <3>1, <3>2
  <2>3. ASSUME NEW q \in Requests, BuildFiltered(q) PROVE ScrapeInvOf(r)'
    <3>0. phase = "serving"
      BY <2>3 DEF BuildFiltered, ProcessInv, InProgress
    <3>1. UNCHANGED <<cmdline, initiated, built>> /\ ~BadFilter(filters[q])
      BY <2>3, <3>0, NothingMissing DEF BuildFiltered
    <3>2. CASE q # r
      BY <2>0, <2>3, <3>1, <3>2, ScrapeUntouched DEF BuildFiltered, ScrapeOf, TypeOK
    <3>3. CASE q = r
      <4>1. Missing(filters[r]) = {}
        BY <3>0, NothingMissing
      <4>2. \A c \in Collectors :
              IF c \in Wanted(filters[r]) THEN handler'[r][c] = initiated[c]
                                               /\ handler'[r][c] # 0
                                          ELSE handler'[r][c] = 0
        BY <2>3, <3>3, <4>1 DEF BuildFiltered, Instances, Missing, TypeOK
      <4>3. Wanted(filters[r]) = Asked(r)
        BY <3>0 DEF ProcessInv, Wanted, Asked
      <4>4. Asked(r)' = Asked(r) /\ EnabledBy(cmdline)' = EnabledBy(cmdline)
        BY <2>3 DEF BuildFiltered, Asked, EnabledBy
      <4>5. filters[r] \subseteq EnabledBy(cmdline)
        BY <3>0, <3>1, <3>3 DEF ProcessInv, BadFilter
      <4>6. code[r] = "none" /\ \A c \in Collectors :
                    task[r][c] = "none" /\ reported[r][c] = "none"
        BY <2>0, <2>3, <3>3 DEF ScrapeInvOf, BuildFiltered
      <4>7. stage'[r] = "admit" /\ UNCHANGED <<filters, code, task, reported>>
        BY <2>3, <3>3 DEF BuildFiltered, TypeOK
      <4>8. QED
        BY <3>1, <4>2, <4>3, <4>4, <4>5, <4>6, <4>7 DEF ScrapeInvOf, Running
    <3>4. QED  BY <3>2, <3>3
  <2>4. ASSUME NEW q \in Requests, RejectFiltered(q) PROVE ScrapeInvOf(r)'
    <3>0. phase = "serving"
      BY <2>4 DEF RejectFiltered, ProcessInv, InProgress
    <3>1. UNCHANGED <<cmdline, initiated, built>> /\ BadFilter(filters[q])
      BY <2>4, <3>0, NothingMissing DEF RejectFiltered
    <3>2. CASE q # r
      BY <2>0, <2>4, <3>1, <3>2, ScrapeUntouched DEF RejectFiltered, ScrapeOf, TypeOK
    <3>3. CASE q = r
      <4>1. ~(filters[r] \subseteq EnabledBy(cmdline))
        BY <3>0, <3>1, <3>3 DEF ProcessInv, BadFilter
      <4>2. EnabledBy(cmdline)' = EnabledBy(cmdline)
        BY <2>4 DEF RejectFiltered, EnabledBy
      <4>3. \A c \in Collectors : task[r][c] = "none"
        BY <2>0, <2>4, <3>3 DEF ScrapeInvOf, RejectFiltered
      <4>4. stage'[r] = "done" /\ code'[r] = "bad" /\ UNCHANGED <<filters, task>>
        BY <2>4, <3>3 DEF RejectFiltered, TypeOK
      <4>5. QED  BY <4>1, <4>2, <4>3, <4>4 DEF ScrapeInvOf, Running
    <3>4. QED  BY <3>2, <3>3
  <2>5. ASSUME NEW q \in Requests, Admit(q) PROVE ScrapeInvOf(r)'
    <3>1. CASE q # r
      BY <2>0, <2>5, <3>1, ScrapeUntouched DEF Admit, ScrapeOf, process, TypeOK
    <3>2. CASE q = r
      <4>1. \A c \in Collectors : c \in Scope(r) <=> c \in Asked(r)
        BY <2>0, <2>5, <3>2 DEF ScrapeInvOf, Admit, Scope
      <4>2. \A c \in Collectors : task'[r][c] = IF c \in Asked(r) THEN "update" ELSE "none"
        BY <2>5, <3>2, <4>1 DEF Admit, TypeOK
      <4>3. Asked(r)' = Asked(r) /\ EnabledBy(cmdline)' = EnabledBy(cmdline)
        BY <2>5 DEF Admit, Asked, EnabledBy
      <4>4. stage'[r] = "collect" /\ UNCHANGED <<initiated, code, filters, handler, reported>>
        BY <2>5, <3>2 DEF Admit, process, TypeOK
      <4>5. stage[r] = "admit"
        BY <2>5, <3>2 DEF Admit
      <4>6. QED  BY <2>0, <4>2, <4>3, <4>4, <4>5 DEF ScrapeInvOf
    <3>3. QED  BY <3>1, <3>2
  <2>6. ASSUME NEW q \in Requests, RejectBusy(q) PROVE ScrapeInvOf(r)'
    <3>1. CASE q # r
      BY <2>0, <2>6, <3>1, ScrapeUntouched DEF RejectBusy, ScrapeOf, process, TypeOK
    <3>2. CASE q = r
      <4>1. stage'[r] = "done" /\ code'[r] = "busy" /\ task' = task
        BY <2>6, <3>2 DEF RejectBusy, TypeOK
      <4>2. \A c \in Collectors : task[r][c] = "none"
        BY <2>0, <2>6, <3>2 DEF ScrapeInvOf, RejectBusy
      <4>3. QED  BY <4>1, <4>2 DEF ScrapeInvOf, Running
    <3>3. QED  BY <3>1, <3>2
  <2>7. ASSUME NEW q \in Requests, NEW c \in Collectors, Goroutine(q, c)
        PROVE  ScrapeInvOf(r)'
    <3>0. UNCHANGED <<cmdline, initiated, stage, code, filters, handler>>
      BY <2>7 DEF Goroutine, UpdateReturns, Report, WgDone, process
    <3>1. CASE q # r
      <4>1. UNCHANGED <<task[r], reported[r]>>
        BY <2>7, <3>1 DEF Goroutine, UpdateReturns, Report, WgDone, TypeOK
      <4>2. QED  BY <2>0, <3>0, <4>1, ScrapeUntouched DEF ScrapeOf
    <3>2. CASE q = r
      <4>1. task[r][c] \in Running
        BY <2>7, <3>2 DEF Goroutine, UpdateReturns, Report, WgDone, Running
      <4>2. stage[r] = "collect"
        BY <2>0, <4>1 DEF ScrapeInvOf
      <4>3. \A d \in Collectors : d # c => task'[r][d] = task[r][d]
                                        /\ reported'[r][d] = reported[r][d]
        BY <2>7, <3>2 DEF Goroutine, UpdateReturns, Report, WgDone, TypeOK
      <4>4. (reported'[r][c] # "none") = (task'[r][c] \in {"exit", "done"})
        BY <2>0, <2>7, <3>2, <4>2
           DEF ScrapeInvOf, Goroutine, UpdateReturns, Report, WgDone,
               SuccessSample, TypeOK
      <4>5. task'[r][c] # "none"
        BY <2>7, <3>2 DEF Goroutine, UpdateReturns, Report, WgDone, TypeOK
      <4>6. Asked(r)' = Asked(r) /\ EnabledBy(cmdline)' = EnabledBy(cmdline)
        BY <3>0 DEF Asked, EnabledBy
      <4>7. \A d \in Collectors :
              /\ (task'[r][d] # "none") = (d \in Asked(r))
              /\ (reported'[r][d] # "none") = (task'[r][d] \in {"exit", "done"})
        <5> TAKE d \in Collectors
        <5>1. CASE d = c
          BY <2>0, <4>1, <4>2, <4>4, <4>5, <5>1 DEF ScrapeInvOf, Running
        <5>2. CASE d # c
          BY <2>0, <4>2, <4>3, <5>2 DEF ScrapeInvOf
        <5>3. QED  BY <5>1, <5>2
      <4>8. stage'[r] = "collect" /\ code'[r] = "none"
        BY <2>0, <3>0, <4>2 DEF ScrapeInvOf
      <4>9. QED  BY <2>0, <3>0, <4>2, <4>6, <4>7, <4>8 DEF ScrapeInvOf
    <3>3. QED  BY <3>1, <3>2
  <2>8. ASSUME NEW q \in Requests, Finish(q) PROVE ScrapeInvOf(r)'
    <3>1. CASE q # r
      BY <2>0, <2>8, <3>1, ScrapeUntouched DEF Finish, ScrapeOf, process, TypeOK
    <3>2. CASE q = r
      <4>1. IsFiniteSet(RunningTasks(r)) /\ Cardinality(RunningTasks(r)) = 0
        BY <2>8, <3>2, CollectorsAssumption, FS_Subset
           DEF Finish, WgInv, RunningTasks
      <4>2. RunningTasks(r) = {}
        BY <4>1, FS_EmptySet
      <4>3. \A c \in Collectors : task[r][c] \in {"none", "done"}
        BY <4>2 DEF RunningTasks, TypeOK, Tasks
      <4>4. \A c \in Collectors : (reported[r][c] # "none") = (c \in Asked(r))
        BY <2>0, <2>8, <3>2, <4>3 DEF ScrapeInvOf, Finish
      <4>5. {c \in Collectors : reported[r][c] # "none"} = Asked(r)
        BY <4>4 DEF Asked, EnabledBy
      <4>6. filters[r] \subseteq EnabledBy(cmdline)
        BY <2>0, <2>8, <3>2 DEF ScrapeInvOf, Finish
      <4>7. Asked(r)' = Asked(r) /\ EnabledBy(cmdline)' = EnabledBy(cmdline)
        BY <2>8 DEF Finish, Asked, EnabledBy
      <4>8. stage'[r] = "done" /\ code'[r] = "ok" /\ UNCHANGED <<filters, task, reported>>
        BY <2>8, <3>2 DEF Finish, TypeOK
      <4>9. QED
        BY <4>3, <4>5, <4>6, <4>7, <4>8 DEF ScrapeInvOf, Running
    <3>3. QED  BY <3>1, <3>2
  <2>9. ASSUME NEW q \in Requests, Forget(q) PROVE ScrapeInvOf(r)'
    <3>1. CASE q # r
      BY <2>0, <2>9, <3>1, ScrapeUntouched DEF Forget, ScrapeOf, process, TypeOK
    <3>2. CASE q = r
      BY <2>9, <3>2 DEF Forget, ScrapeInvOf, NoTasks, Running, TypeOK
    <3>3. QED  BY <3>1, <3>2
  <2>10. ASSUME NEW q \in Requests, NEW c \in Collectors, UpdatePanics(q, c)
         PROVE  ScrapeInvOf(r)'
    <3>1. CASE ~InProgress(r)
      BY <2>0, <2>10, <3>1, ScrapeUntouched DEF UpdatePanics, ScrapeOf, process, TypeOK
    <3>2. CASE InProgress(r)
      BY <2>10, <3>2 DEF UpdatePanics, ScrapeInvOf, NoTasks, Running, TypeOK
    <3>3. QED  BY <3>1, <3>2
  <2>11. CASE UNCHANGED vars
    BY <2>0, <2>11, ScrapeUntouched DEF vars, process, scrapes, ScrapeOf
  <2>12. QED
    BY <2>1, <2>2, <2>3, <2>4, <2>5, <2>6, <2>7, <2>8, <2>9, <2>10, <2>11
       DEF Next, Serve
<1>3. QED  BY <1>1, <1>2, TypeCorrect, ProcessCorrect, WgCorrect, PTL DEF Spec

-----------------------------------------------------------------------------
(* What the invariants say of the exporter's behaviour.                    *)

(* Every scrape runs the one cached instance of each of its collectors.    *)
THEOREM OneInstanceHolds == Spec => []OneInstance
<1>1. TypeOK /\ ProcessInv /\ ScrapeInv => OneInstance
  <2> SUFFICES ASSUME TypeOK, ProcessInv, ScrapeInv PROVE OneInstance
    OBVIOUS
  <2>1. ASSUME NEW r \in Requests, NEW c \in Collectors, task[r][c] \in Running
        PROVE  handler[r][c] = initiated[c]
    BY <2>1 DEF ScrapeInv, ScrapeInvOf, Running
  <2>2. QED  BY <2>1 DEF OneInstance, ProcessInv
<1>2. QED  BY <1>1, TypeCorrect, ProcessCorrect, ScrapesCorrect, PTL

(* A serving process has instances of exactly the enabled collectors.      *)
THEOREM ServesCommandLineHolds == Spec => []ServesCommandLine
<1>1. TypeOK /\ ProcessInv => ServesCommandLine
  BY DEF ServesCommandLine, ProcessInv, TypeOK
<1>2. QED  BY <1>1, TypeCorrect, ProcessCorrect, PTL

(* A 200 answers for the enabled collectors asked for, and no others.      *)
THEOREM AnswerInScopeHolds == Spec => []AnswerInScope
<1>1. ScrapeInv => AnswerInScope
  BY DEF ScrapeInv, ScrapeInvOf, AnswerInScope, Asked
<1>2. QED  BY <1>1, ScrapesCorrect, PTL

(* A 400 is always the client's fault, and such a request never gets a 200. *)
THEOREM BadRequestIsClientsHolds == Spec => []BadRequestIsClients
<1>1. ScrapeInv => BadRequestIsClients
  BY DEF ScrapeInv, ScrapeInvOf, BadRequestIsClients
<1>2. QED  BY <1>1, ScrapesCorrect, PTL

(* No collector goroutine is left running when Collect returns.            *)
THEOREM NoGoroutineOutlivesCollectHolds == Spec => []NoGoroutineOutlivesCollect
<1>1. WgInv /\ ScrapeInv => NoGoroutineOutlivesCollect
  BY DEF WgInv, RunningTasks, ScrapeInv, ScrapeInvOf, NoGoroutineOutlivesCollect
<1>2. QED  BY <1>1, WgCorrect, ScrapesCorrect, PTL

(* The semaphore counts the unfiltered scrapes and keeps to its limit.     *)
THEOREM SlotsAccountedHolds == Spec => []SlotsAccounted
<1>1. Init => SlotsAccounted
  <2> SUFFICES ASSUME Init PROVE SlotsAccounted
    OBVIOUS
  <2>1. UnfilteredScrapes = {}
    BY DEF Init, UnfilteredScrapes
  <2>2. QED  BY <2>1, FS_EmptySet, RequestsAssumption DEF Init, SlotsAccounted
<1>2. TypeOK /\ SlotsAccounted /\ [Next]_vars => SlotsAccounted'
  <2> SUFFICES ASSUME TypeOK, SlotsAccounted, [Next]_vars PROVE SlotsAccounted'
    OBVIOUS
  <2>0. IsFiniteSet(UnfilteredScrapes)
    BY RequestsAssumption, FS_Subset DEF UnfilteredScrapes
  <2>1. ASSUME slots' = slots, UnfilteredScrapes' = UnfilteredScrapes
        PROVE  SlotsAccounted'
    BY <2>1 DEF SlotsAccounted
  <2>2. ASSUME NEW r \in Requests, Admit(r) PROVE SlotsAccounted'
    <3>1. CASE filters[r] # {}
      BY <2>1, <2>2, <3>1 DEF Admit, TakeSlot, UnfilteredScrapes, TypeOK
    <3>2. CASE filters[r] = {}
      <4>1. UnfilteredScrapes' = UnfilteredScrapes \cup {r}
        BY <2>2, <3>2 DEF Admit, UnfilteredScrapes, TypeOK
      <4>2. r \notin UnfilteredScrapes
        BY <2>2 DEF Admit, UnfilteredScrapes
      <4>3. Cardinality(UnfilteredScrapes') = Cardinality(UnfilteredScrapes) + 1
        BY <2>0, <4>1, <4>2, FS_AddElement
      <4>4. slots' = slots + 1 /\ (MaxRequests > 0 => slots < MaxRequests)
        BY <2>2, <3>2, RequestsAssumption DEF Admit, TakeSlot, Saturated, TypeOK
      <4>5. QED
        BY <4>3, <4>4, RequestsAssumption DEF SlotsAccounted, TypeOK
    <3>3. QED  BY <3>1, <3>2
  <2>3. ASSUME NEW r \in Requests, Finish(r) PROVE SlotsAccounted'
    <3>1. CASE filters[r] # {}
      BY <2>1, <2>3, <3>1 DEF Finish, FreeSlot, UnfilteredScrapes, TypeOK
    <3>2. CASE filters[r] = {}
      <4>1. UnfilteredScrapes' = UnfilteredScrapes \ {r}
        BY <2>3, <3>2 DEF Finish, UnfilteredScrapes, TypeOK
      <4>2. r \in UnfilteredScrapes
        BY <2>3, <3>2 DEF Finish, UnfilteredScrapes
      <4>3. Cardinality(UnfilteredScrapes') = Cardinality(UnfilteredScrapes) - 1
        BY <2>0, <4>1, <4>2, FS_RemoveElement
      <4>4. slots' = slots - 1
        BY <2>3, <3>2 DEF Finish, FreeSlot
      <4>5. QED
        BY <4>3, <4>4, RequestsAssumption DEF SlotsAccounted, TypeOK
    <3>3. QED  BY <3>1, <3>2
  <2>4. ASSUME NEW r \in Requests,
               \/ Arrive(r) \/ BuildFiltered(r) \/ RejectFiltered(r)
               \/ RejectBusy(r) \/ Forget(r)
        PROVE  SlotsAccounted'
    BY <2>1, <2>4 DEF Arrive, BuildFiltered, RejectFiltered, RejectBusy, Forget,
                      UnfilteredScrapes, TypeOK
  <2>5. ASSUME NEW r \in Requests, NEW c \in Collectors, UpdatePanics(r, c)
        PROVE  SlotsAccounted'
    <3>1. UnfilteredScrapes' = {} /\ slots' = 0
      BY <2>5 DEF UpdatePanics, UnfilteredScrapes, InProgress, TypeOK
    <3>2. QED  BY <3>1, FS_EmptySet, RequestsAssumption DEF SlotsAccounted
  <2>6. ASSUME UNCHANGED <<slots, stage, filters>> PROVE SlotsAccounted'
    BY <2>1, <2>6 DEF UnfilteredScrapes
  <2>7. CASE Startup
    BY <2>6, <2>7 DEF Startup, ParseFlags, ApplyDefaults, NewHandler,
                      NewHandlerPanics, Restart, scrapes
  <2>8. ASSUME NEW r \in Requests, NEW c \in Collectors, Goroutine(r, c)
        PROVE  SlotsAccounted'
    BY <2>6, <2>8 DEF Goroutine, UpdateReturns, Report, WgDone
  <2>9. CASE UNCHANGED vars
    BY <2>6, <2>9 DEF vars, scrapes
  <2>10. QED
    BY <2>2, <2>3, <2>4, <2>5, <2>7, <2>8, <2>9 DEF Next, Serve
<1>3. QED  BY <1>1, <1>2, TypeCorrect, PTL DEF Spec

(* Only an unfiltered scrape is turned away for want of a slot.            *)
THEOREM FilteredNeverBusyHolds == Spec => []FilteredNeverBusy
<1>1. Init => FilteredNeverBusy
  BY DEF Init, FilteredNeverBusy
<1>2. TypeOK /\ ScrapeInv /\ FilteredNeverBusy /\ [Next]_vars => FilteredNeverBusy'
  <2> SUFFICES ASSUME TypeOK, ScrapeInv, FilteredNeverBusy, [Next]_vars
               PROVE  FilteredNeverBusy'
    OBVIOUS
  <2>1. ASSUME NEW r \in Requests, Arrive(r) PROVE FilteredNeverBusy'
    <3>1. code[r] = "none"
      BY <2>1 DEF Arrive, ScrapeInv, ScrapeInvOf
    <3>2. code' = code /\ \A q \in Requests : q # r => filters'[q] = filters[q]
      BY <2>1 DEF Arrive, TypeOK
    <3>3. QED  BY <3>1, <3>2 DEF FilteredNeverBusy
  <2>2. ASSUME NEW r \in Requests, RejectBusy(r) PROVE FilteredNeverBusy'
    BY <2>2 DEF RejectBusy, Saturated, FilteredNeverBusy, TypeOK
  <2>3. ASSUME NEW r \in Requests, RejectFiltered(r) \/ Finish(r) \/ Forget(r)
        PROVE  FilteredNeverBusy'
    BY <2>3 DEF RejectFiltered, Finish, Forget, FilteredNeverBusy, TypeOK
  <2>4. ASSUME NEW r \in Requests, NEW c \in Collectors, UpdatePanics(r, c)
        PROVE  FilteredNeverBusy'
    BY <2>4 DEF UpdatePanics, FilteredNeverBusy, TypeOK
  <2>5. ASSUME UNCHANGED <<code, filters>> PROVE FilteredNeverBusy'
    BY <2>5 DEF FilteredNeverBusy
  <2>6. CASE Startup
    BY <2>5, <2>6 DEF Startup, ParseFlags, ApplyDefaults, NewHandler,
                      NewHandlerPanics, Restart, scrapes
  <2>7. ASSUME NEW r \in Requests, BuildFiltered(r) \/ Admit(r)
        PROVE  FilteredNeverBusy'
    BY <2>5, <2>7 DEF BuildFiltered, Admit
  <2>8. ASSUME NEW r \in Requests, NEW c \in Collectors, Goroutine(r, c)
        PROVE  FilteredNeverBusy'
    BY <2>5, <2>8 DEF Goroutine, UpdateReturns, Report, WgDone
  <2>9. CASE UNCHANGED vars
    BY <2>5, <2>9 DEF vars, scrapes
  <2>10. QED
    BY <2>1, <2>2, <2>3, <2>4, <2>6, <2>7, <2>8, <2>9 DEF Next, Serve
<1>3. QED  BY <1>1, <1>2, TypeCorrect, ScrapesCorrect, PTL DEF Spec

-----------------------------------------------------------------------------
(* The exporter implements the service: every step is a step of the        *)
(* service or leaves what a client sees unchanged.                         *)
THEOREM Refinement == Spec => ImplementsService
<1> USE DEF RequestState, AnswerSamples
<1>1. Init => Service!Init
  BY DEF Init, Service!Init, Service!NoSamples, NoTasks, EnabledBy
<1>2. /\ TypeOK /\ ScrapeInv /\ ScrapeInv' /\ SlotsAccounted
      /\ [Next]_vars
      => [Service!Next]_(Service!vars)
  <2> SUFFICES ASSUME TypeOK, ScrapeInv, ScrapeInv', SlotsAccounted,
                      [Next]_vars
               PROVE  Service!Next \/ UNCHANGED Service!vars
    OBVIOUS
  <2>0. \A r \in Requests : (stage[r] # "done") = (code[r] = "none")
    BY DEF ScrapeInv, ScrapeInvOf
  <2>1. ASSUME UNCHANGED <<cmdline, stage, code, filters, reported>>
        PROVE  UNCHANGED Service!vars
    BY <2>1 DEF Service!vars, EnabledBy
  <2>2. CASE Startup
    BY <2>1, <2>2 DEF Startup, ParseFlags, ApplyDefaults, NewHandler,
                      NewHandlerPanics, Restart, scrapes
  <2>3. ASSUME NEW r \in Requests, Arrive(r) PROVE Service!Next
    <3>1. PICK f \in FilterSets :
            /\ filters' = [filters EXCEPT ![r] = f]
            /\ stage' = [stage EXCEPT ![r] = IF f = {} THEN "admit" ELSE "build"]
      BY <2>3 DEF Arrive
    <3>2. RequestState[r] = "none"
      BY <2>3 DEF Arrive
    <3>3. RequestState' = [RequestState EXCEPT ![r] = "pending"]
      BY <2>3, <3>1 DEF Arrive, TypeOK
    <3>4. EnabledBy(cmdline)' = EnabledBy(cmdline) /\ AnswerSamples' = AnswerSamples
      BY <2>3 DEF Arrive, EnabledBy
    <3>5. Service!Submit(r, f)
      BY <3>1, <3>2, <3>3, <3>4 DEF Service!Submit
    <3>6. f \in SUBSET (Collectors \cup {UnknownName})
      BY InputsAssumption
    <3>7. QED  BY <3>5, <3>6 DEF Service!Next
  <2>4. ASSUME NEW r \in Requests, BuildFiltered(r) \/ Admit(r)
        PROVE  UNCHANGED Service!vars
    <3>1. RequestState' = RequestState
      BY <2>4 DEF BuildFiltered, Admit, TypeOK
    <3>2. UNCHANGED <<cmdline, code, filters, reported>>
      BY <2>4 DEF BuildFiltered, Admit
    <3>3. QED  BY <3>1, <3>2 DEF Service!vars, EnabledBy
  <2>5. ASSUME NEW r \in Requests, RejectFiltered(r) PROVE Service!Next
    <3>1. stage[r] = "build" /\ stage' = [stage EXCEPT ![r] = "done"]
             /\ code' = [code EXCEPT ![r] = "bad"] /\ UNCHANGED <<cmdline, filters, reported>>
      BY <2>5 DEF RejectFiltered
    <3>2. ~(filters[r] \subseteq EnabledBy(cmdline))
      <4>1. ScrapeInvOf(r)'
        BY DEF ScrapeInv
      <4>2. code'[r] = "bad" /\ EnabledBy(cmdline)' = EnabledBy(cmdline)
        BY <3>1 DEF TypeOK, EnabledBy
      <4>3. QED  BY <3>1, <4>1, <4>2 DEF ScrapeInvOf
    <3>3. RequestState' = [RequestState EXCEPT ![r] = "bad"]
            /\ RequestState[r] = "pending"
      BY <3>1 DEF TypeOK
    <3>4. AnswerSamples' = AnswerSamples
      BY <2>0, <3>1 DEF TypeOK
    <3>5. EnabledBy(cmdline)' = EnabledBy(cmdline)
      BY <3>1 DEF EnabledBy
    <3>6. Service!Refuse(r)
      BY <3>1, <3>2, <3>3, <3>4, <3>5 DEF Service!Refuse, Service!End
    <3>7. QED  BY <3>6 DEF Service!Next
  <2>6. ASSUME NEW r \in Requests, RejectBusy(r) PROVE Service!Next
    <3>1. /\ stage[r] = "admit" /\ stage' = [stage EXCEPT ![r] = "done"]
          /\ code' = [code EXCEPT ![r] = "busy"]
          /\ UNCHANGED <<cmdline, filters, reported>>
      BY <2>6 DEF RejectBusy
    <3>2. filters[r] = {} /\ MaxRequests > 0 /\ slots >= MaxRequests
      BY <2>6 DEF RejectBusy, Saturated
    <3>3. Cardinality(Service!PendingUnfiltered \ {r}) >= MaxRequests
      <4>1. IsFiniteSet(Service!PendingUnfiltered \ {r})
        BY RequestsAssumption, FS_Subset DEF Service!PendingUnfiltered
      <4>2. UnfilteredScrapes \subseteq Service!PendingUnfiltered \ {r}
        BY <3>1 DEF UnfilteredScrapes, Service!PendingUnfiltered
      <4>3. /\ IsFiniteSet(UnfilteredScrapes)
            /\ Cardinality(UnfilteredScrapes)
                 <= Cardinality(Service!PendingUnfiltered \ {r})
        BY <4>1, <4>2, FS_Subset
      <4>4. /\ Cardinality(UnfilteredScrapes) \in Nat
            /\ Cardinality(Service!PendingUnfiltered \ {r}) \in Nat
        BY <4>1, <4>3, FS_CardinalityType
      <4>5. QED
        BY <3>2, <4>3, <4>4, RequestsAssumption DEF SlotsAccounted
    <3>4. RequestState' = [RequestState EXCEPT ![r] = "busy"]
            /\ RequestState[r] = "pending"
      BY <3>1 DEF TypeOK
    <3>5. AnswerSamples' = AnswerSamples
      BY <2>0, <3>1 DEF TypeOK
    <3>6. EnabledBy(cmdline)' = EnabledBy(cmdline)
      BY <3>1 DEF EnabledBy
    <3>7. Service!TurnAway(r)
      <4>1. Service!End(r, "busy")
        BY <3>1, <3>4, <3>6 DEF Service!End
      <4>2. \A S : Service!Cardinality(S) = Cardinality(S)
        BY DEF Service!Cardinality, Cardinality
      <4>3. QED  BY <3>2, <3>3, <3>5, <4>1, <4>2, Zenon DEF Service!TurnAway
    <3>8. QED  BY <3>7 DEF Service!Next
  <2>7. ASSUME NEW r \in Requests, NEW c \in Collectors, Goroutine(r, c)
        PROVE  UNCHANGED Service!vars
    <3>1. UNCHANGED <<cmdline, stage, code, filters>> /\ task[r][c] \in Running
      BY <2>7 DEF Goroutine, UpdateReturns, Report, WgDone, Running
    <3>2. code[r] = "none"
      BY <3>1 DEF ScrapeInv, ScrapeInvOf
    <3>3. \A q \in Requests : q # r => reported'[q] = reported[q]
      BY <2>7 DEF Goroutine, UpdateReturns, Report, WgDone, TypeOK
    <3>4. AnswerSamples' = AnswerSamples
      BY <3>1, <3>2, <3>3
    <3>5. QED  BY <3>1, <3>4 DEF Service!vars, EnabledBy
  <2>8. ASSUME NEW r \in Requests, Finish(r) PROVE Service!Next
    <3>1. /\ stage[r] = "collect" /\ stage' = [stage EXCEPT ![r] = "done"]
          /\ code' = [code EXCEPT ![r] = "ok"]
          /\ UNCHANGED <<cmdline, filters, reported>>
      BY <2>8 DEF Finish
    <3>2. EnabledBy(cmdline)' = EnabledBy(cmdline)
      BY <3>1 DEF EnabledBy
    <3>3. /\ filters[r] \subseteq EnabledBy(cmdline)
          /\ {c \in Collectors : reported[r][c] # "none"} = Service!Scope(filters[r])
      <4>1. ScrapeInvOf(r)' /\ code'[r] = "ok"
        BY <3>1 DEF ScrapeInv, TypeOK
      <4>2. Asked(r)' = Service!Scope(filters[r])
        BY <3>1, <3>2 DEF Asked, Service!Scope
      <4>3. QED  BY <3>1, <3>2, <4>1, <4>2 DEF ScrapeInvOf
    <3>4. RequestState' = [RequestState EXCEPT ![r] = "ok"]
            /\ RequestState[r] = "pending"
      BY <3>1 DEF TypeOK
    <3>5. AnswerSamples' = [AnswerSamples EXCEPT ![r] = reported[r]]
      <4>1. \A q \in Requests : code'[q] = IF q = r THEN "ok" ELSE code[q]
        BY <3>1 DEF TypeOK
      <4>2. reported' = reported
        BY <3>1
      <4>3. QED  BY <4>1, <4>2
    <3>6. PICK s \in [Collectors -> {"none", "0", "1"}] : s = reported[r]
      BY DEF TypeOK
    <3>7. Service!Answer(r, s)
      BY <3>1, <3>2, <3>3, <3>4, <3>5, <3>6 DEF Service!Answer, Service!End
    <3>8. QED  BY <3>7 DEF Service!Next
  <2>9. ASSUME NEW r \in Requests, Forget(r) PROVE Service!Next
    <3>1. /\ stage[r] = "done" /\ stage' = [stage EXCEPT ![r] = "idle"]
          /\ code' = [code EXCEPT ![r] = "none"]
          /\ filters' = [filters EXCEPT ![r] = {}]
          /\ reported' = [reported EXCEPT ![r] = NoTasks]
          /\ UNCHANGED cmdline
      BY <2>9 DEF Forget
    <3>2. RequestState' = [RequestState EXCEPT ![r] = "none"]
      BY <3>1 DEF TypeOK
    <3>3. RequestState[r] \notin {"none", "pending"}
      BY <2>0, <3>1 DEF TypeOK, Codes
    <3>4. AnswerSamples' = [AnswerSamples EXCEPT ![r] = Service!NoSamples]
      BY <3>1 DEF TypeOK, NoTasks, Service!NoSamples
    <3>5. EnabledBy(cmdline)' = EnabledBy(cmdline)
      BY <3>1 DEF EnabledBy
    <3>6. Service!Forget(r)
      BY <3>1, <3>2, <3>3, <3>4, <3>5 DEF Service!Forget
    <3>7. QED  BY <3>6 DEF Service!Next
  <2>10. ASSUME NEW r \in Requests, NEW c \in Collectors, UpdatePanics(r, c)
         PROVE  Service!Next
    <3>1. RequestState' = [q \in Requests |-> IF RequestState[q] = "pending"
                                              THEN "lost" ELSE RequestState[q]]
      BY <2>10 DEF UpdatePanics, InProgress, TypeOK, Stages, Codes
    <3>2. AnswerSamples' = AnswerSamples
      BY <2>0, <2>10 DEF UpdatePanics, InProgress, TypeOK
    <3>3. UNCHANGED <<EnabledBy(cmdline), filters>>
      BY <2>10 DEF UpdatePanics, EnabledBy
    <3>4. Service!Crash
      BY <3>1, <3>2, <3>3 DEF Service!Crash
    <3>5. QED  BY <3>4 DEF Service!Next
  <2>11. CASE UNCHANGED vars
    BY <2>1, <2>11 DEF vars, scrapes
  <2>12. CASE Next
    <3>1. CASE \E r \in Requests : Arrive(r) \/ Serve(r) \/ Forget(r)
      BY <2>3, <2>4, <2>5, <2>6, <2>8, <2>9, <3>1 DEF Serve
    <3>2. CASE \E r \in Requests, c \in Collectors :
                 Goroutine(r, c) \/ UpdatePanics(r, c)
      BY <2>7, <2>10, <3>2
    <3>3. QED  BY <2>2, <2>12, <3>1, <3>2 DEF Next
  <2>13. QED  BY <2>11, <2>12
<1>3. QED
  BY <1>1, <1>2, TypeCorrect, ScrapesCorrect, SlotsAccountedHolds, PTL
     DEF Spec, ImplementsService, Service!Spec
=============================================================================

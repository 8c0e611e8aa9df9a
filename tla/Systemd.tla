-------------------------------- MODULE Systemd --------------------------------
(***************************************************************************)
(* The systemd collector.  Update asks systemd for its units, and then for *)
(* the properties of each in goroutines that run at the same time; it      *)
(* defers closing the connection and, later, waiting for the goroutines.   *)
(***************************************************************************)
EXTENDS Scraping, DeviceFilters

VARIABLES
    at,         \* where Update is
    conn,       \* the connection: "none", "open" or "closed"
    defers,     \* the calls deferred: the last is made first
    jobs,       \* the goroutines, and the unit each is at
    result      \* what Update returns, once the deferred calls are made

systemdVars == <<at, conn, defers, jobs, result>>

-----------------------------------------------------------------------------
UnitStatesName == {"active", "activating", "deactivating", "inactive", "failed"}

MinSystemdVersionSystemState == 212

(* An old flag stands for the new one, but not beside it.                  *)
NewSystemdCollector(flags) ==
    [built |-> ~(flags.oldExclude.set /\ flags.excludeGiven) /\ ~(flags.oldInclude.set /\ flags.includeGiven),
     include |-> Either(flags.oldInclude, flags.include),
     exclude |-> Either(flags.oldExclude, flags.exclude)]

SummarizeUnits(units) ==
    {Sample(<<"systemd", "units">>, <<state>>, <<0, state, {i \in DOMAIN units : units[i].active = state}>>) :
       state \in UnitStatesName \cup {units[i].active : i \in DOMAIN units}}

FilterUnits(units, filter) ==
    {i \in DOMAIN units : /\ units[i].name \in filter.include.matches
                          /\ units[i].name \notin filter.exclude.matches
                          /\ units[i].loaded}

-----------------------------------------------------------------------------
(* What each goroutine sends of a unit: answers are the calls that succeed *)
(* for it; each that fails leaves out what it asks for.                    *)

UnitSample(i, u, family) == {Sample(<<"systemd", family>>, <<u.name>>, <<i, family>>)}

CollectUnitStatusMetrics(i, u, flags, answers) ==
    LET type == IF u.kind \in {"service", "mount"} /\ "Type" \in answers THEN u.type ELSE ""
    IN  {Sample(<<"systemd", "unit_state">>, <<u.name, state, type>>, <<i, "state", state, state = u.active>>) :
           state \in UnitStatesName}
          \cup IF flags.restarts /\ u.kind = "service" /\ "NRestarts" \in answers
               THEN UnitSample(i, u, "service_restart_total") ELSE {}

(* Without an earlier count the later ones are not asked for.              *)
CollectSockets(i, u, answers) ==
    IF u.kind # "socket" \/ "NAccepted" \notin answers THEN {}
    ELSE UnitSample(i, u, "socket_accepted_connections_total")
           \cup IF "NConnections" \notin answers THEN {}
                ELSE UnitSample(i, u, "socket_current_connections")
                       \cup IF "NRefused" \in answers
                            THEN UnitSample(i, u, "socket_refused_connections_total") ELSE {}

(* A unit that is not active has the start time 0.                         *)
CollectUnitStartTimeMetrics(i, u, answers) ==
    IF u.active # "active" \/ "ActiveEnterTimestamp" \in answers
    THEN UnitSample(i, u, "unit_start_time_seconds") ELSE {}

(* The greatest number there is stands for none.                           *)
CollectUnitTasksMetrics(i, u, answers) ==
    IF u.kind # "service" THEN {}
    ELSE (IF "TasksCurrent" \in answers /\ ~u.unlimited THEN UnitSample(i, u, "unit_tasks_current") ELSE {})
           \cup IF "TasksMax" \in answers /\ ~u.unlimited THEN UnitSample(i, u, "unit_tasks_max") ELSE {}

CollectTimers(i, u, answers) ==
    IF u.kind = "timer" /\ "LastTriggerUSec" \in answers
    THEN UnitSample(i, u, "timer_last_trigger_seconds") ELSE {}

Collect(job, i, u, flags, answers) ==
    CASE job = "status" -> CollectUnitStatusMetrics(i, u, flags, answers)
      [] job = "sockets" -> CollectSockets(i, u, answers)
      [] job = "startTime" -> CollectUnitStartTimeMetrics(i, u, answers)
      [] job = "tasks" -> CollectUnitTasksMetrics(i, u, answers)
      [] job = "timers" -> CollectTimers(i, u, answers)

AllJobs == {"status", "sockets", "startTime", "tasks", "timers"}

JobsOf(e) ==
    {job \in AllJobs : /\ job = "startTime" => e.flags.startTime
                       /\ job = "tasks" => e.flags.tasks
                       /\ job = "timers" => e.version >= MinSystemdVersionSystemState}

(* A call on a closed connection fails.                                    *)
JobSamples(job, i, connection) ==
    IF i \in FilterUnits(env.units, NewSystemdCollector(env.flags))
    THEN Collect(job, i, env.units[i], env.flags, IF connection = "open" THEN env.units[i].answers ELSE {})
    ELSE {}

-----------------------------------------------------------------------------
(* What systemd says of itself; a version it does not tell is 0.           *)
VersionSample == {Sample(<<"systemd", "version">>, <<env.version>>, <<0, "version">>)}

StateSample == {Sample(<<"systemd", "system_running">>, <<>>, <<0, "running">>)}

(* Mutant: the connection is closed before the goroutines are waited for.  *)
DeferFirst(calls, call) == <<call>> \o calls

Defer(calls, call) == Append(calls, call)

(* Mutant: goroutines are waited for that have not been started.           *)
EveryJobDone == \A job \in AllJobs : job \in DOMAIN jobs /\ jobs[job] > Len(env.units)

JobsDone == \A job \in DOMAIN jobs : jobs[job] > Len(env.units)

(* start is "connect", or "idle" when it is another collector's scrape.    *)
SystemdInit(start) ==
    /\ out = Unscraped
    /\ at = start
    /\ conn = "none"
    /\ defers = <<>>
    /\ jobs = <<>>
    /\ result = "none"

Connect ==
    /\ at = "connect"
    /\ IF NewSystemdCollector(env.flags).built /\ env.connect = "ok"
       THEN /\ at' = "version"
            /\ conn' = "open"
            /\ defers' = Defer(defers, "close")
            /\ UNCHANGED out
       ELSE /\ at' = "done"
            /\ out' = [out EXCEPT !.ret = IF NewSystemdCollector(env.flags).built THEN "error" ELSE "unbuilt"]
            /\ UNCHANGED <<conn, defers>>
    /\ UNCHANGED <<env, jobs, result>>

GetSystemdVersion ==
    /\ at = "version"
    /\ SendMore(VersionSample)
    /\ at' = "units"
    /\ UNCHANGED <<env, conn, defers, jobs, result>>

(* The summary is of all units.  The goroutines start.                     *)
GetAllUnits ==
    /\ at = "units"
    /\ IF env.listUnits = "ok"
       THEN /\ SendMore(SummarizeUnits(env.units))
            /\ jobs' = [job \in JobsOf(env) |-> 1]
            /\ defers' = Defer(defers, "wait")
            /\ at' = "state"
            /\ UNCHANGED result
       ELSE /\ result' = "error"
            /\ at' = "return"
            /\ UNCHANGED <<out, jobs, defers>>
    /\ UNCHANGED <<env, conn>>

CollectSystemState ==
    /\ at = "state"
    /\ at' = "return"
    /\ IF env.version < MinSystemdVersionSystemState
       THEN result' = "ok" /\ UNCHANGED out
       ELSE IF env.state = "ok"
            THEN result' = "ok" /\ SendMore(StateSample)
            ELSE result' = "error" /\ UNCHANGED out
    /\ UNCHANGED <<env, conn, defers, jobs>>

(* A goroutine goes on to the next unit.                                   *)
Job(job) ==
    /\ job \in DOMAIN jobs
    /\ jobs[job] <= Len(env.units)
    /\ SendMore(JobSamples(job, jobs[job], conn))
    /\ jobs' = [jobs EXCEPT ![job] = @ + 1]
    /\ UNCHANGED <<env, at, conn, defers, result>>

(* Update returns: the deferred calls are made, the last one first.        *)
RunDeferred ==
    /\ at = "return"
    /\ defers # <<>>
    /\ LET call == defers[Len(defers)]
       IN  IF call = "wait" THEN JobsDone /\ UNCHANGED conn ELSE conn' = "closed"
    /\ defers' = SubSeq(defers, 1, Len(defers) - 1)
    /\ UNCHANGED <<env, out, at, jobs, result>>

ReturnFromUpdate ==
    /\ at = "return"
    /\ defers = <<>>
    /\ out' = [out EXCEPT !.ret = result]
    /\ at' = "done"
    /\ UNCHANGED <<env, conn, defers, jobs, result>>

SystemdNext ==
    \/ Connect \/ GetSystemdVersion \/ GetAllUnits \/ CollectSystemState \/ RunDeferred \/ ReturnFromUpdate
    \/ \E job \in AllJobs : Job(job)

(* Go runs every goroutine, and every call of systemd returns.             *)
SystemdFairness ==
    /\ WF_<<env, out, systemdVars>>(Connect \/ GetSystemdVersion \/ GetAllUnits \/ CollectSystemState)
    /\ WF_<<env, out, systemdVars>>(RunDeferred \/ ReturnFromUpdate)
    /\ \A job \in AllJobs : WF_<<env, out, systemdVars>>(Job(job))

-----------------------------------------------------------------------------
(* What Update would do in one goroutine, one unit after the other.        *)
UpdateSystemd ==
    Check(NewSystemdCollector(env.flags).built, "unbuilt")
      \bullet Need(env.connect, {})
      \bullet Send(VersionSample)
      \bullet Need(env.listUnits, {})
      \bullet Send(SummarizeUnits(env.units))
      \bullet Send(UNION {JobSamples(job, i, "open") : job \in JobsOf(env), i \in DOMAIN env.units})
      \bullet (IF env.version < MinSystemdVersionSystemState THEN Nothing
               ELSE Need(env.state, {}) \bullet Send(StateSample))

(* Whatever the order of the goroutines, Update has sent when it returns   *)
(* what it would have sent in one: nothing is missing, because the         *)
(* connection was closed under a goroutine or one was not waited for.      *)
SystemdAsInOneGoroutine == at = "done" => out = UpdateSystemd

(* Nothing is sent after Update has returned: the channel is closed then,  *)
(* and sending ends the process.                                           *)
NothingSentAfterReturn == [][out.ret # "none" => out' = out]_out

(* Once connected, Update returns: it waits for what has been started,     *)
(* and no more.                                                            *)
SystemdReturns == (at = "version") ~> (at = "done")
=============================================================================

--------------------------- MODULE CollectorsProofs ---------------------------
(***************************************************************************)
(* Proofs about Collectors, for any environments of any of the collectors. *)
(*                                                                         *)
(* systemd: for any units, any answers of systemd and every order of the   *)
(* goroutines, what Update has sent is at any time what its own steps and  *)
(* the goroutines, each up to the unit it is at, would have sent one after *)
(* the other.                                                              *)
(*                                                                         *)
(* pids: for any processes, any interfaces, any packets and any length of  *)
(* a second, the counts of a capture add up to the segments that matched,  *)
(* and it has lasted for a second at least when it ends.                   *)
(*                                                                         *)
(* The other collectors are one step, so an invariant is a fact about      *)
(* their operators: what an Update returns, for all of them; that filters  *)
(* follow the flags; that text files are faithful; that nothing is lost;   *)
(* that what is sent of an item does not depend on the others.  Each is    *)
(* shown of the operators that collections are built from first, and then  *)
(* of the Updates one by one.                                              *)
(***************************************************************************)
EXTENDS Collectors, Induction

UnitsAreSequence == IsSequence(env.units)

-----------------------------------------------------------------------------
(* systemd.                                                                *)

Connected == NewSystemdCollector(env.flags).built /\ env.connect = "ok"

Listed == Connected /\ env.listUnits = "ok"

(* Where each goroutine is, and what is left to do: closing is the last.   *)
Control ==
    /\ at \in {"connect", "version", "units", "state", "return", "done"}
    /\ at = "connect" => conn = "none" /\ defers = <<>>
    /\ at \in {"version", "units", "state", "return"} => Connected
    /\ at \in {"version", "units"} => conn = "open" /\ defers = <<"close">>
    /\ at = "state" => conn = "open" /\ defers = <<"close", "wait">> /\ Listed
    /\ at = "return" => \/ conn = "open" /\ defers = <<"close", "wait">>
                        \/ conn = "open" /\ defers = <<"close">> /\ JobsDone
                        \/ conn = "closed" /\ defers = <<>> /\ JobsDone
    /\ at = "done" => JobsDone
    /\ DOMAIN jobs = IF at \in {"state", "return", "done"} /\ Listed THEN JobsOf(env) ELSE {}
    /\ \A job \in DOMAIN jobs : jobs[job] \in 1..(Len(env.units) + 1)

(* What the goroutines have sent of the units they are done with.          *)
JobsSent ==
    UNION {UNION {JobSamples(job, i, "open") : i \in 1..(jobs[job] - 1)} : job \in DOMAIN jobs}

(* What they send of all units.                                            *)
AllJobsSend ==
    UNION {JobSamples(job, i, "open") : job \in JobsOf(env), i \in DOMAIN env.units}

OldVersion == env.version < MinSystemdVersionSystemState

Result == IF ~Listed \/ (~OldVersion /\ env.state # "ok") THEN "error" ELSE "ok"

Sent ==
    (IF Connected /\ at \notin {"connect", "version"} THEN VersionSample ELSE {})
      \cup (IF Listed /\ at \in {"state", "return", "done"} THEN SummarizeUnits(env.units) ELSE {})
      \cup JobsSent
      \cup (IF Listed /\ at \in {"return", "done"} /\ ~OldVersion /\ env.state = "ok"
            THEN StateSample ELSE {})

Returned ==
    IF at # "done" THEN "none"
    ELSE IF ~NewSystemdCollector(env.flags).built THEN "unbuilt" ELSE Result

SystemdInv ==
    /\ UnitsAreSequence
    /\ Control
    /\ at = "return" => result = Result
    /\ out = [sent |-> Sent, ret |-> Returned]

-----------------------------------------------------------------------------
LEMMA SystemdStart == UnitsAreSequence /\ SystemdInit("connect") => SystemdInv
  <1> SUFFICES ASSUME UnitsAreSequence, SystemdInit("connect") PROVE SystemdInv
    OBVIOUS
  <1>1. DOMAIN jobs = {} /\ JobsSent = {}
    BY DEF SystemdInit, JobsSent
  <1>2. Control
    BY <1>1 DEF SystemdInit, Control, Listed
  <1> QED
    BY <1>1, <1>2 DEF SystemdInit, SystemdInv, Sent, Returned, Unscraped

(* The stack of deferred calls.                                            *)
Calls == {"close", "wait"}

LEMMA CallSequences == <<"close">> \in Seq(Calls) /\ <<"close", "wait">> \in Seq(Calls) /\ "wait" \in Calls
  BY DEF Calls

LEMMA OneDefer == Append(<<"close">>, "wait") = <<"close", "wait">>
  <1>1. Append(<<"close">>, "wait") \in Seq(Calls) /\ Len(Append(<<"close">>, "wait")) = 2
    BY CallSequences, AppendProperties
  <1>2. Append(<<"close">>, "wait")[1] = "close" /\ Append(<<"close">>, "wait")[2] = "wait"
    BY CallSequences, AppendProperties
  <1>3. Len(<<"close", "wait">>) = 2 /\ <<"close", "wait">>[1] = "close" /\ <<"close", "wait">>[2] = "wait"
    OBVIOUS
  <1> DEFINE s == Append(<<"close">>, "wait")
             t == <<"close", "wait">>
  <1>4. s \in Seq(Calls) /\ t \in Seq(Calls)
    BY <1>1, CallSequences
  <1> HIDE DEF s, t
  <1>5. Len(s) = Len(t) /\ \A i \in 1..Len(s) : s[i] = t[i]
    BY <1>1, <1>2, <1>3 DEF s, t
  <1>6. s = t
    BY <1>4, <1>5, SeqEqual
  <1> QED
    BY <1>6 DEF s, t

LEMMA LastDefer ==
    ASSUME NEW calls, calls = <<"close", "wait">>
    PROVE  Len(calls) = 2 /\ calls[Len(calls)] = "wait" /\ SubSeq(calls, 1, Len(calls) - 1) = <<"close">>
  <1>1. Len(calls) = 2 /\ calls[1] = "close" /\ calls[2] = "wait"
    OBVIOUS
  <1>2. /\ SubSeq(calls, 1, 1) \in Seq(Calls)
        /\ Len(SubSeq(calls, 1, 1)) = 1
        /\ SubSeq(calls, 1, 1)[1] = "close"
    BY <1>1, SubSeqProperties DEF Calls
  <1>3. SubSeq(calls, 1, 1) = <<"close">>
    <2> DEFINE s == SubSeq(calls, 1, 1)
               t == <<"close">>
    <2>1. Len(t) = 1 /\ t[1] = "close"
      OBVIOUS
    <2>2. s \in Seq(Calls) /\ t \in Seq(Calls)
      BY <1>2, CallSequences
    <2> HIDE DEF s, t
    <2>3. Len(s) = Len(t) /\ \A i \in 1..Len(s) : s[i] = t[i]
      BY <1>2, <2>1 DEF s
    <2>4. s = t
      BY <2>2, <2>3, SeqEqual
    <2> QED
      BY <2>4 DEF s, t
  <1> QED
    BY <1>1, <1>3

(* The environment is what it is.                                          *)
LEMMA Unchanged ==
    ASSUME UNCHANGED env
    PROVE  /\ UnitsAreSequence' <=> UnitsAreSequence
           /\ Connected' <=> Connected
           /\ Listed' <=> Listed
           /\ OldVersion' <=> OldVersion
           /\ Result' = Result
           /\ VersionSample' = VersionSample
           /\ StateSample' = StateSample
           /\ JobsOf(env)' = JobsOf(env)
           /\ \A job, i : JobSamples(job, i, "open")' = JobSamples(job, i, "open")
  <1>1. (UnitsAreSequence' <=> UnitsAreSequence) /\ VersionSample' = VersionSample /\ StateSample' = StateSample
    BY DEF UnitsAreSequence, IsSequence, VersionSample, StateSample
  <1>2. (Connected' <=> Connected) /\ (Listed' <=> Listed) /\ (OldVersion' <=> OldVersion) /\ Result' = Result
    BY DEF Connected, Listed, OldVersion, Result
  <1>3. JobsOf(env)' = JobsOf(env)
    OBVIOUS
  <1>4. ASSUME NEW job, NEW i PROVE JobSamples(job, i, "open")' = JobSamples(job, i, "open")
    BY DEF JobSamples
  <1> QED
    BY <1>1, <1>2, <1>3, <1>4

LEMMA UpTo == ASSUME NEW n \in Nat \ {0} PROVE 1..n = 1..(n - 1) \cup {n}
  OBVIOUS

LEMMA InJobsSent ==
    ASSUME NEW x
    PROVE  x \in JobsSent <=>
             \E job \in DOMAIN jobs : \E i \in 1..(jobs[job] - 1) : x \in JobSamples(job, i, "open")
  BY DEF JobsSent

LEMMA NoJobsSent == ASSUME \A job \in DOMAIN jobs : jobs[job] = 1 PROVE JobsSent = {}
  BY DEF JobsSent

LEMMA JobsSentKept == ASSUME UNCHANGED <<env, jobs>> PROVE JobsSent' = JobsSent
  BY Unchanged DEF JobsSent

-----------------------------------------------------------------------------
(* A goroutine sends what is of its unit, over the open connection.        *)
LEMMA JobStep ==
    ASSUME SystemdInv, NEW job \in AllJobs, Job(job)
    PROVE  SystemdInv'
  <1> USE DEF Job, systemdVars
  <1>1. jobs[job] \in 1..Len(env.units) /\ Len(env.units) \in Nat
    BY DEF SystemdInv, UnitsAreSequence, IsSequence, Control
  <1>2. ~JobsDone
    BY <1>1 DEF JobsDone
  <1>3. conn = "open" /\ at \in {"state", "return"}
    BY <1>2 DEF SystemdInv, Control
  <1>4. jobs' = [jobs EXCEPT ![job] = @ + 1] /\ DOMAIN jobs' = DOMAIN jobs /\ jobs'[job] = jobs[job] + 1
    OBVIOUS
  <1>5. JobsSent' = JobsSent \cup JobSamples(job, jobs[job], "open")
    <2>1. ASSUME NEW x
          PROVE  x \in JobsSent' <=>
                   \E j \in DOMAIN jobs' : \E i \in 1..(jobs'[j] - 1) : x \in JobSamples(j, i, "open")
      BY Unchanged DEF JobsSent
    <2>2. ASSUME NEW j \in DOMAIN jobs
          PROVE  jobs[j] \in Nat /\ 1..(jobs'[j] - 1) =
                   IF j = job THEN 1..(jobs[j] - 1) \cup {jobs[j]} ELSE 1..(jobs[j] - 1)
      <3>1. jobs[j] \in 1..(Len(env.units) + 1) /\ jobs'[j] = IF j = job THEN jobs[j] + 1 ELSE jobs[j]
        BY <1>4 DEF SystemdInv, Control
      <3>2. jobs[j] \in Nat \ {0} /\ (jobs[j] + 1) - 1 = jobs[j]
        BY <1>1, <3>1
      <3> QED
        BY <3>1, <3>2, UpTo
    <2>3. ASSUME NEW x
          PROVE  x \in JobsSent' <=> x \in JobsSent \/ x \in JobSamples(job, jobs[job], "open")
      <3>1. x \in JobsSent' <=>
              \E j \in DOMAIN jobs : \E i \in 1..(jobs'[j] - 1) : x \in JobSamples(j, i, "open")
        BY <1>4, <2>1
      <3>2. x \in JobsSent <=>
              \E j \in DOMAIN jobs : \E i \in 1..(jobs[j] - 1) : x \in JobSamples(j, i, "open")
        BY InJobsSent
      <3>3. job \in DOMAIN jobs
        OBVIOUS
      <3> HIDE DEF Job, systemdVars
      <3> QED
        BY <2>2, <3>1, <3>2, <3>3
    <2> QED
      BY <2>3
  <1>6. Control'
    <2>1. \A j \in DOMAIN jobs' : jobs'[j] \in 1..(Len(env.units) + 1)
      BY <1>1, <1>4 DEF SystemdInv, Control
    <2>2. /\ UNCHANGED <<at, conn, defers, env>>
          /\ at = "return" => conn = "open" /\ defers = <<"close", "wait">>
      BY <1>2, <1>3 DEF SystemdInv, Control
    <2>3. DOMAIN jobs' = IF at \in {"state", "return", "done"} /\ Listed THEN JobsOf(env) ELSE {}
      BY <1>4 DEF SystemdInv, Control
    <2> QED
      BY <1>3, <2>1, <2>2, <2>3, Unchanged DEF SystemdInv, Control
  <1>7. Sent' = Sent \cup JobSamples(job, jobs[job], "open") /\ Returned' = Returned
    BY <1>5, Unchanged DEF Sent, Returned
  <1>8. out' = [sent |-> Sent', ret |-> Returned']
    BY <1>3, <1>7 DEF SystemdInv, SendMore
  <1> QED
    BY <1>3, <1>6, <1>8, Unchanged DEF SystemdInv

(* The steps of Update itself.                                             *)
LEMMA ConnectStep == ASSUME SystemdInv, Connect PROVE SystemdInv'
  <1> USE DEF Connect
  <1>1. DOMAIN jobs = {} /\ JobsSent = {}
    BY DEF SystemdInv, Control, JobsSent
  <1>2. JobsSent' = {} /\ JobsDone'
    BY <1>1, JobsSentKept DEF JobsDone
  <1>3. CASE Connected
    <2>1. at' = "version" /\ conn' = "open" /\ defers' = <<"close">> /\ UNCHANGED out
      BY <1>3 DEF Connected, SystemdInv, Control, Defer
    <2>2. Control'
      BY <1>1, <1>3, <2>1, Unchanged DEF Control
    <2>3. Sent' = Sent /\ Returned' = Returned
      BY <1>1, <1>2, <2>1, Unchanged DEF Sent, Returned
    <2> QED
      BY <2>1, <2>2, <2>3, Unchanged DEF SystemdInv
  <1>4. CASE ~Connected
    <2>1. /\ at' = "done" /\ UNCHANGED <<conn, defers>>
          /\ out' = [out EXCEPT !.ret = IF NewSystemdCollector(env.flags).built THEN "error" ELSE "unbuilt"]
      BY <1>4 DEF Connected
    <2>2. Control'
      BY <1>1, <1>2, <1>4, <2>1, Unchanged DEF Control, Listed
    <2>3. Sent = {} /\ Sent' = {}
      BY <1>1, <1>2, <1>4, <2>1, Unchanged DEF Sent, Listed
    <2>4. Returned' = IF NewSystemdCollector(env.flags).built THEN "error" ELSE "unbuilt"
      BY <1>4, <2>1, Unchanged DEF Returned, Result, Listed
    <2> QED
      BY <2>1, <2>2, <2>3, <2>4, Unchanged DEF SystemdInv
  <1> QED
    BY <1>3, <1>4

LEMMA VersionStep == ASSUME SystemdInv, GetSystemdVersion PROVE SystemdInv'
  <1> USE DEF GetSystemdVersion
  <1>1. Control' /\ Connected
    BY Unchanged DEF SystemdInv, Control
  <1>2. Sent' = Sent \cup VersionSample /\ Returned' = Returned
    BY <1>1, Unchanged, JobsSentKept DEF Sent, Returned
  <1> QED
    BY <1>1, <1>2, Unchanged DEF SystemdInv, SendMore

LEMMA UnitsStep == ASSUME SystemdInv, GetAllUnits PROVE SystemdInv'
  <1> USE DEF GetAllUnits
  <1>1. Connected /\ DOMAIN jobs = {} /\ JobsSent = {}
    BY DEF SystemdInv, Control, JobsSent
  <1>2. CASE env.listUnits = "ok"
    <2>1. Listed /\ UnitsAreSequence
      BY <1>1, <1>2 DEF SystemdInv, Listed
    <2>2. DOMAIN jobs' = JobsOf(env) /\ \A job \in DOMAIN jobs' : jobs'[job] = 1
      BY <1>2
    <2>3. JobsSent' = {}
      BY <2>2 DEF JobsSent
    <2>4. Control'
      <3>1. at' = "state" /\ UNCHANGED conn /\ conn = "open" /\ defers' = <<"close", "wait">>
        BY <1>2, OneDefer DEF SystemdInv, Control, Defer
      <3>2. \A job \in DOMAIN jobs' : jobs'[job] \in 1..(Len(env.units) + 1)
        BY <2>1, <2>2 DEF UnitsAreSequence, IsSequence
      <3> QED
        BY <1>1, <2>1, <2>2, <3>1, <3>2, Unchanged DEF Control
    <2>5. Sent' = Sent \cup SummarizeUnits(env.units) /\ Returned' = Returned
      BY <1>1, <1>2, <2>1, <2>3, Unchanged DEF Sent, Returned
    <2> QED
      BY <1>2, <2>4, <2>5, Unchanged DEF SystemdInv, SendMore
  <1>3. CASE env.listUnits # "ok"
    <2>1. ~Listed /\ Result = "error" /\ JobsSent' = {} /\ JobsDone'
      BY <1>1, <1>3, JobsSentKept DEF Listed, Result, JobsDone
    <2>2. Control'
      BY <1>1, <1>3, <2>1, Unchanged DEF SystemdInv, Control
    <2>3. Sent' = Sent /\ Returned' = Returned
      BY <1>1, <1>3, <2>1, Unchanged DEF Sent, Returned
    <2> QED
      BY <1>3, <2>1, <2>2, <2>3, Unchanged DEF SystemdInv
  <1> QED
    BY <1>2, <1>3

LEMMA StateStep == ASSUME SystemdInv, CollectSystemState PROVE SystemdInv'
  <1> USE DEF CollectSystemState
  <1>1. Listed /\ JobsSent' = JobsSent
    BY JobsSentKept DEF SystemdInv, Control
  <1>2. Control'
    BY <1>1, Unchanged DEF SystemdInv, Control, Listed
  <1>3. result' = Result /\ Returned' = Returned
    BY <1>1, Unchanged DEF Returned, Result, OldVersion
  <1>4. CASE ~OldVersion /\ env.state = "ok"
    <2>1. SendMore(StateSample) /\ Sent' = Sent \cup StateSample
      BY <1>1, <1>4, Unchanged DEF Sent, OldVersion
    <2> QED
      BY <1>2, <1>3, <2>1, Unchanged DEF SystemdInv, SendMore
  <1>5. CASE OldVersion \/ env.state # "ok"
    <2>1. out' = out /\ Sent' = Sent
      BY <1>1, <1>5, Unchanged DEF Sent, OldVersion
    <2> QED
      BY <1>2, <1>3, <2>1, Unchanged DEF SystemdInv
  <1> QED
    BY <1>4, <1>5

(* The connection is closed once the goroutines have been waited for.      *)
LEMMA DeferredStep == ASSUME SystemdInv, RunDeferred PROVE SystemdInv'
  <1> USE DEF RunDeferred
  <1>1. UNCHANGED <<env, out, at, jobs, result>> /\ (JobsDone' <=> JobsDone)
    BY DEF JobsDone
  <1>2. CASE defers = <<"close", "wait">>
    <2>1. JobsDone /\ UNCHANGED conn /\ defers' = <<"close">>
      BY <1>2, LastDefer
    <2> QED
      BY <1>1, <1>2, <2>1, Unchanged, JobsSentKept DEF SystemdInv, Control, Sent, Returned
  <1>3. CASE defers = <<"close">>
    <2>1. conn' = "closed" /\ defers' = <<>>
      BY <1>3
    <2> QED
      BY <1>1, <1>3, <2>1, Unchanged, JobsSentKept DEF SystemdInv, Control, Sent, Returned
  <1> QED
    BY <1>2, <1>3 DEF SystemdInv, Control

LEMMA ReturnStep == ASSUME SystemdInv, ReturnFromUpdate PROVE SystemdInv'
  <1> USE DEF ReturnFromUpdate
  <1>1. Connected /\ JobsDone /\ (JobsDone' <=> JobsDone) /\ result = Result
    BY DEF SystemdInv, Control, JobsDone
  <1>2. Control'
    BY <1>1, Unchanged DEF SystemdInv, Control
  <1>3. Sent' = Sent /\ Returned' = Result
    BY <1>1, Unchanged, JobsSentKept DEF Sent, Returned, Connected
  <1> QED
    BY <1>1, <1>2, <1>3, Unchanged DEF SystemdInv
LEMMA SystemdKept ==
    ASSUME SystemdInv, UNCHANGED <<env, out, systemdVars>>
    PROVE  SystemdInv'
  BY Unchanged, JobsSentKept DEF systemdVars, SystemdInv, Control, Sent, Returned, JobsDone

LEMMA SystemdStep ==
    ASSUME SystemdInv, SystemdNext
    PROVE  SystemdInv'
  BY JobStep, ConnectStep, VersionStep, UnitsStep, StateStep, DeferredStep, ReturnStep DEF SystemdNext

-----------------------------------------------------------------------------
(* When they are done the goroutines have sent what is of every unit.      *)
LEMMA AllJobsSent ==
    ASSUME SystemdInv, JobsDone, DOMAIN jobs = JobsOf(env)
    PROVE  JobsSent = AllJobsSend
  <1>1. ASSUME NEW job \in DOMAIN jobs PROVE 1..(jobs[job] - 1) = DOMAIN env.units
    <2>1. jobs[job] = Len(env.units) + 1 /\ Len(env.units) \in Nat /\ (Len(env.units) + 1) - 1 = Len(env.units)
      BY DEF SystemdInv, Control, JobsDone, UnitsAreSequence, IsSequence
    <2> QED
      BY <2>1 DEF SystemdInv, UnitsAreSequence, IsSequence
  <1>2. ASSUME NEW x
        PROVE  x \in JobsSent <=>
                 \E job \in JobsOf(env) : \E i \in DOMAIN env.units : x \in JobSamples(job, i, "open")
    BY <1>1, InJobsSent
  <1> QED
    BY <1>2 DEF AllJobsSend

(* How two parts of an Update join, which no proof but this one unfolds.   *)
LEMMA Joined ==
    ASSUME NEW a, NEW b
    PROVE  a \bullet b = IF a.ret = "ok" THEN [sent |-> a.sent \cup b.sent, ret |-> b.ret] ELSE a
  BY Zenon DEF \bullet

(* How the parts of UpdateSystemd join.                                    *)
LEMMA GoesOn ==
    ASSUME NEW S, NEW T, NEW r
    PROVE  [sent |-> S, ret |-> "ok"] \bullet [sent |-> T, ret |-> r] = [sent |-> S \cup T, ret |-> r]
  BY Joined

LEMMA Stops ==
    ASSUME NEW S, NEW r, r # "ok", NEW b
    PROVE  [sent |-> S, ret |-> r] \bullet b = [sent |-> S, ret |-> r]
  BY Joined

LEMMA Parts ==
    /\ \A S : Send(S) = [sent |-> S, ret |-> "ok"]
    /\ \A c, r : Check(c, r) = [sent |-> {}, ret |-> IF c THEN "ok" ELSE r]
    /\ \A outcome : Need(outcome, {}) = [sent |-> {}, ret |-> IF outcome = "ok" THEN "ok" ELSE "error"]
    /\ Nothing = [sent |-> {}, ret |-> "ok"]
  BY DEF Send, Check, Need, Return, Nothing

LEMMA InOneGoroutine ==
    UpdateSystemd =
      IF ~Connected
      THEN [sent |-> {}, ret |-> IF NewSystemdCollector(env.flags).built THEN "error" ELSE "unbuilt"]
      ELSE IF ~Listed THEN [sent |-> VersionSample, ret |-> "error"]
      ELSE [sent |-> VersionSample \cup SummarizeUnits(env.units)
                       \cup AllJobsSend
                       \cup (IF ~OldVersion /\ env.state = "ok" THEN StateSample ELSE {}),
            ret |-> Result]
  <1> DEFINE built == NewSystemdCollector(env.flags).built
             a == Check(built, "unbuilt") \bullet Need(env.connect, {})
             b == a \bullet Send(VersionSample) \bullet Need(env.listUnits, {})
             d == b \bullet Send(SummarizeUnits(env.units)) \bullet Send(AllJobsSend)
             e == IF OldVersion THEN Nothing ELSE Need(env.state, {}) \bullet Send(StateSample)
  <1>1. UpdateSystemd = d \bullet e
    BY DEF UpdateSystemd, OldVersion, AllJobsSend
  <1>2. a = [sent |-> {}, ret |-> IF Connected THEN "ok" ELSE IF built THEN "error" ELSE "unbuilt"]
    BY Parts, GoesOn, Stops DEF Connected
  <1> HIDE DEF a, built
  <1>3. b = IF Connected THEN [sent |-> VersionSample, ret |-> IF Listed THEN "ok" ELSE "error"] ELSE a
    <2>1. CASE Connected
      BY <1>2, <2>1, Parts, GoesOn DEF Listed
    <2>2. CASE ~Connected
      BY <1>2, <2>2, Stops
    <2> QED
      BY <2>1, <2>2
  <1> HIDE DEF b
  <1>4. d = IF Listed THEN [sent |-> VersionSample \cup SummarizeUnits(env.units) \cup AllJobsSend, ret |-> "ok"] ELSE b
    <2>1. CASE Listed
      <3> DEFINE c == b \bullet Send(SummarizeUnits(env.units))
      <3>1. b = [sent |-> VersionSample, ret |-> "ok"]
        BY <1>3, <2>1 DEF Listed
      <3>2. c = [sent |-> VersionSample \cup SummarizeUnits(env.units), ret |-> "ok"]
        BY <3>1, GoesOn DEF Send
      <3>3. d = c \bullet Send(AllJobsSend)
        OBVIOUS
      <3> HIDE DEF c, d
      <3>4. d = [sent |-> VersionSample \cup SummarizeUnits(env.units) \cup AllJobsSend, ret |-> "ok"]
        BY <3>2, <3>3, GoesOn DEF Send
      <3> QED
        BY <2>1, <3>4
    <2>2. CASE ~Listed
      BY <1>2, <1>3, <2>2, Stops
    <2> QED
      BY <2>1, <2>2
  <1>5. e = [sent |-> IF ~OldVersion /\ env.state = "ok" THEN StateSample ELSE {},
             ret |-> IF ~OldVersion /\ env.state # "ok" THEN "error" ELSE "ok"]
    BY Parts, GoesOn, Stops
  <1> HIDE DEF d, e
  <1>6. CASE Listed
    <2> DEFINE V == VersionSample \cup SummarizeUnits(env.units) \cup AllJobsSend
               X == IF ~OldVersion /\ env.state = "ok" THEN StateSample ELSE {}
    <2>1. d = [sent |-> V, ret |-> "ok"]
      BY <1>4, <1>6
    <2>2. e = [sent |-> X, ret |-> Result]
      BY <1>5, <1>6 DEF Result
    <2> HIDE DEF V, X
    <2>3. UpdateSystemd = [sent |-> V \cup X, ret |-> Result]
      BY <1>1, <2>1, <2>2, GoesOn
    <2>4. Connected
      BY <1>6 DEF Listed
    <2> QED
      BY <1>6, <2>3, <2>4 DEF V, X
  <1>7. CASE ~Listed
    BY <1>1, <1>2, <1>3, <1>4, <1>7, Stops DEF Listed, built
  <1> QED
    BY <1>6, <1>7

LEMMA AtTheEnd ==
    ASSUME SystemdInv, at = "done"
    PROVE  out = UpdateSystemd
  <1>1. out = [sent |-> Sent, ret |-> Returned]
    BY DEF SystemdInv
  <1>2. Returned = IF NewSystemdCollector(env.flags).built THEN Result ELSE "unbuilt"
    BY DEF Returned
  <1>3. CASE ~Listed
    <2>1. JobsSent = {}
      BY <1>3 DEF SystemdInv, Control, JobsSent
    <2> QED
      BY <1>1, <1>2, <1>3, <2>1, InOneGoroutine DEF Sent, Result, Listed, Connected
  <1>4. CASE Listed
    <2> DEFINE state == IF ~OldVersion /\ env.state = "ok" THEN StateSample ELSE {}
    <2>1. JobsSent = AllJobsSend
      BY <1>4, AllJobsSent DEF SystemdInv, Control
    <2>2. Connected /\ (at = "done")
      BY <1>4 DEF Listed
    <2>3. UpdateSystemd =
            [sent |-> VersionSample \cup SummarizeUnits(env.units) \cup AllJobsSend \cup state, ret |-> Result]
      BY <1>4, <2>2, InOneGoroutine
    <2>5. Sent = VersionSample \cup SummarizeUnits(env.units) \cup AllJobsSend \cup state
      BY <1>4, <2>1, <2>2 DEF Sent
    <2>4. Returned = Result
      BY <1>2, <2>2 DEF Connected
    <2> QED
      BY <1>1, <2>3, <2>4, <2>5
  <1> QED
    BY <1>3, <1>4
(* Update sends nothing more once it has returned.                         *)
LEMMA SilentOnceReturned ==
    ASSUME SystemdInv, SystemdNext, out.ret # "none"
    PROVE  out' = out
  <1>1. at = "done"
    BY DEF SystemdInv, Returned
  <1>2. ASSUME NEW job \in AllJobs PROVE ~Job(job)
    BY <1>1 DEF SystemdInv, Control, JobsDone, UnitsAreSequence, IsSequence, Job
  <1> QED
    BY <1>1, <1>2 DEF SystemdNext, Connect, GetSystemdVersion, GetAllUnits, CollectSystemState,
                      RunDeferred, ReturnFromUpdate


-----------------------------------------------------------------------------
(* What Updates return.                                                    *)

(* Returns one of R; or that, or "nodata" with nothing sent; and what      *)
(* sends nothing in any case.                                              *)
Ends(r, R) == r.ret \in R
Tells(r, R) == r.ret \in R \/ (r.ret = "nodata" /\ r.sent = {})
Guards(r, R) == r.ret \in R \cup {"nodata"} /\ r.sent = {}

Usual == {"ok", "error", "unbuilt"}

(* What R stands for below: the usual, and what else a collector returns.  *)
OfReturns(R) == Usual \subseteq R

LEMMA Ending ==
    ASSUME NEW R, OfReturns(R)
    PROVE  /\ \A S : Ends(Send(S), R)
           /\ Ends(Nothing, R) /\ Guards(Nothing, R)
           /\ \A r : Ends(Ignoring(r), R)
           /\ \A how \in R : Ends(Return(how), R)
           /\ \A P : Ends(Check(P, "error"), R) /\ Ends(Check(P, "unbuilt"), R)
           /\ \A P : Guards(Check(P, "error"), R) /\ Guards(Check(P, "unbuilt"), R) /\ Guards(Check(P, "nodata"), R)
           /\ \A o : Ends(Need(o, {}), R)
           /\ \A o, A : Guards(Need(o, A), R)
  BY DEF Ends, Guards, OfReturns, Usual, Send, Nothing, Ignoring, Return, Check, Need

(* What is used unchecked: a panic, unless it is as expected.              *)
LEMMA Panicking ==
    ASSUME NEW R, OfReturns(R), NEW P, P \/ "panic" \in R
    PROVE  Ends(Check(P, "panic"), R) /\ Guards(Check(P, "panic"), R)
  BY DEF Ends, Guards, OfReturns, Usual, Send, Nothing, Return, Check

LEMMA Chained ==
    ASSUME NEW R, OfReturns(R)
    PROVE  /\ \A a, b : Ends(a, R) /\ Ends(b, R) => Ends(a \bullet b, R)
           /\ \A a, b : Tells(a, R) /\ Ends(b, R) => Tells(a \bullet b, R)
           /\ \A a, b : Guards(a, R) /\ Guards(b, R) => Guards(a \bullet b, R)
           /\ \A a, b : Guards(a, R) /\ Ends(b, R) => Tells(a \bullet b, R)
           /\ \A r : Ends(r, R) \/ Guards(r, R) => Tells(r, R)
  BY Joined DEF Ends, Tells, Guards, OfReturns

LEMMA LoopReturns ==
    ASSUME NEW bodies, DOMAIN bodies \subseteq Nat
    PROVE  \/ Returning(bodies) = {} /\ Loop(bodies) = Send(UNION {bodies[i].sent : i \in DOMAIN bodies})
           \/ \E last \in DOMAIN bodies :
                Loop(bodies) = [sent |-> UNION {bodies[i].sent : i \in {j \in DOMAIN bodies : j <= last}},
                                ret  |-> bodies[last].ret]
  <1>1. CASE Returning(bodies) = {}
    BY <1>1 DEF Loop
  <1>2. CASE Returning(bodies) # {}
    <2>1. FirstOf(Returning(bodies)) \in Returning(bodies)
      BY <1>2, LeastMember DEF FirstOf, Returning
    <2>2. FirstOf(Returning(bodies)) \in DOMAIN bodies
      BY <2>1 DEF Returning
    <2> QED
      BY <1>2, <2>2 DEF Loop
  <1> QED
    BY <1>1, <1>2

LEMMA LoopEnds ==
    ASSUME NEW R, OfReturns(R), NEW bodies, DOMAIN bodies \subseteq Nat,
           \A i \in DOMAIN bodies : Ends(bodies[i], R)
    PROVE  Ends(Loop(bodies), R)
  BY LoopReturns DEF Ends, Send, OfReturns, Usual

LEMMA LoopGuards ==
    ASSUME NEW R, OfReturns(R), NEW bodies, DOMAIN bodies \subseteq Nat,
           \A i \in DOMAIN bodies : Guards(bodies[i], R)
    PROVE  Guards(Loop(bodies), R)
  BY LoopReturns DEF Guards, Send, OfReturns, Usual

-----------------------------------------------------------------------------
(* pids.                                                                   *)

(* What the counts add up to.                                              *)
Total(r, t) == MapThenSumSet(LAMBDA pid : r[pid] + t[pid], DOMAIN r)

LEMMA Totals == EverySegmentCountedOnce <=> Total(rec, tmt) = matched
  BY DEF EverySegmentCountedOnce, Total

LEMMA TotalIsSum ==
    ASSUME NEW r, NEW t, IsFiniteSet(DOMAIN r)
    PROVE  \E f : IsSum(f, [pid \in DOMAIN r |-> r[pid] + t[pid]], DOMAIN r) /\ Total(r, t) = f[DOMAIN r]
  <1> DEFINE Value(f, s) == IF s = {} THEN 0
                            ELSE LET x == CHOOSE y \in s : TRUE IN (r[x] + t[x]) + f[s \ {x}]
             U == DOMAIN r
             w == [pid \in U |-> r[pid] + t[pid]]
             sum == CHOOSE f : f = [s \in SUBSET U |-> Value(f, s)]
  <1>1. ASSUME NEW f
        PROVE  IsSum(f, w, U) <=> f = [s \in SUBSET U |-> Value(f, s)]
    <2>1. \A s \in SUBSET U : s # {} => AnyOf(s) \in U /\ w[AnyOf(s)] = r[AnyOf(s)] + t[AnyOf(s)]
      BY AnyOfIsMember
    <2>2. [s \in SUBSET U |-> Value(f, s)] =
            [s \in SUBSET U |-> IF s = {} THEN 0 ELSE w[AnyOf(s)] + f[s \ {AnyOf(s)}]]
      BY <2>1 DEF AnyOf
    <2> QED
      BY <2>2 DEF IsSum
  <1> HIDE DEF Value, w
  <1>2. \E f : f = [s \in SUBSET U |-> Value(f, s)]
    <2>1. PICK f : IsSum(f, w, U)
      BY SumExists
    <2> QED
      BY <1>1, <2>1
  <1>3. sum = [s \in SUBSET U |-> Value(sum, s)]
    BY <1>2
  <1>4. Total(r, t) = sum[U]
    BY DEF Total, MapThenSumSet, MapThenFoldSet, Value
  <1> HIDE DEF sum
  <1> QED
    BY <1>1, <1>3, <1>4 DEF w

(* Every port is of one of the processes: the last of those that have it.  *)
LEMMA PortsAreOfPids ==
    ASSUME IsSequence(env.procs), NEW port \in DOMAIN Ports
    PROVE  Ports[port] \in Pids(env)
  <1> DEFINE users(p) == {n \in DOMAIN env.procs : env.procs[n].ls /\ p \in env.procs[n].ports}
             last(p) == CHOOSE n \in users(p) : \A o \in users(p) : o <= n
             N == Len(env.procs)
  <1>1. users(port) # {} /\ users(port) \subseteq DOMAIN env.procs
    BY DEF Ports, Top5LocalPort
  <1>2. users(port) \subseteq 0..N /\ N \in Nat
    BY <1>1 DEF IsSequence
  <1>3. Ports = [p \in DOMAIN Ports |-> env.procs[last(p)].pid]
    BY Zenon DEF Ports, Top5LocalPort
  <1>4. \E n \in users(port) : \A o \in users(port) : o <= n
    <2> HIDE DEF users, N
    <2> QED
      BY <1>1, <1>2, GreatestMember
  <1>5. last(port) \in users(port)
    <2> HIDE DEF users
    <2> QED
      BY <1>4
  <1> HIDE DEF last
  <1>6. Ports[port] = env.procs[last(port)].pid
    BY <1>3
  <1> QED
    BY <1>1, <1>5, <1>6 DEF Pids

LEMMA PidsAreFinite == ASSUME IsSequence(env.procs) PROVE IsFiniteSet(Pids(env))
  <1> DEFINE pids == [n \in DOMAIN env.procs |-> env.procs[n].pid]
             N == Len(env.procs)
  <1>1. IsFiniteSet(DOMAIN env.procs)
    <2>1. DOMAIN env.procs = 1..N /\ N \in Int
      BY DEF IsSequence
    <2> HIDE DEF N
    <2> QED
      BY <2>1, FS_Interval
  <1>2. pids \in Surjection(DOMAIN env.procs, Pids(env))
    BY DEF Pids, Surjection
  <1> HIDE DEF pids
  <1> QED
    BY <1>1, <1>2, FS_Surjection

(* While an interface is captured on: no packet yet; the first, which has  *)
(* left the end in the past; or more, the last of them at the end.         *)
CaptureInv ==
    /\ begin \in Nat /\ end \in Nat /\ clock \in Nat
    /\ phase = "capture" =>
         \/ begin = LongPast /\ end = LongPast
         \/ begin > LongPast /\ end = LongPast /\ begin <= clock
         \/ begin > LongPast /\ end > begin /\ end = clock

(* The counts of a capture are of the processes, and they add up.          *)
CountInv ==
    /\ IsSequence(env.procs)
    /\ phase \in {"nic", "capture"} => DOMAIN rec = Pids(env)
    /\ rec \in [DOMAIN rec -> Nat] /\ tmt \in [DOMAIN rec -> Nat]
    /\ IsFiniteSet(DOMAIN rec)
    /\ phase = "top" => matched = 0
    /\ Total(rec, tmt) = matched
    /\ matched \in Nat

(* What pids returns once it has got as far as sending.                    *)
ReturnsOfPids == Usual \cup (IF Unchecked("pids", env) THEN {"panic"} ELSE {})

OutInv ==
    /\ IsSequence(env.order) /\ \A k \in DOMAIN env.order : env.order[k] \in DOMAIN env.procs
    /\ out = [sent |-> out.sent, ret |-> out.ret] /\ out.ret \in ReturnsOfPids \cup {"none"}
    /\ phase # "done" => out.ret = "none"

PidsInv == CaptureInv /\ CountInv /\ OutInv

(* No packets yet.                                                         *)
LEMMA TotalOfZeros ==
    ASSUME NEW r, NEW t, IsFiniteSet(DOMAIN r), \A pid \in DOMAIN r : r[pid] = 0 /\ t[pid] = 0
    PROVE  Total(r, t) = 0
  <1> DEFINE w == [pid \in DOMAIN r |-> r[pid] + t[pid]]
  <1>1. \A pid \in DOMAIN r : w[pid] = 0
    OBVIOUS
  <1> HIDE DEF w
  <1>2. PICK f : IsSum(f, w, DOMAIN r) /\ Total(r, t) = f[DOMAIN r]
    BY TotalIsSum DEF w
  <1> QED
    BY <1>1, <1>2, SumOfZeros

(* One more of one of the processes.                                       *)
OneMoreOf(pid, U, r, t, r1, t1) ==
    /\ IsFiniteSet(U) /\ r \in [U -> Nat] /\ t \in [U -> Nat] /\ pid \in U /\ DOMAIN r1 = U
    /\ \A p \in U : r1[p] + t1[p] = (r[p] + t[p]) + (IF p = pid THEN 1 ELSE 0)

LEMMA TotalOfOneMore ==
    ASSUME NEW U, NEW r, NEW t, NEW pid, NEW r1, NEW t1, OneMoreOf(pid, U, r, t, r1, t1)
    PROVE  Total(r1, t1) = Total(r, t) + 1
  <1> USE DEF OneMoreOf
  <1> DEFINE w == [p \in U |-> r[p] + t[p]]
             w1 == [p \in U |-> r1[p] + t1[p]]
  <1>1. w \in [U -> Int] /\ DOMAIN r = U
    OBVIOUS
  <1>2. \A p \in U : w1[p] = w[p] + (IF p = pid THEN 1 ELSE 0)
    OBVIOUS
  <1>3. PICK f : IsSum(f, w, U) /\ Total(r, t) = f[U]
    BY <1>1, TotalIsSum
  <1>4. PICK g : IsSum(g, w1, U) /\ Total(r1, t1) = g[U]
    <2> HIDE DEF w
    <2> QED
      BY TotalIsSum
  <1> HIDE DEF w, w1
  <1>5. g[U] = f[U] + 1
    BY <1>1, <1>2, <1>3, <1>4, SumOfOneMore
  <1> QED
    BY <1>3, <1>4, <1>5

(* The sum is a number.                                                    *)
LEMMA TotalIsInt ==
    ASSUME NEW U, IsFiniteSet(U), NEW r \in [U -> Nat], NEW t \in [U -> Nat]
    PROVE  Total(r, t) \in Int
  <1> DEFINE w == [pid \in U |-> r[pid] + t[pid]]
  <1>1. w \in [U -> Int] /\ DOMAIN r = U
    OBVIOUS
  <1>2. PICK f : IsSum(f, w, U) /\ Total(r, t) = f[U]
    BY <1>1, TotalIsSum
  <1> HIDE DEF w
  <1> DEFINE T == {s \in SUBSET U : f[s] \in Int}
  <1>3. {} \in T
    BY <1>2 DEF IsSum
  <1>4. ASSUME NEW s \in SUBSET U, s # {}, \A x \in s : s \ {x} \in T PROVE s \in T
    <2>1. AnyOf(s) \in s
      BY <1>4, AnyOfIsMember
    <2>2. f[s] = w[AnyOf(s)] + f[s \ {AnyOf(s)}]
      BY <1>2, <1>4 DEF IsSum
    <2> QED
      BY <1>1, <1>4, <2>1, <2>2
  <1>5. U \in T
    <2> HIDE DEF T
    <2> QED
      BY <1>3, <1>4, AllSubsets
  <1> QED
    BY <1>2, <1>5

(* A segment that is counted is one more, and one that is not changes      *)
(* nothing.                                                                *)
LEMMA ReceivedOneMore ==
    ASSUME NEW U, IsFiniteSet(U), NEW r \in [U -> Nat], NEW t \in [U -> Nat], NEW pid, NEW counted, counted => pid \in U
    PROVE  /\ Count(r, counted, pid) \in [U -> Nat]
           /\ Total(Count(r, counted, pid), t) = Total(r, t) + (IF counted THEN 1 ELSE 0)
  <1>1. CASE counted
    <2> DEFINE r1 == [r EXCEPT ![pid] = @ + 1]
    <2>1. Count(r, counted, pid) = r1
      BY <1>1 DEF Count
    <2>2. r1 \in [U -> Nat] /\ OneMoreOf(pid, U, r, t, r1, t)
      BY <1>1 DEF OneMoreOf
    <2> HIDE DEF r1
    <2>3. Total(r1, t) = Total(r, t) + 1
      BY <2>2, TotalOfOneMore
    <2> QED
      BY <1>1, <2>1, <2>2, <2>3
  <1>2. CASE ~counted
    <2>1. Count(r, counted, pid) = r
      BY <1>2 DEF Count
    <2>2. Total(r, t) \in Int
      BY TotalIsInt
    <2> QED
      BY <1>2, <2>1, <2>2
  <1> QED
    BY <1>1, <1>2

LEMMA TransmittedOneMore ==
    ASSUME NEW U, IsFiniteSet(U), NEW r \in [U -> Nat], NEW t \in [U -> Nat], NEW pid, NEW counted, counted => pid \in U
    PROVE  /\ Count(t, counted, pid) \in [U -> Nat]
           /\ Total(r, Count(t, counted, pid)) = Total(r, t) + (IF counted THEN 1 ELSE 0)
  <1>1. CASE counted
    <2> DEFINE t1 == [t EXCEPT ![pid] = @ + 1]
    <2>1. Count(t, counted, pid) = t1
      BY <1>1 DEF Count
    <2>2. t1 \in [U -> Nat] /\ OneMoreOf(pid, U, r, t, r, t1)
      BY <1>1 DEF OneMoreOf
    <2> HIDE DEF t1
    <2>3. Total(r, t1) = Total(r, t) + 1
      BY <2>2, TotalOfOneMore
    <2> QED
      BY <1>1, <2>1, <2>2, <2>3
  <1>2. CASE ~counted
    <2>1. Count(t, counted, pid) = t
      BY <1>2 DEF Count
    <2>2. Total(r, t) \in Int
      BY TotalIsInt
    <2> QED
      BY <1>2, <2>1, <2>2
  <1> QED
    BY <1>1, <1>2


LEMMA PidsStart ==
    ASSUME IsSequence(env.procs), IsSequence(env.order), \A k \in DOMAIN env.order : env.order[k] \in DOMAIN env.procs,
           PidsInit("top")
    PROVE  PidsInv
  <1>1. CaptureInv
    BY DEF PidsInit, CaptureInv, LongPast
  <1>2. DOMAIN rec = {} /\ rec \in [{} -> Nat] /\ tmt \in [{} -> Nat] /\ matched = 0 /\ phase = "top"
    BY DEF PidsInit
  <1>3. Total(rec, tmt) = 0
    BY <1>2, TotalOfZeros, FS_EmptySet
  <1>4. CountInv
    BY <1>2, <1>3, FS_EmptySet DEF CountInv
  <1> QED
    BY <1>1, <1>4 DEF PidsInv, OutInv, PidsInit, Unscraped

LEMMA PidsKept ==
    ASSUME PidsInv, UNCHANGED <<env, out, pidsVars>>
    PROVE  PidsInv'
  <1>1. UNCHANGED ReturnsOfPids
    BY DEF ReturnsOfPids
  <1> QED
    BY <1>1 DEF PidsInv, CaptureInv, CountInv, OutInv, pidsVars

LEMMA TopStep == ASSUME PidsInv, GetCpuUtilizationTop5 PROVE PidsInv'
  <1> USE DEF GetCpuUtilizationTop5
  <1>0. UNCHANGED ReturnsOfPids /\ {"error", "ok"} \subseteq ReturnsOfPids
    BY DEF ReturnsOfPids, Usual
  <1>1. CaptureInv'
    BY DEF PidsInv, CaptureInv
  <1>5. OutInv'
    BY <1>0 DEF PidsInv, OutInv
  <1>2. IsSequence(env.procs)' /\ matched' = 0 /\ phase' # "top" /\ phase' # "capture"
    BY DEF PidsInv, CountInv
  <1>3. CASE env.top = "ok"
    <2>1. rec' = [pid \in Pids(env) |-> 0] /\ tmt' = [pid \in Pids(env) |-> 0]
      BY <1>3
    <2>2. IsFiniteSet(Pids(env)) /\ Pids(env)' = Pids(env)
      BY PidsAreFinite DEF PidsInv, CountInv
    <2>3. Total(rec', tmt') = 0
      BY <2>1, <2>2, TotalOfZeros
    <2> QED
      BY <1>1, <1>5, <1>2, <2>1, <2>2, <2>3 DEF PidsInv, CountInv
  <1>4. CASE env.top # "ok"
    <2>1. UNCHANGED <<rec, tmt, matched>> /\ phase' = "done"
      BY <1>4
    <2> QED
      BY <1>1, <1>5, <1>2, <2>1 DEF PidsInv, CountInv
  <1> QED
    BY <1>3, <1>4

LEMMA OpenStep == ASSUME PidsInv, OpenLive PROVE PidsInv'
  <1>1. CaptureInv'
    BY DEF OpenLive, PidsInv, CaptureInv, LongPast
  <1>2. CountInv'
    BY DEF OpenLive, PidsInv, CountInv
  <1>3. UNCHANGED ReturnsOfPids
    BY DEF OpenLive, ReturnsOfPids
  <1> QED
    BY <1>1, <1>2, <1>3 DEF PidsInv, OutInv, OpenLive

(* What is sent of the processes, in any order.                            *)
LEMMA PidsEnd ==
    ASSUME IsSequence(env.order), \A k \in DOMAIN env.order : env.order[k] \in DOMAIN env.procs
    PROVE  Ends(Loop([k \in DOMAIN env.order |-> PidSamples(env.order[k], env.procs[env.order[k]])]), ReturnsOfPids)
  <1> DEFINE R == ReturnsOfPids
             bodies == [k \in DOMAIN env.order |-> PidSamples(env.order[k], env.procs[env.order[k]])]
  <1>1. OfReturns(R)
    BY DEF OfReturns, ReturnsOfPids
  <1>2. ASSUME NEW n \in DOMAIN env.procs PROVE Ends(PidSamples(n, env.procs[n]), R)
    <2> DEFINE p == env.procs[n]
    <2>1. /\ Ends(Check(p.words >= 12, "panic"), R)
          /\ Ends(Check(p.status # "short", "panic"), R) /\ Ends(Check(p.io # "short", "panic"), R)
      <3>1. ~(p.words >= 12) \/ "short" \in {p.status, p.io} => "panic" \in R
        BY DEF ReturnsOfPids, Unchecked
      <3> HIDE DEF p, R
      <3> QED
        BY <1>1, <3>1, Panicking
    <2> HIDE DEF p, R
    <2> QED
      BY <1>1, <2>1, Ending, Chained DEF PidSamples, p
  <1>3. DOMAIN bodies \subseteq Nat /\ \A k \in DOMAIN bodies : Ends(bodies[k], R)
    BY <1>2 DEF IsSequence
  <1> HIDE DEF bodies, R
  <1>4. Ends(Loop(bodies), R)
    BY <1>1, <1>3, LoopEnds
  <1> QED
    BY <1>4 DEF bodies, R

LEMMA SendStep == ASSUME PidsInv, SendPids PROVE PidsInv'
  <1>1. CaptureInv'
    BY DEF SendPids, PidsInv, CaptureInv
  <1>2. CountInv'
    BY DEF SendPids, PidsInv, CountInv
  <1>3. out'.ret \in ReturnsOfPids
    BY PidsEnd DEF SendPids, PidsInv, OutInv, Ends
  <1>5. out' = [sent |-> out'.sent, ret |-> out'.ret]
    <2>1. \A bodies : Loop(bodies) = [sent |-> Loop(bodies).sent, ret |-> Loop(bodies).ret]
      BY DEF Loop, Send
    <2> QED
      BY <2>1 DEF SendPids
  <1>4. UNCHANGED ReturnsOfPids
    BY DEF SendPids, ReturnsOfPids
  <1> QED
    BY <1>1, <1>2, <1>3, <1>4, <1>5 DEF PidsInv, OutInv, SendPids

(* What a packet does to the two time stamps.                              *)
LEMMA Arrival ==
    ASSUME CaptureInv, PacketArrives
    PROVE  /\ clock' \in Nat /\ clock' > clock
           /\ begin' = IF begin = end THEN clock' ELSE begin
           /\ end' = IF begin = end THEN end ELSE clock'
           /\ phase = "capture"
           /\ nic' # nic => end' - begin' >= Second
  <1>1. PICK gap \in Gaps :
           /\ clock' = clock + gap
           /\ begin' = NextTimes(begin, end, clock')[1]
           /\ end' = NextTimes(begin, end, clock')[2]
    BY DEF PacketArrives
  <1>2. clock' \in Nat /\ clock' > clock
    BY <1>1, GapsAssumption DEF CaptureInv
  <1>3. /\ begin' = IF begin = end THEN clock' ELSE begin
        /\ end' = IF begin = end THEN end ELSE clock'
    BY <1>1 DEF NextTimes
  <1>4. phase = "capture" /\ (nic' # nic => end' - begin' >= Second)
    BY DEF PacketArrives
  <1> QED
    BY <1>2, <1>3, <1>4

(* Segment by segment.                                                     *)
LEMMA PacketIsCounted ==
    ASSUME NEW p, NEW r, NEW t
    PROVE  /\ Both(t, [l \in {"tcp", "udp"} |-> Transmitted(p, l, Ports)], p, "src") =
                 Count(Count(t, Transmitted(p, "tcp", Ports), Ports[p.layers["tcp"]["src"]]),
                       Transmitted(p, "udp", Ports), Ports[p.layers["udp"]["src"]])
           /\ Both(r, [l \in {"tcp", "udp"} |-> Received(p, l, Ports)], p, "dst") =
                 Count(Count(r, Received(p, "tcp", Ports), Ports[p.layers["tcp"]["dst"]]),
                       Received(p, "udp", Ports), Ports[p.layers["udp"]["dst"]])
  BY DEF Both, Count

LEMMA PacketStep == ASSUME PidsInv, PacketArrives PROVE PidsInv'
  <1>1. CaptureInv'
    BY Arrival, SecondAssumption DEF PidsInv, CaptureInv, LongPast
  <1>2. PICK p \in Packets :
           /\ tmt' = Count(Count(tmt, Transmitted(p, "tcp", Ports), Ports[p.layers["tcp"]["src"]]),
                           Transmitted(p, "udp", Ports), Ports[p.layers["udp"]["src"]])
           /\ rec' = Count(Count(rec, Received(p, "tcp", Ports), Ports[p.layers["tcp"]["dst"]]),
                           Received(p, "udp", Ports), Ports[p.layers["udp"]["dst"]])
           /\ matched' = matched + Matches(p, "tcp") + Matches(p, "udp")
    BY PacketIsCounted DEF PacketArrives
  <1>7. OutInv'
    <2>1. UNCHANGED ReturnsOfPids
      BY DEF PacketArrives, ReturnsOfPids
    <2> QED
      BY <2>1 DEF PacketArrives, PidsInv, OutInv
  <1> DEFINE U == Pids(env)
             tmt1 == Count(tmt, Transmitted(p, "tcp", Ports), Ports[p.layers["tcp"]["src"]])
             rec1 == Count(rec, Received(p, "tcp", Ports), Ports[p.layers["tcp"]["dst"]])
             Of(P) == IF P THEN 1 ELSE 0
  <1>3. /\ UNCHANGED <<env, out>> /\ phase = "capture" /\ phase' # "top"
        /\ DOMAIN rec = U /\ U' = U /\ IsSequence(env.procs)
        /\ IsFiniteSet(U) /\ rec \in [U -> Nat] /\ tmt \in [U -> Nat]
        /\ matched \in Nat /\ Total(rec, tmt) = matched
    BY DEF PacketArrives, PidsInv, CountInv
  <1>4. \A l : /\ Transmitted(p, l, Ports) => Ports[p.layers[l]["src"]] \in U
               /\ Received(p, l, Ports) => Ports[p.layers[l]["dst"]] \in U
    BY <1>3, PortsAreOfPids DEF Transmitted, Received, HasPort
  <1>5. \A l : Matches(p, l) = Of(Transmitted(p, l, Ports)) + Of(Received(p, l, Ports))
    BY DEF Matches, Transmitted, Received
  <1> HIDE DEF U
  <1>6. /\ tmt1 \in [U -> Nat] /\ Total(rec, tmt1) = Total(rec, tmt) + Of(Transmitted(p, "tcp", Ports))
        /\ tmt' \in [U -> Nat] /\ Total(rec, tmt') = Total(rec, tmt1) + Of(Transmitted(p, "udp", Ports))
        /\ rec1 \in [U -> Nat] /\ Total(rec1, tmt') = Total(rec, tmt') + Of(Received(p, "tcp", Ports))
        /\ rec' \in [U -> Nat] /\ Total(rec', tmt') = Total(rec1, tmt') + Of(Received(p, "udp", Ports))
    <2>1. tmt1 \in [U -> Nat] /\ Total(rec, tmt1) = Total(rec, tmt) + Of(Transmitted(p, "tcp", Ports))
      BY <1>3, <1>4, TransmittedOneMore
    <2> HIDE DEF tmt1
    <2>2. tmt' = Count(tmt1, Transmitted(p, "udp", Ports), Ports[p.layers["udp"]["src"]])
      BY <1>2 DEF tmt1
    <2>3. tmt' \in [U -> Nat] /\ Total(rec, tmt') = Total(rec, tmt1) + Of(Transmitted(p, "udp", Ports))
      BY <1>3, <1>4, <2>1, <2>2, TransmittedOneMore
    <2>4. rec1 \in [U -> Nat] /\ Total(rec1, tmt') = Total(rec, tmt') + Of(Received(p, "tcp", Ports))
      BY <1>3, <1>4, <2>3, ReceivedOneMore
    <2> HIDE DEF rec1
    <2>5. rec' = Count(rec1, Received(p, "udp", Ports), Ports[p.layers["udp"]["dst"]])
      BY <1>2 DEF rec1
    <2>6. rec' \in [U -> Nat] /\ Total(rec', tmt') = Total(rec1, tmt') + Of(Received(p, "udp", Ports))
      BY <1>3, <1>4, <2>3, <2>4, <2>5, ReceivedOneMore
    <2> QED
      BY <2>1, <2>3, <2>4, <2>6
  <1>8. Total(rec', tmt') = matched' /\ matched' \in Nat
    <2>1. \A P : Of(P) \in {0, 1}
      OBVIOUS
    <2> HIDE DEF Of
    <2>2. matched' = matched + (Of(Transmitted(p, "tcp", Ports)) + Of(Received(p, "tcp", Ports)))
                             + (Of(Transmitted(p, "udp", Ports)) + Of(Received(p, "udp", Ports)))
      BY <1>2, <1>5
    <2> HIDE DEF tmt1, rec1
    <2> QED
      BY <1>3, <1>6, <2>1, <2>2
  <1> QED
    BY <1>1, <1>3, <1>6, <1>7, <1>8 DEF PidsInv, CountInv, U

LEMMA PidsStep == ASSUME PidsInv, PidsNext PROVE PidsInv'
  BY TopStep, OpenStep, PacketStep, SendStep DEF PidsNext

-----------------------------------------------------------------------------
(* Any collector.                                                          *)

CollectorsInv ==
    /\ collector \in DOMAIN Environments
    /\ env \in Environments[collector]
    /\ IF collector = "systemd" THEN SystemdInv ELSE at = "idle"
    /\ IF collector = "pids" THEN PidsInv ELSE rec = <<>> /\ tmt = <<>> /\ matched = 0
    /\ collector \notin InSteps => out \in {Unscraped, Update(collector, env)}

LEMMA EnvironmentIsOfIts ==
    ASSUME collector \in DOMAIN Environments, env \in Environments[collector]
    PROVE  ListsAreSequences(collector, env) /\ IsAsRead(collector, env)
  BY EnvironmentsAssumption

LEMMA CollectorsStart == ASSUME Init PROVE CollectorsInv
  <1>1. collector \in DOMAIN Environments /\ env \in Environments[collector] /\ out = Unscraped
    BY DEF Init, SystemdInit
  <1>2. ListsAreSequences(collector, env) /\ IsAsRead(collector, env)
    BY <1>1, EnvironmentIsOfIts
  <1>3. CASE collector = "systemd"
    <2>1. UnitsAreSequence /\ SystemdInit("connect")
      BY <1>2, <1>3 DEF Init, ListsAreSequences, UnitsAreSequence
    <2>2. rec = <<>> /\ tmt = <<>> /\ matched = 0
      BY DEF Init, PidsInit
    <2> QED
      BY <1>1, <1>3, <2>1, <2>2, SystemdStart DEF CollectorsInv, InSteps
  <1>4. CASE collector = "pids"
    <2>1. /\ IsSequence(env.procs) /\ PidsInit("top")
          /\ IsSequence(env.order) /\ \A k \in DOMAIN env.order : env.order[k] \in DOMAIN env.procs
      BY <1>2, <1>4 DEF Init, ListsAreSequences, IsAsRead
    <2>2. at = "idle"
      BY <1>4 DEF Init, SystemdInit
    <2> QED
      BY <1>1, <1>4, <2>1, <2>2, PidsStart DEF CollectorsInv, InSteps
  <1>5. CASE collector \notin InSteps
    BY <1>1, <1>5 DEF Init, SystemdInit, PidsInit, CollectorsInv, InSteps
  <1> QED
    BY <1>3, <1>4, <1>5 DEF InSteps

LEMMA CollectorsStep == ASSUME CollectorsInv, [Next]_vars PROVE CollectorsInv'
  <1>1. UNCHANGED <<collector, env>>
    BY DEF vars, Next, Scrape, ScrapeSystemd, ScrapePids, SystemdNext, Connect, GetSystemdVersion, GetAllUnits,
           CollectSystemState, RunDeferred, ReturnFromUpdate, Job, PidsNext, GetCpuUtilizationTop5, OpenLive,
           PacketArrives, SendPids
  <1>2. CASE Scrape
    <2>1. collector \notin InSteps /\ out' = Update(collector, env) /\ UNCHANGED <<systemdVars, pidsVars>>
      BY <1>2 DEF Scrape
    <2>2. Update(collector, env)' = Update(collector, env)
      BY <1>1
    <2> QED
      BY <1>1, <2>1, <2>2 DEF CollectorsInv, InSteps, systemdVars, pidsVars
  <1>3. CASE ScrapeSystemd
    <2>1. collector = "systemd" /\ SystemdInv' /\ UNCHANGED pidsVars
      BY <1>3, SystemdStep DEF ScrapeSystemd, CollectorsInv
    <2> QED
      BY <1>1, <2>1 DEF CollectorsInv, InSteps, pidsVars
  <1>4. CASE ScrapePids
    <2>1. collector = "pids" /\ PidsInv' /\ UNCHANGED systemdVars
      BY <1>4, PidsStep DEF ScrapePids, CollectorsInv
    <2> QED
      BY <1>1, <2>1 DEF CollectorsInv, InSteps, systemdVars
  <1>5. CASE UNCHANGED vars
    <2>1. UNCHANGED <<env, out, systemdVars>> /\ UNCHANGED <<env, out, pidsVars>>
      BY <1>5 DEF vars
    <2>2. (collector = "systemd" => SystemdInv') /\ (collector = "pids" => PidsInv')
      BY <2>1, SystemdKept, PidsKept DEF CollectorsInv
    <2>3. Update(collector, env)' = Update(collector, env)
      BY <1>1
    <2> QED
      BY <1>1, <2>1, <2>2, <2>3 DEF CollectorsInv, systemdVars, pidsVars
  <1> QED
    BY <1>2, <1>3, <1>4, <1>5 DEF Next

(* The inductive invariant: systemd and pids are where their steps have    *)
(* come to, and any other collector has done nothing or all of its Update. *)
THEOREM CollectorsInvHolds == Spec => []CollectorsInv
  BY CollectorsStart, CollectorsStep, PTL DEF Spec

(* Whatever the order of systemd's goroutines, Update has sent when it     *)
(* returns what it would have sent in one.                                 *)
THEOREM SystemdAsInOneGoroutineHolds == Spec => []SystemdAsInOneGoroutine
  <1>1. CollectorsInv => SystemdAsInOneGoroutine
    <2> SUFFICES ASSUME CollectorsInv, at = "done" PROVE out = UpdateSystemd
      BY DEF SystemdAsInOneGoroutine
    <2> QED
      BY AtTheEnd DEF CollectorsInv
  <1> QED
    BY <1>1, CollectorsInvHolds, PTL

(* No collector, and no goroutine of systemd, sends after Update has       *)
(* returned.                                                               *)
THEOREM NothingSentAfterReturnHolds == Spec => NothingSentAfterReturn
  <1>1. CollectorsInv /\ [Next]_vars => [out.ret # "none" => out' = out]_out
    <2> SUFFICES ASSUME CollectorsInv, Next, out.ret # "none" PROVE out' = out
      BY DEF vars
    <2>1. ~Scrape
      BY DEF Scrape, Unscraped
    <2>2. CASE ScrapeSystemd
      BY <2>2, SilentOnceReturned DEF ScrapeSystemd, CollectorsInv
    <2>3. CASE ScrapePids
      BY <2>3 DEF ScrapePids, CollectorsInv, PidsInv, OutInv, PidsNext, GetCpuUtilizationTop5, OpenLive,
                  PacketArrives, SendPids
    <2> QED
      BY <2>1, <2>2, <2>3 DEF Next
  <1> QED
    BY <1>1, CollectorsInvHolds, PTL DEF Spec, NothingSentAfterReturn

(* Every segment of a process is counted once, for one process and in one  *)
(* direction, for any ports, shared by whichever processes, and however    *)
(* many packets; a packet with a segment of TCP and one of UDP, both of    *)
(* processes, is counted for each of the two.                              *)
THEOREM EverySegmentCountedOnceHolds == Spec => []EverySegmentCountedOnce
  <1>1. CollectorsInv => EverySegmentCountedOnce
    <2> SUFFICES ASSUME CollectorsInv PROVE Total(rec, tmt) = matched
      BY Totals
    <2>1. CASE collector = "pids"
      BY <2>1 DEF CollectorsInv, PidsInv, CountInv
    <2>2. CASE collector # "pids"
      <3>1. rec = <<>> /\ tmt = <<>> /\ matched = 0
        BY <2>2 DEF CollectorsInv
      <3>2. DOMAIN rec = {}
        BY <3>1
      <3> QED
        BY <3>1, <3>2, TotalOfZeros, FS_EmptySet
    <2> QED
      BY <2>1, <2>2
  <1> QED
    BY <1>1, CollectorsInvHolds, PTL

(* Packets are counted for a second at least on every interface, whatever  *)
(* their time stamps: the first of them never ends the capture.            *)
THEOREM AtLeastASecondHolds == Spec => AtLeastASecond
  <1>1. CollectorsInv /\ [Next]_vars =>
          [nic' # nic => clock' - begin' >= Second /\ begin' > LongPast]_<<nic, begin, clock>>
    <2> SUFFICES ASSUME CollectorsInv, Next, nic' # nic
                 PROVE  clock' - begin' >= Second /\ begin' > LongPast
      BY DEF vars, pidsVars
    <2>1. collector = "pids" /\ PidsInv /\ PacketArrives
      BY DEF Next, Scrape, ScrapeSystemd, ScrapePids, pidsVars, CollectorsInv, PidsNext, GetCpuUtilizationTop5,
             OpenLive, SendPids
    <2> QED
      BY <2>1, Arrival, SecondAssumption DEF PidsInv, CaptureInv, LongPast
  <1> QED
    BY <1>1, CollectorsInvHolds, PTL DEF Spec, AtLeastASecond

(* The collectors that send what they have read, or a part of each item.   *)
LEMMA ItemsTell ==
    ASSUME NEW e, IsSequence(e.items), NEW R, OfReturns(R)
    PROVE  /\ Tells(UpdateXFS(e), R) /\ Tells(UpdateBcache(e), R) /\ Tells(UpdateBtrfs(e), R)
           /\ Tells(UpdateMdadm(e), R) /\ Tells(UpdateFilesystem(e), R) /\ Tells(UpdateRunit(e), R)
           /\ Tells(UpdateNetClass(e), R) /\ Tells(UpdateQdisc(e), R) /\ Tells(UpdateEthtool(e), R)
           /\ Tells(UpdateWifi(e), R) /\ Tells(UpdateSoftnet(e), R) /\ Tells(UpdateLnstat(e), R)
           /\ Tells(UpdatePerf(e), R) /\ Tells(UpdateDrm(e), R) /\ Tells(UpdateThermalZone(e), R)
           /\ Tells(UpdateCPUFreq(e), R) /\ Tells(UpdateTapestats(e), R) /\ Tells(UpdateNVMe(e), R)
           /\ Tells(UpdateFibreChannel(e), R) /\ Tells(UpdateInfiniBand(e), R)
           /\ Tells(UpdateZoneinfo(e), R) /\ Tells(UpdateBuddyinfo(e), R) /\ Tells(UpdateSlabinfo(e), R)
           /\ Tells(UpdateCgroups(e), R) /\ Tells(UpdateSchedstat(e), R) /\ Tells(UpdateTime(e), R)
  <1>1. DOMAIN e.items \subseteq Nat
    BY DEF IsSequence
  <1>2. Tells(UpdateXFS(e), R)
    BY <1>1, Ending, Chained, LoopEnds DEF UpdateXFS
  <1>3. Tells(UpdateBcache(e), R)
    BY <1>1, Ending, Chained, LoopEnds DEF UpdateBcache
  <1>4. Tells(UpdateBtrfs(e), R)
    BY <1>1, Ending, Chained, LoopEnds DEF UpdateBtrfs
  <1>5. Tells(UpdateMdadm(e), R)
    BY <1>1, Ending, Chained, LoopEnds DEF UpdateMdadm
  <1>6. Tells(UpdateFilesystem(e), R)
    BY <1>1, Ending, Chained, LoopEnds DEF UpdateFilesystem
  <1>7. Tells(UpdateRunit(e), R)
    BY <1>1, Ending, Chained, LoopEnds DEF UpdateRunit
  <1>8. Tells(UpdateNetClass(e), R)
    <2>1. Guards(NetClassInfo(e), R)
      BY <1>1, Ending, Chained, LoopGuards DEF NetClassInfo
    <2>2. Tells(NetClassSysfsUpdate(e), R)
      BY <1>1, <2>1, Ending, Chained, LoopEnds DEF NetClassSysfsUpdate
    <2>3. Ends(RTNLSpeeds(e), R) /\ Ends(SysfsAttributes(e), R)
      BY <1>1, Ending, Chained, LoopEnds DEF RTNLSpeeds, SysfsAttributes
    <2>4. Tells(NetClassRTNLUpdate(e), R)
      BY <1>1, <2>3, Ending, Chained, LoopEnds DEF NetClassRTNLUpdate
    <2> QED
      BY <2>2, <2>4 DEF UpdateNetClass
  <1>9. Tells(UpdateQdisc(e), R)
    BY <1>1, Ending, Chained, LoopEnds DEF UpdateQdisc
  <1>10. Tells(UpdateEthtool(e), R)
    BY <1>1, Ending, Chained, LoopEnds DEF UpdateEthtool
  <1>11. Tells(UpdateWifi(e), R)
    BY <1>1, Ending, Chained, LoopEnds DEF UpdateWifi
  <1>12. Tells(UpdateSoftnet(e), R)
    BY <1>1, Ending, Chained, LoopEnds DEF UpdateSoftnet
  <1>13. Tells(UpdateLnstat(e), R)
    <2> DEFINE bodies ==
              [i \in DOMAIN e.items |->
                 Send({Sample(<<"lnstat", h>>, <<e.items[i].file, cpu>>, <<i, h, cpu>>) :
                         h \in e.items[i].headers, cpu \in e.items[i].cpus})]
    <2>1. \A i \in DOMAIN e.items : Ends(bodies[i], R)
      BY Ending
    <2>2. UpdateLnstat(e) = Need(e.netstat, {}) \bullet Loop(bodies)
      BY DEF UpdateLnstat
    <2>3. DOMAIN bodies = DOMAIN e.items
      OBVIOUS
    <2> HIDE DEF bodies
    <2> QED
      BY <1>1, <2>1, <2>2, <2>3, Ending, Chained, LoopEnds
  <1>14. Tells(UpdatePerf(e), R)
    <2>1. Ends(TracepointStats(e), R) /\ \A kind : Ends(PerfStats(e, kind), R)
      BY <1>1, Ending, Chained, LoopEnds DEF TracepointStats, PerfStats
    <2> QED
      BY <2>1, Ending, Chained DEF UpdatePerf, NewPerfCollector
  <1>15. Tells(UpdateDrm(e), R)
    BY <1>1, Ending, Chained, LoopEnds DEF UpdateDrm
  <1>16. Tells(UpdateThermalZone(e), R)
    BY <1>1, Ending, Chained, LoopEnds DEF UpdateThermalZone
  <1>17. Tells(UpdateCPUFreq(e), R) /\ Tells(UpdateTapestats(e), R) /\ Tells(UpdateNVMe(e), R)
    BY <1>1, Ending, Chained, LoopEnds DEF UpdateCPUFreq, UpdateTapestats, UpdateNVMe
  <1>18. Tells(UpdateFibreChannel(e), R) /\ Tells(UpdateInfiniBand(e), R)
    BY <1>1, Ending, Chained, LoopEnds DEF UpdateFibreChannel, UpdateInfiniBand
  <1>19. Tells(UpdateZoneinfo(e), R) /\ Tells(UpdateBuddyinfo(e), R) /\ Tells(UpdateSlabinfo(e), R)
    BY <1>1, Ending, Chained, LoopEnds DEF UpdateZoneinfo, UpdateBuddyinfo, UpdateSlabinfo
  <1>20. Tells(UpdateCgroups(e), R) /\ Tells(UpdateSchedstat(e), R) /\ Tells(UpdateTime(e), R)
    BY <1>1, Ending, Chained, LoopEnds DEF UpdateCgroups, UpdateSchedstat, UpdateTime
  <1> QED
    BY <1>2, <1>3, <1>4, <1>5, <1>6, <1>7, <1>8, <1>9, <1>10, <1>11, <1>12, <1>13, <1>14, <1>15, <1>16,
       <1>17, <1>18, <1>19, <1>20

(* And those of them that take what they have read for what it should be.  *)
LEMMA UncheckedItemsTell ==
    ASSUME NEW c, NEW e, ListsAreSequences(c, e), NEW R, OfReturns(R), Unchecked(c, e) => "panic" \in R
    PROVE  /\ c = "netdev" => Tells(UpdateNetDev(e), R)
           /\ c = "supervisord" => Tells(UpdateSupervisord(e), R)
           /\ c = "textfile" => Tells(UpdateTextfile(e), R)
  <1>1. c \in HaveItems => DOMAIN e.items \subseteq Nat
    BY DEF ListsAreSequences, IsSequence
  <1>2. ASSUME c = "netdev" PROVE Tells(UpdateNetDev(e), R)
    <2>1. DOMAIN e.items \subseteq Nat
      BY <1>1, <1>2 DEF HaveItems
    <2>2. ASSUME NEW filter, NEW i \in DOMAIN e.items
          PROVE  Ends(Check(Ignored(filter, e.items[i].name) \/ e.items[i].stats64 \/ ~e.netlink, "panic"), R)
      BY <1>2, Panicking DEF Unchecked
    <2>3. \A filter : Ends(GetNetDevStats(e, filter), R)
      BY <2>1, <2>2, Ending, Chained, LoopEnds DEF GetNetDevStats
    <2> QED
      BY <2>1, <2>3, Ending, Chained, LoopEnds DEF UpdateNetDev
  <1>3. ASSUME c = "supervisord" PROVE Tells(UpdateSupervisord(e), R)
    <2>1. DOMAIN e.items \subseteq Nat
      BY <1>1, <1>3 DEF HaveItems
    <2>2. Ends(Check(e.array, "panic"), R) /\ \A i \in DOMAIN e.items : Ends(Check(e.items[i].shaped, "panic"), R)
      BY <1>3, Panicking DEF Unchecked
    <2> QED
      BY <2>1, <2>2, Ending, Chained, LoopEnds DEF UpdateSupervisord
  <1>4. ASSUME c = "textfile" PROVE Tells(UpdateTextfile(e), R)
    <2>1. /\ DOMAIN e.items \subseteq Nat
          /\ \A i \in DOMAIN e.items : DOMAIN e.items[i].families \subseteq Nat
      BY <1>1, <1>4 DEF HaveItems, ListsAreSequences, IsSequence
    <2>2. ASSUME NEW i \in DOMAIN e.items PROVE Ends(ConvertFamilies(i, e.items[i]), R)
      <3> DEFINE f == e.items[i]
                 bodies == [k \in DOMAIN Families(f) |-> ConvertMetricFamily(i, f, Families(f)[k])]
      <3>1. Families(f) = f.families \/ Families(f) = <<>>
        BY DEF Families
      <3>2. DOMAIN bodies \subseteq Nat /\ \A k \in DOMAIN bodies : k \in DOMAIN f.families /\ Families(f)[k] = f.families[k]
        BY <2>1, <3>1
      <3>3. ASSUME NEW k \in DOMAIN bodies PROVE Ends(bodies[k], R)
        <4>1. Families(f)[k].reserved => "panic" \in R
          BY <1>4, <3>2 DEF Unchecked
        <4>2. bodies[k] = ConvertMetricFamily(i, f, Families(f)[k])
          OBVIOUS
        <4> DEFINE family == Families(f)[k]
        <4> HIDE DEF f, bodies, family
        <4>3. Ends(Check(~family.reserved, "panic"), R)
          <5>1. ~family.reserved \/ "panic" \in R
            BY <4>1 DEF family
          <5> QED
            BY <5>1, Panicking, Zenon
        <4>4. \E S : ConvertMetricFamily(i, f, family) = Check(~family.reserved, "panic") \bullet Send(S)
          BY DEF ConvertMetricFamily
        <4>6. \A a, S : Ends(a, R) => Ends(a \bullet Send(S), R)
          BY Ending, Chained
        <4>5. Ends(ConvertMetricFamily(i, f, family), R)
          BY <4>3, <4>4, <4>6, Zenon
        <4> QED
          BY <4>2, <4>5 DEF family
      <3>4. ConvertFamilies(i, f) = Loop(bodies) \/ ConvertFamilies(i, f) = Nothing
        BY DEF ConvertFamilies
      <3> HIDE DEF bodies
      <3>5. Ends(Loop(bodies), R)
        BY <3>2, <3>3, LoopEnds
      <3> QED
        BY <3>4, <3>5, Ending
    <2> QED
      BY <2>1, <2>2, Ending, Chained, LoopEnds DEF UpdateTextfile
  <1> QED
    BY <1>2, <1>3, <1>4

LEMMA SysctlsAreNumbered ==
    ASSUME NEW flags, IsSequence(flags.include), IsSequence(flags.includeInfo)
    PROVE  DOMAIN NewSysctls(flags) \subseteq Nat
  <1> DEFINE a == [n \in DOMAIN flags.include |-> [numeric |-> TRUE, sysctl |-> flags.include[n]]]
             b == [n \in DOMAIN flags.includeInfo |-> [numeric |-> FALSE, sysctl |-> flags.includeInfo[n]]]
             S == {a[n] : n \in DOMAIN a} \cup {b[n] : n \in DOMAIN b}
  <1>1. a \in Seq(S) /\ b \in Seq(S)
    <2>1. \A n \in DOMAIN a : a[n] \in S
      OBVIOUS
    <2>2. \A n \in DOMAIN b : b[n] \in S
      OBVIOUS
    <2>3. DOMAIN a = 1..Len(flags.include) /\ DOMAIN b = 1..Len(flags.includeInfo)
      BY DEF IsSequence
    <2>4. a = [n \in DOMAIN a |-> a[n]] /\ b = [n \in DOMAIN b |-> b[n]]
      OBVIOUS
    <2> HIDE DEF a, b, S
    <2>5. a \in [1..Len(flags.include) -> S] /\ b \in [1..Len(flags.includeInfo) -> S]
      BY <2>1, <2>2, <2>3, <2>4
    <2>6. Len(flags.include) \in Nat /\ Len(flags.includeInfo) \in Nat
      BY DEF IsSequence
    <2> QED
      BY <2>5, <2>6, SeqDef
  <1>2. NewSysctls(flags) = a \o b
    BY DEF NewSysctls
  <1> HIDE DEF a, b, S
  <1>3. a \o b \in Seq(S)
    BY <1>1
  <1> QED
    BY <1>2, <1>3

(* The collectors that read a fixed number of values.                      *)
LEMMA ValuesTell ==
    ASSUME NEW e, NEW R, OfReturns(R)
    PROVE  /\ Tells(UpdateNFSd(e), R) /\ Tells(UpdateIPVS(e), R) /\ Tells(UpdateTCPStat(e), R)
           /\ Tells(UpdateSockstat(e), R) /\ Tells(UpdateNetworkRoute(e), R) /\ Tells(UpdateARP(e), R)
           /\ Tells(UpdateUDPQueues(e), R) /\ Tells(UpdateNTP(e), R) /\ Tells(UpdatePowerSupplyClass(e), R)
           /\ Tells(UpdateDMI(e), R) /\ Tells(UpdateCPU(e), R) /\ Tells(UpdateStat(e), R)
           /\ Tells(UpdateSoftirqs(e), R) /\ Tells(UpdateKSMD(e), R) /\ Tells(UpdateTimex(e), R)
           /\ Tells(UpdateSELinux(e), R) /\ Tells(UpdateEntropy(e), R) /\ Tells(UpdateUname(e), R)
           /\ Tells(UpdateLoadavg(e), R) /\ Tells(UpdateLogind(e), R)
  <1>1. Tells(UpdateNFSd(e), R)
    BY Ending, Chained DEF UpdateNFSd
  <1>2. Tells(UpdateIPVS(e), R)
    BY Ending, Chained DEF UpdateIPVS
  <1>3. Tells(UpdateTCPStat(e), R)
    BY Ending, Chained DEF UpdateTCPStat
  <1>4. Tells(UpdateSockstat(e), R)
    BY Ending, Chained DEF UpdateSockstat
  <1>5. Tells(UpdateNetworkRoute(e), R)
    BY Ending, Chained DEF UpdateNetworkRoute
  <1>6. Tells(UpdateARP(e), R)
    BY Ending, Chained DEF UpdateARP
  <1>7. Tells(UpdateUDPQueues(e), R)
    <2>1. CASE e.v4 = "notexist" /\ e.v6 = "notexist"
      <3>1. Guards(NoDataOfBoth(e), R)
        BY Ending DEF NoDataOfBoth
      <3> QED
        BY <2>1, <3>1, Ending, Chained DEF UpdateUDPQueues
    <2>2. CASE ~(e.v4 = "notexist" /\ e.v6 = "notexist")
      <3>1. Ends(NoDataOfBoth(e), R)
        BY <2>2, Ending DEF NoDataOfBoth, Check
      <3> QED
        BY <3>1, Ending, Chained DEF UpdateUDPQueues
    <2> QED
      BY <2>1, <2>2
  <1>8. Tells(UpdateNTP(e), R)
    <2>1. Guards(NewNtpCollector(e.flags), R)
      <3> DEFINE Valid == /\ e.flags.serverIsLocal \/ e.flags.loopback
                          /\ e.flags.protocolVersion \in 2..4
                          /\ e.flags.offsetTolerance >= 0
                          /\ e.flags.serverPort \in 1..65535
      <3>1. NewNtpCollector(e.flags) = IF Valid THEN Nothing ELSE Return("unbuilt")
        BY DEF NewNtpCollector, Check
      <3> HIDE DEF Valid
      <3> QED
        BY <3>1 DEF Guards, Nothing, Send, Return, OfReturns, Usual
    <2> QED
      BY <2>1, Ending, Chained DEF UpdateNTP
  <1>9. Tells(UpdatePowerSupplyClass(e), R)
    BY Ending, Chained DEF UpdatePowerSupplyClass
  <1>10. Tells(UpdateDMI(e), R)
    BY Ending, Chained DEF UpdateDMI, NewDMICollector
  <1>11. Tells(UpdateCPU(e), R)
    <2>1. Ends(UpdateCPUInfo(e), R) /\ Ends(UpdateCPUStat(e), R)
      BY Ending, Chained DEF UpdateCPUInfo, UpdateCPUStat
    <2> QED
      BY <2>1, Ending, Chained DEF UpdateCPU
  <1>12. Tells(UpdateStat(e), R)
    BY Ending, Chained DEF UpdateStat
  <1>13. Tells(UpdateSoftirqs(e), R)
    BY Ending, Chained DEF UpdateSoftirqs
  <1>14. Tells(UpdateKSMD(e), R)
    <2>1. DOMAIN KSMDFiles \subseteq Nat
      BY DEF KSMDFiles
    <2> QED
      BY <2>1, Ending, Chained, LoopEnds DEF UpdateKSMD
  <1>15. Tells(UpdateTimex(e), R) /\ Tells(UpdateSELinux(e), R) /\ Tells(UpdateUname(e), R)
    BY Ending, Chained DEF UpdateTimex, UpdateSELinux, UpdateUname
  <1>16. Tells(UpdateEntropy(e), R)
    BY Ending, Chained DEF UpdateEntropy
  <1>17. Tells(UpdateLoadavg(e), R)
    BY Ending, Chained DEF UpdateLoadavg, ParseLoad
  <1>18. Tells(UpdateLogind(e), R)
    BY Ending, Chained DEF UpdateLogind
  <1> QED
    BY <1>1, <1>2, <1>3, <1>4, <1>5, <1>6, <1>7, <1>8, <1>9, <1>10, <1>11, <1>12, <1>13, <1>14, <1>15, <1>16,
       <1>17, <1>18

(* Those that read lines, or lists in lists.                               *)
LEMMA ListsTell ==
    ASSUME NEW c, NEW e, ListsAreSequences(c, e), NEW R, OfReturns(R), Unchecked(c, e) => "panic" \in R
    PROVE  /\ c = "diskstats" => Tells(UpdateDiskstats(e), R)
           /\ c = "nfs" => Tells(UpdateNFS(e), R)
           /\ c = "mountstats" => Tells(UpdateMountStats(e), R)
           /\ c = "filefd" => Tells(UpdateFileFD(e), R)
           /\ c = "netstat" => Tells(UpdateNetStat(e), R)
           /\ c = "bonding" => Tells(UpdateBonding(e), R)
           /\ c = "edac" => Tells(UpdateEdac(e), R)
           /\ c = "meminfo" => Tells(UpdateMeminfo(e), R)
           /\ c = "meminfo_numa" => Tells(UpdateMeminfoNuma(e), R)
           /\ c = "vmstat" => Tells(UpdateVmStat(e), R)
           /\ c = "sysctl" => Tells(UpdateSysctl(e), R)
           /\ c = "processes" => Tells(UpdateProcesses(e), R)
           /\ c = "interrupts" => Tells(UpdateInterrupts(e), R)
  <1> USE DEF ListsAreSequences, HaveItems
  <1>0. \A l : IsSequence(l) => DOMAIN l \subseteq Nat
    BY DEF IsSequence
  <1>1. ASSUME c = "diskstats" PROVE Tells(UpdateDiskstats(e), R)
    <2>1. DOMAIN e.items \subseteq Nat /\ DOMAIN e.order \subseteq Nat
      BY <1>0, <1>1
    <2>2. ASSUME NEW dev, NEW columns PROVE Ends(InodeSamples(dev, columns), R)
      <3> DEFINE n3 == IF Len(columns) < 3 THEN Len(columns) ELSE 3
                 bodies == [n \in 1..n3 |->
                              IF columns[n] = "num"
                              THEN Send({Sample(<<"disk", DiskInfoDescs.inode[n]>>, <<dev>>, <<0, dev, n>>)})
                              ELSE Return("error")]
      <3>1. InodeSamples(dev, columns) = Loop(bodies)
        BY DEF InodeSamples
      <3>2. DOMAIN bodies \subseteq Nat
        OBVIOUS
      <3>3. \A n \in DOMAIN bodies : Ends(bodies[n], R)
        BY Ending DEF OfReturns, Usual
      <3> HIDE DEF bodies
      <3> QED
        BY <3>1, <3>2, <3>3, LoopEnds
    <2> QED
      BY <2>1, <2>2, Ending, Chained, LoopEnds DEF UpdateDiskstats
  <1>2. ASSUME c = "nfs" PROVE Tells(UpdateNFS(e), R)
    <2>1. DOMAIN e.procedures \subseteq Nat
      BY <1>0, <1>2
    <2> QED
      BY <2>1, Ending, Chained, LoopEnds DEF UpdateNFS
  <1>3. ASSUME c = "mountstats" PROVE Tells(UpdateMountStats(e), R)
    <2>1. DOMAIN e.mounts \subseteq Nat
      BY <1>0, <1>3
    <2> QED
      BY <2>1, Ending, Chained, LoopEnds DEF UpdateMountStats
  <1>4. ASSUME c = "filefd" PROVE Tells(UpdateFileFD(e), R)
    <2>1. DOMAIN e.order \subseteq Nat
      BY <1>0, <1>4
    <2> QED
      BY <2>1, Ending, Chained, LoopEnds DEF UpdateFileFD
  <1>5. ASSUME c = "netstat" PROVE Tells(UpdateNetStat(e), R)
    <2>1. DOMAIN e.netstat.protocols \subseteq Nat /\ DOMAIN e.snmp.protocols \subseteq Nat /\ DOMAIN e.fields \subseteq Nat
      BY <1>0, <1>5
    <2>6. ASSUME NEW file \in {e.netstat, e.snmp} PROVE Ends(ParseNetStats(file.protocols), R)
      <3>1. \A n \in DOMAIN file.protocols : Ends(Check(file.protocols[n].named, "panic"), R)
        BY <1>5, Panicking DEF Unchecked
      <3> QED
        BY <2>1, <3>1, Ending, Chained, LoopEnds DEF ParseNetStats
    <2>2. Ends(ParseNetStats(e.netstat.protocols), R) /\ Ends(ParseNetStats(e.snmp.protocols), R)
      BY <2>6
    <2>3. Ends(ReadNetStats(e.netstat), R) /\ Ends(ReadNetStats(e.snmp), R) /\ Ends(GetSNMP6Stats(e.snmp6), R)
      BY <2>2, Ending, Chained DEF ReadNetStats, GetSNMP6Stats
    <2> DEFINE bodies ==
              [n \in DOMAIN e.fields |->
                 LET f == e.fields[n] IN
                 IF f.from = "snmp6" /\ e.snmp6.open # "ok" THEN Nothing
                 ELSE IF ~f.parses THEN Return("error")
                 ELSE IF f.name \notin e.pattern THEN Nothing
                 ELSE Send({Sample(<<"netstat", f.name>>, <<>>, <<0, f.from>>)})]
    <2>4. DOMAIN bodies \subseteq Nat /\ \A n \in DOMAIN bodies : Ends(bodies[n], R)
      BY <2>1, Ending DEF OfReturns, Usual
    <2>5. UpdateNetStat(e) = ReadNetStats(e.netstat) \bullet ReadNetStats(e.snmp) \bullet GetSNMP6Stats(e.snmp6)
                               \bullet Need(e.listens, {}) \bullet Loop(bodies)
      BY DEF UpdateNetStat
    <2> HIDE DEF bodies
    <2> QED
      BY <2>3, <2>4, <2>5, Ending, Chained, LoopEnds
  <1>6. ASSUME c = "bonding" PROVE Tells(UpdateBonding(e), R)
    <2>1. DOMAIN e.items \subseteq Nat /\ \A i \in DOMAIN e.items : DOMAIN e.items[i].slaves \subseteq Nat
      BY <1>0, <1>6
    <2>2. Guards(ReadBondingStats(e), R)
      BY <2>1, Ending, Chained, LoopGuards DEF ReadBondingStats
    <2> QED
      BY <2>1, <2>2, Ending, Chained, LoopEnds DEF UpdateBonding
  <1>7. ASSUME c = "edac" PROVE Tells(UpdateEdac(e), R)
    <2>1. DOMAIN e.items \subseteq Nat /\ \A i \in DOMAIN e.items : DOMAIN e.items[i].rows \subseteq Nat
      BY <1>0, <1>7
    <2>2. \A read, family, labels, of : Ends(EdacCount(read, family, labels, of), R)
      BY Ending, Chained DEF EdacCount
    <2> QED
      BY <2>1, <2>2, Ending, Chained, LoopEnds DEF UpdateEdac
  <1>8. ASSUME c = "meminfo" PROVE Tells(UpdateMeminfo(e), R)
    <2>1. DOMAIN e.lines \subseteq Nat
      BY <1>0, <1>8
    <2>3. \A n \in DOMAIN e.lines : e.lines[n].columns # 0 => Ends(Check(e.lines[n].columns >= 2, "panic"), R)
      BY <1>8, Panicking DEF Unchecked
    <2>2. Ends(ParseMemInfo(e.lines), R)
      BY <2>1, <2>3, Ending, Chained, LoopEnds DEF ParseMemInfo
    <2> QED
      BY <2>2, Ending, Chained DEF UpdateMeminfo
  <1>9. ASSUME c = "meminfo_numa" PROVE Tells(UpdateMeminfoNuma(e), R)
    <2>1. DOMAIN e.items \subseteq Nat /\ \A i \in DOMAIN e.items : DOMAIN e.items[i].lines \subseteq Nat
      BY <1>0, <1>9
    <2>4. ASSUME NEW i \in DOMAIN e.items, NEW n \in DOMAIN e.items[i].lines
          PROVE  Ends(ParseNumaLine(e.items[i].lines[n]), R)
      <3>1. e.items[i].lines[n].columns # 0 => Ends(Check(e.items[i].lines[n].columns >= 4, "panic"), R)
        BY <1>9, Panicking DEF Unchecked
      <3> QED
        BY <3>1, Ending, Chained DEF ParseNumaLine
    <2>2. \A i \in DOMAIN e.items : Ends(ParseMemInfoNuma(i, e.items[i]), R) /\ Ends(ParseMemInfoNumaStat(i, e.items[i]), R)
      BY <2>1, <2>4, Ending, Chained, LoopEnds DEF ParseMemInfoNuma, ParseMemInfoNumaStat
    <2>3. Ends(GetMemInfoNuma(e), R)
      BY <2>1, <2>2, Chained, LoopEnds DEF GetMemInfoNuma
    <2> QED
      BY <2>3, Ending, Chained DEF UpdateMeminfoNuma, Ends
  <1>10. ASSUME c = "vmstat" PROVE Tells(UpdateVmStat(e), R)
    <2>1. DOMAIN e.lines \subseteq Nat
      BY <1>0, <1>10
    <2>2. \A n \in DOMAIN e.lines : Ends(Check(e.lines[n].columns >= 2, "panic"), R)
      BY <1>10, Panicking DEF Unchecked
    <2> QED
      BY <2>1, <2>2, Ending, Chained, LoopEnds DEF UpdateVmStat
  <1>11. ASSUME c = "sysctl" PROVE Tells(UpdateSysctl(e), R)
    <2>1. DOMAIN NewSysctls(e.flags) \subseteq Nat
      BY <1>11, SysctlsAreNumbered
    <2>2. \A k, s, v : Ends(NewMappedMetrics(k, s, v), R)
      BY Ending, Chained DEF NewMappedMetrics
    <2>3. \A k, s, read : Ends(SysctlMetrics(k, s, read), R)
      BY <2>2, Ending, Chained DEF SysctlMetrics
    <2> QED
      BY <2>1, <2>3, Ending, Chained, LoopEnds DEF UpdateSysctl
  <1>12. ASSUME c = "processes" PROVE Tells(UpdateProcesses(e), R)
    <2>1. DOMAIN e.procs \subseteq Nat /\ \A n \in DOMAIN e.procs : DOMAIN e.procs[n].threads \subseteq Nat
      BY <1>0, <1>12
    <2>2. \A o : Ends(Reading(o), R)
      BY Ending DEF Reading
    <2>3. \A n \in DOMAIN e.procs : Ends(GetThreadStates(e.procs[n]), R)
      BY <2>1, <2>2, Ending, Chained, LoopEnds DEF GetThreadStates
    <2>4. Ends(GetAllocatedThreads(e.procs), R)
      BY <2>1, <2>2, <2>3, Ending, Chained, LoopEnds DEF GetAllocatedThreads
    <2> QED
      BY <2>4, Ending, Chained DEF UpdateProcesses
  <1>13. ASSUME c = "interrupts" PROVE Tells(UpdateInterrupts(e), R)
    <2>1. DOMAIN e.order \subseteq Nat
      BY <1>0, <1>13
    <2> DEFINE values(n) ==
              Loop([k \in 1..e.cpus |->
                Check(e.lines[n].bad # k, "error")
                  \bullet Send({Sample(<<"interrupts_total">>, <<k, e.lines[n].name, e.lines[n].info>>, <<0, n, k>>)})])
               bodies == [k \in DOMAIN e.order |->
                            IF e.order[k] \in ParseInterrupts(e.lines, e.cpus) THEN values(e.order[k]) ELSE Nothing]
    <2>2. ASSUME NEW n PROVE Ends(values(n), R)
      <3> DEFINE sends ==
                [k \in 1..e.cpus |->
                  Check(e.lines[n].bad # k, "error")
                    \bullet Send({Sample(<<"interrupts_total">>, <<k, e.lines[n].name, e.lines[n].info>>, <<0, n, k>>)})]
      <3>1. DOMAIN sends \subseteq Nat
        OBVIOUS
      <3>2. \A k \in DOMAIN sends : Ends(sends[k], R)
        BY Ending, Chained
      <3> HIDE DEF sends
      <3>3. Ends(Loop(sends), R)
        BY <3>1, <3>2, LoopEnds
      <3> QED
        BY <3>3 DEF sends
    <2>3. UpdateInterrupts(e) = Need(e.open, {}) \bullet Check(e.header, "error") \bullet Loop(bodies)
      BY DEF UpdateInterrupts
    <2> HIDE DEF values
    <2>4. DOMAIN bodies \subseteq Nat /\ \A k \in DOMAIN bodies : Ends(bodies[k], R)
      BY <2>1, <2>2, Ending
    <2> HIDE DEF bodies
    <2>5. Ends(Loop(bodies), R)
      BY <2>4, LoopEnds
    <2> QED
      BY <2>3, <2>5, Ending, Chained
  <1> QED
    BY <1>1, <1>2, <1>3, <1>4, <1>5, <1>6, <1>7, <1>8, <1>9, <1>10, <1>11, <1>12, <1>13

(* conntrack, rapl and pressure, which may have sent something when they   *)
(* return "nodata".                                                        *)
LEMMA PartialEnds ==
    ASSUME NEW c, NEW e, ListsAreSequences(c, e), NEW R, OfReturns(R), "nodata" \in R
    PROVE  /\ Ends(UpdateConntrack(e), R)
           /\ c = "pressure" /\ (Unchecked(c, e) => "panic" \in R) => Ends(UpdatePressure(e), R)
           /\ c = "rapl" => Ends(UpdateRapl(e), R)
  <1>1. \A o, A : Ends(Need(o, A), R)
    BY DEF Need, Ends, OfReturns, Usual, Nothing, Send, Return
  <1>2. Ends(UpdateConntrack(e), R)
    BY <1>1, Ending, Chained DEF UpdateConntrack, HandleErr
  <1>3. ASSUME c = "pressure", Unchecked(c, e) => "panic" \in R PROVE Ends(UpdatePressure(e), R)
    <2>1. DOMAIN PSIResources \subseteq Nat /\ \A n \in DOMAIN PSIResources : DOMAIN PSIResources[n].stalls \subseteq Nat
      BY DEF PSIResources
    <2>2. ASSUME NEW n \in DOMAIN PSIResources, NEW k \in DOMAIN PSIResources[n].stalls
          PROVE  Ends(Check(PSIResources[n].stalls[k] \in e.lines[PSIResources[n].name], "panic"), R)
      BY <1>3, Panicking DEF Unchecked
    <2> HIDE DEF PSIResources
    <2> QED
      BY <1>1, <2>1, <2>2, Ending, Chained, LoopEnds DEF UpdatePressure
  <1>4. ASSUME c = "rapl" PROVE Ends(UpdateRapl(e), R)
    <2>1. DOMAIN e.items \subseteq Nat
      BY <1>4 DEF ListsAreSequences, HaveItems, IsSequence
    <2> QED
      BY <1>1, <2>1, Ending, Chained, LoopEnds DEF UpdateRapl
  <1> QED
    BY <1>2, <1>3, <1>4

(* zfs, drbd and hwmon, which may panic.                                   *)
LEMMA KstatEnds ==
    ASSUME NEW lines, NEW types, NEW body, DOMAIN lines \subseteq Nat, NEW R, OfReturns(R)
    PROVE  Ends(ParseKstat(lines, types, body), R)
  <1> DEFINE headers == {n \in DOMAIN lines : lines[n].kind = "header"}
             counts(n) == n > FirstOf(headers) /\ lines[n].kind = "value" /\ lines[n].type \in types
             bodies == [n \in DOMAIN lines |->
                          IF ~counts(n) THEN Nothing
                          ELSE IF lines[n].parses THEN Send(body[n]) ELSE Return("error")]
  <1>1. ParseKstat(lines, types, body) = IF headers = {} THEN Return("error") ELSE Loop(bodies)
    BY DEF ParseKstat
  <1> HIDE DEF counts
  <1>2. DOMAIN bodies \subseteq Nat /\ \A n \in DOMAIN bodies : Ends(bodies[n], R)
    BY Ending DEF OfReturns, Usual
  <1>3. Ends(Return("error"), R)
    BY Ending DEF OfReturns, Usual
  <1> HIDE DEF bodies, headers
  <1> QED
    BY <1>1, <1>2, <1>3, LoopEnds

LEMMA ZFSTells ==
    ASSUME NEW e, ListsAreSequences("zfs", e), NEW R, OfReturns(R), Unchecked("zfs", e) => "panic" \in R
    PROVE  Tells(UpdateZFS(e), R)
  <1>0. \A l : IsSequence(l) => DOMAIN l \subseteq Nat
    BY DEF IsSequence
  <1>1. /\ DOMAIN e.items \subseteq Nat /\ DOMAIN e.files \subseteq Nat
        /\ \A k \in DOMAIN e.files : DOMAIN e.files[k].lines \subseteq Nat
        /\ \A i \in DOMAIN e.items : /\ DOMAIN e.items[i].objsets \subseteq Nat
                                     /\ \A k \in DOMAIN e.items[i].objsets : DOMAIN e.items[i].objsets[k].lines \subseteq Nat
    BY <1>0 DEF ListsAreSequences, HaveItems
  <1>2. \A k \in DOMAIN e.files : Ends(UpdateZFSStats(e.files[k].subsystem, e.files[k]), R)
    BY <1>1, Ending, KstatEnds DEF UpdateZFSStats, ParseProcfsFile
  <1>3. ASSUME NEW i \in DOMAIN e.items PROVE Ends(ParsePoolProcfsFile(i, e.items[i].name, e.items[i].io), R)
    <2> DEFINE io == e.items[i].io
               number(row, k) ==
                 IF k > Len(row) THEN Return("panic")
                 ELSE IF row[k] = "num"
                      THEN Send(Samples("zfs_zpool", {io.fields[k]}, <<e.items[i].name>>, <<i>>))
                      ELSE Return("error")
    <2>1. ParsePoolProcfsFile(i, e.items[i].name, io) =
            Loop([r \in DOMAIN io.rows |-> Loop([k \in DOMAIN io.fields |-> number(io.rows[r], k)])])
      BY DEF ParsePoolProcfsFile
    <2>2. IsSequence(io.rows) /\ IsSequence(io.fields) /\ \A r \in DOMAIN io.rows : IsSequence(io.rows[r])
      BY DEF ListsAreSequences
    <2>3. ASSUME NEW r \in DOMAIN io.rows, NEW k \in DOMAIN io.fields
          PROVE  Ends(number(io.rows[r], k), R)
      <3>1. k > Len(io.rows[r]) => "panic" \in R
        <4>1. Len(io.rows[r]) \in Nat /\ Len(io.fields) \in Nat /\ k \in 1..Len(io.fields)
          BY <2>2 DEF IsSequence
        <4>2. Len(io.rows[r]) < Len(io.fields) => Unchecked("zfs", e)
          BY DEF Unchecked
        <4> QED
          BY <4>1, <4>2
      <3> QED
        BY <3>1, Ending DEF OfReturns, Usual
    <2> HIDE DEF number
    <2>4. ASSUME NEW r \in DOMAIN io.rows
          PROVE  Ends(Loop([k \in DOMAIN io.fields |-> number(io.rows[r], k)]), R)
      BY <1>0, <2>2, <2>3, LoopEnds
    <2> QED
      BY <1>0, <2>1, <2>2, <2>4, LoopEnds
  <1>4. \A i \in DOMAIN e.items : \A k \in DOMAIN e.items[i].objsets :
           Ends(ParsePoolObjsetFile(i, e.items[i].name, e.items[i].objsets[k].lines), R)
    BY <1>1, KstatEnds DEF ParsePoolObjsetFile
  <1>5. \A i, pool, state : Ends(ParsePoolStateFile(i, pool, state), R)
    BY Ending DEF ParsePoolStateFile
  <1>6. \A o : Ends(OpenProcFile(o), R)
    BY DEF OpenProcFile, Check, Ends, OfReturns, Usual, Nothing, Send, Return
  <1>7. Ends(UpdatePoolStats(e.items), R)
    BY <1>1, <1>3, <1>4, <1>5, <1>6, Chained, LoopEnds DEF UpdatePoolStats
  <1> QED
    BY <1>1, <1>2, <1>7, Ending, Chained, LoopEnds DEF UpdateZFS

LEMMA DRBDTells ==
    ASSUME NEW e, ListsAreSequences("drbd", e), NEW R, OfReturns(R), Unchecked("drbd", e) => "panic" \in R
    PROVE  Tells(UpdateDRBD(e), R)
  <1>1. DOMAIN e.words \subseteq Nat
    BY DEF ListsAreSequences, IsSequence
  <1>2. ASSUME NEW n \in DOMAIN e.words PROVE Ends(DRBDWord(e.words, n), R)
    <2>1. CASE e.words[n].key \in DOMAIN DRBDNumerical
      <3>0. e.words[n].key \notin DOMAIN DRBDStringPair /\ e.words[n].key # "cs"
        BY <2>1 DEF DRBDNumerical, DRBDStringPair
      <3>1. \E S : DRBDWord(e.words, n) = IF e.words[n].parses THEN Send(S) ELSE Return("error")
        BY <2>1, <3>0 DEF DRBDWord
      <3> QED
        BY <3>1, Ending DEF OfReturns, Usual
    <2>2. CASE e.words[n].key \in DOMAIN DRBDStringPair /\ e.words[n].key \notin DOMAIN DRBDNumerical
      <3>1. Ends(Check(Len(e.words[n].values) >= 2, "panic"), R)
        <4>1. ~(Len(e.words[n].values) >= 2) => "panic" \in R
          BY <2>2 DEF Unchecked
        <4> QED
          BY <4>1 DEF Check, Ends, OfReturns, Usual, Nothing, Send, Return
      <3> QED
        BY <2>2, <3>1, Ending, Chained DEF DRBDWord
    <2>3. CASE e.words[n].key \notin DOMAIN DRBDNumerical \cup DOMAIN DRBDStringPair
      BY <2>3, Ending DEF DRBDWord
    <2> QED
      BY <2>1, <2>2, <2>3
  <1> QED
    BY <1>1, <1>2, Ending, Chained, LoopEnds DEF UpdateDRBD

LEMMA HwmonTells ==
    ASSUME NEW e, ListsAreSequences("hwmon", e), NEW R, OfReturns(R), Unchecked("hwmon", e) => "panic" \in R
    PROVE  Tells(UpdateHwmon(e), R)
  <1>1. DOMAIN e.items \subseteq Nat
    BY DEF ListsAreSequences, HaveItems, IsSequence
  <1>2. ASSUME NEW i \in DOMAIN e.items PROVE Ends(HwmonEntry(i, e.items[i]), R)
    <2>1. Ends(Check(e.items[i].lstat = "ok", "panic"), R)
      BY DEF Unchecked, Check, Ends, OfReturns, Usual, Nothing, Send, Return
    <2> QED
      BY <2>1, Ending, Chained DEF HwmonEntry
  <1>3. Ends(Check(~LastFailure(e), "error"), R)
    BY DEF Check, Ends, OfReturns, Usual, Nothing, Send, Return
  <1> QED
    BY <1>1, <1>2, <1>3, Ending, Chained, LoopEnds DEF UpdateHwmon

(* What goes on after each of its parts, as long as each goes on.          *)
LEMMA GoingOn ==
    /\ \A a, b : a.ret = "ok" /\ b.ret = "ok" => (a \bullet b).ret = "ok"
    /\ \A S : Send(S).ret = "ok"
    /\ Nothing.ret = "ok"
    /\ Need("ok", {}).ret = "ok"
    /\ Reading("ok").ret = "ok" /\ Reading("gone").ret = "ok"
  <1>1. ASSUME NEW a, NEW b, a.ret = "ok", b.ret = "ok" PROVE (a \bullet b).ret = "ok"
    BY <1>1, Joined
  <1>2. (\A S : Send(S).ret = "ok") /\ Nothing.ret = "ok"
    BY DEF Send, Nothing
  <1>3. Need("ok", {}).ret = "ok" /\ Reading("ok").ret = "ok" /\ Reading("gone").ret = "ok"
    BY <1>2 DEF Need, Reading, Check, IsIgnoredError
  <1> QED
    BY <1>1, <1>2, <1>3

LEMMA LoopGoesOn ==
    ASSUME NEW bodies, DOMAIN bodies \subseteq Nat, \A i \in DOMAIN bodies : bodies[i].ret = "ok"
    PROVE  Loop(bodies).ret = "ok"
  BY LoopReturns DEF Send

(* processes, when every process and every thread is read or has gone.     *)
LEMMA VanishedAreSkipped ==
    ASSUME NEW e, ListsAreSequences("processes", e),
           e.list = "ok", e.threadsMax = "ok", e.pidMax = "ok",
           \A n \in DOMAIN e.procs :
             /\ e.procs[n].stat \in {"ok", "gone"} /\ e.procs[n].task \in {"ok", "gone"}
             /\ \A t \in DOMAIN e.procs[n].threads : e.procs[n].threads[t].stat \in {"ok", "gone"}
    PROVE  UpdateProcesses(e).ret = "ok"
  <1>1. DOMAIN e.procs \subseteq Nat /\ \A n \in DOMAIN e.procs : DOMAIN e.procs[n].threads \subseteq Nat
    BY DEF ListsAreSequences, IsSequence
  <1>2. \A n \in DOMAIN e.procs : GetThreadStates(e.procs[n]).ret = "ok"
    BY <1>1, GoingOn, LoopGoesOn DEF GetThreadStates
  <1>3. GetAllocatedThreads(e.procs).ret = "ok"
    BY <1>1, <1>2, GoingOn, LoopGoesOn DEF GetAllocatedThreads
  <1> QED
    BY <1>3, GoingOn DEF UpdateProcesses

(* Which collectors return "nodata" with samples sent.                     *)
PartialNoData == {"conntrack", "rapl", "pressure"}

(* What collector c may return with whatever it has sent.                  *)
ReturnsOf(c, e) ==
    Usual \cup (IF Unchecked(c, e) THEN {"panic"} ELSE {}) \cup (IF c \in PartialNoData THEN {"nodata"} ELSE {})

(* Each group of collectors, then any of them.                             *)
LEMMA StorageTells ==
    ASSUME NEW c \in StorageCollectors, NEW e, ListsAreSequences(c, e), NEW R, OfReturns(R),
           Unchecked(c, e) => "panic" \in R
    PROVE  Tells(UpdateOfStorage(c, e), R)
  <1>1. c \in HaveItems => Tells(UpdateXFS(e), R) /\ Tells(UpdateBcache(e), R) /\ Tells(UpdateBtrfs(e), R)
           /\ Tells(UpdateMdadm(e), R) /\ Tells(UpdateTapestats(e), R) /\ Tells(UpdateNVMe(e), R)
           /\ Tells(UpdateFilesystem(e), R)
    BY ItemsTell DEF ListsAreSequences
  <1>2. CASE c = "xfs"
    BY <1>1, <1>2 DEF UpdateOfStorage, HaveItems
  <1>3. CASE c = "bcache"
    BY <1>1, <1>3 DEF UpdateOfStorage, HaveItems
  <1>4. CASE c = "btrfs"
    BY <1>1, <1>4 DEF UpdateOfStorage, HaveItems
  <1>5. CASE c = "zfs"
    BY <1>5, ZFSTells DEF UpdateOfStorage
  <1>6. CASE c = "drbd"
    BY <1>6, DRBDTells DEF UpdateOfStorage
  <1>7. CASE c = "mdadm"
    BY <1>1, <1>7 DEF UpdateOfStorage, HaveItems
  <1>8. CASE c = "diskstats"
    BY <1>8, ListsTell DEF UpdateOfStorage
  <1>9. CASE c = "nfs"
    BY <1>9, ListsTell DEF UpdateOfStorage
  <1>10. CASE c = "nfsd"
    BY <1>10, ValuesTell DEF UpdateOfStorage
  <1>11. CASE c = "mountstats"
    BY <1>11, ListsTell DEF UpdateOfStorage
  <1>12. CASE c = "tapestats"
    BY <1>1, <1>12 DEF UpdateOfStorage, HaveItems
  <1>13. CASE c = "nvme"
    BY <1>1, <1>13 DEF UpdateOfStorage, HaveItems
  <1>14. CASE c = "filefd"
    BY <1>14, ListsTell DEF UpdateOfStorage
  <1>15. CASE c = "filesystem"
    BY <1>1, <1>15 DEF UpdateOfStorage, HaveItems
  <1> QED
    BY <1>2, <1>3, <1>4, <1>5, <1>6, <1>7, <1>8, <1>9, <1>10, <1>11, <1>12, <1>13, <1>14, <1>15 DEF StorageCollectors

LEMMA NetworkTells ==
    ASSUME NEW c \in NetworkCollectors, NEW e, ListsAreSequences(c, e), NEW R, OfReturns(R),
           Unchecked(c, e) => "panic" \in R,
           c \in PartialNoData => "nodata" \in R
    PROVE  Tells(UpdateOfNetwork(c, e), R)
  <1>1. c \in HaveItems => Tells(UpdateNetClass(e), R)
           /\ Tells(UpdateQdisc(e), R) /\ Tells(UpdateEthtool(e), R) /\ Tells(UpdateWifi(e), R)
           /\ Tells(UpdateSoftnet(e), R) /\ Tells(UpdateLnstat(e), R)
    BY ItemsTell DEF ListsAreSequences
  <1>2. CASE c = "netdev"
    BY <1>2, UncheckedItemsTell DEF UpdateOfNetwork
  <1>3. CASE c = "netclass"
    BY <1>1, <1>3 DEF UpdateOfNetwork, HaveItems
  <1>4. CASE c = "qdisc"
    BY <1>1, <1>4 DEF UpdateOfNetwork, HaveItems
  <1>5. CASE c = "ethtool"
    BY <1>1, <1>5 DEF UpdateOfNetwork, HaveItems
  <1>6. CASE c = "ipvs"
    BY <1>6, ValuesTell DEF UpdateOfNetwork
  <1>7. CASE c = "tcpstat"
    BY <1>7, ValuesTell DEF UpdateOfNetwork
  <1>8. CASE c = "netstat"
    BY <1>8, ListsTell DEF UpdateOfNetwork
  <1>9. CASE c = "sockstat"
    BY <1>9, ValuesTell DEF UpdateOfNetwork
  <1>10. CASE c = "conntrack"
    BY <1>10, PartialEnds, Chained DEF UpdateOfNetwork, PartialNoData
  <1>11. CASE c = "network_route"
    BY <1>11, ValuesTell DEF UpdateOfNetwork
  <1>12. CASE c = "wifi"
    BY <1>1, <1>12 DEF UpdateOfNetwork, HaveItems
  <1>13. CASE c = "softnet"
    BY <1>1, <1>13 DEF UpdateOfNetwork, HaveItems
  <1>14. CASE c = "arp"
    BY <1>14, ValuesTell DEF UpdateOfNetwork
  <1>15. CASE c = "udp_queues"
    BY <1>15, ValuesTell DEF UpdateOfNetwork
  <1>16. CASE c = "lnstat"
    BY <1>1, <1>16 DEF UpdateOfNetwork, HaveItems
  <1>17. CASE c = "bonding"
    BY <1>17, ListsTell DEF UpdateOfNetwork
  <1>18. CASE c = "ntp"
    BY <1>18, ValuesTell DEF UpdateOfNetwork
  <1> QED
    BY <1>2, <1>3, <1>4, <1>5, <1>6, <1>7, <1>8, <1>9, <1>10, <1>11, <1>12, <1>13, <1>14, <1>15,
       <1>16, <1>17, <1>18 DEF NetworkCollectors

LEMMA HardwareTells ==
    ASSUME NEW c \in HardwareCollectors, NEW e, ListsAreSequences(c, e), NEW R, OfReturns(R),
           Unchecked(c, e) => "panic" \in R,
           c \in PartialNoData => "nodata" \in R
    PROVE  Tells(UpdateOfHardware(c, e), R)
  <1>1. c \in HaveItems => Tells(UpdatePerf(e), R) /\ Tells(UpdateDrm(e), R)
           /\ Tells(UpdateThermalZone(e), R) /\ Tells(UpdateCPUFreq(e), R)
           /\ Tells(UpdateFibreChannel(e), R) /\ Tells(UpdateInfiniBand(e), R)
    BY ItemsTell DEF ListsAreSequences
  <1>2. CASE c = "hwmon"
    BY <1>2, HwmonTells DEF UpdateOfHardware
  <1>3. CASE c = "perf"
    BY <1>1, <1>3 DEF UpdateOfHardware, HaveItems
  <1>4. CASE c = "powersupplyclass"
    BY <1>4, ValuesTell DEF UpdateOfHardware
  <1>5. CASE c = "dmi"
    BY <1>5, ValuesTell DEF UpdateOfHardware
  <1>6. CASE c = "edac"
    BY <1>6, ListsTell DEF UpdateOfHardware
  <1>7. CASE c = "rapl"
    BY <1>7, PartialEnds, Chained DEF UpdateOfHardware, PartialNoData
  <1>8. CASE c = "drm"
    BY <1>1, <1>8 DEF UpdateOfHardware, HaveItems
  <1>9. CASE c = "thermal_zone"
    BY <1>1, <1>9 DEF UpdateOfHardware, HaveItems
  <1>10. CASE c = "cpufreq"
    BY <1>1, <1>10 DEF UpdateOfHardware, HaveItems
  <1>11. CASE c = "cpu"
    BY <1>11, ValuesTell DEF UpdateOfHardware
  <1>12. CASE c = "fibrechannel"
    BY <1>1, <1>12 DEF UpdateOfHardware, HaveItems
  <1>13. CASE c = "infiniband"
    BY <1>1, <1>13 DEF UpdateOfHardware, HaveItems
  <1> QED
    BY <1>2, <1>3, <1>4, <1>5, <1>6, <1>7, <1>8, <1>9, <1>10, <1>11, <1>12, <1>13 DEF HardwareCollectors

LEMMA ServicesTells ==
    ASSUME NEW c \in ServiceCollectors, NEW e, ListsAreSequences(c, e), NEW R, OfReturns(R),
           Unchecked(c, e) => "panic" \in R
    PROVE  Tells(UpdateOfServices(c, e), R)
  <1>1. c \in HaveItems => Tells(UpdateRunit(e), R)
    BY ItemsTell DEF ListsAreSequences
  <1>2. CASE c = "logind"
    BY <1>2, ValuesTell DEF UpdateOfServices
  <1>3. CASE c = "supervisord"
    BY <1>3, UncheckedItemsTell DEF UpdateOfServices
  <1>4. CASE c = "runit"
    BY <1>1, <1>4 DEF UpdateOfServices, HaveItems
  <1>5. CASE c = "textfile"
    BY <1>5, UncheckedItemsTell DEF UpdateOfServices
  <1> QED
    BY <1>2, <1>3, <1>4, <1>5 DEF ServiceCollectors

LEMMA KernelTells ==
    ASSUME NEW c \in KernelCollectors, NEW e, ListsAreSequences(c, e), NEW R, OfReturns(R),
           Unchecked(c, e) => "panic" \in R,
           c \in PartialNoData => "nodata" \in R
    PROVE  Tells(UpdateOfKernel(c, e), R)
  <1>1. c \in HaveItems => Tells(UpdateZoneinfo(e), R) /\ Tells(UpdateBuddyinfo(e), R)
           /\ Tells(UpdateSlabinfo(e), R) /\ Tells(UpdateCgroups(e), R) /\ Tells(UpdateSchedstat(e), R)
           /\ Tells(UpdateTime(e), R)
    BY ItemsTell DEF ListsAreSequences
  <1>2. CASE c = "zoneinfo"
    BY <1>1, <1>2 DEF UpdateOfKernel, HaveItems
  <1>3. CASE c = "buddyinfo"
    BY <1>1, <1>3 DEF UpdateOfKernel, HaveItems
  <1>4. CASE c = "slabinfo"
    BY <1>1, <1>4 DEF UpdateOfKernel, HaveItems
  <1>5. CASE c = "cgroups"
    BY <1>1, <1>5 DEF UpdateOfKernel, HaveItems
  <1>6. CASE c = "schedstat"
    BY <1>1, <1>6 DEF UpdateOfKernel, HaveItems
  <1>7. CASE c = "meminfo"
    BY <1>7, ListsTell DEF UpdateOfKernel
  <1>8. CASE c = "meminfo_numa"
    BY <1>8, ListsTell DEF UpdateOfKernel
  <1>9. CASE c = "vmstat"
    BY <1>9, ListsTell DEF UpdateOfKernel
  <1>10. CASE c = "sysctl"
    BY <1>10, ListsTell DEF UpdateOfKernel
  <1>11. CASE c = "processes"
    BY <1>11, ListsTell DEF UpdateOfKernel
  <1>12. CASE c = "stat"
    BY <1>12, ValuesTell DEF UpdateOfKernel
  <1>13. CASE c = "interrupts"
    BY <1>13, ListsTell DEF UpdateOfKernel
  <1>14. CASE c = "softirqs"
    BY <1>14, ValuesTell DEF UpdateOfKernel
  <1>15. CASE c = "pressure"
    BY <1>15, PartialEnds, Chained DEF UpdateOfKernel, PartialNoData
  <1>16. CASE c = "ksmd"
    BY <1>16, ValuesTell DEF UpdateOfKernel
  <1>17. CASE c = "timex"
    BY <1>17, ValuesTell DEF UpdateOfKernel
  <1>18. CASE c = "time"
    BY <1>1, <1>18 DEF UpdateOfKernel, HaveItems
  <1>19. CASE c = "selinux"
    BY <1>19, ValuesTell DEF UpdateOfKernel
  <1>20. CASE c = "entropy"
    BY <1>20, ValuesTell DEF UpdateOfKernel
  <1>21. CASE c = "uname"
    BY <1>21, ValuesTell DEF UpdateOfKernel
  <1>22. CASE c = "loadavg"
    BY <1>22, ValuesTell DEF UpdateOfKernel
  <1> QED
    BY <1>2, <1>3, <1>4, <1>5, <1>6, <1>7, <1>8, <1>9, <1>10, <1>11, <1>12, <1>13, <1>14, <1>15,
       <1>16, <1>17, <1>18, <1>19, <1>20, <1>21, <1>22 DEF KernelCollectors

LEMMA UpdateTells ==
    ASSUME NEW c \in StorageCollectors \cup NetworkCollectors \cup HardwareCollectors \cup ServiceCollectors
                     \cup KernelCollectors,
           NEW e, ListsAreSequences(c, e)
    PROVE  Tells(Update(c, e), ReturnsOf(c, e))
  <1>1. /\ OfReturns(ReturnsOf(c, e))
        /\ Unchecked(c, e) => "panic" \in ReturnsOf(c, e)
        /\ c \in PartialNoData => "nodata" \in ReturnsOf(c, e)
    BY DEF OfReturns, ReturnsOf
  <1>2. CASE c \in StorageCollectors
    BY <1>1, <1>2, StorageTells DEF Update, StorageCollectors, NetworkCollectors, HardwareCollectors,
         ServiceCollectors, KernelCollectors
  <1>3. CASE c \in NetworkCollectors
    BY <1>1, <1>3, NetworkTells DEF Update, StorageCollectors, NetworkCollectors, HardwareCollectors,
         ServiceCollectors, KernelCollectors
  <1>4. CASE c \in HardwareCollectors
    BY <1>1, <1>4, HardwareTells DEF Update, StorageCollectors, NetworkCollectors, HardwareCollectors,
         ServiceCollectors, KernelCollectors
  <1>5. CASE c \in ServiceCollectors
    BY <1>1, <1>5, ServicesTells DEF Update, StorageCollectors, NetworkCollectors, HardwareCollectors,
         ServiceCollectors, KernelCollectors
  <1>6. CASE c \in KernelCollectors
    BY <1>1, <1>6, KernelTells DEF Update, StorageCollectors, NetworkCollectors, HardwareCollectors,
         ServiceCollectors, KernelCollectors
  <1> QED
    BY <1>2, <1>3, <1>4, <1>5, <1>6

(* An Update returns "nodata" only if it has sent nothing, panics only     *)
(* over what it does not check, and a process that has gone while they are *)
(* counted is no failure.                                                  *)
THEOREM ReturnsTellHolds == Spec => []ReturnsTell
  <1>1. CollectorsInv => ReturnsTell
    <2> SUFFICES ASSUME CollectorsInv PROVE ReturnsTell
      OBVIOUS
    <2>1. ListsAreSequences(collector, env)
      BY EnvironmentIsOfIts DEF CollectorsInv
    <2>2. CASE collector \in InSteps
      <3>1. out.ret \in {"none", "unbuilt", "error", "ok"} \/ (out.ret = "panic" /\ Unchecked(collector, env))
        <4>1. CASE collector = "systemd"
          BY <4>1 DEF CollectorsInv, SystemdInv, Returned, Result
        <4>2. CASE collector = "pids"
          BY <4>2 DEF CollectorsInv, PidsInv, OutInv, ReturnsOfPids, Usual
        <4> QED
          BY <2>2, <4>1, <4>2 DEF InSteps
      <3> QED
        BY <2>2, <3>1 DEF ReturnsTell, NoDataIsSilent, NeverPanics, VanishedIsNoFailure, InSteps
    <2>3. CASE out = Unscraped
      BY <2>3 DEF Unscraped, ReturnsTell, NoDataIsSilent, NeverPanics, VanishedIsNoFailure
    <2>4. CASE collector \notin InSteps /\ out = Update(collector, env)
      <3>1. Tells(out, ReturnsOf(collector, env))
        BY <2>1, <2>4, UpdateTells, EnvironmentsAssumption DEF CollectorsInv
      <3>2. NoDataIsSilent
        BY <3>1 DEF Tells, ReturnsOf, Usual, PartialNoData, NoDataIsSilent
      <3>3. NeverPanics
        BY <3>1 DEF Tells, ReturnsOf, Usual, NeverPanics
      <3>4. VanishedIsNoFailure
        <4> SUFFICES ASSUME collector = "processes", out.ret = "error",
                            \A limit \in {env.list, env.threadsMax, env.pidMax} : limit = "ok",
                            \A n \in DOMAIN env.procs :
                              \A o \in {env.procs[n].stat, env.procs[n].task}
                                         \cup {env.procs[n].threads[t].stat : t \in DOMAIN env.procs[n].threads} :
                                o \in {"ok", "gone"}
                     PROVE  FALSE
          BY DEF VanishedIsNoFailure
        <4>1. UpdateProcesses(env).ret = "ok"
          BY <2>1, VanishedAreSkipped
        <4>2. out = UpdateProcesses(env)
          BY <2>4 DEF Update, UpdateOfKernel, StorageCollectors, NetworkCollectors, HardwareCollectors,
               ServiceCollectors, KernelCollectors
        <4> QED
          BY <4>1, <4>2
      <3> QED
        BY <3>2, <3>3, <3>4 DEF ReturnsTell
    <2> QED
      BY <2>2, <2>3, <2>4 DEF CollectorsInv
  <1> QED
    BY <1>1, CollectorsInvHolds, PTL

-----------------------------------------------------------------------------
(* What has been sent when an Update has gone through.                     *)

LEMMA Through ==
    /\ \A a, b : (a \bullet b).ret = "ok" => /\ a.ret = "ok" /\ b.ret = "ok"
                                             /\ (a \bullet b).sent = a.sent \cup b.sent
    /\ \A S : Send(S).sent = S
    /\ Nothing.sent = {}
    /\ \A P, how : Check(P, how).sent = {}
    /\ \A o, A : Need(o, A).sent = {}
  <1>1. ASSUME NEW a, NEW b, (a \bullet b).ret = "ok"
        PROVE  a.ret = "ok" /\ b.ret = "ok" /\ (a \bullet b).sent = a.sent \cup b.sent
    <2>1. CASE a.ret = "ok"
      BY <1>1, <2>1, Joined
    <2>2. CASE a.ret # "ok"
      BY <1>1, <2>2, Joined
    <2> QED
      BY <2>1, <2>2
  <1>2. (\A S : Send(S).sent = S) /\ Nothing.sent = {} /\ \A how : Return(how).sent = {}
    BY DEF Send, Nothing, Return
  <1>3. \A P, how : Check(P, how).sent = {}
    BY <1>2 DEF Check
  <1>4. \A o, A : Need(o, A).sent = {}
    BY <1>3, <1>2 DEF Need
  <1> QED
    BY <1>1, <1>2, <1>3, <1>4

LEMMA LoopThrough ==
    ASSUME NEW bodies, DOMAIN bodies \subseteq Nat, Loop(bodies).ret = "ok"
    PROVE  /\ Loop(bodies).sent = UNION {bodies[i].sent : i \in DOMAIN bodies}
           /\ \A i \in DOMAIN bodies : bodies[i].ret = "ok"
  <1>1. ASSUME Returning(bodies) # {} PROVE FALSE
    <2>1. FirstOf(Returning(bodies)) \in Returning(bodies)
      BY <1>1, LeastMember DEF FirstOf, Returning
    <2>2. Loop(bodies).ret = bodies[FirstOf(Returning(bodies))].ret
      BY <1>1 DEF Loop
    <2> QED
      BY <2>1, <2>2 DEF Returning
  <1> QED
    BY <1>1 DEF Loop, Returning, Send

(* And when it may not have.                                               *)
LEMMA SentByEither ==
    ASSUME NEW a, NEW b, NEW s \in (a \bullet b).sent PROVE s \in a.sent \/ s \in b.sent
  BY Joined

LEMMA SentByLoop ==
    ASSUME NEW bodies, DOMAIN bodies \subseteq Nat, NEW s \in Loop(bodies).sent
    PROVE  \E i \in DOMAIN bodies : s \in bodies[i].sent
  BY LoopReturns DEF Send

-----------------------------------------------------------------------------
(* textfile.                                                               *)

FamilySamples(i, f, family) ==
    {Sample(<<family.name>>, AllLabels(family.metrics[k], family), <<i, "metric", family.name, k, f.version>>) :
       k \in DOMAIN family.metrics}

MetricSamples(i, f) == UNION {FamilySamples(i, f, Families(f)[k]) : k \in DOMAIN Families(f)}

FileSamples(i, f) == MetricSamples(i, f) \cup ExportMTime(i, f)

(* No more than the metrics of a file, and all of them when none panics.   *)
LEMMA FileConverts ==
    ASSUME NEW i, NEW f, IsSequence(f.families)
    PROVE  /\ ~f.prom => ConvertFamilies(i, f) = Nothing
           /\ ConvertFamilies(i, f).sent \subseteq MetricSamples(i, f)
           /\ f.prom /\ ConvertFamilies(i, f).ret = "ok" => ConvertFamilies(i, f).sent = MetricSamples(i, f)
  <1> DEFINE bodies == [k \in DOMAIN Families(f) |-> ConvertMetricFamily(i, f, Families(f)[k])]
  <1>1. ConvertFamilies(i, f) = IF f.prom THEN Loop(bodies) ELSE Nothing
    BY DEF ConvertFamilies
  <1>2. DOMAIN bodies = DOMAIN Families(f) /\ DOMAIN bodies \subseteq Nat
    BY DEF Families, IsSequence
  <1>3. ASSUME NEW k \in DOMAIN bodies
        PROVE  /\ bodies[k].sent \subseteq FamilySamples(i, f, Families(f)[k])
               /\ bodies[k].ret = "ok" => bodies[k].sent = FamilySamples(i, f, Families(f)[k])
    <2> DEFINE family == Families(f)[k]
    <2>4. bodies[k] = ConvertMetricFamily(i, f, family)
      OBVIOUS
    <2> HIDE DEF family, bodies
    <2>1. bodies[k] = Check(~family.reserved, "panic") \bullet Send(FamilySamples(i, f, family))
      BY <2>4 DEF ConvertMetricFamily, FamilySamples
    <2> DEFINE check == Check(~family.reserved, "panic")
    <2>5. check.sent = {} /\ bodies[k] = check \bullet Send(FamilySamples(i, f, family))
      BY <2>1, Through
    <2> HIDE DEF check
    <2>2. bodies[k].sent \subseteq FamilySamples(i, f, family)
      BY <2>5, Through, SentByEither
    <2>6. \A a, S : a.sent = {} /\ (a \bullet Send(S)).ret = "ok" => (a \bullet Send(S)).sent = S
      <3>1. \A S : {} \cup S = S
        OBVIOUS
      <3>2. \A a, S : (a \bullet Send(S)).ret = "ok" => (a \bullet Send(S)).sent = a.sent \cup S
        BY Through
      <3> QED
        BY <3>1, <3>2, Zenon
    <2>3. bodies[k].ret = "ok" => bodies[k].sent = FamilySamples(i, f, family)
      BY <2>5, <2>6, Zenon
    <2> QED
      BY <2>2, <2>3 DEF family
  <1> HIDE DEF bodies
  <1>4. Loop(bodies).sent \subseteq MetricSamples(i, f)
    BY <1>2, <1>3, SentByLoop DEF MetricSamples
  <1>5. Loop(bodies).ret = "ok" => Loop(bodies).sent = MetricSamples(i, f)
    <2> SUFFICES ASSUME Loop(bodies).ret = "ok" PROVE Loop(bodies).sent = MetricSamples(i, f)
      OBVIOUS
    <2>1. Loop(bodies).sent = UNION {bodies[k].sent : k \in DOMAIN bodies} /\ \A k \in DOMAIN bodies : bodies[k].ret = "ok"
      BY <1>2, LoopThrough
    <2> QED
      BY <1>2, <1>3, <2>1 DEF MetricSamples
  <1> QED
    BY <1>1, <1>4, <1>5, Through

LEMMA TextfileSends ==
    ASSUME NEW e, ListsAreSequences("textfile", e), NEW flag,
           flag = Sample(<<"textfile", "scrape_error">>, <<>>, <<0, "scrape_error", TextfileErrored(e)>>)
    PROVE  /\ \A s \in UpdateTextfile(e).sent :
                s = flag \/ \E i \in DOMAIN e.items : e.items[i].prom /\ s \in FileSamples(i, e.items[i])
           /\ UpdateTextfile(e).ret = "ok" =>
                /\ flag \in UpdateTextfile(e).sent
                /\ \A i \in DOMAIN e.items : e.items[i].prom => FileSamples(i, e.items[i]) \subseteq UpdateTextfile(e).sent
  <1> DEFINE bodies == [i \in DOMAIN e.items |-> ConvertFamilies(i, e.items[i])]
             times == UNION {ExportMTime(i, e.items[i]) : i \in DOMAIN e.items}
             r == UpdateTextfile(e)
  <1>1. r = Loop(bodies) \bullet Send(times) \bullet Send({flag})
    BY DEF UpdateTextfile
  <1>2. /\ DOMAIN bodies = DOMAIN e.items /\ DOMAIN bodies \subseteq Nat
        /\ \A i \in DOMAIN e.items : IsSequence(e.items[i].families)
    BY DEF ListsAreSequences, HaveItems, IsSequence
  <1>3. \A i \in DOMAIN bodies : bodies[i] = ConvertFamilies(i, e.items[i])
    OBVIOUS
  <1>4. \A s \in times : \E i \in DOMAIN e.items : e.items[i].prom /\ s \in ExportMTime(i, e.items[i])
    BY DEF ExportMTime
  <1>5. \A i \in DOMAIN e.items : ExportMTime(i, e.items[i]) \subseteq times
    OBVIOUS
  <1> HIDE DEF bodies, times, r
  <1>6. ASSUME NEW i \in DOMAIN bodies, NEW s \in bodies[i].sent
        PROVE  e.items[i].prom /\ s \in MetricSamples(i, e.items[i])
    BY <1>2, <1>3, <1>6, FileConverts, Through
  <1>7. \A s \in r.sent : s \in Loop(bodies).sent \/ s \in times \/ s = flag
    <2>1. \A s \in r.sent : s \in (Loop(bodies) \bullet Send(times)).sent \/ s \in Send({flag}).sent
      BY <1>1, SentByEither
    <2>2. \A s \in (Loop(bodies) \bullet Send(times)).sent : s \in Loop(bodies).sent \/ s \in Send(times).sent
      BY SentByEither
    <2> QED
      BY <2>1, <2>2, Through
  <1>8. \A s \in r.sent :
          s = flag \/ \E i \in DOMAIN e.items : e.items[i].prom /\ s \in FileSamples(i, e.items[i])
    BY <1>2, <1>4, <1>6, <1>7, SentByLoop DEF FileSamples
  <1>9. ASSUME r.ret = "ok"
        PROVE  flag \in r.sent /\ \A i \in DOMAIN e.items : e.items[i].prom => FileSamples(i, e.items[i]) \subseteq r.sent
    <2>1. Loop(bodies).ret = "ok" /\ r.sent = (Loop(bodies).sent \cup times) \cup {flag}
      BY <1>1, <1>9, Through
    <2>2. Loop(bodies).sent = UNION {bodies[i].sent : i \in DOMAIN bodies} /\ \A i \in DOMAIN bodies : bodies[i].ret = "ok"
      BY <1>2, <2>1, LoopThrough
    <2>3. \A i \in DOMAIN e.items : e.items[i].prom => MetricSamples(i, e.items[i]) = bodies[i].sent
      BY <1>2, <1>3, <2>2, FileConverts
    <2> QED
      BY <1>2, <1>5, <2>1, <2>2, <2>3 DEF FileSamples
  <1> QED
    BY <1>8, <1>9 DEF r

(* A sample of a family of a file, with the labels of all its metrics.     *)
InFamily(s, f, k) ==
    /\ s.family = <<f.families[k].name>>
    /\ DOMAIN s.labels = UNION {DOMAIN f.families[k].metrics[n] : n \in DOMAIN f.families[k].metrics}

(* What a sample of a file says of it.                                     *)
LEMMA OfFile ==
    ASSUME NEW i, NEW f, NEW s \in FileSamples(i, f)
    PROVE  /\ s.of[1] = i
           /\ s.of[2] \in {"metric", "mtime"}
           /\ s.of[2] = "mtime" => s.of[3] = f.version
           /\ s.of[2] = "metric" =>
                /\ s.of[5] = f.version
                /\ \E k \in DOMAIN f.families : InFamily(s, f, k)
  <1>1. CASE s \in ExportMTime(i, f)
    BY <1>1 DEF ExportMTime, Sample, StatOpened
  <1>2. ASSUME NEW k \in DOMAIN Families(f), s \in FamilySamples(i, f, Families(f)[k])
        PROVE  /\ s.of[1] = i /\ s.of[2] = "metric" /\ s.of[5] = f.version
               /\ k \in DOMAIN f.families /\ InFamily(s, f, k)
    <2>1. Families(f) = f.families
      BY <1>2 DEF Families
    <2>2. PICK n \in DOMAIN f.families[k].metrics :
             s = Sample(<<f.families[k].name>>, AllLabels(f.families[k].metrics[n], f.families[k]),
                        <<i, "metric", f.families[k].name, n, f.version>>)
      BY <1>2, <2>1 DEF FamilySamples
    <2>3. DOMAIN AllLabels(f.families[k].metrics[n], f.families[k])
            = UNION {DOMAIN f.families[k].metrics[m] : m \in DOMAIN f.families[k].metrics}
      BY DEF AllLabels
    <2> QED
      BY <2>1, <2>2, <2>3 DEF Sample, InFamily
  <1> QED
    BY <1>1, <1>2 DEF FileSamples, MetricSamples

LEMMA TextfilesAreFaithful ==
    ASSUME collector = "textfile", ListsAreSequences(collector, env), IsAsRead(collector, env),
           out = UpdateTextfile(env)
    PROVE  TextfileFaithful
  <1> DEFINE Of(s, i) == i \in DOMAIN env.items /\ env.items[i].prom /\ s \in FileSamples(i, env.items[i])
             flag == Sample(<<"textfile", "scrape_error">>, <<>>, <<0, "scrape_error", TextfileErrored(env)>>)
  <1>1. /\ \A s \in out.sent : s = flag \/ \E i : Of(s, i)
        /\ out.ret = "ok" => flag \in out.sent /\ \A s, i : Of(s, i) => s \in out.sent
    BY TextfileSends
  <1>2. flag.of[2] = "scrape_error" /\ flag.of[3] = TextfileErrored(env)
    BY DEF Sample
  <1>3. \A s \in out.sent : s.of[2] \in {"metric", "mtime"} => \E i : s.of[1] = i /\ Of(s, i)
    BY <1>1, <1>2, OfFile
  <1>4. MtimeOfContent
    BY <1>3, OfFile DEF MtimeOfContent
  <1>5. LabelsConsistent
    <2> SUFFICES ASSUME NEW s \in out.sent, NEW t \in out.sent, s.of[2] = "metric", t.of[2] = "metric",
                        s.family = t.family, s.of[1] = t.of[1]
                 PROVE  DOMAIN s.labels = DOMAIN t.labels
      BY DEF LabelsConsistent
    <2>1. PICK i : Of(s, i) /\ Of(t, i)
      BY <1>3
    <2> DEFINE f == env.items[i]
               fs == f.families
    <2>2. s \in FileSamples(i, f) /\ t \in FileSamples(i, f)
      BY <2>1
    <2>4. \A u, k : InFamily(u, f, k) => fs[k].name = u.family[1]
      BY DEF InFamily
    <2>5. \A u, v, k : InFamily(u, f, k) /\ InFamily(v, f, k) => DOMAIN u.labels = DOMAIN v.labels
      BY DEF InFamily
    <2>6. PICK k \in DOMAIN fs : InFamily(s, f, k)
      BY <2>2, OfFile
    <2>7. PICK l \in DOMAIN fs : InFamily(t, f, l)
      BY <2>2, OfFile
    <2>8. \A m, n \in DOMAIN fs : fs[m].name = fs[n].name => m = n
      BY <2>1 DEF IsAsRead
    <2>9. fs[k].name = s.family[1] /\ fs[l].name = t.family[1]
      BY <2>4, <2>6, <2>7
    <2>10. k = l
      BY <2>8, <2>9
    <2> QED
      BY <2>5, <2>6, <2>7, <2>10
  <1>6. LossIsTold
    <2>1. CASE out.ret # "ok" \/ TextfileErrored(env)
      BY <1>1, <1>2, <2>1 DEF LossIsTold
    <2>2. CASE out.ret = "ok" /\ ~TextfileErrored(env)
      <3>1. \A d \in DOMAIN env.dirs : env.dirs[d].read \/ env.dirs[d].blank
        BY <2>2 DEF TextfileErrored
      <3>2. ASSUME NEW i \in DOMAIN env.items, env.items[i].prom
            PROVE  \E s \in out.sent : s.of[1] = i /\ s.of[2] = "mtime"
        <4> DEFINE f == env.items[i]
                   s == Sample(<<"textfile", "mtime_seconds">>, <<f.dir, f.name>>, <<i, "mtime", StatOpened(f)>>)
        <4>1. s \in FileSamples(i, f)
          BY <2>2, <3>2 DEF TextfileErrored, ExportMTime, FileSamples
        <4>2. s.of[1] = i /\ s.of[2] = "mtime"
          BY DEF Sample
        <4> QED
          BY <1>1, <2>2, <3>2, <4>1, <4>2
      <3> QED
        BY <3>1, <3>2 DEF LossIsTold
    <2> QED
      BY <2>1, <2>2
  <1> QED
    BY <1>4, <1>5, <1>6 DEF TextfileFaithful

-----------------------------------------------------------------------------
(* What the flags of a collector ask for.                                  *)

(* The sample of an item that is not an address of it.                     *)
OwnSample(s, i) == s.of[1] = i /\ s.family[1] # "network_address"

LEMMA WantedIsNotIgnored ==
    \A exclude, include, name :
      Wanted(exclude, include, name) <=> ~Ignored(NewDeviceFilter(exclude, include), name)
  BY DEF Wanted, Ignored, NewDeviceFilter

LEMMA NetDevSamplesAre ==
    ASSUME NEW e, NEW i, NEW s \in NetDevSamples(e, i)
    PROVE  s.of[1] = i /\ s.family[1] = "network"
  BY DEF NetDevSamples, Sample

(* All of the statistics are read, and one device without them panics,     *)
(* before any is sent.                                                     *)
LEMMA NetDevStatsSilent ==
    ASSUME NEW e, IsSequence(e.items), NEW filter
    PROVE  \A s : s \notin GetNetDevStats(e, filter).sent
  <1> DEFINE checks == [i \in DOMAIN e.items |->
                          Check(Ignored(filter, e.items[i].name) \/ e.items[i].stats64 \/ ~e.netlink, "panic")]
  <1>1. GetNetDevStats(e, filter) = Need(e.stats, {}) \bullet Loop(checks)
    BY DEF GetNetDevStats
  <1>2. DOMAIN checks \subseteq Nat /\ \A i \in DOMAIN checks : checks[i].sent = {}
    BY Through DEF IsSequence
  <1> HIDE DEF checks
  <1>3. \A s : s \notin Loop(checks).sent
    BY <1>2, SentByLoop
  <1> QED
    BY <1>1, <1>3, SentByEither, Through

LEMMA NetDevSends ==
    ASSUME NEW e, ListsAreSequences("netdev", e), NEW r, r = UpdateNetDev(e), r.ret = "ok"
    PROVE  /\ NewNetDevFilter(e.flags).built
           /\ \A s : s \in r.sent /\ s.family[1] # "network_address" <=>
                \E i \in DOMAIN e.items :
                  ~Ignored(NewNetDevFilter(e.flags), e.items[i].name) /\ s \in NetDevSamples(e, i)
  <1> DEFINE filter == NewNetDevFilter(e.flags)
             shown(i) == ~Ignored(filter, e.items[i].name)
             bodies == [i \in DOMAIN e.items |-> IF shown(i) THEN Send(NetDevSamples(e, i)) ELSE Nothing]
             infos == [i \in DOMAIN e.items |-> Send(AddrInfo(i, e.items[i]))]
             addresses == IF ~e.addressInfo THEN Nothing ELSE Need(e.interfaces, {}) \bullet Loop(infos)
  <1>1. r = Check(filter.built, "unbuilt") \bullet GetNetDevStats(e, filter) \bullet Loop(bodies) \bullet addresses
    BY DEF UpdateNetDev
  <1>2. DOMAIN e.items \subseteq Nat
    BY DEF ListsAreSequences, HaveItems, IsSequence
  <1>3. \A i \in DOMAIN e.items : bodies[i].sent = IF shown(i) THEN NetDevSamples(e, i) ELSE {}
    BY Through
  <1>4. \A i \in DOMAIN e.items : infos[i].sent = AddrInfo(i, e.items[i])
    BY Through
  <1>5. DOMAIN bodies = DOMAIN e.items /\ DOMAIN infos = DOMAIN e.items
    OBVIOUS
  <1>6. \A i : \A s \in AddrInfo(i, e.items[i]) : s.family[1] = "network_address"
    BY DEF AddrInfo, Sample
  <1> HIDE DEF filter, shown, bodies, infos
  <1>7. Loop(bodies).ret = "ok" /\ addresses.ret = "ok" /\ r.sent = Loop(bodies).sent \cup addresses.sent
        /\ filter.built
    <2>1. GetNetDevStats(e, filter).sent = {}
      BY NetDevStatsSilent DEF ListsAreSequences, HaveItems
    <2> HIDE DEF addresses
    <2> QED
      BY <1>1, <2>1, Through DEF Check, Return
  <1>8. Loop(bodies).sent = UNION {bodies[i].sent : i \in DOMAIN e.items}
    BY <1>2, <1>5, <1>7, LoopThrough
  <1>9. \A s \in addresses.sent : s.family[1] = "network_address"
    <2>1. CASE ~e.addressInfo
      BY <2>1, Through
    <2>2. CASE e.addressInfo
      <3>1. addresses.sent = Need(e.interfaces, {}).sent \cup Loop(infos).sent /\ Loop(infos).ret = "ok"
        BY <1>7, <2>2, Through
      <3>2. Loop(infos).sent = UNION {infos[i].sent : i \in DOMAIN e.items}
        BY <1>2, <1>5, <3>1, LoopThrough
      <3> QED
        BY <1>4, <1>6, <3>1, <3>2, Through
    <2> QED
      BY <2>1, <2>2
  <1>10. \A s : s \in Loop(bodies).sent <=> \E i \in DOMAIN e.items : shown(i) /\ s \in NetDevSamples(e, i)
    BY <1>3, <1>8
  <1>11. \A s \in Loop(bodies).sent : s.family[1] # "network_address"
    BY <1>10, NetDevSamplesAre
  <1>12. \A s : s \in r.sent /\ s.family[1] # "network_address" <=> s \in Loop(bodies).sent
    BY <1>7, <1>9, <1>11
  <1> QED
    BY <1>7, <1>10, <1>12 DEF filter, shown

LEMMA NetDevFollows ==
    ASSUME collector = "netdev", ListsAreSequences(collector, env), out = UpdateNetDev(env), out.ret = "ok"
    PROVE  FiltersFollowFlags
  <1> DEFINE filter == NewNetDevFilter(env.flags)
             shown(i) == ~Ignored(filter, env.items[i].name)
  <1>1. /\ filter.built
        /\ \A s : s \in out.sent /\ s.family[1] # "network_address" <=>
             \E i \in DOMAIN env.items : shown(i) /\ s \in NetDevSamples(env, i)
    BY NetDevSends
  <1>2. \A i : NetDevSamples(env, i) # {}
    <2> DEFINE stats == NetDevStats(env, 1)
    <2>1. "receive_bytes" \in DOMAIN stats /\ "receive_bytes" \in DOMAIN Legacy(stats)
      BY DEF NetDevStats, NetlinkStats, ProcNetDevStats, Legacy, PoppedNames, LegacyNames
    <2> QED
      BY <2>1 DEF NetDevSamples, NetDevStats
  <1> HIDE DEF filter, shown
  <1>3. ASSUME NEW i \in DOMAIN env.items
        PROVE  (\E s \in out.sent : OwnSample(s, i)) <=> shown(i)
    BY <1>1, <1>2, NetDevSamplesAre DEF OwnSample
  <1>4. ASSUME NEW i \in DOMAIN env.items PROVE shown(i) <=> AsksFor(env.flags, env.items[i])
    <2>1. filter = NewDeviceFilter(Excluded("netdev", env.flags), Included("netdev", env.flags))
      BY <1>1 DEF filter, NewNetDevFilter, NoFilter, Excluded, Included
    <2> QED
      BY <2>1, WantedIsNotIgnored DEF shown, AsksFor
  <1> QED
    BY <1>3, <1>4 DEF FiltersFollowFlags, OwnSample, Repeated

LEMMA OneOfEach ==
    ASSUME NEW subsystem, NEW names, NEW labels, NEW i, NEW s \in Samples(subsystem, names, labels, <<i>>)
    PROVE  s.of[1] = i /\ s.family[1] = subsystem
  <1>1. PICK n \in names : s = Sample(<<subsystem, n>>, labels, <<i>> \o <<n>>)
    BY DEF Samples
  <1>2. <<i>> \in Seq({i, n}) /\ <<n>> \in Seq({i, n}) /\ Len(<<i>>) = 1
    OBVIOUS
  <1>3. (<<i>> \o <<n>>)[1] = i
    BY <1>2
  <1> QED
    BY <1>1, <1>3 DEF Sample

LEMMA DiskstatsFollows ==
    ASSUME collector = "diskstats", ListsAreSequences(collector, env), out = UpdateDiskstats(env), out.ret = "ok"
    PROVE  FiltersFollowFlags
  <1> DEFINE filter == NewDiskstatsDeviceFilter(env.flags)
             inodes == ParseDiskInode(env.rows)
             shown(i) == ~Ignored(filter, env.items[i].name)
             skips(dev) == dev \notin DOMAIN inodes \/ dev \in env.ignoredDevices
             bodies == [i \in DOMAIN env.items |->
                          IF Ignored(filter, env.items[i].name) THEN Nothing ELSE Send(DiskSamples(i, env.items[i]))]
             rows == [n \in DOMAIN env.order |->
                        IF skips(env.order[n]) THEN Nothing ELSE InodeSamples(env.order[n], inodes[env.order[n]])]
  <1>1. out = Check(filter.built, "unbuilt") \bullet Need(env.diskstats, {}) \bullet Loop(bodies)
                \bullet Need(env.df, {}) \bullet Loop(rows)
    BY DEF UpdateDiskstats
  <1>2. DOMAIN env.items = 1..Len(env.items) /\ Len(env.items) \in Nat /\ DOMAIN env.order \subseteq Nat
    BY DEF ListsAreSequences, HaveItems, IsSequence
  <1>3. \A i \in DOMAIN env.items : bodies[i].sent = IF shown(i) THEN DiskSamples(i, env.items[i]) ELSE {}
    BY Through
  <1>4. \A n \in DOMAIN env.order : \A s \in rows[n].sent : s.of[1] = 0
    <2>1. ASSUME NEW dev, NEW columns, NEW s \in InodeSamples(dev, columns).sent PROVE s.of[1] = 0
      <3> DEFINE numbers == 1..(IF Len(columns) < 3 THEN Len(columns) ELSE 3)
                 sends == [n \in numbers |->
                             IF columns[n] = "num"
                             THEN Send({Sample(<<"disk", DiskInfoDescs.inode[n]>>, <<dev>>, <<0, dev, n>>)})
                             ELSE Return("error")]
      <3>1. InodeSamples(dev, columns) = Loop(sends) /\ DOMAIN sends \subseteq Nat
        BY DEF InodeSamples
      <3>2. \A n \in DOMAIN sends : \A t \in sends[n].sent : t.of[1] = 0
        BY DEF Send, Return, Sample
      <3> HIDE DEF sends
      <3> QED
        BY <2>1, <3>1, <3>2, LoopReturns DEF Send
    <2> QED
      BY <2>1, Through
  <1>5. DOMAIN bodies = DOMAIN env.items /\ DOMAIN rows = DOMAIN env.order
    OBVIOUS
  <1>6. ASSUME NEW i PROVE \A s \in DiskSamples(i, env.items[i]) : s.of[1] = i /\ s.family[1] = "disk"
    <2> DEFINE d == env.items[i]
    <2>1. \A names : \A s \in Samples("disk", names, <<d.name>>, <<i>>) : s.of[1] = i /\ s.family[1] = "disk"
      BY OneOfEach
    <2>2. \A name, labels : LET s == Sample(<<"disk", name>>, labels, <<i>>) IN s.of[1] = i /\ s.family[1] = "disk"
      BY DEF Sample
    <2> DEFINE info == GetUdevDeviceProperties(d)
               ata == {a \in DiskInfoDescs.ata : info.ata # "" /\ d.udev = "ok" /\ a \in d.ataNumbers}
               own == {Sample(<<"disk", "info">>, <<d.name, Serial(info)>>, <<i>>)}
                        \cup (IF info.fsType = "" THEN {} ELSE
                               {Sample(<<"disk", DiskInfoDescs.filesystem>>, <<d.name, info.fsType>>, <<i>>)})
                        \cup (IF info.dmName = "" THEN {} ELSE
                               {Sample(<<"disk", DiskInfoDescs.deviceMapper>>, <<d.name, info.dmName>>, <<i>>)})
               counters == Samples("disk", {DiskDescs[n] : n \in 1..(d.ioStatsCount - 3)}, <<d.name>>, <<i>>)
               numbers == Samples("disk", ata, <<d.name>>, <<i>>)
    <2>3. \A s \in DiskSamples(i, d) : s \in own \/ s \in counters \/ s \in numbers
      BY DEF DiskSamples
    <2>4. \A s \in own : s.of[1] = i /\ s.family[1] = "disk"
      <3> HIDE DEF info
      <3> QED
        BY <2>2
    <2>5. \A s \in counters \cup numbers : s.of[1] = i /\ s.family[1] = "disk"
      BY <2>1
    <2> HIDE DEF own, counters, numbers
    <2> QED
      BY <2>3, <2>4, <2>5
  <1>7. \A i : DiskSamples(i, env.items[i]) # {}
    BY DEF DiskSamples
  <1> HIDE DEF filter, shown, bodies, rows
  <1>8. Loop(bodies).ret = "ok" /\ Loop(rows).ret = "ok" /\ out.sent = Loop(bodies).sent \cup Loop(rows).sent
        /\ filter.built
    BY <1>1, Through DEF Check, Return
  <1>9. Loop(bodies).sent = UNION {bodies[i].sent : i \in DOMAIN env.items}
    BY <1>2, <1>5, <1>8, LoopThrough
  <1>10. Loop(rows).sent = UNION {rows[n].sent : n \in DOMAIN env.order}
    BY <1>2, <1>5, <1>8, LoopThrough
  <1>11. ASSUME NEW i \in DOMAIN env.items
         PROVE  (\E s \in out.sent : OwnSample(s, i)) <=> shown(i)
    <2>1. i # 0
      BY <1>2
    <2>2. ASSUME NEW s \in out.sent, OwnSample(s, i) PROVE shown(i)
      <3>1. s \notin Loop(rows).sent
        BY <2>1, <2>2, <1>4, <1>10 DEF OwnSample
      <3>2. PICK k \in DOMAIN env.items : s \in bodies[k].sent
        BY <3>1, <1>8, <1>9
      <3> QED
        BY <2>2, <3>2, <1>3, <1>6 DEF OwnSample
    <2>3. ASSUME shown(i) PROVE \E s \in out.sent : OwnSample(s, i)
      <3>1. PICK s : s \in DiskSamples(i, env.items[i])
        BY <1>7
      <3>2. s \in out.sent
        BY <2>3, <3>1, <1>3, <1>8, <1>9
      <3>3. s.of[1] = i /\ s.family[1] = "disk"
        BY <3>1, <1>6
      <3> QED
        BY <3>2, <3>3 DEF OwnSample
    <2> QED
      BY <2>2, <2>3
  <1>12. ASSUME NEW i \in DOMAIN env.items PROVE shown(i) <=> AsksFor(env.flags, env.items[i])
    <2>1. filter = NewDeviceFilter(Excluded("diskstats", env.flags), Included("diskstats", env.flags))
      BY <1>8 DEF filter, NewDiskstatsDeviceFilter, NoFilter, Excluded, Included
    <2> QED
      BY <2>1, WantedIsNotIgnored DEF shown, AsksFor
  <1> QED
    BY <1>11, <1>12 DEF FiltersFollowFlags, OwnSample, Repeated

LEMMA EthtoolFollows ==
    ASSUME collector = "ethtool", ListsAreSequences(collector, env), out = UpdateEthtool(env), out.ret = "ok"
    PROVE  FiltersFollowFlags
  <1> DEFINE filter == NewEthtoolFilter(env.flags)
             device(i) == EthtoolDevice(i, env.items[i], env.metrics)
             bodies == [i \in DOMAIN env.items |->
                          IF Ignored(filter, env.items[i].name) THEN Nothing ELSE Send(device(i))]
  <1>1. out = Need(env.netClass, {"notexist", "permission"}) \bullet Check(env.items # <<>>, "error") \bullet Loop(bodies)
    BY DEF UpdateEthtool
  <1>2. DOMAIN env.items \subseteq Nat
    BY DEF ListsAreSequences, HaveItems, IsSequence
  <1>3. \A i \in DOMAIN env.items :
          bodies[i].sent = IF Ignored(filter, env.items[i].name) THEN {} ELSE device(i)
    BY Through
  <1>4. DOMAIN bodies = DOMAIN env.items
    OBVIOUS
  <1>5. ASSUME NEW i PROVE \A s \in device(i) : s.of[1] = i /\ s.family[1] # "network_address"
    <2> DEFINE d == env.items[i]
    <2>1. \A sub \in {"network", "ethtool"} : \A names, labels :
            \A s \in Samples(sub, names, labels, <<i>>) : s.of[1] = i /\ s.family[1] = sub
      BY OneOfEach
    <2>2. \A prefix, modes : \A s \in UpdateSpeeds(i, d, prefix, modes) : s.of[1] = i /\ s.family[1] = "network"
      BY DEF UpdateSpeeds, Sample
    <2>3. \A modes : \A s \in UpdatePortInfo(i, d, modes) : s.of[1] = i /\ s.family[1] = "network"
      BY DEF UpdatePortInfo, Sample
    <2>4. \A suffix : \A s \in UpdatePortCapabilities(i, d, suffix) : s.of[1] = i /\ s.family[1] = "network"
      BY <2>1 DEF UpdatePortCapabilities
    <2>5. \A name, of : LET s == Sample(<<"ethtool", name>>, <<d.name>>, <<i, of>>)
                        IN  s.of[1] = i /\ s.family[1] = "ethtool"
      BY DEF Sample
    <2> DEFINE own(s) == s.of[1] = i /\ s.family[1] # "network_address"
    <2>6. \A prefix, modes : \A s \in UpdateSpeeds(i, d, prefix, modes) : own(s)
      BY <2>2
    <2>7. \A modes : \A s \in UpdatePortInfo(i, d, modes) : own(s)
      BY <2>3
    <2>8. \A suffix : \A s \in UpdatePortCapabilities(i, d, suffix) : own(s)
      BY <2>4
    <2>9. \A sub \in {"network", "ethtool"} : \A names, labels : \A s \in Samples(sub, names, labels, <<i>>) : own(s)
      BY <2>1
    <2>10. \A name, of : own(Sample(<<"ethtool", name>>, <<d.name>>, <<i, of>>))
      BY <2>5
    <2> HIDE DEF own
    <2>11. \A s \in device(i) : own(s)
      BY <2>6, <2>7, <2>8, <2>9, <2>10 DEF EthtoolDevice
    <2> QED
      BY <2>11 DEF own
  <1>6. ASSUME NEW i PROVE device(i) # {} <=> HasToTell(env.items[i])
    <2> DEFINE d == env.items[i]
               named == Unclashed({s \in d.stats : ~env.metrics.set \/ s.raw \in env.metrics.matches})
               link == UpdateSpeeds(i, d, "supported", d.supported) \cup UpdatePortInfo(i, d, d.supported)
                         \cup UpdatePortCapabilities(i, d, "supported")
                         \cup UpdateSpeeds(i, d, "advertised", d.advertising)
                         \cup UpdatePortCapabilities(i, d, "advertised")
                         \cup Samples("network", {"autonegotiate"}, <<d.name>>, <<i>>)
               info == Samples("ethtool", {"info"}, <<d.name, d.driver>>, <<i>>)
               stats == {Sample(<<"ethtool", EntryWithCreate(s)>>, <<d.name>>, <<i, s.raw>>) : s \in named}
    <2>1. device(i) = (IF ~d.linkInfo THEN {} ELSE link) \cup (IF d.driverInfo THEN info ELSE {}) \cup stats
      BY DEF EthtoolDevice
    <2>2. \A sub, name, labels, of : Samples(sub, {name}, labels, of) # {}
      BY DEF Samples
    <2>3. link # {} /\ info # {}
      BY <2>2
    <2>4. stats # {} <=> named # {}
      OBVIOUS
    <2>5. HasToTell(d) <=> d.linkInfo \/ d.driverInfo \/ named # {}
      BY DEF HasToTell
    <2> HIDE DEF link, info, stats, named, device
    <2> QED
      BY <2>1, <2>3, <2>4, <2>5
  <1> HIDE DEF bodies, device
  <1>7. Loop(bodies).ret = "ok" /\ out.sent = Loop(bodies).sent
    <2> DEFINE guard == Check(env.items # <<>>, "error")
               reads == Need(env.netClass, {"notexist", "permission"})
    <2>1. guard.sent = {}
      BY DEF Check, Nothing, Send, Return
    <2>2. reads.sent = {}
      BY Through
    <2>3. out = (reads \bullet guard) \bullet Loop(bodies)
      BY <1>1
    <2> HIDE DEF guard, reads
    <2>4. Loop(bodies).ret = "ok" /\ (reads \bullet guard).ret = "ok" /\ out.sent = (reads \bullet guard).sent \cup Loop(bodies).sent
      BY <2>3, Through
    <2>5. (reads \bullet guard).sent = {}
      BY <2>1, <2>2, <2>4, Through
    <2> QED
      BY <2>4, <2>5
  <1>8. Loop(bodies).sent = UNION {bodies[i].sent : i \in DOMAIN env.items}
    BY <1>2, <1>4, <1>7, LoopThrough
  <1>9. ASSUME NEW i \in DOMAIN env.items
        PROVE  (\E s \in out.sent : OwnSample(s, i))
                 <=> ~Ignored(filter, env.items[i].name) /\ HasToTell(env.items[i])
    BY <1>3, <1>5, <1>6, <1>7, <1>8 DEF OwnSample
  <1>10. ASSUME NEW i \in DOMAIN env.items
         PROVE  ~Ignored(filter, env.items[i].name) <=> AsksFor(env.flags, env.items[i])
    BY WantedIsNotIgnored DEF NewEthtoolFilter, AsksFor, Excluded, Included
  <1> QED
    BY <1>9, <1>10 DEF FiltersFollowFlags, OwnSample, Repeated

LEMMA FilesystemFollows ==
    ASSUME collector = "filesystem", ListsAreSequences(collector, env), IsAsRead(collector, env),
           out = UpdateFilesystem(env), out.ret = "ok"
    PROVE  FiltersFollowFlags
  <1> DEFINE filter == NewFilesystemCollector(env.flags)
             seen(i) == \E j \in 1..(i - 1) : FilesystemLabels(env.items[j]) = FilesystemLabels(env.items[i])
             excluded(i) == env.items[i].mountPoint \in filter.points \/ env.items[i].fsType \in filter.types
             bodies == [i \in DOMAIN env.items |->
                          IF env.items[i].mountPoint \in filter.points \/ env.items[i].fsType \in filter.types \/ seen(i)
                          THEN Nothing ELSE Send(FilesystemSamples(i, env.items[i]))]
  <1>1. out = Check(filter.built, "unbuilt") \bullet Need(env.mounts, {}) \bullet Loop(bodies)
    BY DEF UpdateFilesystem
  <1>2. DOMAIN env.items \subseteq Nat
    BY DEF ListsAreSequences, HaveItems, IsSequence
  <1>3. \A i \in DOMAIN env.items :
          bodies[i].sent = IF excluded(i) \/ seen(i) THEN {} ELSE FilesystemSamples(i, env.items[i])
    BY Through
  <1>4. DOMAIN bodies = DOMAIN env.items
    OBVIOUS
  <1>5. \A i : \A s \in FilesystemSamples(i, env.items[i]) : s.of[1] = i /\ s.family[1] = "filesystem"
    BY OneOfEach DEF FilesystemSamples
  <1>6. \A i : FilesystemSamples(i, env.items[i]) # {}
    BY DEF FilesystemSamples, Samples
  <1>7. \A i : seen(i) <=> Repeated(i)
    BY DEF Repeated
  <1>8. ASSUME NEW i PROVE ~excluded(i) <=> AsksFor(env.flags, env.items[i])
    <2>1. \A flag \in {env.flags.points, env.flags.types} : ExcludeOrDefault(flag).set
      BY DEF IsAsRead, ExcludeOrDefault
    <2>2. \A exclude, name : exclude.set => (Wanted(exclude, NoPattern, name) <=> name \notin exclude.matches)
      BY DEF Wanted, NoPattern
    <2> QED
      BY <2>1, <2>2 DEF AsksFor, Excluded, NewFilesystemCollector
  <1> HIDE DEF filter, excluded, seen, bodies
  <1>9. Loop(bodies).ret = "ok" /\ out.sent = Loop(bodies).sent
    <2> DEFINE guard == Check(filter.built, "unbuilt")
               reads == Need(env.mounts, {})
    <2>1. guard.sent = {}
      BY DEF Check, Nothing, Send, Return
    <2>2. reads.sent = {}
      BY Through
    <2>3. out = (guard \bullet reads) \bullet Loop(bodies)
      BY <1>1
    <2> HIDE DEF guard, reads
    <2>4. Loop(bodies).ret = "ok" /\ (guard \bullet reads).ret = "ok" /\ out.sent = (guard \bullet reads).sent \cup Loop(bodies).sent
      BY <2>3, Through
    <2>5. (guard \bullet reads).sent = {}
      BY <2>1, <2>2, <2>4, Through
    <2> QED
      BY <2>4, <2>5
  <1>10. Loop(bodies).sent = UNION {bodies[i].sent : i \in DOMAIN env.items}
    BY <1>2, <1>4, <1>9, LoopThrough
  <1>11. ASSUME NEW i \in DOMAIN env.items
         PROVE  (\E s \in out.sent : OwnSample(s, i)) <=> ~excluded(i) /\ ~Repeated(i)
    <2>1. ASSUME NEW s \in out.sent, OwnSample(s, i) PROVE ~excluded(i) /\ ~seen(i)
      <3>1. PICK k \in DOMAIN env.items : s \in bodies[k].sent
        BY <1>9, <1>10
      <3> QED
        BY <2>1, <3>1, <1>3, <1>5 DEF OwnSample
    <2>2. ASSUME ~excluded(i), ~seen(i) PROVE \E s \in out.sent : OwnSample(s, i)
      <3>1. PICK s : s \in FilesystemSamples(i, env.items[i])
        BY <1>6
      <3>2. s \in out.sent
        BY <2>2, <3>1, <1>3, <1>9, <1>10
      <3>3. s.of[1] = i /\ s.family[1] = "filesystem"
        BY <3>1, <1>5
      <3> QED
        BY <3>2, <3>3 DEF OwnSample
    <2> QED
      BY <2>1, <2>2, <1>7
  <1> QED
    BY <1>8, <1>11 DEF FiltersFollowFlags, OwnSample

(* netdev, diskstats, ethtool and filesystem report the devices their      *)
(* flags ask for, each one of them and no other, for any flags and any     *)
(* devices.                                                                *)
THEOREM FiltersFollowFlagsHolds == Spec => []FiltersFollowFlags
  <1>1. CollectorsInv => FiltersFollowFlags
    <2> SUFFICES ASSUME CollectorsInv, collector \in {"netdev", "diskstats", "ethtool", "filesystem"}, out.ret = "ok"
                 PROVE  FiltersFollowFlags
      BY DEF FiltersFollowFlags
    <2>1. ListsAreSequences(collector, env) /\ IsAsRead(collector, env)
      BY EnvironmentIsOfIts DEF CollectorsInv
    <2>2. out = Update(collector, env)
      <3>1. collector \notin InSteps
        BY DEF InSteps
      <3>2. out \in {Unscraped, Update(collector, env)}
        BY <3>1 DEF CollectorsInv
      <3>3. Unscraped.ret # "ok"
        BY DEF Unscraped
      <3> QED
        BY <3>2, <3>3
    <2>3. CASE collector = "netdev"
      <3>1. out = UpdateNetDev(env)
        BY <2>2, <2>3 DEF Update, UpdateOfNetwork, StorageCollectors, NetworkCollectors, HardwareCollectors,
             ServiceCollectors, KernelCollectors
      <3> QED
        BY <2>1, <2>3, <3>1, NetDevFollows
    <2>4. CASE collector = "diskstats"
      <3>1. out = UpdateDiskstats(env)
        BY <2>2, <2>4 DEF Update, UpdateOfStorage, StorageCollectors, NetworkCollectors, HardwareCollectors,
             ServiceCollectors, KernelCollectors
      <3> QED
        BY <2>1, <2>4, <3>1, DiskstatsFollows
    <2>5. CASE collector = "ethtool"
      <3>1. out = UpdateEthtool(env)
        BY <2>2, <2>5 DEF Update, UpdateOfNetwork, StorageCollectors, NetworkCollectors, HardwareCollectors,
             ServiceCollectors, KernelCollectors
      <3> QED
        BY <2>1, <2>5, <3>1, EthtoolFollows
    <2>6. CASE collector = "filesystem"
      <3>1. out = UpdateFilesystem(env)
        BY <2>2, <2>6 DEF Update, UpdateOfStorage, StorageCollectors, NetworkCollectors, HardwareCollectors,
             ServiceCollectors, KernelCollectors
      <3> QED
        BY <2>1, <2>6, <3>1, FilesystemFollows
    <2> QED
      BY <2>3, <2>4, <2>5, <2>6
  <1> QED
    BY <1>1, CollectorsInvHolds, PTL

(* The modification time sent of a textfile is that of the metrics sent of *)
(* it, the metrics of a family of it have the same label names, and one of *)
(* which anything is missing raises the error flag, whatever happens to    *)
(* the files while they are read.                                          *)
THEOREM TextfileFaithfulHolds == Spec => []TextfileFaithful
  <1>1. CollectorsInv => TextfileFaithful
    <2> SUFFICES ASSUME CollectorsInv, collector = "textfile" PROVE TextfileFaithful
      BY DEF TextfileFaithful, MtimeOfContent, LabelsConsistent, LossIsTold
    <2>1. ListsAreSequences(collector, env) /\ IsAsRead(collector, env)
      BY EnvironmentIsOfIts DEF CollectorsInv
    <2>2. CASE out = Unscraped
      BY <2>2 DEF Unscraped, TextfileFaithful, MtimeOfContent, LabelsConsistent, LossIsTold
    <2>3. CASE out = Update(collector, env)
      <3>1. out = UpdateTextfile(env)
        BY <2>3 DEF Update, UpdateOfServices, StorageCollectors, NetworkCollectors, HardwareCollectors,
             ServiceCollectors, KernelCollectors
      <3> QED
        BY <2>1, <3>1, TextfilesAreFaithful
    <2> QED
      BY <2>2, <2>3 DEF CollectorsInv, InSteps
  <1> QED
    BY <1>1, CollectorsInvHolds, PTL

-----------------------------------------------------------------------------
(* Nothing is lost.                                                        *)

LEMMA OnlyOne == ASSUME NEW S, NEW x \in S, \A y \in S : y = x PROVE Cardinality(S) = 1
  <1>1. S = {x}
    OBVIOUS
  <1> QED
    BY <1>1, FS_Singleton

(* netdev.                                                                 *)

(* The counters that make up a metric of the legacy scheme.                *)
LegacySources(n) == {LegacyNames[n].from} \cup LegacyNames[n].adding

LEMMA SourcesAreApart ==
    /\ \A m, n \in DOMAIN LegacyNames : LegacySources(m) \cap LegacySources(n) # {} => m = n
    /\ \A n \in DOMAIN LegacyNames : n \notin DOMAIN NetlinkStats
  BY DEF LegacySources, LegacyNames, NetlinkStats

LEMMA InOneMetric ==
    ASSUME NEW stats \in {NetlinkStats, ProcNetDevStats}, NEW shown \in {stats, Legacy(stats)},
           NEW counter \in DOMAIN stats
    PROVE  \E n \in DOMAIN shown :
             counter \in shown[n] /\ \A m \in DOMAIN shown : counter \in shown[m] => m = n
  <1>1. \A n \in DOMAIN stats : stats[n] = {n}
    BY DEF NetlinkStats, ProcNetDevStats
  <1>2. CASE shown = stats
    BY <1>1, <1>2
  <1>3. CASE shown = Legacy(stats)
    <2> DEFINE renamed == {n \in DOMAIN LegacyNames : LegacyNames[n].from \in DOMAIN stats}
               kept == DOMAIN stats \ PoppedNames(stats)
    <2>1. PoppedNames(stats) = UNION {LegacySources(n) : n \in renamed}
      BY DEF PoppedNames, LegacySources
    <2>2. DOMAIN shown = kept \cup renamed
      BY <1>3 DEF Legacy
    <2>3. \A n \in renamed : shown[n] = UNION {stats[s] : s \in LegacySources(n) \cap DOMAIN stats}
      BY <1>3 DEF Legacy, LegacySources
    <2>4. \A n \in renamed : counter \in shown[n] <=> counter \in LegacySources(n)
      BY <1>1, <2>3
    <2>5. \A n \in kept : n \notin renamed => (counter \in shown[n] <=> counter = n)
      <3>1. \A n \in kept : n \notin renamed => shown[n] = stats[n]
        BY <1>3 DEF Legacy
      <3> QED
        BY <1>1, <3>1
    <2>6. kept \cap renamed = {}
      BY DEF NetlinkStats, ProcNetDevStats, LegacyNames
    <2> HIDE DEF renamed, kept
    <2>7. CASE counter \in PoppedNames(stats)
      <3>1. PICK n \in renamed : counter \in LegacySources(n)
        BY <2>1, <2>7
      <3>2. \A m \in renamed : counter \in LegacySources(m) => m = n
        BY <3>1, SourcesAreApart DEF renamed
      <3>3. \A m \in kept : counter # m
        BY <2>7 DEF kept
      <3> QED
        BY <2>2, <2>4, <2>5, <2>6, <3>1, <3>2, <3>3
    <2>8. CASE counter \notin PoppedNames(stats)
      <3>1. counter \in kept
        BY <2>8 DEF kept
      <3>2. \A m \in renamed : counter \notin LegacySources(m)
        BY <2>1, <2>8
      <3> QED
        BY <2>2, <2>4, <2>5, <2>6, <3>1, <3>2
    <2> QED
      BY <2>7, <2>8
  <1> QED
    BY <1>2, <1>3

LEMMA CountersAreKept ==
    ASSUME collector = "netdev", ListsAreSequences(collector, env), out = UpdateNetDev(env), out.ret = "ok"
    PROVE  LegacyKeepsCounters
  <1> SUFFICES ASSUME NEW i \in DOMAIN env.items,
                      \E s \in out.sent : s.of[1] = i /\ s.family[1] = "network",
                      NEW counter \in DOMAIN NetDevStats(env, i)
               PROVE  Cardinality({s \in out.sent : s.family[1] = "network" /\ s.of[1] = i /\ counter \in s.of[2]}) = 1
    BY DEF LegacyKeepsCounters
  <1> DEFINE stats == NetDevStats(env, i)
             shown == IF env.detailed THEN stats ELSE Legacy(stats)
             sample(n) == Sample(<<"network", n \o "_total">>, <<env.items[i].name>>, <<i, shown[n]>>)
             S == {s \in out.sent : s.family[1] = "network" /\ s.of[1] = i /\ counter \in s.of[2]}
  <1>1. PICK n \in DOMAIN shown : counter \in shown[n] /\ \A m \in DOMAIN shown : counter \in shown[m] => m = n
    BY InOneMetric DEF NetDevStats
  <1>2. \A s : s \in NetDevSamples(env, i) <=> \E m \in DOMAIN shown : s = sample(m)
    BY DEF NetDevSamples
  <1>3. \A m : sample(m).of[2] = shown[m] /\ sample(m).of[1] = i /\ sample(m).family[1] = "network"
    BY DEF Sample
  <1> HIDE DEF shown, sample
  <1>4. \A s : s \in out.sent /\ s.family[1] # "network_address" <=>
          \E k \in DOMAIN env.items :
            ~Ignored(NewNetDevFilter(env.flags), env.items[k].name) /\ s \in NetDevSamples(env, k)
    BY NetDevSends
  <1>5. ~Ignored(NewNetDevFilter(env.flags), env.items[i].name)
    <2>1. PICK s \in out.sent : s.of[1] = i /\ s.family[1] = "network"
      OBVIOUS
    <2> QED
      BY <1>4, <2>1, NetDevSamplesAre
  <1>6. sample(n) \in S
    BY <1>1, <1>2, <1>3, <1>4, <1>5
  <1>7. ASSUME NEW s \in S PROVE s = sample(n)
    <2>1. s \in NetDevSamples(env, i)
      BY <1>4, NetDevSamplesAre
    <2> QED
      BY <1>1, <1>2, <1>3, <2>1
  <1> QED
    BY <1>6, <1>7, OnlyOne

LEMMA AfterSilence ==
    ASSUME NEW a, NEW b, a.ret = "ok" => a.sent = {}, (a \bullet b).ret = "ok"
    PROVE  b.ret = "ok" /\ (a \bullet b).sent = b.sent
  <1>1. a.ret = "ok" /\ b.ret = "ok" /\ (a \bullet b).sent = a.sent \cup b.sent
    BY Through
  <1> QED
    BY <1>1

LEMMA SilentReads ==
    ASSUME NEW o, NEW p, NEW q, (Need(o, {}) \bullet Need(p, {}) \bullet Need(q, {})).ret = "ok"
    PROVE  (Need(o, {}) \bullet Need(p, {}) \bullet Need(q, {})).sent = {}
  <1>1. Need(o, {}).sent = {} /\ Need(p, {}).sent = {} /\ Need(q, {}).sent = {}
    BY Through
  <1> QED
    BY <1>1, Through

LEMMA WholeOfThree == ASSUME NEW a, NEW b, NEW c PROVE SubSeq(<<a, b, c>>, 1, 3) = <<a, b, c>>
  <1> DEFINE t == <<a, b, c>>
  <1>1. t \in Seq({a, b, c}) /\ Len(t) = 3
    OBVIOUS
  <1> HIDE DEF t
  <1>2. SubSeq(t, 1, 3) \in Seq({a, b, c}) /\ Len(SubSeq(t, 1, 3)) = 3 /\ \A n \in 1..3 : SubSeq(t, 1, 3)[n] = t[n]
    BY <1>1
  <1>3. SubSeq(t, 1, 3) = t
    BY <1>1, <1>2
  <1> QED
    BY <1>3 DEF t

(* mountstats.                                                             *)
LEMMA ServersAreReported ==
    ASSUME collector = "mountstats", ListsAreSequences(collector, env), out = UpdateMountStats(env), out.ret = "ok"
    PROVE  EveryServerReported
  <1> DEFINE duplicate(n) == \E k \in 1..(n - 1) :
                               env.mounts[k].nfs /\ DeviceIdentifier(env, k) = DeviceIdentifier(env, n)
             labels(n) == <<env.mounts[n].device, env.mounts[n].protocol, MountAddress(env, n)>>
             bodies == [n \in DOMAIN env.mounts |->
                          IF ~env.mounts[n].nfs \/ duplicate(n) THEN Nothing
                          ELSE Send(UpdateNFSStats(env.mounts[n], labels(n)))]
  <1>1. out = Check(env.self = "ok", "unbuilt") \bullet Need(env.mountStats, {}) \bullet Need(env.mountInfo, {})
                \bullet Loop(bodies)
    BY DEF UpdateMountStats
  <1>2. DOMAIN env.mounts = 1..Len(env.mounts) /\ Len(env.mounts) \in Nat
    BY DEF ListsAreSequences, IsSequence
  <1>3. \A n \in DOMAIN env.mounts :
          env.mounts[n].nfs /\ ~duplicate(n) => bodies[n].sent = UpdateNFSStats(env.mounts[n], labels(n))
    BY Through
  <1>4. DOMAIN bodies = DOMAIN env.mounts /\ DOMAIN bodies \subseteq Nat
    BY <1>2
  <1>5. \A m, l : \E s \in UpdateNFSStats(m, l) : s.labels = l
    <2> TAKE m, l
    <2>1. Sample(<<"mountstats_nfs", "age_seconds_total">>, l, <<m.mount>> \o <<"age_seconds_total">>)
            \in UpdateNFSStats(m, l)
      BY DEF UpdateNFSStats, Samples
    <2> QED
      BY <2>1 DEF Sample
  <1>6. \A n : labels(n) = DeviceIdentifier(env, n)
    BY DEF DeviceIdentifier
  <1>7. \A n : SubSeq(labels(n), 1, 3) = labels(n)
    BY WholeOfThree
  <1>8. \A k, n : k \in 1..(n - 1) /\ env.mounts[k].nfs /\ labels(k) = labels(n) => duplicate(n)
    BY <1>6
  <1>9. \A n : duplicate(n) => \E k \in 1..(n - 1) : env.mounts[k].nfs /\ labels(k) = labels(n)
    BY <1>6
  <1> HIDE DEF bodies, duplicate
  <1>10. Loop(bodies).ret = "ok" /\ Loop(bodies).sent \subseteq out.sent
    <2> HIDE DEF bodies
    <2> QED
      BY <1>1, Through
  <1>11. Loop(bodies).sent = UNION {bodies[n].sent : n \in DOMAIN bodies}
    BY <1>4, <1>10, LoopThrough
  <1>12. ASSUME NEW n \in DOMAIN env.mounts, env.mounts[n].nfs
         PROVE  \E s \in out.sent : SubSeq(s.labels, 1, 3) = labels(n)
    <2> DEFINE same == {k \in DOMAIN env.mounts : env.mounts[k].nfs /\ labels(k) = labels(n)}
    <2>1. PICK k \in same : \A j \in same : k <= j
      <3>1. same \subseteq Nat /\ n \in same
        BY <1>2, <1>12
      <3> HIDE DEF same
      <3> QED
        BY <3>1, LeastMember DEF FirstOf
    <2>2. k \in DOMAIN env.mounts /\ env.mounts[k].nfs /\ labels(k) = labels(n)
      BY <2>1
    <2>3. ~duplicate(k)
      <3> SUFFICES ASSUME duplicate(k) PROVE FALSE
        OBVIOUS
      <3>1. PICK j \in 1..(k - 1) : env.mounts[j].nfs /\ labels(j) = labels(k)
        BY <1>9
      <3>2. j \in same /\ ~(k <= j)
        BY <1>2, <2>2, <3>1
      <3> QED
        BY <2>1, <3>2
    <2>4. PICK s \in UpdateNFSStats(env.mounts[k], labels(k)) : s.labels = labels(k)
      BY <1>5
    <2>5. s \in out.sent
      BY <1>3, <1>4, <1>10, <1>11, <2>2, <2>3, <2>4
    <2> QED
      BY <1>7, <2>2, <2>4, <2>5
  <1> QED
    BY <1>12 DEF EveryServerReported

(* tcpstat.                                                                *)
LEMMA SocketsAreCounted ==
    ASSUME collector = "tcpstat", IsAsRead(collector, env), out = UpdateTCPStat(env), out.ret = "ok",
           NEW x \in SocketsOf(env)
    PROVE  Cardinality({s \in out.sent : s.labels[1] \notin TCPQueues /\ x \in s.of[2]}) = 1
  <1> DEFINE tcp6 == IF env.hasTCP6 THEN ParseTCPStats(env.tcp6) ELSE <<>>
             stats == MergedTCPStats(ParseTCPStats(env.tcp), tcp6)
             sample(st) == Sample(<<"tcp", "connection_states">>, <<st>>, <<0, stats[st]>>)
             S == {s \in out.sent : s.labels[1] \notin TCPQueues /\ x \in s.of[2]}
  <1>1. out = Need(env.dump, {}) \bullet (IF env.hasTCP6 THEN Need(env.dump6, {}) ELSE Nothing)
                \bullet Send({sample(st) : st \in DOMAIN stats})
    BY DEF UpdateTCPStat
  <1>2. \A st : st \in DOMAIN stats /\ st \notin TCPQueues =>
          \A y \in stats[st] : y.state = st
    BY DEF MergedTCPStats, ParseTCPStats
  <1>3. x.state \notin TCPQueues
    BY DEF IsAsRead
  <1>4. x.state \in DOMAIN stats /\ x \in stats[x.state]
    <2>1. \A sockets : x \in sockets => x.state \in DOMAIN ParseTCPStats(sockets)
                                        /\ x \in ParseTCPStats(sockets)[x.state]
      BY <1>3 DEF ParseTCPStats
    <2>2. CASE x \in env.tcp
      BY <2>1, <2>2 DEF MergedTCPStats
    <2>3. CASE env.hasTCP6 /\ x \in env.tcp6
      BY <2>1, <2>3 DEF MergedTCPStats
    <2> QED
      BY <2>2, <2>3 DEF SocketsOf
  <1>5. \A st : sample(st).labels[1] = st /\ sample(st).of[2] = stats[st]
    BY DEF Sample
  <1>6. \A s : s \in out.sent <=> \E st \in DOMAIN stats : s = sample(st)
    <2> DEFINE sent == {sample(st) : st \in DOMAIN stats}
               reads == Need(env.dump, {}) \bullet (IF env.hasTCP6 THEN Need(env.dump6, {}) ELSE Nothing)
    <2>1. reads.ret = "ok" => reads.sent = {}
      <3> HIDE DEF stats
      <3>1. Need(env.dump, {}).sent = {} /\ (IF env.hasTCP6 THEN Need(env.dump6, {}) ELSE Nothing).sent = {}
        BY Through
      <3> QED
        BY <3>1, Through
    <2>2. out = reads \bullet Send(sent)
      BY <1>1
    <2> HIDE DEF reads, sent
    <2>3. out.sent = sent
      BY <2>1, <2>2, AfterSilence, Through
    <2> QED
      BY <2>3 DEF sent
  <1> HIDE DEF stats, sample
  <1>7. sample(x.state) \in S
    BY <1>3, <1>4, <1>5, <1>6
  <1>8. ASSUME NEW s \in S PROVE s = sample(x.state)
    BY <1>2, <1>5, <1>6
  <1> QED
    BY <1>7, <1>8, OnlyOne

(* ipvs.                                                                   *)
LEMMA WithPair ==
    ASSUME NEW subsystem, NEW names, NEW labels, NEW i, NEW j, NEW s \in Samples(subsystem, names, labels, <<i, j>>)
    PROVE  s.of[1] = i /\ s.of[2] = j /\ Len(s.of) = 3 /\ s.family[2] \in names /\ s.labels = labels
  <1>1. PICK n \in names : s = Sample(<<subsystem, n>>, labels, <<i, j>> \o <<n>>)
    BY DEF Samples
  <1>2. <<i, j>> \in Seq({i, j, n}) /\ <<n>> \in Seq({i, j, n}) /\ Len(<<i, j>>) = 2 /\ Len(<<n>>) = 1
    OBVIOUS
  <1>3. (<<i, j>> \o <<n>>)[1] = i /\ (<<i, j>> \o <<n>>)[2] = j /\ Len(<<i, j>> \o <<n>>) = 3
    BY <1>2
  <1> QED
    BY <1>1, <1>3 DEF Sample

LEMMA OfFamily ==
    ASSUME NEW subsystem, NEW names, NEW labels, NEW of, NEW s \in Samples(subsystem, names, labels, of)
    PROVE  s = Sample(<<subsystem, s.family[2]>>, labels, of \o <<s.family[2]>>)
  <1>1. PICK n \in names : s = Sample(<<subsystem, n>>, labels, of \o <<n>>)
    BY DEF Samples
  <1>2. s.family[2] = n
    BY <1>1 DEF Sample
  <1> QED
    BY <1>1, <1>2

LEMMA BackendsAreCounted ==
    ASSUME collector = "ipvs", out = UpdateIPVS(env), out.ret = "ok", NEW x \in DOMAIN env.backends
    PROVE  Cardinality({s \in out.sent : s.family[2] = "backend_weight" /\ x \in s.of[2]}) = 1
  <1> DEFINE labels == ParseIPVSLabels(env.chosen)
             values(b) == [n \in DOMAIN labels |-> b[labels[n]]]
             sum(v) == {n \in DOMAIN env.backends : values(env.backends[n]) = v}
             known == \A l \in env.chosen : \E n \in DOMAIN IPVSLabels : l = IPVSLabels[n]
             totals == Samples("ipvs", IPVSFamilies.total, <<>>, <<0>>)
             backends(v) == Samples("ipvs", IPVSFamilies.backend, v, <<0, sum(v)>>)
             of == values(env.backends[x])
             weight == Sample(<<"ipvs", "backend_weight">>, of, <<0, sum(of)>> \o <<"backend_weight">>)
             all == UNION {backends(v) : v \in {values(env.backends[n]) : n \in DOMAIN env.backends}}
             first == Check(known, "unbuilt")
             second == Need(env.stats, {"notexist"})
             third == Need(env.backendStatus, {})
             S == {s \in out.sent : s.family[2] = "backend_weight" /\ x \in s.of[2]}
  <1>1. out = first \bullet second \bullet Send(totals) \bullet third \bullet Send(all)
    BY DEF UpdateIPVS
  <1>2. first.sent = {} /\ second.sent = {} /\ third.sent = {}
    <2>1. first.sent = {}
      BY DEF Check, Nothing, Send, Return
    <2>2. second.sent = {} /\ third.sent = {}
      BY Through
    <2> QED
      BY <2>1, <2>2
  <1>3. \A s \in totals : s.family[2] # "backend_weight"
    BY DEF Samples, Sample, IPVSFamilies
  <1>4. \A s : s \in all <=> \E n \in DOMAIN env.backends : s \in backends(values(env.backends[n]))
    <2> HIDE DEF backends, values
    <2> QED
      OBVIOUS
  <1>5. \A v, s : s \in backends(v) /\ s.family[2] = "backend_weight" =>
          s = Sample(<<"ipvs", "backend_weight">>, v, <<0, sum(v)>> \o <<"backend_weight">>)
    BY OfFamily
  <1>6. \A v : \A s \in backends(v) : s.of[2] = sum(v)
    BY WithPair
  <1>7. weight \in backends(of) /\ weight.family[2] = "backend_weight"
    BY DEF Samples, Sample, IPVSFamilies
  <1>8. x \in sum(of)
    OBVIOUS
  <1>9. \A v : x \in sum(v) => v = of
    OBVIOUS
  <1> HIDE DEF first, second, third, totals, all, backends, sum, values, of
  <1>10. out.sent = totals \cup all
    BY <1>1, <1>2, Through
  <1>11. weight \in S
    BY <1>4, <1>6, <1>7, <1>8, <1>10 DEF of
  <1>12. ASSUME NEW s \in S PROVE s = weight
    <2>1. s \in all
      BY <1>3, <1>10
    <2>2. PICK n \in DOMAIN env.backends : s \in backends(values(env.backends[n]))
      BY <1>4, <2>1
    <2>3. values(env.backends[n]) = of
      BY <1>6, <1>9, <2>2
    <2> QED
      BY <1>5, <2>2, <2>3
  <1> QED
    BY <1>11, <1>12, OnlyOne

(* logind.                                                                 *)
LEMMA SessionsAreCounted ==
    ASSUME collector = "logind", IsAsRead(collector, env), out = UpdateLogind(env), out.ret = "ok",
           NEW x \in DOMAIN env.sessions, env.sessions[x].read, env.sessions[x].seat \in ListSeats(env)
    PROVE  Cardinality({s \in out.sent : x \in s.of[3]}) = 1
  <1> DEFINE sessions(l) == {n \in DOMAIN env.sessions : env.sessions[n].read /\ GetSession(env.sessions[n]) = l}
             sample(l) == Sample(<<"logind", "sessions">>, l, <<0, "of", sessions(l)>>)
             under == ListSeats(env) \X AttrRemoteValues \X AttrTypeValues \X AttrClassValues
             all == {sample(l) : l \in under}
             of == GetSession(env.sessions[x])
             reads == Need(env.dbus, {}) \bullet Need(env.listSeats, {}) \bullet Need(env.listSessions, {})
             S == {s \in out.sent : x \in s.of[3]}
  <1>1. out = reads \bullet Send(all) /\ (reads.ret = "ok" => reads.sent = {})
    <2>1. out = reads \bullet Send(all)
      BY DEF UpdateLogind
    <2> QED
      BY <2>1, SilentReads
  <1>2. of \in under
    BY DEF GetSession, KnownStringOrOther, AttrTypeValues, AttrClassValues, IsAsRead
  <1>3. \A l : sample(l).of[3] = sessions(l)
    BY DEF Sample
  <1>4. \A l : x \in sessions(l) <=> l = of
    OBVIOUS
  <1>5. \A s : s \in all <=> \E l \in under : s = sample(l)
    OBVIOUS
  <1> HIDE DEF all, sample, sessions, under, of, reads
  <1>6. out.sent = all
    BY <1>1, AfterSilence, Through
  <1>7. sample(of) \in S
    BY <1>2, <1>3, <1>4, <1>5, <1>6
  <1>8. ASSUME NEW s \in S PROVE s = sample(of)
    BY <1>3, <1>4, <1>5, <1>6
  <1> QED
    BY <1>7, <1>8, OnlyOne

(* processes.                                                              *)
LEMMA ReadingsSendNothing ==
    ASSUME NEW procs, IsSequence(procs), \A n \in DOMAIN procs : IsSequence(procs[n].threads),
           GetAllocatedThreads(procs).ret = "ok"
    PROVE  GetAllocatedThreads(procs).sent = {}
  <1> DEFINE threads(p) == [t \in DOMAIN p.threads |-> IF p.threads[t].leads THEN Nothing ELSE Reading(p.threads[t].stat)]
             bodies == [n \in DOMAIN procs |->
                          Reading(procs[n].stat) \bullet (IF procs[n].stat = "ok" THEN GetThreadStates(procs[n]) ELSE Nothing)]
  <1>1. \A o : Reading(o).sent = {}
    BY DEF Reading, Check, Nothing, Send, Return
  <1>2. ASSUME NEW n \in DOMAIN procs, Loop(threads(procs[n])).ret = "ok" PROVE Loop(threads(procs[n])).sent = {}
    <2> DEFINE read == threads(procs[n])
    <2>1. \A t \in DOMAIN read : read[t].sent = {}
      BY <1>1, Through
    <2>2. DOMAIN read \subseteq Nat
      BY DEF IsSequence
    <2> HIDE DEF read
    <2>3. Loop(read).sent = UNION {read[t].sent : t \in DOMAIN read}
      BY <1>2, <2>2, LoopThrough DEF read
    <2>4. Loop(read).sent = {}
      BY <2>1, <2>3
    <2> QED
      BY <2>4 DEF read
  <1>3. ASSUME NEW n \in DOMAIN procs, GetThreadStates(procs[n]).ret = "ok" PROVE GetThreadStates(procs[n]).sent = {}
    <2> DEFINE p == procs[n]
               inner == IF p.task = "ok" THEN Loop(threads(p)) ELSE Nothing
    <2>1. GetThreadStates(p) = Reading(p.task) \bullet inner
      BY DEF GetThreadStates
    <2>2. inner.ret = "ok" => inner.sent = {}
      BY <1>2, Through
    <2> HIDE DEF inner
    <2> QED
      BY <1>1, <1>3, <2>1, <2>2, Through
  <1>4. \A n \in DOMAIN procs : bodies[n].ret = "ok" => bodies[n].sent = {}
    <2> TAKE n \in DOMAIN procs
    <2> DEFINE inner == IF procs[n].stat = "ok" THEN GetThreadStates(procs[n]) ELSE Nothing
    <2>1. bodies[n] = Reading(procs[n].stat) \bullet inner
      OBVIOUS
    <2>2. inner.ret = "ok" => inner.sent = {}
      BY <1>3, Through
    <2> HIDE DEF inner, bodies
    <2> QED
      BY <1>1, <2>1, <2>2, Through
  <1>5. GetAllocatedThreads(procs) = Loop(bodies) /\ DOMAIN bodies \subseteq Nat
    BY DEF GetAllocatedThreads, IsSequence
  <1> HIDE DEF bodies
  <1>6. Loop(bodies).sent = UNION {bodies[n].sent : n \in DOMAIN bodies} /\ \A n \in DOMAIN bodies : bodies[n].ret = "ok"
    BY <1>5, LoopThrough
  <1>7. DOMAIN bodies = DOMAIN procs
    BY DEF bodies
  <1>8. \A n \in DOMAIN bodies : bodies[n].sent = {}
    BY <1>4, <1>6, <1>7
  <1> QED
    BY <1>5, <1>6, <1>8

LEMMA ProcessesAreCounted ==
    ASSUME collector = "processes", ListsAreSequences(collector, env), out = UpdateProcesses(env), out.ret = "ok",
           NEW x \in DOMAIN env.procs, env.procs[x].stat = "ok"
    PROVE  Cardinality({s \in out.sent : s.family[2] = "state" /\ x \in s.of[2]}) = 1
  <1> DEFINE counted == {n \in DOMAIN env.procs : env.procs[n].stat = "ok"}
             threadsOf(st) == UNION {{<<n, t>> : t \in ThreadsIn(env.procs[n], st)} : n \in counted}
             states == {env.procs[n].state : n \in counted}
             threadStates == {st \in env.states : threadsOf(st) # {}}
             one(family, of) == {Sample(<<"processes", family>>, <<>>, <<0, of>>)}
             inState(st) == {n \in counted : env.procs[n].state = st}
             sample(st) == Sample(<<"processes", "state">>, <<st>>, <<0, inState(st)>>)
             all == {sample(st) : st \in states}
             threads == {Sample(<<"processes", "threads_state">>, <<st>>, <<0, threadsOf(st)>>) : st \in threadStates}
             others == one("threads", counted) \cup one("max_threads", "limit") \cup threads
                         \cup one("pids", counted) \cup one("max_processes", "limit")
             of == env.procs[x].state
             S == {s \in out.sent : s.family[2] = "state" /\ x \in s.of[2]}
             list == Need(env.list, {})
             allocated == GetAllocatedThreads(env.procs)
             threadsMax == Need(env.threadsMax, {})
             pidMax == Need(env.pidMax, {})
             a == Send(one("threads", counted))
             b == Send(one("max_threads", "limit"))
             c == Send(all)
             d == Send(threads)
             f == Send(one("pids", counted))
             g == Send(one("max_processes", "limit"))
  <1>1. out = list \bullet allocated \bullet a \bullet threadsMax \bullet b \bullet c \bullet d \bullet pidMax \bullet f
                \bullet g
    BY DEF UpdateProcesses
  <1>2. /\ list.sent = {} /\ threadsMax.sent = {} /\ pidMax.sent = {}
        /\ allocated.ret = "ok" => allocated.sent = {}
    <2>1. IsSequence(env.procs) /\ \A n \in DOMAIN env.procs : IsSequence(env.procs[n].threads)
      BY DEF ListsAreSequences
    <2> QED
      BY <2>1, Through, ReadingsSendNothing
  <1>3. a.sent = one("threads", counted) /\ b.sent = one("max_threads", "limit") /\ c.sent = all
        /\ d.sent = threads /\ f.sent = one("pids", counted) /\ g.sent = one("max_processes", "limit")
    BY Through
  <1>4. \A s \in others : s.family[2] # "state"
    BY DEF Sample
  <1>5. \A st : sample(st).of[2] = inState(st) /\ sample(st).family[2] = "state"
    BY DEF Sample
  <1>6. \A st : x \in inState(st) <=> st = of
    OBVIOUS
  <1>7. of \in states
    OBVIOUS
  <1>8. \A s : s \in all <=> \E st \in states : s = sample(st)
    OBVIOUS
  <1>9. out.sent = all \cup others
    <2> HIDE DEF list, allocated, a, threadsMax, b, c, d, pidMax, f, g, all, threads, one
    <2> DEFINE r1 == list \bullet allocated \bullet a
               r2 == r1 \bullet threadsMax \bullet b \bullet c
               r3 == r2 \bullet d \bullet pidMax
    <2>1. out = r3 \bullet f \bullet g
      BY <1>1
    <2>2. r3 = r2 \bullet d \bullet pidMax /\ r2 = r1 \bullet threadsMax \bullet b \bullet c
      OBVIOUS
    <2>3. ASSUME r1.ret = "ok" PROVE r1.sent = a.sent
      <3>1. (list \bullet allocated).ret = "ok" /\ r1.sent = (list \bullet allocated).sent \cup a.sent
        BY <2>3, Through
      <3>2. (list \bullet allocated).sent = {}
        BY <1>2, <3>1, Through
      <3> QED
        BY <3>1, <3>2
    <2> HIDE DEF r1, r2, r3
    <2>4. r2.ret = "ok" => r1.ret = "ok" /\ r2.sent = r1.sent \cup b.sent \cup c.sent
      BY <1>2, <2>2, Through
    <2>5. r3.ret = "ok" => r2.ret = "ok" /\ r3.sent = r2.sent \cup d.sent
      BY <1>2, <2>2, Through
    <2>6. (r3 \bullet f).ret = "ok" /\ out.sent = (r3 \bullet f).sent \cup g.sent
      BY <2>1, Through
    <2>7. r3.ret = "ok" /\ (r3 \bullet f).sent = r3.sent \cup f.sent
      BY <2>6, Through
    <2>8. out.sent = a.sent \cup b.sent \cup c.sent \cup d.sent \cup f.sent \cup g.sent
      BY <2>3, <2>4, <2>5, <2>6, <2>7
    <2> QED
      BY <1>3, <2>8
  <1> HIDE DEF all, others, sample, inState, states, of
  <1>10. sample(of) \in S
    BY <1>5, <1>6, <1>7, <1>8, <1>9
  <1>11. ASSUME NEW s \in S PROVE s = sample(of)
    BY <1>4, <1>5, <1>6, <1>8, <1>9
  <1> QED
    BY <1>10, <1>11, OnlyOne

(* mdadm, cpufreq and zfs.                                                 *)
IsStateOf(s, i) == s.of[1] = i /\ Len(s.of) >= 3 /\ s.of[2] = "state"

LEMMA OneIsOn ==
    ASSUME NEW sent, NEW i, NEW on \in sent, IsStateOf(on, i), on.of[Len(on.of)],
           \A s \in sent : IsStateOf(s, i) /\ s.of[Len(s.of)] => s = on
    PROVE  LET states == {s \in sent : s.of[1] = i /\ Len(s.of) >= 3 /\ s.of[2] = "state"}
           IN  states = {} \/ Cardinality({s \in states : s.of[Len(s.of)]}) = 1
  <1> DEFINE states == {s \in sent : s.of[1] = i /\ Len(s.of) >= 3 /\ s.of[2] = "state"}
             S == {s \in states : s.of[Len(s.of)]}
  <1>1. on \in S
    BY DEF IsStateOf
  <1>2. \A s \in S : s = on
    BY DEF IsStateOf
  <1> HIDE DEF S
  <1>3. Cardinality(S) = 1
    BY <1>1, <1>2, OnlyOne
  <1> QED
    BY <1>3 DEF S

LEMMA WithOne ==
    ASSUME NEW subsystem, NEW names, NEW labels, NEW i, NEW s \in Samples(subsystem, names, labels, <<i>>)
    PROVE  s.of[1] = i /\ Len(s.of) = 2
  <1>1. PICK n \in names : s = Sample(<<subsystem, n>>, labels, <<i>> \o <<n>>)
    BY DEF Samples
  <1>2. <<i>> \in Seq({i, n}) /\ <<n>> \in Seq({i, n}) /\ Len(<<i>>) = 1 /\ Len(<<n>>) = 1
    OBVIOUS
  <1>3. (<<i>> \o <<n>>)[1] = i /\ Len(<<i>> \o <<n>>) = 2
    BY <1>2
  <1> QED
    BY <1>1, <1>3 DEF Sample

LEMMA OthersAreNoState ==
    ASSUME NEW i, NEW k
    PROVE  /\ \A subsystem, names, labels : \A s \in Samples(subsystem, names, labels, <<k>>) : ~IsStateOf(s, i)
           /\ \A family, labels, x : ~IsStateOf(Sample(family, labels, <<k, x>>), i)
  <1>1. ASSUME NEW subsystem, NEW names, NEW labels, NEW s \in Samples(subsystem, names, labels, <<k>>)
        PROVE  ~IsStateOf(s, i)
    <2>1. Len(s.of) = 2
      BY WithOne
    <2> QED
      BY <2>1 DEF IsStateOf
  <1>2. ASSUME NEW family, NEW labels, NEW x PROVE ~IsStateOf(Sample(family, labels, <<k, x>>), i)
    <2> DEFINE s == Sample(family, labels, <<k, x>>)
    <2>1. s.of = <<k, x>>
      BY DEF Sample
    <2> HIDE DEF s
    <2>2. Len(s.of) = 2
      BY <2>1
    <2>3. ~IsStateOf(s, i)
      BY <2>2 DEF IsStateOf
    <2> QED
      BY <2>3 DEF s
  <1> QED
    BY <1>1, <1>2

LEMMA StateForm ==
    ASSUME NEW s, NEW i, NEW x, s.of = <<i, "state", x>>
    PROVE  IsStateOf(s, i) /\ s.of[Len(s.of)] = x
  <1>1. Len(s.of) = 3
    OBVIOUS
  <1>2. s.of[1] = i /\ s.of[2] = "state" /\ s.of[3] = x
    OBVIOUS
  <1> QED
    BY <1>1, <1>2 DEF IsStateOf

LEMMA NamedStateForm ==
    ASSUME NEW s, NEW i, NEW name, NEW x, s.of = <<i, "state", name, x>>
    PROVE  IsStateOf(s, i) /\ s.of[Len(s.of)] = x
  <1>1. Len(s.of) = 4
    OBVIOUS
  <1>2. s.of[1] = i /\ s.of[2] = "state" /\ s.of[4] = x
    OBVIOUS
  <1> QED
    BY <1>1, <1>2 DEF IsStateOf

LEMMA ArrayIsInOneState ==
    ASSUME collector = "mdadm", ListsAreSequences(collector, env), IsAsRead(collector, env),
           out = UpdateMdadm(env), out.ret = "ok"
    PROVE  OneState
  <1> DEFINE bodies == [i \in DOMAIN env.items |-> Send(MdSamples(i, env.items[i]))]
             reads == Need(env.mdstat, {"notexist"})
             stateOf(i, s) == Sample(<<"md", "state">>, <<env.items[i].name, s>>,
                                     <<i, "state", MdStates[s] = env.items[i].activity>>)
  <1>1. out = reads \bullet Loop(bodies) /\ reads.sent = {}
    BY Through DEF UpdateMdadm
  <1>2. DOMAIN bodies = DOMAIN env.items /\ DOMAIN bodies \subseteq Nat
    BY DEF ListsAreSequences, HaveItems, IsSequence
  <1>3. \A i \in DOMAIN bodies : bodies[i].sent = MdSamples(i, env.items[i])
    BY Through
  <1> HIDE DEF bodies, reads
  <1>4. out.sent = UNION {bodies[i].sent : i \in DOMAIN bodies}
    BY <1>1, <1>2, AfterSilence, LoopThrough
  <1>5. \A s : s \in out.sent <=> \E i \in DOMAIN env.items : s \in MdSamples(i, env.items[i])
    BY <1>2, <1>3, <1>4
  <1>6. ASSUME NEW i, NEW k, NEW s \in MdSamples(k, env.items[k]), IsStateOf(s, i)
        PROVE  i = k /\ \E st \in DOMAIN MdStates : s = stateOf(k, st)
    <2> DEFINE md == env.items[k]
    <2>1. s \notin Samples("md", {"disks_required", "blocks", "blocks_synced"}, <<md.name>>, <<k>>)
      BY <1>6, OthersAreNoState
    <2>2. \A st : s # Sample(<<"md", "disks">>, <<md.name, st>>, <<k, st>>)
      BY <1>6, OthersAreNoState
    <2>3. \E st \in DOMAIN MdStates : s = stateOf(k, st)
      BY <2>1, <2>2 DEF MdSamples
    <2>4. s.of[1] = k
      BY <2>3 DEF Sample
    <2> QED
      BY <1>6, <2>3, <2>4 DEF IsStateOf
  <1>7. ASSUME NEW i \in DOMAIN env.items
        PROVE  \E on \in out.sent :
                 /\ IsStateOf(on, i) /\ on.of[Len(on.of)]
                 /\ \A s \in out.sent : IsStateOf(s, i) /\ s.of[Len(s.of)] => s = on
    <2>1. PICK st \in DOMAIN MdStates : env.items[i].activity = MdStates[st]
      BY DEF IsAsRead
    <2>2. stateOf(i, st) \in out.sent
      BY <1>5 DEF MdSamples
    <2>3. ASSUME NEW t
          PROVE  IsStateOf(stateOf(i, t), i) /\ (stateOf(i, t).of[Len(stateOf(i, t).of)] <=> MdStates[t] = MdStates[st])
      <3> DEFINE on == MdStates[t] = env.items[i].activity
      <3>1. stateOf(i, t).of = <<i, "state", on>>
        BY DEF Sample
      <3> HIDE DEF on
      <3>2. IsStateOf(stateOf(i, t), i) /\ stateOf(i, t).of[Len(stateOf(i, t).of)] = on
        BY <3>1, StateForm
      <3> QED
        BY <2>1, <3>2 DEF on
    <2>4. \A t \in DOMAIN MdStates : MdStates[t] = MdStates[st] => t = st
      BY DEF MdStates
    <2>5. ASSUME NEW s \in out.sent, IsStateOf(s, i) PROVE \E t \in DOMAIN MdStates : s = stateOf(i, t)
      <3>1. PICK k \in DOMAIN env.items : s \in MdSamples(k, env.items[k])
        BY <1>5
      <3>2. i = k /\ \E t \in DOMAIN MdStates : s = stateOf(k, t)
        BY <1>6, <2>5, <3>1
      <3> QED
        BY <3>2
    <2> HIDE DEF stateOf
    <2> QED
      BY <2>2, <2>3, <2>4, <2>5
  <1> QED
    BY <1>7, OneIsOn DEF OneState

LEMMA GovernorIsOne ==
    ASSUME collector = "cpufreq", ListsAreSequences(collector, env), IsAsRead(collector, env),
           out = UpdateCPUFreq(env), out.ret = "ok"
    PROVE  OneState
  <1> DEFINE bodies == [i \in DOMAIN env.items |-> Send(CPUFreqSamples(i, env.items[i]))]
             reads == Need(env.freqs, {})
             of(i, g) == <<i, "state", g, g = env.items[i].governor>>
             stateOf(i, g) == Sample(<<"cpu", "scaling_governor">>, <<env.items[i].name, g>>, of(i, g))
             states(i) == {s \in out.sent : s.of[1] = i /\ Len(s.of) >= 3 /\ s.of[2] = "state"}
  <1>1. out = reads \bullet Loop(bodies) /\ reads.sent = {}
    BY Through DEF UpdateCPUFreq
  <1>2. DOMAIN bodies = DOMAIN env.items /\ DOMAIN bodies \subseteq Nat
    BY DEF ListsAreSequences, HaveItems, IsSequence
  <1>3. \A i \in DOMAIN bodies : bodies[i].sent = CPUFreqSamples(i, env.items[i])
    BY Through
  <1> HIDE DEF bodies, reads
  <1>4. out.sent = UNION {bodies[i].sent : i \in DOMAIN bodies}
    BY <1>1, <1>2, AfterSilence, LoopThrough
  <1>5. \A s : s \in out.sent <=> \E i \in DOMAIN env.items : s \in CPUFreqSamples(i, env.items[i])
    BY <1>2, <1>3, <1>4
  <1>6. ASSUME NEW i, NEW k, NEW s \in CPUFreqSamples(k, env.items[k]), IsStateOf(s, i)
        PROVE  i = k /\ env.items[k].governor # "" /\ \E g : s = stateOf(k, g)
    <2>1. s \notin Samples("cpu", CPUFreqFamilies \cap env.items[k].given, <<env.items[k].name>>, <<k>>)
      BY <1>6, OthersAreNoState
    <2>2. env.items[k].governor # "" /\ \E g : s = stateOf(k, g)
      BY <2>1 DEF CPUFreqSamples
    <2>3. ASSUME NEW g PROVE stateOf(k, g).of[1] = k
      <3> DEFINE on == g = env.items[k].governor
      <3>1. stateOf(k, g).of = <<k, "state", g, on>>
        BY DEF Sample
      <3> HIDE DEF on, stateOf
      <3> QED
        BY <3>1
    <2> HIDE DEF stateOf
    <2> QED
      BY <1>6, <2>2, <2>3 DEF IsStateOf
  <1>7. ASSUME NEW i \in DOMAIN env.items, NEW s \in out.sent, IsStateOf(s, i)
        PROVE  env.items[i].governor # "" /\ \E g : s = stateOf(i, g)
    <2>1. PICK k \in DOMAIN env.items : s \in CPUFreqSamples(k, env.items[k])
      BY <1>5
    <2>2. i = k /\ env.items[k].governor # "" /\ \E g : s = stateOf(k, g)
      BY <1>6, <1>7, <2>1
    <2> QED
      BY <2>2
  <1>8. ASSUME NEW i \in DOMAIN env.items PROVE states(i) = {} \/ Cardinality({s \in states(i) : s.of[Len(s.of)]}) = 1
    <2>1. CASE env.items[i].governor = ""
      BY <1>7, <2>1 DEF IsStateOf
    <2>2. CASE env.items[i].governor # ""
      <3> DEFINE now == env.items[i].governor
      <3>1. stateOf(i, now) \in out.sent
        <4>1. now \in AvailableGovernors(env.items[i])
          BY <2>2 DEF IsAsRead
        <4> QED
          BY <1>5, <2>2, <4>1 DEF CPUFreqSamples
      <3>2. ASSUME NEW g
            PROVE  IsStateOf(stateOf(i, g), i) /\ (stateOf(i, g).of[Len(stateOf(i, g).of)] <=> g = now)
        <4> DEFINE on == g = now
        <4>1. stateOf(i, g).of = <<i, "state", g, on>>
          BY DEF Sample
        <4> HIDE DEF on, now, stateOf
        <4>2. IsStateOf(stateOf(i, g), i) /\ stateOf(i, g).of[Len(stateOf(i, g).of)] = on
          BY <4>1, NamedStateForm
        <4> QED
          BY <4>2 DEF on
      <3> HIDE DEF stateOf, now
      <3>3. \A s \in out.sent : IsStateOf(s, i) => \E g : s = stateOf(i, g)
        BY <1>7
      <3> QED
        BY <3>1, <3>2, <3>3, OneIsOn
    <2> QED
      BY <2>1, <2>2
  <1> QED
    BY <1>8 DEF OneState


(* What a file of statistics has is of the bodies of its lines.            *)
LEMMA SentOfKstat ==
    ASSUME NEW lines, IsSequence(lines), NEW types, NEW body, NEW s \in ParseKstat(lines, types, body).sent
    PROVE  \E n \in DOMAIN lines : s \in body[n]
  <1> DEFINE headers == {n \in DOMAIN lines : lines[n].kind = "header"}
             counts(n) == n > FirstOf(headers) /\ lines[n].kind = "value" /\ lines[n].type \in types
             bodies == [n \in DOMAIN lines |->
                          IF ~counts(n) THEN Nothing
                          ELSE IF lines[n].parses THEN Send(body[n]) ELSE Return("error")]
  <1>1. s \in Loop(bodies).sent
    <2>1. headers # {}
      BY DEF ParseKstat, Return
    <2> QED
      BY <2>1 DEF ParseKstat
  <1>2. DOMAIN bodies = DOMAIN lines /\ DOMAIN bodies \subseteq Nat
    BY DEF IsSequence
  <1>3. \A n \in DOMAIN bodies : bodies[n].sent \subseteq body[n]
    <2> HIDE DEF counts
    <2> QED
      BY Through DEF Return
  <1> HIDE DEF bodies
  <1> QED
    BY <1>1, <1>2, <1>3, SentByLoop

LEMMA FilesAreOfNone ==
    ASSUME NEW subsystem, NEW file, IsSequence(file.lines), NEW s \in UpdateZFSStats(subsystem, file).sent
    PROVE  s.of[1] = 0
  <1>1. s \in ParseProcfsFile(subsystem, file.lines).sent
    BY Through DEF UpdateZFSStats
  <1> DEFINE body == [n \in DOMAIN file.lines |-> Samples(subsystem, {file.lines[n].name}, <<>>, <<0, subsystem>>)]
  <1>2. PICK n \in DOMAIN file.lines : s \in body[n]
    <2>1. ParseProcfsFile(subsystem, file.lines) = ParseKstat(file.lines, {"int64", "uint64"}, body)
      BY DEF ParseProcfsFile
    <2> HIDE DEF body
    <2> QED
      BY <1>1, <2>1, SentOfKstat
  <1> DEFINE names == {file.lines[n].name}
             none == 0
  <1>3. s \in Samples(subsystem, names, <<>>, <<none, subsystem>>)
    BY <1>2
  <1> HIDE DEF names, none
  <1>4. s.of[1] = none
    BY <1>3, WithPair
  <1> QED
    BY <1>4 DEF none

LEMMA FilesHaveNoState ==
    ASSUME NEW subsystem, NEW file, IsSequence(file.lines), NEW s \in UpdateZFSStats(subsystem, file).sent,
           NEW i, i # 0
    PROVE  ~IsStateOf(s, i)
  BY FilesAreOfNone DEF IsStateOf

LEMMA IOHasNoState ==
    ASSUME NEW k, NEW pool, NEW io, IsSequence(io.rows), IsSequence(io.fields),
           NEW s \in ParsePoolProcfsFile(k, pool, io).sent, NEW i
    PROVE  ~IsStateOf(s, i)
  <1> DEFINE number(row, f) ==
               IF f > Len(row) THEN Return("panic")
               ELSE IF row[f] = "num" THEN Send(Samples("zfs_zpool", {io.fields[f]}, <<pool>>, <<k>>))
                    ELSE Return("error")
             row(r) == [f \in DOMAIN io.fields |-> number(io.rows[r], f)]
             rows == [r \in DOMAIN io.rows |-> Loop(row(r))]
  <1>1. ParsePoolProcfsFile(k, pool, io) = Loop(rows)
    BY DEF ParsePoolProcfsFile
  <1>2. DOMAIN rows = DOMAIN io.rows /\ DOMAIN rows \subseteq Nat
    BY DEF IsSequence
  <1>3. ASSUME NEW r, NEW t \in Loop(row(r)).sent PROVE ~IsStateOf(t, i)
    <2> DEFINE these == row(r)
    <2>1. DOMAIN these = DOMAIN io.fields /\ DOMAIN these \subseteq Nat
      BY DEF IsSequence
    <2>2. \A f \in DOMAIN these : these[f] = number(io.rows[r], f)
      OBVIOUS
    <2>3. t \in Loop(these).sent
      BY <1>3
    <2> HIDE DEF these, number
    <2>4. PICK f \in DOMAIN these : t \in these[f].sent
      BY <2>1, <2>3, SentByLoop
    <2>5. t \in number(io.rows[r], f).sent
      BY <2>2, <2>4
    <2>6. t \in Samples("zfs_zpool", {io.fields[f]}, <<pool>>, <<k>>)
      BY <2>5, Through DEF number, Return
    <2> QED
      BY <2>6, OthersAreNoState
  <1>4. \A r \in DOMAIN rows : rows[r] = Loop(row(r))
    OBVIOUS
  <1> HIDE DEF rows, row
  <1> QED
    BY <1>1, <1>2, <1>3, <1>4, SentByLoop

LEMMA DatasetsHaveNoState ==
    ASSUME NEW k, NEW pool, NEW lines, IsSequence(lines), NEW s \in ParsePoolObjsetFile(k, pool, lines).sent, NEW i
    PROVE  ~IsStateOf(s, i)
  <1> DEFINE names(n) == {m \in 1..n : lines[m].kind = "dataset"}
             dataset(n) == IF names(n) = {} THEN ""
                           ELSE lines[CHOOSE m \in names(n) : \A l \in names(n) : l <= m].name
             labels(n) == IF names(n) = {} THEN <<"", "">> ELSE <<pool, dataset(n)>>
             body == [n \in DOMAIN lines |->
                        Samples("zfs_zpool_dataset", {lines[n].name}, labels(n), <<k, "dataset", dataset(n)>>)]
  <1>1. ParsePoolObjsetFile(k, pool, lines) = ParseKstat(lines, {"uint64"}, body)
    BY DEF ParsePoolObjsetFile
  <1>2. \A n \in DOMAIN lines : \A t \in body[n] : t.of[2] = "dataset"
    <2> HIDE DEF labels, dataset
    <2>1. ASSUME NEW n, NEW t \in Samples("zfs_zpool_dataset", {lines[n].name}, labels(n), <<k, "dataset", dataset(n)>>)
          PROVE  t.of[2] = "dataset"
      <3> DEFINE of == <<k, "dataset", dataset(n)>>
                 name == lines[n].name
      <3>1. t.of = of \o <<name>>
        BY <2>1 DEF Samples, Sample
      <3>2. of \in Seq({k, "dataset", dataset(n), name}) /\ <<name>> \in Seq({k, "dataset", dataset(n), name})
            /\ Len(of) = 3 /\ of[2] = "dataset"
        OBVIOUS
      <3> HIDE DEF of
      <3> QED
        BY <3>1, <3>2
    <2> QED
      BY <2>1
  <1> HIDE DEF body
  <1> QED
    BY <1>1, <1>2, SentOfKstat DEF IsStateOf

LEMMA PoolIsInOneState ==
    ASSUME collector = "zfs", ListsAreSequences(collector, env), IsAsRead(collector, env),
           out = UpdateZFS(env), out.ret = "ok"
    PROVE  OneState
  <1> DEFINE pools == env.items
             files == [k \in DOMAIN env.files |-> UpdateZFSStats(env.files[k].subsystem, env.files[k])]
             ios == [i \in DOMAIN pools |->
                       OpenProcFile(pools[i].io.open) \bullet ParsePoolProcfsFile(i, pools[i].name, pools[i].io)]
             sets(i) == [k \in DOMAIN pools[i].objsets |->
                           OpenProcFile(pools[i].objsets[k].open)
                             \bullet ParsePoolObjsetFile(i, pools[i].name, pools[i].objsets[k].lines)]
             objsets == [i \in DOMAIN pools |-> Loop(sets(i))]
             states == [i \in DOMAIN pools |->
                          OpenProcFile(pools[i].state.open)
                            \bullet ParsePoolStateFile(i, pools[i].name, pools[i].state.name)]
             reads == Need(env.base, Outcomes)
             of(i, st) == <<i, "state", st, st = pools[i].state.name>>
             stateOf(i, st) == Sample(<<"zfs_zpool", "state">>, <<pools[i].name, st>>, of(i, st))
  <1>1. out = reads \bullet Loop(files) \bullet (Loop(ios) \bullet Loop(objsets) \bullet Loop(states))
        /\ reads.sent = {}
    BY Through DEF UpdateZFS, UpdatePoolStats
  <1>2. /\ DOMAIN files = DOMAIN env.files /\ DOMAIN files \subseteq Nat
        /\ DOMAIN ios = DOMAIN pools /\ DOMAIN objsets = DOMAIN pools /\ DOMAIN states = DOMAIN pools
        /\ DOMAIN pools \subseteq Nat /\ \A i \in DOMAIN pools : i # 0
    BY DEF ListsAreSequences, HaveItems, IsSequence
  <1>3. \A o : OpenProcFile(o).sent = {}
    BY DEF OpenProcFile, Check, Nothing, Send, Return
  <1>4. ASSUME NEW i, i # 0, NEW s \in Loop(files).sent PROVE ~IsStateOf(s, i)
    <2>1. \A k \in DOMAIN files : files[k] = UpdateZFSStats(env.files[k].subsystem, env.files[k])
          /\ IsSequence(env.files[k].lines)
      BY DEF ListsAreSequences
    <2> HIDE DEF files
    <2> QED
      BY <1>2, <1>4, <2>1, SentByLoop, FilesHaveNoState
  <1>5. ASSUME NEW i, NEW s \in Loop(ios).sent PROVE ~IsStateOf(s, i)
    <2>1. \A k \in DOMAIN ios :
            /\ ios[k] = OpenProcFile(pools[k].io.open) \bullet ParsePoolProcfsFile(k, pools[k].name, pools[k].io)
            /\ IsSequence(pools[k].io.rows) /\ IsSequence(pools[k].io.fields)
      BY DEF ListsAreSequences
    <2> HIDE DEF ios
    <2>2. PICK k \in DOMAIN ios : s \in ios[k].sent
      BY <1>2, <1>5, SentByLoop
    <2>3. s \in ParsePoolProcfsFile(k, pools[k].name, pools[k].io).sent
      BY <1>3, <2>1, <2>2, SentByEither
    <2> QED
      BY <2>1, <2>3, IOHasNoState
  <1>6. ASSUME NEW i, NEW s \in Loop(objsets).sent PROVE ~IsStateOf(s, i)
    <2>1. \A k \in DOMAIN objsets : objsets[k] = Loop(sets(k))
      OBVIOUS
    <2>2. PICK k \in DOMAIN pools : s \in Loop(sets(k)).sent
      <3> HIDE DEF objsets, sets
      <3> QED
        BY <1>2, <1>6, <2>1, SentByLoop
    <2> DEFINE of_k == sets(k)
    <2>3. DOMAIN of_k = DOMAIN pools[k].objsets /\ DOMAIN of_k \subseteq Nat
          /\ \A l \in DOMAIN pools[k].objsets : IsSequence(pools[k].objsets[l].lines)
      BY DEF ListsAreSequences, IsSequence
    <2>4. \A l \in DOMAIN of_k :
            of_k[l] = OpenProcFile(pools[k].objsets[l].open)
                        \bullet ParsePoolObjsetFile(k, pools[k].name, pools[k].objsets[l].lines)
      OBVIOUS
    <2>5. s \in Loop(of_k).sent
      BY <2>2
    <2> HIDE DEF of_k
    <2>6. PICK l \in DOMAIN of_k : s \in of_k[l].sent
      BY <2>3, <2>5, SentByLoop
    <2>7. s \in ParsePoolObjsetFile(k, pools[k].name, pools[k].objsets[l].lines).sent
      BY <1>3, <2>4, <2>6, SentByEither
    <2> QED
      BY <2>3, <2>7, DatasetsHaveNoState
  <1>7. \A i \in DOMAIN states : states[i].ret = "ok" => states[i].sent = {stateOf(i, st) : st \in ZFSPoolStates}
    <2> TAKE i \in DOMAIN states
    <2> DEFINE all == {stateOf(i, st) : st \in ZFSPoolStates}
    <2>1. states[i] = OpenProcFile(pools[i].state.open) \bullet Send(all)
      BY DEF ParsePoolStateFile
    <2> HIDE DEF all, states
    <2>2. ASSUME states[i].ret = "ok" PROVE states[i].sent = all
      BY <1>3, <2>1, <2>2, AfterSilence, Through
    <2> QED
      BY <2>2 DEF all
  <1> HIDE DEF reads, files, ios, objsets, states, stateOf
  <1>8. /\ \A s \in out.sent : \/ s \in Loop(files).sent \/ s \in Loop(ios).sent
                               \/ s \in Loop(objsets).sent \/ s \in Loop(states).sent
        /\ Loop(states).ret = "ok" /\ Loop(states).sent \subseteq out.sent
    <2> DEFINE first == reads \bullet Loop(files)
               second == Loop(ios) \bullet Loop(objsets)
               rest == second \bullet Loop(states)
    <2>1. out = first \bullet rest
      BY <1>1
    <2>2. first.ret = "ok" => first.sent = Loop(files).sent
      BY <1>1, AfterSilence
    <2>3. second.ret = "ok" => second.sent = Loop(ios).sent \cup Loop(objsets).sent
      BY Through
    <2>4. rest.ret = "ok" => second.ret = "ok" /\ Loop(states).ret = "ok" /\ rest.sent = second.sent \cup Loop(states).sent
      BY Through
    <2> HIDE DEF first, second, rest
    <2>5. first.ret = "ok" /\ rest.ret = "ok" /\ out.sent = first.sent \cup rest.sent
      BY <2>1, Through
    <2> QED
      BY <2>2, <2>3, <2>4, <2>5
  <1>9. Loop(states).sent = UNION {states[i].sent : i \in DOMAIN pools}
         /\ \A i \in DOMAIN pools : states[i].ret = "ok"
    BY <1>2, <1>8, LoopThrough
  <1>10. ASSUME NEW i, NEW st
         PROVE  /\ stateOf(i, st).of[1] = i
                /\ IsStateOf(stateOf(i, st), i)
                /\ stateOf(i, st).of[Len(stateOf(i, st).of)] <=> st = pools[i].state.name
    <2> DEFINE on == st = pools[i].state.name
    <2>1. stateOf(i, st).of = <<i, "state", st, on>>
      BY DEF Sample, stateOf
    <2> HIDE DEF on
    <2>2. IsStateOf(stateOf(i, st), i) /\ stateOf(i, st).of[Len(stateOf(i, st).of)] = on /\ stateOf(i, st).of[1] = i
      BY <2>1, NamedStateForm
    <2> QED
      BY <2>2 DEF on
  <1>11. ASSUME NEW i \in DOMAIN pools, NEW s \in out.sent, IsStateOf(s, i) PROVE \E st : s = stateOf(i, st)
    <2>1. s \in Loop(states).sent
      BY <1>2, <1>4, <1>5, <1>6, <1>8, <1>11
    <2>2. PICK k \in DOMAIN pools : s \in states[k].sent
      BY <1>9, <2>1
    <2>3. PICK st : s = stateOf(k, st)
      BY <1>2, <1>7, <1>9, <2>2
    <2>4. k = i
      BY <1>10, <1>11, <2>3 DEF IsStateOf
    <2> QED
      BY <2>3, <2>4
  <1>12. ASSUME NEW i \in DOMAIN pools
         PROVE  LET of_i == {s \in out.sent : s.of[1] = i /\ Len(s.of) >= 3 /\ s.of[2] = "state"}
                IN  of_i = {} \/ Cardinality({s \in of_i : s.of[Len(s.of)]}) = 1
    <2> DEFINE on == stateOf(i, pools[i].state.name)
    <2>1. on \in out.sent
      <3>1. pools[i].state.name \in ZFSPoolStates
        BY DEF IsAsRead
      <3> QED
        BY <1>2, <1>7, <1>8, <1>9, <3>1
    <2>2. IsStateOf(on, i) /\ on.of[Len(on.of)]
      BY <1>10
    <2>3. \A s \in out.sent : IsStateOf(s, i) /\ s.of[Len(s.of)] => s = on
      BY <1>10, <1>11
    <2> HIDE DEF on
    <2> QED
      BY <2>1, <2>2, <2>3, OneIsOn
  <1> QED
    BY <1>12 DEF OneState

(* btrfs.                                                                  *)

(* The mount points used up to the nth are those used before and, if it    *)
(* answers for a device and a file system none of them is of, the nth.     *)
LEMMA UsedOneByOne ==
    ASSUME NEW mounts, IsSequence(mounts)
    PROVE  \E f : /\ Used(mounts) = f[Len(mounts)]
                  /\ f[0] = {}
                  /\ \A n \in 1..Len(mounts) : f[n] = f[n - 1] \cup
                       {k \in {n} : /\ Answers(mounts[n])
                                   /\ \A j \in f[n - 1] : /\ mounts[j].device # mounts[n].device
                                                         /\ mounts[j].uuid # mounts[n].uuid}
  <1> DEFINE Line(f, n) ==
               IF n = 0 THEN {}
               ELSE f[n - 1] \cup
                      {k \in {n} : /\ Answers(mounts[n])
                                  /\ \A j \in f[n - 1] : /\ mounts[j].device # mounts[n].device
                                                        /\ mounts[j].uuid # mounts[n].uuid}
             used == CHOOSE f : f = [n \in 0..Len(mounts) |-> Line(f, n)]
             N == {n \in Nat : \E f : f = [i \in 0..n |-> Line(f, i)]}
  <1>1. Len(mounts) \in Nat
    BY DEF IsSequence
  <1>2. 0 \in N
    <2>1. [i \in 0..0 |-> {}] = [i \in 0..0 |-> Line([j \in 0..0 |-> {}], i)]
      OBVIOUS
    <2> QED
      BY <2>1
  <1>3. ASSUME NEW n \in N PROVE n + 1 \in N
    <2>1. PICK f : f = [i \in 0..n |-> Line(f, i)]
      OBVIOUS
    <2> DEFINE g == [i \in 0..(n + 1) |-> Line(f, i)]
    <2>2. \A i \in 0..n : g[i] = f[i]
      <3> HIDE DEF Line
      <3>1. \A i \in 0..n : f[i] = Line(f, i) /\ i \in 0..(n + 1)
        BY <2>1
      <3> QED
        BY <3>1
    <2>3. \A i \in 0..(n + 1) : i # 0 => i - 1 \in 0..n
      OBVIOUS
    <2>4. \A i \in 0..(n + 1) : Line(f, i) = Line(g, i)
      <3> SUFFICES ASSUME NEW i \in 0..(n + 1), i # 0 PROVE Line(f, i) = Line(g, i)
        OBVIOUS
      <3>1. g[i - 1] = f[i - 1]
        BY <2>2, <2>3
      <3> HIDE DEF g
      <3> QED
        BY <3>1
    <2>5. g = [i \in 0..(n + 1) |-> Line(g, i)]
      BY <2>4
    <2>6. n + 1 \in Nat
      OBVIOUS
    <2> HIDE DEF g, Line
    <2> QED
      BY <2>5, <2>6
  <1>4. Len(mounts) \in N
    <2>1. N \subseteq Nat
      OBVIOUS
    <2> HIDE DEF N
    <2> QED
      BY <1>1, <1>2, <1>3, <2>1, AllNumbers
  <1>5. used = [n \in 0..Len(mounts) |-> Line(used, n)]
    <2> HIDE DEF Line
    <2> QED
      BY <1>4
  <1>6. Used(mounts) = used[Len(mounts)]
    BY DEF Used
  <1> HIDE DEF used
  <1>7. \A n \in 0..Len(mounts) : used[n] = Line(used, n)
    <2> HIDE DEF Line
    <2> QED
      BY <1>5
  <1>8. used[0] = {}
    <2>1. 0 \in 0..Len(mounts) /\ Line(used, 0) = {}
      BY <1>1
    <2> HIDE DEF Line
    <2> QED
      BY <1>7, <2>1
  <1>9. \A n \in 1..Len(mounts) : n # 0 /\ n \in 0..Len(mounts)
    BY <1>1
  <1>10. ASSUME NEW n \in 1..Len(mounts)
         PROVE  used[n] = used[n - 1] \cup
                       {k \in {n} : /\ Answers(mounts[n])
                                   /\ \A j \in used[n - 1] : /\ mounts[j].device # mounts[n].device
                                                            /\ mounts[j].uuid # mounts[n].uuid}
    BY <1>7, <1>9
  <1> HIDE DEF Line
  <1> QED
    BY <1>6, <1>8, <1>10

(* The file systems with a mount point that answers, each by one.          *)
LEMMA OneAnswersForEach ==
    ASSUME NEW mounts, IsSequence(mounts),
           \A n \in DOMAIN mounts : Answers(mounts[n]) => \A k \in DOMAIN mounts :
             Answers(mounts[k]) /\ mounts[k].device = mounts[n].device => mounts[k].uuid = mounts[n].uuid
    PROVE  /\ \A n \in DOMAIN mounts : Answers(mounts[n]) => mounts[n].uuid \in DOMAIN GetIoctlStats(mounts)
           /\ \A u \in DOMAIN GetIoctlStats(mounts) : \E n \in DOMAIN mounts :
                GetIoctlStats(mounts)[u] = mounts[n] /\ mounts[n].uuid = u /\ Answers(mounts[n])
  <1> DEFINE M == Len(mounts)
             Goes(f, n) == f[n] = f[n - 1] \cup
                       {k \in {n} : /\ Answers(mounts[n])
                                   /\ \A j \in f[n - 1] : /\ mounts[j].device # mounts[n].device
                                                         /\ mounts[j].uuid # mounts[n].uuid}
  <1>1. M \in Nat /\ DOMAIN mounts = 1..M
    BY DEF IsSequence
  <1>2. PICK f : Used(mounts) = f[M] /\ f[0] = {} /\ \A n \in 1..M : Goes(f, n)
    BY UsedOneByOne
  <1> HIDE DEF M
  <1> DEFINE Right(n) == /\ \A k \in f[n] : k \in 1..n /\ Answers(mounts[k])
                         /\ \A k \in 1..n : Answers(mounts[k]) =>
                              \E j \in f[n] : mounts[j].uuid = mounts[k].uuid
             N == {n \in Nat : n <= M => Right(n)}
  <1>3. 0 \in N
    BY <1>2
  <1>4. ASSUME NEW n \in N PROVE n + 1 \in N
    <2> SUFFICES ASSUME n + 1 <= M PROVE Right(n + 1)
      OBVIOUS
    <2>1. n \in 0..M /\ n + 1 \in 1..M /\ (n + 1) - 1 = n /\ Right(n)
      BY <1>1
    <2> DEFINE fresh == \A j \in f[n] : /\ mounts[j].device # mounts[n + 1].device
                                       /\ mounts[j].uuid # mounts[n + 1].uuid
    <2>2. f[n + 1] = f[n] \cup {k \in {n + 1} : Answers(mounts[n + 1]) /\ fresh}
      BY <1>2, <2>1
    <2>3. 1..(n + 1) = (1..n) \cup {n + 1}
      OBVIOUS
    <2>4. \A k \in f[n + 1] : k \in 1..(n + 1) /\ Answers(mounts[k])
      <3> HIDE DEF fresh
      <3> QED
        BY <2>1, <2>2, <2>3
    <2>5. ASSUME Answers(mounts[n + 1]), NEW j \in f[n],
                 mounts[j].device = mounts[n + 1].device \/ mounts[j].uuid = mounts[n + 1].uuid
          PROVE  mounts[j].uuid = mounts[n + 1].uuid
      <3>1. j \in 1..M /\ Answers(mounts[j])
        BY <1>1, <2>1
      <3> QED
        BY <1>1, <2>1, <2>5, <3>1
    <2>6. Answers(mounts[n + 1]) => \E j \in f[n + 1] : mounts[j].uuid = mounts[n + 1].uuid
      <3>1. CASE fresh
        <4> HIDE DEF fresh
        <4> QED
          BY <2>2, <3>1
      <3>2. CASE ~fresh
        BY <2>2, <2>5, <3>2
      <3> QED
        BY <3>1, <3>2
    <2> HIDE DEF fresh
    <2> QED
      BY <2>1, <2>2, <2>3, <2>4, <2>6
  <1>5. Right(M)
    <2>1. N \subseteq Nat
      OBVIOUS
    <2>2. M \in N
      <3> HIDE DEF N
      <3> QED
        BY <1>1, <1>3, <1>4, <2>1, AllNumbers
    <2> QED
      BY <1>1, <2>2
  <1> DEFINE stats == GetIoctlStats(mounts)
  <1>6. /\ DOMAIN stats = {mounts[n].uuid : n \in Used(mounts)}
        /\ \A u \in DOMAIN stats : stats[u] = mounts[CHOOSE n \in Used(mounts) : mounts[n].uuid = u]
    BY DEF GetIoctlStats
  <1> HIDE DEF stats
  <1>7. ASSUME NEW n \in DOMAIN mounts, Answers(mounts[n]) PROVE mounts[n].uuid \in DOMAIN stats
    <2> HIDE DEF Goes
    <2>1. Used(mounts) = f[M] /\ n \in 1..M
      BY <1>1, <1>2
    <2>2. PICK j \in Used(mounts) : mounts[j].uuid = mounts[n].uuid
      BY <1>5, <1>7, <2>1
    <2> QED
      BY <1>6, <2>2
  <1>8. ASSUME NEW u \in DOMAIN stats
        PROVE  \E n \in DOMAIN mounts : stats[u] = mounts[n] /\ mounts[n].uuid = u /\ Answers(mounts[n])
    <2>1. \A n \in Used(mounts) : n \in DOMAIN mounts /\ Answers(mounts[n])
      <3> HIDE DEF Goes
      <3> QED
        BY <1>1, <1>2, <1>5
    <2>2. PICK n \in Used(mounts) : mounts[n].uuid = u
      BY <1>6
    <2> DEFINE c == CHOOSE k \in Used(mounts) : mounts[k].uuid = u
    <2>3. c \in Used(mounts) /\ mounts[c].uuid = u
      BY <2>2
    <2>4. stats[u] = mounts[c]
      BY <1>6
    <2> HIDE DEF c
    <2> QED
      BY <2>1, <2>3, <2>4
  <1> QED
    BY <1>7, <1>8 DEF stats

LEMMA InNames ==
    ASSUME NEW subsystem, NEW names, NEW labels, NEW of, NEW s \in Samples(subsystem, names, labels, of)
    PROVE  s.family[2] \in names
  <1>1. PICK n \in names : s = Sample(<<subsystem, n>>, labels, of \o <<n>>)
    BY DEF Samples
  <1>2. s.family = <<subsystem, n>>
    BY <1>1 DEF Sample
  <1> QED
    BY <1>2

TellsUnused(sent, i) == \E s \in sent : s.of[1] = i /\ s.family[2] = "device_unused_bytes"

(* Space unused is sent of the devices that ioctls have told of.           *)
LEMMA UnusedIsFromIoctl ==
    ASSUME NEW i, NEW fs, NEW stats
    PROVE  /\ \A s \in GetBtrfsMetrics(i, fs, stats) :
                s.family[2] = "device_unused_bytes" => s.of[1] = i /\ fs.uuid \in DOMAIN stats
           /\ fs.uuid \in DOMAIN stats => \A d \in GetIoctlDeviceStats(stats[fs.uuid]).devices :
                TellsUnused(GetBtrfsMetrics(i, fs, stats), i)
  <1> DEFINE info == Samples("btrfs", {"info"}, <<fs.uuid, fs.label>>, <<i>>)
             reserved == Samples("btrfs", {"global_rsv_size_bytes"}, <<fs.uuid>>, <<i>>)
             allocated == UNION {GetAllocationStats(i, fs, a) : a \in {"data", "metadata", "system"}}
             told == UNION {BtrfsIoctlMetrics(i, fs, d) : d \in GetIoctlDeviceStats(stats[fs.uuid]).devices}
             sizes == UNION {Samples("btrfs", {"device_size_bytes"}, <<fs.uuid, d>>, <<i, d>>) : d \in fs.devices}
             unused(s) == s.family[2] = "device_unused_bytes"
  <1>1. GetBtrfsMetrics(i, fs, stats) =
          info \cup reserved \cup allocated \cup (IF fs.uuid \in DOMAIN stats THEN told ELSE sizes)
    BY DEF GetBtrfsMetrics
  <1>2. \A s \in info \cup reserved : ~unused(s)
    BY InNames
  <1>3. \A s \in allocated : ~unused(s)
    <2>1. ASSUME NEW a, NEW s \in GetAllocationStats(i, fs, a) PROVE ~unused(s)
      <3>1. CASE s \in Samples("btrfs", {"reserved_bytes"}, <<fs.uuid, a>>, <<i, a>>)
        BY <3>1, InNames
      <3>2. ASSUME NEW layout, s \in GetLayoutStats(i, fs, a, layout) PROVE ~unused(s)
        BY <3>2, InNames DEF GetLayoutStats
      <3> QED
        BY <2>1, <3>1, <3>2 DEF GetAllocationStats
    <2> HIDE DEF unused
    <2> QED
      BY <2>1
  <1>4. \A s \in sizes : ~unused(s)
    <2>1. ASSUME NEW d, NEW s \in Samples("btrfs", {"device_size_bytes"}, <<fs.uuid, d>>, <<i, d>>) PROVE ~unused(s)
      BY <2>1, InNames
    <2> HIDE DEF unused
    <2> QED
      BY <2>1
  <1>5. ASSUME NEW d, NEW s \in BtrfsIoctlMetrics(i, fs, d), unused(s) PROVE s.of[1] = i
    <2>1. \A t : Sample(<<"btrfs", "device_errors_total">>, <<fs.uuid, t, d>>, <<i, d, t>>).family[2] # "device_unused_bytes"
      BY DEF Sample
    <2>2. s \in Samples("btrfs", {"device_size_bytes", "device_unused_bytes"}, <<fs.uuid, d>>, <<i, d>>)
      BY <1>5, <2>1 DEF BtrfsIoctlMetrics
    <2> QED
      BY <2>2, WithPair
  <1>6. ASSUME NEW d PROVE \E s \in BtrfsIoctlMetrics(i, fs, d) : s.of[1] = i /\ unused(s)
    <2> DEFINE s == Sample(<<"btrfs", "device_unused_bytes">>, <<fs.uuid, d>>, <<i, d>> \o <<"device_unused_bytes">>)
    <2>1. s \in Samples("btrfs", {"device_size_bytes", "device_unused_bytes"}, <<fs.uuid, d>>, <<i, d>>)
      BY DEF Samples
    <2>2. s \in BtrfsIoctlMetrics(i, fs, d) /\ unused(s)
      BY <2>1 DEF BtrfsIoctlMetrics, Sample
    <2> HIDE DEF s
    <2>3. s.of[1] = i
      BY <2>1, WithPair
    <2> QED
      BY <2>2, <2>3
  <1>7. \A s : s \in told <=> \E d \in GetIoctlDeviceStats(stats[fs.uuid]).devices : s \in BtrfsIoctlMetrics(i, fs, d)
    OBVIOUS
  <1> HIDE DEF info, reserved, allocated, told, sizes, unused
  <1>8. \A s \in GetBtrfsMetrics(i, fs, stats) : unused(s) => s.of[1] = i /\ fs.uuid \in DOMAIN stats
    BY <1>1, <1>2, <1>3, <1>4, <1>5, <1>7
  <1>9. ASSUME fs.uuid \in DOMAIN stats, NEW d \in GetIoctlDeviceStats(stats[fs.uuid]).devices
        PROVE  \E s \in GetBtrfsMetrics(i, fs, stats) : s.of[1] = i /\ unused(s)
    BY <1>1, <1>6, <1>7, <1>9
  <1> QED
    BY <1>8, <1>9 DEF unused, TellsUnused

LEMMA DevicesAreServed ==
    ASSUME collector = "btrfs", ListsAreSequences(collector, env), IsAsRead(collector, env),
           out = UpdateBtrfs(env), out.ret = "ok"
    PROVE  BtrfsDevicesServed
  <1> SUFFICES ASSUME env.mountPoints = "ok"
               PROVE  \A i \in DOMAIN env.items :
                        (\E n \in DOMAIN env.mounts : env.mounts[n].uuid = env.items[i].uuid /\ Answers(env.mounts[n]))
                          <=> \E s \in out.sent : s.of[1] = i /\ s.family[2] = "device_unused_bytes"
    BY DEF BtrfsDevicesServed
  <1> DEFINE stats == GetIoctlStats(env.mounts)
             bodies == [i \in DOMAIN env.items |-> Send(GetBtrfsMetrics(i, env.items[i], stats))]
             reads == Need(env.stats, {})
  <1>1. out = reads \bullet Loop(bodies) /\ reads.sent = {}
    BY Through DEF UpdateBtrfs
  <1>2. DOMAIN bodies = DOMAIN env.items /\ DOMAIN bodies \subseteq Nat
    BY DEF ListsAreSequences, HaveItems, IsSequence
  <1>3. \A i \in DOMAIN bodies : bodies[i].sent = GetBtrfsMetrics(i, env.items[i], stats)
    BY Through
  <1>4. /\ \A n \in DOMAIN env.mounts : Answers(env.mounts[n]) => env.mounts[n].uuid \in DOMAIN stats
        /\ \A u \in DOMAIN stats : \E n \in DOMAIN env.mounts :
             stats[u] = env.mounts[n] /\ env.mounts[n].uuid = u /\ Answers(env.mounts[n])
    <2>1. IsSequence(env.mounts)
      BY DEF ListsAreSequences
    <2>2. \A n \in DOMAIN env.mounts : Answers(env.mounts[n]) => \A k \in DOMAIN env.mounts :
            Answers(env.mounts[k]) /\ env.mounts[k].device = env.mounts[n].device
              => env.mounts[k].uuid = env.mounts[n].uuid
      BY DEF IsAsRead
    <2> QED
      BY <2>1, <2>2, OneAnswersForEach
  <1>5. \A n \in DOMAIN env.mounts : Answers(env.mounts[n]) => GetIoctlDeviceStats(env.mounts[n]).devices # {}
    BY DEF IsAsRead
  <1> HIDE DEF bodies, reads, stats
  <1>6. out.sent = UNION {bodies[i].sent : i \in DOMAIN bodies}
    BY <1>1, <1>2, AfterSilence, LoopThrough
  <1>7. \A s : s \in out.sent <=> \E i \in DOMAIN env.items : s \in GetBtrfsMetrics(i, env.items[i], stats)
    BY <1>2, <1>3, <1>6
  <1> TAKE i \in DOMAIN env.items
  <1>8. ASSUME NEW n \in DOMAIN env.mounts, env.mounts[n].uuid = env.items[i].uuid, Answers(env.mounts[n])
        PROVE  \E s \in out.sent : s.of[1] = i /\ s.family[2] = "device_unused_bytes"
    <2>1. env.items[i].uuid \in DOMAIN stats /\ GetIoctlDeviceStats(stats[env.items[i].uuid]).devices # {}
      BY <1>4, <1>5, <1>8
    <2>2. PICK d : d \in GetIoctlDeviceStats(stats[env.items[i].uuid]).devices
      BY <2>1
    <2>3. TellsUnused(GetBtrfsMetrics(i, env.items[i], stats), i)
      BY <2>1, <2>2, UnusedIsFromIoctl
    <2> QED
      BY <1>7, <2>3 DEF TellsUnused
  <1>9. ASSUME NEW s \in out.sent, s.of[1] = i, s.family[2] = "device_unused_bytes"
        PROVE  \E n \in DOMAIN env.mounts : env.mounts[n].uuid = env.items[i].uuid /\ Answers(env.mounts[n])
    <2>1. PICK k \in DOMAIN env.items : s \in GetBtrfsMetrics(k, env.items[k], stats)
      BY <1>7
    <2>2. k = i /\ env.items[i].uuid \in DOMAIN stats
      BY <1>9, <2>1, UnusedIsFromIoctl
    <2> QED
      BY <1>4, <2>2
  <1> QED
    BY <1>8, <1>9

(* Whatever there is to report is reported, once: btrfs file systems are   *)
(* served by any mount point that answers, one state is on, the legacy     *)
(* scheme of netdev keeps each counter, sockets, backends, sessions and    *)
(* processes are counted once, and every NFS server has its statistics;    *)
(* for any number of them.                                                 *)
THEOREM NothingLostHolds == Spec => []NothingLost
  <1>1. CollectorsInv => NothingLost
    <2> SUFFICES ASSUME CollectorsInv, collector \notin InSteps, out.ret = "ok" PROVE NothingLost
      BY DEF NothingLost, BtrfsDevicesServed, OneState, LegacyKeepsCounters, CountedOnce, EveryServerReported, InSteps
    <2>1. ListsAreSequences(collector, env) /\ IsAsRead(collector, env)
      BY EnvironmentIsOfIts DEF CollectorsInv
    <2>2. out = Update(collector, env)
      <3>1. out \in {Unscraped, Update(collector, env)}
        BY DEF CollectorsInv
      <3>2. Unscraped.ret # "ok"
        BY DEF Unscraped
      <3> QED
        BY <3>1, <3>2
    <2>3. /\ collector = "btrfs" => out = UpdateBtrfs(env)
          /\ collector = "mdadm" => out = UpdateMdadm(env)
          /\ collector = "zfs" => out = UpdateZFS(env)
      BY <2>2 DEF Update, UpdateOfStorage, StorageCollectors, NetworkCollectors, HardwareCollectors,
           ServiceCollectors, KernelCollectors
    <2>4. collector = "mountstats" => out = UpdateMountStats(env)
      BY <2>2 DEF Update, UpdateOfStorage, StorageCollectors, NetworkCollectors, HardwareCollectors,
           ServiceCollectors, KernelCollectors
    <2>5. /\ collector = "netdev" => out = UpdateNetDev(env)
          /\ collector = "ipvs" => out = UpdateIPVS(env)
          /\ collector = "tcpstat" => out = UpdateTCPStat(env)
      BY <2>2 DEF Update, UpdateOfNetwork, StorageCollectors, NetworkCollectors, HardwareCollectors,
           ServiceCollectors, KernelCollectors
    <2>6. collector = "cpufreq" => out = UpdateCPUFreq(env)
      BY <2>2 DEF Update, UpdateOfHardware, StorageCollectors, NetworkCollectors, HardwareCollectors,
           ServiceCollectors, KernelCollectors
    <2>7. collector = "logind" => out = UpdateLogind(env)
      BY <2>2 DEF Update, UpdateOfServices, StorageCollectors, NetworkCollectors, HardwareCollectors,
           ServiceCollectors, KernelCollectors
    <2>8. collector = "processes" => out = UpdateProcesses(env)
      BY <2>2 DEF Update, UpdateOfKernel, StorageCollectors, NetworkCollectors, HardwareCollectors,
           ServiceCollectors, KernelCollectors
    <2>9. BtrfsDevicesServed
      BY <2>1, <2>3, DevicesAreServed DEF BtrfsDevicesServed
    <2>10. OneState
      BY <2>1, <2>3, <2>6, ArrayIsInOneState, GovernorIsOne, PoolIsInOneState DEF OneState
    <2>11. LegacyKeepsCounters
      BY <2>1, <2>5, CountersAreKept DEF LegacyKeepsCounters
    <2>12. CountedOnce
      <3>1. CASE collector = "tcpstat"
        <4>1. Counted = SocketsOf(env)
          BY <3>1 DEF Counted
        <4>2. \A x : CountedIn(x) = {s \in out.sent : s.labels[1] \notin TCPQueues /\ x \in s.of[2]}
          BY <3>1 DEF CountedIn
        <4> QED
          BY <2>1, <2>5, <3>1, <4>1, <4>2, SocketsAreCounted DEF CountedOnce
      <3>2. CASE collector = "ipvs"
        <4>1. Counted = DOMAIN env.backends
          BY <3>2 DEF Counted
        <4>2. \A x : CountedIn(x) = {s \in out.sent : s.family[2] = "backend_weight" /\ x \in s.of[2]}
          BY <3>2 DEF CountedIn
        <4> QED
          BY <2>5, <3>2, <4>1, <4>2, BackendsAreCounted DEF CountedOnce
      <3>3. CASE collector = "logind"
        <4>1. \A x \in Counted :
                x \in DOMAIN env.sessions /\ env.sessions[x].read /\ env.sessions[x].seat \in ListSeats(env)
          BY <3>3 DEF Counted
        <4>2. \A x : CountedIn(x) = {s \in out.sent : x \in s.of[3]}
          BY <3>3 DEF CountedIn
        <4> QED
          BY <2>1, <2>7, <3>3, <4>1, <4>2, SessionsAreCounted DEF CountedOnce
      <3>4. CASE collector = "processes"
        <4>1. \A x \in Counted : x \in DOMAIN env.procs /\ env.procs[x].stat = "ok"
          BY <3>4 DEF Counted
        <4>2. \A x : CountedIn(x) = {s \in out.sent : s.family[2] = "state" /\ x \in s.of[2]}
          BY <3>4 DEF CountedIn
        <4> QED
          BY <2>1, <2>8, <3>4, <4>1, <4>2, ProcessesAreCounted DEF CountedOnce
      <3> QED
        BY <3>1, <3>2, <3>3, <3>4 DEF CountedOnce
    <2>13. EveryServerReported
      BY <2>1, <2>4, ServersAreReported DEF EveryServerReported
    <2> QED
      BY <2>9, <2>10, <2>11, <2>12, <2>13 DEF NothingLost
  <1> QED
    BY <1>1, CollectorsInvHolds, PTL

-----------------------------------------------------------------------------
(* Items alone.  Two samples are twins if they differ in the position of   *)
(* their item at most.  Alike are two sets of samples of an item, each in  *)
(* a scrape of its own, that have the same samples; like them are two      *)
(* bodies of loops, as far as the first goes on; and a part of an Update   *)
(* shows of its item i what the same part shows of it alone.               *)
Twin(s, t) == s.family = t.family /\ s.labels = t.labels /\ Tail(s.of) = Tail(t.of)

Within(S, i, T) == \A s \in S : s.of[1] = i /\ \E t \in T : Twin(s, t)

Alike(S, i, T, j) == Within(S, i, T) /\ Within(T, j, S)

AlikeBodies(a, i, b, j) == a.ret = "ok" => b.ret = "ok" /\ Alike(a.sent, i, b.sent, j)

Shows(a, i, b) == a.ret = "ok" => b.ret = "ok" /\ SamplesOf(a, i) = SamplesOf(b, 1)

(* Tuples that differ in their first member at most.                       *)
LEMMA Tails ==
    \A i, j :
      /\ \A x : Tail(<<i, x>>) = Tail(<<j, x>>)
      /\ \A x, y : Tail(<<i, x, y>>) = Tail(<<j, x, y>>)
      /\ \A x, y, z : Tail(<<i, x, y, z>>) = Tail(<<j, x, y, z>>)
      /\ \A x, y, z, w : Tail(<<i, x, y, z, w>>) = Tail(<<j, x, y, z, w>>)
      /\ Tail(<<i>>) = Tail(<<j>>)
  OBVIOUS

LEMMA OfTwo == ASSUME NEW S, NEW s \in Seq(S), Len(s) = 2, NEW a, s[1] = a, NEW b, s[2] = b PROVE s = <<a, b>>
  <1> DEFINE t == <<a, b>>
  <1>1. t \in Seq(S) /\ Len(t) = 2 /\ t[1] = a /\ t[2] = b
    OBVIOUS
  <1> HIDE DEF t
  <1>2. s = t
    BY <1>1, SeqEqual
  <1> QED
    BY <1>2 DEF t

LEMMA OfThree ==
    ASSUME NEW S, NEW s \in Seq(S), Len(s) = 3, NEW a, s[1] = a, NEW b, s[2] = b, NEW c, s[3] = c
    PROVE  s = <<a, b, c>>
  <1> DEFINE t == <<a, b, c>>
  <1>1. t \in Seq(S) /\ Len(t) = 3 /\ t[1] = a /\ t[2] = b /\ t[3] = c
    OBVIOUS
  <1> HIDE DEF t
  <1>2. s = t
    BY <1>1, SeqEqual
  <1> QED
    BY <1>2 DEF t

LEMMA OfFour ==
    ASSUME NEW S, NEW s \in Seq(S), Len(s) = 4, NEW a, s[1] = a, NEW b, s[2] = b, NEW c, s[3] = c, NEW d, s[4] = d
    PROVE  s = <<a, b, c, d>>
  <1> DEFINE t == <<a, b, c, d>>
  <1>1. t[1] = a /\ t[2] = b /\ t[3] = c /\ t[4] = d
    OBVIOUS
  <1>3. a \in S /\ b \in S /\ c \in S /\ d \in S
    <2>1. \A n \in 1..4 : s[n] \in S
      OBVIOUS
    <2> QED
      BY <2>1
  <1>4. t \in Seq(S) /\ Len(t) = 4
    BY <1>3
  <1> HIDE DEF t
  <1>2. s = t
    BY <1>1, <1>4, SeqEqual
  <1> QED
    BY <1>2 DEF t

(* Samples has the family in the datum's tuple, after the rest.            *)
LEMMA Extended ==
    ASSUME NEW i, NEW n
    PROVE  /\ <<i>> \o <<n>> = <<i, n>>
           /\ \A x : <<i, x>> \o <<n>> = <<i, x, n>>
           /\ \A x, y : <<i, x, y>> \o <<n>> = <<i, x, y, n>>
  <1>1. <<i>> \o <<n>> = <<i, n>>
    <2> DEFINE s == <<i>> \o <<n>>
    <2>1. <<i>> \in Seq({i, n}) /\ <<n>> \in Seq({i, n})
      OBVIOUS
    <2>2. s \in Seq({i, n}) /\ Len(s) = 2 /\ s[1] = i /\ s[2] = n
      BY <2>1
    <2> HIDE DEF s
    <2>3. s = <<i, n>>
      BY <2>2, OfTwo
    <2> QED
      BY <2>3 DEF s
  <1>2. ASSUME NEW x PROVE <<i, x>> \o <<n>> = <<i, x, n>>
    <2> DEFINE s == <<i, x>> \o <<n>>
    <2>1. <<i, x>> \in Seq({i, x, n}) /\ <<n>> \in Seq({i, x, n})
      OBVIOUS
    <2>2. s \in Seq({i, x, n}) /\ Len(s) = 3 /\ s[1] = i /\ s[2] = x /\ s[3] = n
      BY <2>1
    <2> HIDE DEF s
    <2>3. s = <<i, x, n>>
      BY <2>2, OfThree
    <2> QED
      BY <2>3 DEF s
  <1>3. ASSUME NEW x, NEW y PROVE <<i, x, y>> \o <<n>> = <<i, x, y, n>>
    <2> DEFINE s == <<i, x, y>> \o <<n>>
    <2>1. <<i, x, y>> \in Seq({i, x, y, n}) /\ <<n>> \in Seq({i, x, y, n})
      OBVIOUS
    <2>2. s \in Seq({i, x, y, n}) /\ Len(s) = 4 /\ s[1] = i /\ s[2] = x /\ s[3] = y /\ s[4] = n
      BY <2>1
    <2> HIDE DEF s
    <2>3. s = <<i, x, y, n>>
      BY <2>2, OfFour
    <2> QED
      BY <2>3 DEF s
  <1> QED
    BY <1>1, <1>2, <1>3

(* Samples of one family and the same labels, of the same of two items.    *)
LEMMA TwinTuples ==
    ASSUME NEW i, NEW j, NEW family, NEW labels
    PROVE  /\ Sample(family, labels, <<i>>).of[1] = i
           /\ Twin(Sample(family, labels, <<i>>), Sample(family, labels, <<j>>))
           /\ \A x : /\ Sample(family, labels, <<i, x>>).of[1] = i
                     /\ Twin(Sample(family, labels, <<i, x>>), Sample(family, labels, <<j, x>>))
           /\ \A x, y : /\ Sample(family, labels, <<i, x, y>>).of[1] = i
                        /\ Twin(Sample(family, labels, <<i, x, y>>), Sample(family, labels, <<j, x, y>>))
           /\ \A x, y, z :
                /\ Sample(family, labels, <<i, x, y, z>>).of[1] = i
                /\ Twin(Sample(family, labels, <<i, x, y, z>>), Sample(family, labels, <<j, x, y, z>>))
           /\ \A x, y, z, w :
                /\ Sample(family, labels, <<i, x, y, z, w>>).of[1] = i
                /\ Twin(Sample(family, labels, <<i, x, y, z, w>>), Sample(family, labels, <<j, x, y, z, w>>))
  BY Tails DEF Twin, Sample

LEMMA TwinSamples ==
    ASSUME NEW i, NEW j, NEW subsystem, NEW names, NEW labels
    PROVE  /\ Alike(Samples(subsystem, names, labels, <<i>>), i, Samples(subsystem, names, labels, <<j>>), j)
           /\ \A x : Alike(Samples(subsystem, names, labels, <<i, x>>), i,
                           Samples(subsystem, names, labels, <<j, x>>), j)
           /\ \A x, y : Alike(Samples(subsystem, names, labels, <<i, x, y>>), i,
                              Samples(subsystem, names, labels, <<j, x, y>>), j)
  <1>1. ASSUME NEW k, NEW l
        PROVE  Within(Samples(subsystem, names, labels, <<k>>), k, Samples(subsystem, names, labels, <<l>>))
    <2> DEFINE sample(m, n) == Sample(<<subsystem, n>>, labels, <<m, n>>)
    <2>1. ASSUME NEW m PROVE Samples(subsystem, names, labels, <<m>>) = {sample(m, n) : n \in names}
      <3>1. \A n : <<m>> \o <<n>> = <<m, n>>
        BY Extended
      <3> QED
        BY <3>1 DEF Samples
    <2>2. \A n : sample(k, n).of[1] = k /\ Twin(sample(k, n), sample(l, n))
      BY TwinTuples
    <2> HIDE DEF sample
    <2> QED
      BY <2>1, <2>2 DEF Within
  <1>2. ASSUME NEW k, NEW l, NEW x
        PROVE  Within(Samples(subsystem, names, labels, <<k, x>>), k, Samples(subsystem, names, labels, <<l, x>>))
    <2> DEFINE sample(m, n) == Sample(<<subsystem, n>>, labels, <<m, x, n>>)
    <2>1. ASSUME NEW m PROVE Samples(subsystem, names, labels, <<m, x>>) = {sample(m, n) : n \in names}
      <3>1. \A n : <<m, x>> \o <<n>> = <<m, x, n>>
        BY Extended
      <3> QED
        BY <3>1 DEF Samples
    <2>2. \A n : sample(k, n).of[1] = k /\ Twin(sample(k, n), sample(l, n))
      BY TwinTuples
    <2> HIDE DEF sample
    <2> QED
      BY <2>1, <2>2 DEF Within
  <1>3. ASSUME NEW k, NEW l, NEW x, NEW y
        PROVE  Within(Samples(subsystem, names, labels, <<k, x, y>>), k, Samples(subsystem, names, labels, <<l, x, y>>))
    <2> DEFINE sample(m, n) == Sample(<<subsystem, n>>, labels, <<m, x, y, n>>)
    <2>1. ASSUME NEW m PROVE Samples(subsystem, names, labels, <<m, x, y>>) = {sample(m, n) : n \in names}
      <3>1. \A n : <<m, x, y>> \o <<n>> = <<m, x, y, n>>
        BY Extended
      <3> QED
        BY <3>1 DEF Samples
    <2>2. \A n : sample(k, n).of[1] = k /\ Twin(sample(k, n), sample(l, n))
      BY TwinTuples
    <2> HIDE DEF sample
    <2> QED
      BY <2>1, <2>2 DEF Within
  <1> QED
    BY <1>1, <1>2, <1>3 DEF Alike

(* Alike and Shows go through what Updates are built of.                   *)
LEMMA AlikeSets ==
    ASSUME NEW i, NEW j
    PROVE  /\ Alike({}, i, {}, j)
           /\ \A S, T, U, V : Alike(S, i, T, j) /\ Alike(U, i, V, j) => Alike(S \cup U, i, T \cup V, j)
  BY DEF Alike, Within

LEMMA AlikeParts ==
    ASSUME NEW i, NEW j
    PROVE  /\ AlikeBodies(Nothing, i, Nothing, j)
           /\ \A P, how : AlikeBodies(Check(P, how), i, Check(P, how), j)
           /\ \A o, A : AlikeBodies(Need(o, A), i, Need(o, A), j)
           /\ \A S, T : Alike(S, i, T, j) => AlikeBodies(Send(S), i, Send(T), j)
           /\ \A a, b, c, d :
                AlikeBodies(a, i, b, j) /\ AlikeBodies(c, i, d, j) => AlikeBodies(a \bullet c, i, b \bullet d, j)
  <1>1. \A a : a.sent = {} => AlikeBodies(a, i, a, j)
    BY AlikeSets DEF AlikeBodies
  <1>2. \A S, T : Alike(S, i, T, j) => AlikeBodies(Send(S), i, Send(T), j)
    BY GoingOn, Through DEF AlikeBodies
  <1>3. ASSUME NEW a, NEW b, NEW c, NEW d, AlikeBodies(a, i, b, j), AlikeBodies(c, i, d, j)
        PROVE  AlikeBodies(a \bullet c, i, b \bullet d, j)
    <2> SUFFICES ASSUME (a \bullet c).ret = "ok"
                 PROVE  (b \bullet d).ret = "ok" /\ Alike((a \bullet c).sent, i, (b \bullet d).sent, j)
      BY DEF AlikeBodies
    <2>1. a.ret = "ok" /\ c.ret = "ok" /\ (a \bullet c).sent = a.sent \cup c.sent
      BY Through
    <2>2. b.ret = "ok" /\ d.ret = "ok" /\ Alike(a.sent, i, b.sent, j) /\ Alike(c.sent, i, d.sent, j)
      BY <1>3, <2>1 DEF AlikeBodies
    <2>3. (b \bullet d).ret = "ok" /\ (b \bullet d).sent = b.sent \cup d.sent
      BY <2>2, GoingOn, Through
    <2> QED
      BY <2>1, <2>2, <2>3, AlikeSets
  <1> QED
    BY <1>1, <1>2, <1>3, Through

(* A loop within the body of another.                                      *)
LEMMA AlikeLoops ==
    ASSUME NEW i, NEW j, NEW a, NEW b, DOMAIN a = DOMAIN b, DOMAIN a \subseteq Nat,
           \A n \in DOMAIN a : AlikeBodies(a[n], i, b[n], j)
    PROVE  AlikeBodies(Loop(a), i, Loop(b), j)
  <1> SUFFICES ASSUME Loop(a).ret = "ok" PROVE Loop(b).ret = "ok" /\ Alike(Loop(a).sent, i, Loop(b).sent, j)
    BY DEF AlikeBodies
  <1>1. Loop(a).sent = UNION {a[n].sent : n \in DOMAIN a} /\ \A n \in DOMAIN a : a[n].ret = "ok"
    BY LoopThrough
  <1>2. \A n \in DOMAIN a : b[n].ret = "ok" /\ Alike(a[n].sent, i, b[n].sent, j)
    BY <1>1 DEF AlikeBodies
  <1>3. Loop(b).ret = "ok"
    BY <1>2, LoopGoesOn
  <1>4. Loop(b).sent = UNION {b[n].sent : n \in DOMAIN a}
    BY <1>3, LoopThrough
  <1> QED
    BY <1>1, <1>2, <1>3, <1>4 DEF Alike, Within

(* A loop over items, and the one body there is for one of them alone.     *)
LEMMA LoopShows ==
    ASSUME NEW bodies, DOMAIN bodies \subseteq Nat, NEW i \in DOMAIN bodies,
           NEW one, DOMAIN one = {1},
           \A k \in DOMAIN bodies : \E b : AlikeBodies(bodies[k], k, b, 1),
           AlikeBodies(bodies[i], i, one[1], 1)
    PROVE  Shows(Loop(bodies), i, Loop(one))
  <1> SUFFICES ASSUME Loop(bodies).ret = "ok"
               PROVE  Loop(one).ret = "ok" /\ SamplesOf(Loop(bodies), i) = SamplesOf(Loop(one), 1)
    BY DEF Shows
  <1>1. /\ Loop(bodies).sent = UNION {bodies[k].sent : k \in DOMAIN bodies}
        /\ \A k \in DOMAIN bodies : bodies[k].ret = "ok"
    BY LoopThrough
  <1>2. one[1].ret = "ok" /\ Alike(bodies[i].sent, i, one[1].sent, 1)
    BY <1>1 DEF AlikeBodies
  <1>3. Loop(one).ret = "ok"
    BY <1>2, LoopGoesOn
  <1>4. Loop(one).sent = one[1].sent
    <2>1. DOMAIN one \subseteq Nat
      OBVIOUS
    <2>2. Loop(one).sent = UNION {one[k].sent : k \in DOMAIN one}
      BY <1>3, <2>1, LoopThrough
    <2> QED
      BY <2>2
  <1>5. \A k \in DOMAIN bodies : \A s \in bodies[k].sent : s.of[1] = k
    BY <1>1 DEF AlikeBodies, Alike, Within
  <1>6. {s \in Loop(bodies).sent : s.of[1] = i} = bodies[i].sent
    BY <1>1, <1>5
  <1>7. {s \in Loop(one).sent : s.of[1] = 1} = one[1].sent
    BY <1>2, <1>4 DEF Alike, Within
  <1> DEFINE S == bodies[i].sent
             T == one[1].sent
             seen(s) == <<s.family, s.labels, Tail(s.of)>>
  <1>8. SamplesOf(Loop(bodies), i) = {seen(s) : s \in S} /\ SamplesOf(Loop(one), 1) = {seen(t) : t \in T}
    BY <1>6, <1>7 DEF SamplesOf
  <1>9. (\A s \in S : \E t \in T : seen(s) = seen(t)) /\ (\A t \in T : \E s \in S : seen(t) = seen(s))
    BY <1>2 DEF Alike, Within, Twin
  <1> HIDE DEF S, T, seen
  <1>10. {seen(s) : s \in S} = {seen(t) : t \in T}
    BY <1>9
  <1> QED
    BY <1>3, <1>8, <1>10

LEMMA ShowsParts ==
    ASSUME NEW i
    PROVE  /\ Shows(Nothing, i, Nothing)
           /\ \A P, how : Shows(Check(P, how), i, Check(P, how))
           /\ \A o, A : Shows(Need(o, A), i, Need(o, A))
           /\ \A S, T : (\A s \in S : s.of[1] # i) /\ (\A t \in T : t.of[1] # 1) => Shows(Send(S), i, Send(T))
           /\ \A a, b, c, d : Shows(a, i, b) /\ Shows(c, i, d) => Shows(a \bullet c, i, b \bullet d)
  <1>1. \A a : a.sent = {} => Shows(a, i, a)
    BY DEF Shows, SamplesOf
  <1>2. ASSUME NEW S, NEW T, \A s \in S : s.of[1] # i, \A t \in T : t.of[1] # 1 PROVE Shows(Send(S), i, Send(T))
    <2>1. SamplesOf(Send(S), i) = {} /\ SamplesOf(Send(T), 1) = {}
      BY <1>2, Through DEF SamplesOf
    <2> QED
      BY <2>1, GoingOn DEF Shows
  <1>3. ASSUME NEW a, NEW b, NEW c, NEW d, Shows(a, i, b), Shows(c, i, d) PROVE Shows(a \bullet c, i, b \bullet d)
    <2> SUFFICES ASSUME (a \bullet c).ret = "ok"
                 PROVE  (b \bullet d).ret = "ok" /\ SamplesOf(a \bullet c, i) = SamplesOf(b \bullet d, 1)
      BY DEF Shows
    <2>1. a.ret = "ok" /\ c.ret = "ok" /\ (a \bullet c).sent = a.sent \cup c.sent
      BY Through
    <2>2. b.ret = "ok" /\ d.ret = "ok" /\ SamplesOf(a, i) = SamplesOf(b, 1) /\ SamplesOf(c, i) = SamplesOf(d, 1)
      BY <1>3, <2>1 DEF Shows
    <2>3. (b \bullet d).ret = "ok" /\ (b \bullet d).sent = b.sent \cup d.sent
      BY <2>2, GoingOn, Through
    <2>4. ASSUME NEW p, NEW q, NEW r, NEW n, r.sent = p.sent \cup q.sent
          PROVE  SamplesOf(r, n) = SamplesOf(p, n) \cup SamplesOf(q, n)
      BY <2>4 DEF SamplesOf
    <2>5. SamplesOf(a \bullet c, i) = SamplesOf(a, i) \cup SamplesOf(c, i)
      BY <2>1, <2>4
    <2>6. SamplesOf(b \bullet d, 1) = SamplesOf(b, 1) \cup SamplesOf(d, 1)
      BY <2>3, <2>4
    <2> QED
      BY <2>2, <2>3, <2>5, <2>6
  <1> QED
    BY <1>1, <1>2, <1>3, Through

-----------------------------------------------------------------------------
(* Each collector: its loop, or loops, over its items, beside the same on  *)
(* an environment of one of them; body is what is done with an item x that *)
(* is the k-th.                                                            *)
LEMMA XFSShows ==
    ASSUME NEW e, IsSequence(e.items), NEW i \in DOMAIN e.items, NEW e1, e1.items = <<e.items[i]>>,
           e1.stats = e.stats
    PROVE  Shows(UpdateXFS(e), i, UpdateXFS(e1))
  <1> DEFINE body(k, x) == Send(UpdateXFSStats(k, x))
             bodies == [k \in DOMAIN e.items |-> body(k, e.items[k])]
             one == [k \in DOMAIN e1.items |-> body(k, e1.items[k])]
  <1>1. ASSUME NEW k, NEW j, NEW x PROVE AlikeBodies(body(k, x), k, body(j, x), j)
    <2> DEFINE sample(l, c, n) == Sample(<<"xfs", c, n>>, <<x.name>>, <<l, c, n>>)
               of(l, table) == UNION {{sample(l, c, n) : n \in table[c]} : c \in DOMAIN table}
    <2>1. \A l, m, c, n : sample(l, c, n).of[1] = l /\ Twin(sample(l, c, n), sample(m, c, n))
      BY TwinTuples
    <2>2. \A l : UpdateXFSStats(l, x) = of(l, XFSCounters) \cup of(l, XFSCalls)
      BY DEF UpdateXFSStats
    <2> HIDE DEF sample
    <2>3. ASSUME NEW table PROVE Alike(of(k, table), k, of(j, table), j)
      BY <2>1 DEF Alike, Within
    <2> HIDE DEF of
    <2>4. Alike(of(k, XFSCounters) \cup of(k, XFSCalls), k, of(j, XFSCounters) \cup of(j, XFSCalls), j)
      BY <2>3, AlikeSets
    <2>5. Alike(UpdateXFSStats(k, x), k, UpdateXFSStats(j, x), j)
      BY <2>2, <2>4
    <2> QED
      BY <2>5, AlikeParts
  <1>2. Shows(Loop(bodies), i, Loop(one))
    <2>1. /\ DOMAIN bodies = DOMAIN e.items /\ DOMAIN bodies \subseteq Nat
          /\ \A k \in DOMAIN bodies : bodies[k] = body(k, e.items[k])
      BY DEF IsSequence
    <2>2. DOMAIN one = {1} /\ one[1] = body(1, e.items[i])
      OBVIOUS
    <2> HIDE DEF bodies, one, body
    <2> QED
      BY <1>1, <2>1, <2>2, LoopShows
  <1>3. /\ UpdateXFS(e) = Need(e.stats, {}) \bullet Loop(bodies)
        /\ UpdateXFS(e1) = Need(e.stats, {}) \bullet Loop(one)
    BY DEF UpdateXFS
  <1> HIDE DEF bodies, one
  <1> QED
    BY <1>2, <1>3, ShowsParts
LEMMA NVMeShows ==
    ASSUME NEW e, IsSequence(e.items), NEW i \in DOMAIN e.items, NEW e1, e1.items = <<e.items[i]>>,
           e1.class = e.class
    PROVE  Shows(UpdateNVMe(e), i, UpdateNVMe(e1))
  <1> DEFINE body(k, x) == Send(Samples("nvme", {"info"}, <<x.name, x.state>>, <<k>>))
             bodies == [k \in DOMAIN e.items |-> body(k, e.items[k])]
             one == [k \in DOMAIN e1.items |-> body(k, e1.items[k])]
  <1>1. ASSUME NEW k, NEW j, NEW x PROVE AlikeBodies(body(k, x), k, body(j, x), j)
    BY TwinSamples, AlikeParts
  <1> HIDE DEF body
  <1>2. Shows(Loop(bodies), i, Loop(one))
    <2>1. /\ DOMAIN bodies = DOMAIN e.items /\ DOMAIN bodies \subseteq Nat
          /\ \A k \in DOMAIN bodies : bodies[k] = body(k, e.items[k])
      BY DEF IsSequence
    <2>2. DOMAIN one = {1} /\ one[1] = body(1, e.items[i])
      OBVIOUS
    <2> HIDE DEF bodies, one
    <2> QED
      BY <1>1, <2>1, <2>2, LoopShows
  <1>3. /\ UpdateNVMe(e) = Need(e.class, {"notexist"}) \bullet Loop(bodies)
        /\ UpdateNVMe(e1) = Need(e.class, {"notexist"}) \bullet Loop(one)
    BY DEF UpdateNVMe, body
  <1> HIDE DEF bodies, one
  <1> QED
    BY <1>2, <1>3, ShowsParts

LEMMA SoftnetShows ==
    ASSUME NEW e, IsSequence(e.items), NEW i \in DOMAIN e.items, NEW e1, e1.items = <<e.items[i]>>,
           e1.stats = e.stats
    PROVE  Shows(UpdateSoftnet(e), i, UpdateSoftnet(e1))
  <1> DEFINE body(k, x) == Send(Samples("softnet", SoftnetFamilies, <<x.cpu>>, <<k>>))
             bodies == [k \in DOMAIN e.items |-> body(k, e.items[k])]
             one == [k \in DOMAIN e1.items |-> body(k, e1.items[k])]
  <1>1. ASSUME NEW k, NEW j, NEW x PROVE AlikeBodies(body(k, x), k, body(j, x), j)
    BY TwinSamples, AlikeParts
  <1> HIDE DEF body
  <1>2. Shows(Loop(bodies), i, Loop(one))
    <2>1. /\ DOMAIN bodies = DOMAIN e.items /\ DOMAIN bodies \subseteq Nat
          /\ \A k \in DOMAIN bodies : bodies[k] = body(k, e.items[k])
      BY DEF IsSequence
    <2>2. DOMAIN one = {1} /\ one[1] = body(1, e.items[i])
      OBVIOUS
    <2> HIDE DEF bodies, one
    <2> QED
      BY <1>1, <2>1, <2>2, LoopShows
  <1>3. /\ UpdateSoftnet(e) = Need(e.stats, {}) \bullet Loop(bodies)
        /\ UpdateSoftnet(e1) = Need(e.stats, {}) \bullet Loop(one)
    BY DEF UpdateSoftnet, body
  <1> HIDE DEF bodies, one
  <1> QED
    BY <1>2, <1>3, ShowsParts

LEMMA SlabinfoShows ==
    ASSUME NEW e, IsSequence(e.items), NEW i \in DOMAIN e.items, NEW e1, e1.items = <<e.items[i]>>,
           e1.slabinfo = e.slabinfo
    PROVE  Shows(UpdateSlabinfo(e), i, UpdateSlabinfo(e1))
  <1> DEFINE body(k, x) == Send(Samples("slabinfo", SlabFamilies, <<x.name>>, <<k>>))
             bodies == [k \in DOMAIN e.items |-> body(k, e.items[k])]
             one == [k \in DOMAIN e1.items |-> body(k, e1.items[k])]
  <1>1. ASSUME NEW k, NEW j, NEW x PROVE AlikeBodies(body(k, x), k, body(j, x), j)
    BY TwinSamples, AlikeParts
  <1> HIDE DEF body
  <1>2. Shows(Loop(bodies), i, Loop(one))
    <2>1. /\ DOMAIN bodies = DOMAIN e.items /\ DOMAIN bodies \subseteq Nat
          /\ \A k \in DOMAIN bodies : bodies[k] = body(k, e.items[k])
      BY DEF IsSequence
    <2>2. DOMAIN one = {1} /\ one[1] = body(1, e.items[i])
      OBVIOUS
    <2> HIDE DEF bodies, one
    <2> QED
      BY <1>1, <2>1, <2>2, LoopShows
  <1>3. /\ UpdateSlabinfo(e) = Need(e.slabinfo, {}) \bullet Loop(bodies)
        /\ UpdateSlabinfo(e1) = Need(e.slabinfo, {}) \bullet Loop(one)
    BY DEF UpdateSlabinfo, body
  <1> HIDE DEF bodies, one
  <1> QED
    BY <1>2, <1>3, ShowsParts

LEMMA CgroupsShows ==
    ASSUME NEW e, IsSequence(e.items), NEW i \in DOMAIN e.items, NEW e1, e1.items = <<e.items[i]>>,
           e1.cgroups = e.cgroups
    PROVE  Shows(UpdateCgroups(e), i, UpdateCgroups(e1))
  <1> DEFINE body(k, x) == Send(Samples("cgroups", {"cgroups", "enabled"}, <<x.name>>, <<k>>))
             bodies == [k \in DOMAIN e.items |-> body(k, e.items[k])]
             one == [k \in DOMAIN e1.items |-> body(k, e1.items[k])]
  <1>1. ASSUME NEW k, NEW j, NEW x PROVE AlikeBodies(body(k, x), k, body(j, x), j)
    BY TwinSamples, AlikeParts
  <1> HIDE DEF body
  <1>2. Shows(Loop(bodies), i, Loop(one))
    <2>1. /\ DOMAIN bodies = DOMAIN e.items /\ DOMAIN bodies \subseteq Nat
          /\ \A k \in DOMAIN bodies : bodies[k] = body(k, e.items[k])
      BY DEF IsSequence
    <2>2. DOMAIN one = {1} /\ one[1] = body(1, e.items[i])
      OBVIOUS
    <2> HIDE DEF bodies, one
    <2> QED
      BY <1>1, <2>1, <2>2, LoopShows
  <1>3. /\ UpdateCgroups(e) = Need(e.cgroups, {}) \bullet Loop(bodies)
        /\ UpdateCgroups(e1) = Need(e.cgroups, {}) \bullet Loop(one)
    BY DEF UpdateCgroups, body
  <1> HIDE DEF bodies, one
  <1> QED
    BY <1>2, <1>3, ShowsParts

LEMMA SchedstatShows ==
    ASSUME NEW e, IsSequence(e.items), NEW i \in DOMAIN e.items, NEW e1, e1.items = <<e.items[i]>>,
           e1.schedstat = e.schedstat
    PROVE  Shows(UpdateSchedstat(e), i, UpdateSchedstat(e1))
  <1> DEFINE body(k, x) == Send(Samples("schedstat", SchedstatFamilies, <<x.name>>, <<k>>))
             bodies == [k \in DOMAIN e.items |-> body(k, e.items[k])]
             one == [k \in DOMAIN e1.items |-> body(k, e1.items[k])]
  <1>1. ASSUME NEW k, NEW j, NEW x PROVE AlikeBodies(body(k, x), k, body(j, x), j)
    BY TwinSamples, AlikeParts
  <1> HIDE DEF body
  <1>2. Shows(Loop(bodies), i, Loop(one))
    <2>1. /\ DOMAIN bodies = DOMAIN e.items /\ DOMAIN bodies \subseteq Nat
          /\ \A k \in DOMAIN bodies : bodies[k] = body(k, e.items[k])
      BY DEF IsSequence
    <2>2. DOMAIN one = {1} /\ one[1] = body(1, e.items[i])
      OBVIOUS
    <2> HIDE DEF bodies, one
    <2> QED
      BY <1>1, <2>1, <2>2, LoopShows
  <1>3. /\ UpdateSchedstat(e) = Need(e.schedstat, {"notexist"}) \bullet Loop(bodies)
        /\ UpdateSchedstat(e1) = Need(e.schedstat, {"notexist"}) \bullet Loop(one)
    BY DEF UpdateSchedstat, body
  <1> HIDE DEF bodies, one
  <1> QED
    BY <1>2, <1>3, ShowsParts

LEMMA TapestatsShows ==
    ASSUME NEW e, IsSequence(e.items), NEW i \in DOMAIN e.items, NEW e1, e1.items = <<e.items[i]>>,
           e1.tapes = e.tapes
    PROVE  Shows(UpdateTapestats(e), i, UpdateTapestats(e1))
  <1> DEFINE body(k, x) == IF x.ignored THEN Nothing ELSE Send(Samples("tape", TapeFamilies, <<x.name>>, <<k>>))
             bodies == [k \in DOMAIN e.items |-> body(k, e.items[k])]
             one == [k \in DOMAIN e1.items |-> body(k, e1.items[k])]
  <1>1. ASSUME NEW k, NEW j, NEW x PROVE AlikeBodies(body(k, x), k, body(j, x), j)
    BY TwinSamples, AlikeParts
  <1> HIDE DEF body
  <1>2. Shows(Loop(bodies), i, Loop(one))
    <2>1. /\ DOMAIN bodies = DOMAIN e.items /\ DOMAIN bodies \subseteq Nat
          /\ \A k \in DOMAIN bodies : bodies[k] = body(k, e.items[k])
      BY DEF IsSequence
    <2>2. DOMAIN one = {1} /\ one[1] = body(1, e.items[i])
      OBVIOUS
    <2> HIDE DEF bodies, one
    <2> QED
      BY <1>1, <2>1, <2>2, LoopShows
  <1>3. /\ UpdateTapestats(e) = Need(e.tapes, {"notexist"}) \bullet Loop(bodies)
        /\ UpdateTapestats(e1) = Need(e.tapes, {"notexist"}) \bullet Loop(one)
    BY DEF UpdateTapestats, body
  <1> HIDE DEF bodies, one
  <1> QED
    BY <1>2, <1>3, ShowsParts

LEMMA QdiscShows ==
    ASSUME NEW e, IsSequence(e.items), NEW i \in DOMAIN e.items, NEW e1, e1.items = <<e.items[i]>>,
           e1.flags = e.flags, e1.disciplines = e.disciplines
    PROVE  Shows(UpdateQdisc(e), i, UpdateQdisc(e1))
  <1> DEFINE body(k, x) == IF x.parent # 0 \/ Ignored(NewQdiscFilter(e.flags), x.name) THEN Nothing
                           ELSE Send(Samples("qdisc", QdiscFamilies, <<x.name, x.kind>>, <<k>>))
             bodies == [k \in DOMAIN e.items |-> body(k, e.items[k])]
             one == [k \in DOMAIN e1.items |-> body(k, e1.items[k])]
  <1>1. ASSUME NEW k, NEW j, NEW x PROVE AlikeBodies(body(k, x), k, body(j, x), j)
    BY TwinSamples, AlikeParts
  <1> HIDE DEF body
  <1>2. Shows(Loop(bodies), i, Loop(one))
    <2>1. /\ DOMAIN bodies = DOMAIN e.items /\ DOMAIN bodies \subseteq Nat
          /\ \A k \in DOMAIN bodies : bodies[k] = body(k, e.items[k])
      BY DEF IsSequence
    <2>2. DOMAIN one = {1} /\ one[1] = body(1, e.items[i])
      OBVIOUS
    <2> HIDE DEF bodies, one
    <2> QED
      BY <1>1, <2>1, <2>2, LoopShows
  <1>3. /\ UpdateQdisc(e) = Check(NewQdiscFilter(e.flags).built, "unbuilt") \bullet Need(e.disciplines, {}) \bullet Loop(bodies)
        /\ UpdateQdisc(e1) = Check(NewQdiscFilter(e.flags).built, "unbuilt") \bullet Need(e.disciplines, {}) \bullet Loop(one)
    BY DEF UpdateQdisc, body
  <1> HIDE DEF bodies, one
  <1> QED
    BY <1>2, <1>3, ShowsParts

LEMMA FibreChannelShows ==
    ASSUME NEW e, IsSequence(e.items), NEW i \in DOMAIN e.items, NEW e1, e1.items = <<e.items[i]>>,
           e1.class = e.class
    PROVE  Shows(UpdateFibreChannel(e), i, UpdateFibreChannel(e1))
  <1> DEFINE samples(k, x) == FibreChannelSamples(k, x)
             body(k, x) == Send(samples(k, x))
             bodies == [k \in DOMAIN e.items |-> body(k, e.items[k])]
             one == [k \in DOMAIN e1.items |-> body(k, e1.items[k])]
  <1>1. ASSUME NEW k, NEW j, NEW x PROVE AlikeBodies(body(k, x), k, body(j, x), j)
    <2>1. Alike(samples(k, x), k, samples(j, x), j)
      BY TwinSamples, AlikeSets DEF FibreChannelSamples
    <2> HIDE DEF samples
    <2> QED
      BY <2>1, AlikeParts
  <1> HIDE DEF body
  <1>2. Shows(Loop(bodies), i, Loop(one))
    <2>1. /\ DOMAIN bodies = DOMAIN e.items /\ DOMAIN bodies \subseteq Nat
          /\ \A k \in DOMAIN bodies : bodies[k] = body(k, e.items[k])
      BY DEF IsSequence
    <2>2. DOMAIN one = {1} /\ one[1] = body(1, e.items[i])
      OBVIOUS
    <2> HIDE DEF bodies, one
    <2> QED
      BY <1>1, <2>1, <2>2, LoopShows
  <1>3. /\ UpdateFibreChannel(e) = Need(e.class, {"notexist"}) \bullet Loop(bodies)
        /\ UpdateFibreChannel(e1) = Need(e.class, {"notexist"}) \bullet Loop(one)
    BY DEF UpdateFibreChannel, body
  <1> HIDE DEF bodies, one
  <1> QED
    BY <1>2, <1>3, ShowsParts

LEMMA DrmShows ==
    ASSUME NEW e, IsSequence(e.items), NEW i \in DOMAIN e.items, NEW e1, e1.items = <<e.items[i]>>,
           e1.cards = e.cards
    PROVE  Shows(UpdateDrm(e), i, UpdateDrm(e1))
  <1> DEFINE samples(k, x) == Samples("drm", {"card_info"}, <<x.name, x.vendor>>, <<k>>) \cup Samples("drm", DrmFamilies, <<x.name>>, <<k>>)
             body(k, x) == Send(samples(k, x))
             bodies == [k \in DOMAIN e.items |-> body(k, e.items[k])]
             one == [k \in DOMAIN e1.items |-> body(k, e1.items[k])]
  <1>1. ASSUME NEW k, NEW j, NEW x PROVE AlikeBodies(body(k, x), k, body(j, x), j)
    <2>1. Alike(samples(k, x), k, samples(j, x), j)
      BY TwinSamples, AlikeSets
    <2> HIDE DEF samples
    <2> QED
      BY <2>1, AlikeParts
  <1> HIDE DEF body
  <1>2. Shows(Loop(bodies), i, Loop(one))
    <2>1. /\ DOMAIN bodies = DOMAIN e.items /\ DOMAIN bodies \subseteq Nat
          /\ \A k \in DOMAIN bodies : bodies[k] = body(k, e.items[k])
      BY DEF IsSequence
    <2>2. DOMAIN one = {1} /\ one[1] = body(1, e.items[i])
      OBVIOUS
    <2> HIDE DEF bodies, one
    <2> QED
      BY <1>1, <2>1, <2>2, LoopShows
  <1>3. /\ UpdateDrm(e) = Need(e.cards, {}) \bullet Loop(bodies)
        /\ UpdateDrm(e1) = Need(e.cards, {}) \bullet Loop(one)
    BY DEF UpdateDrm, body
  <1> HIDE DEF bodies, one
  <1> QED
    BY <1>2, <1>3, ShowsParts

LEMMA BuddyinfoShows ==
    ASSUME NEW e, IsSequence(e.items), NEW i \in DOMAIN e.items, NEW e1, e1.items = <<e.items[i]>>,
           e1.buddyinfo = e.buddyinfo
    PROVE  Shows(UpdateBuddyinfo(e), i, UpdateBuddyinfo(e1))
  <1> DEFINE samples(k, x) == {Sample(<<"buddyinfo", "blocks">>, <<x.node, x.zone, size>>, <<k, size>>) : size \in 0..(x.sizes - 1)}
             body(k, x) == Send(samples(k, x))
             bodies == [k \in DOMAIN e.items |-> body(k, e.items[k])]
             one == [k \in DOMAIN e1.items |-> body(k, e1.items[k])]
  <1>1. ASSUME NEW k, NEW j, NEW x PROVE AlikeBodies(body(k, x), k, body(j, x), j)
    <2>1. Alike(samples(k, x), k, samples(j, x), j)
      <3> DEFINE sample(l, y) == Sample(<<"buddyinfo", "blocks">>, <<x.node, x.zone, y>>, <<l, y>>)
                 of(l) == {sample(l, y) : y \in 0..(x.sizes - 1)}
      <3>1. \A l, m, y : sample(l, y).of[1] = l /\ Twin(sample(l, y), sample(m, y))
        BY TwinTuples
      <3> HIDE DEF sample
      <3>2. Alike(of(k), k, of(j), j)
        BY <3>1 DEF Alike, Within
      <3> QED
        BY <3>2 DEF sample
    <2> HIDE DEF samples
    <2> QED
      BY <2>1, AlikeParts
  <1> HIDE DEF body
  <1>2. Shows(Loop(bodies), i, Loop(one))
    <2>1. /\ DOMAIN bodies = DOMAIN e.items /\ DOMAIN bodies \subseteq Nat
          /\ \A k \in DOMAIN bodies : bodies[k] = body(k, e.items[k])
      BY DEF IsSequence
    <2>2. DOMAIN one = {1} /\ one[1] = body(1, e.items[i])
      OBVIOUS
    <2> HIDE DEF bodies, one
    <2> QED
      BY <1>1, <2>1, <2>2, LoopShows
  <1>3. /\ UpdateBuddyinfo(e) = Need(e.buddyinfo, {}) \bullet Loop(bodies)
        /\ UpdateBuddyinfo(e1) = Need(e.buddyinfo, {}) \bullet Loop(one)
    BY DEF UpdateBuddyinfo, body
  <1> HIDE DEF bodies, one
  <1> QED
    BY <1>2, <1>3, ShowsParts

LEMMA LnstatShows ==
    ASSUME NEW e, IsSequence(e.items), NEW i \in DOMAIN e.items, NEW e1, e1.items = <<e.items[i]>>,
           e1.netstat = e.netstat
    PROVE  Shows(UpdateLnstat(e), i, UpdateLnstat(e1))
  <1> DEFINE samples(k, x) == {Sample(<<"lnstat", h>>, <<x.file, cpu>>, <<k, h, cpu>>) : h \in x.headers, cpu \in x.cpus}
             body(k, x) == Send(samples(k, x))
             bodies == [k \in DOMAIN e.items |-> body(k, e.items[k])]
             one == [k \in DOMAIN e1.items |-> body(k, e1.items[k])]
  <1>1. ASSUME NEW k, NEW j, NEW x PROVE AlikeBodies(body(k, x), k, body(j, x), j)
    <2>1. Alike(samples(k, x), k, samples(j, x), j)
      <3> DEFINE sample(l, h, cpu) == Sample(<<"lnstat", h>>, <<x.file, cpu>>, <<l, h, cpu>>)
                 of(l) == {sample(l, h, cpu) : h \in x.headers, cpu \in x.cpus}
      <3>1. \A l, m, h, cpu : sample(l, h, cpu).of[1] = l /\ Twin(sample(l, h, cpu), sample(m, h, cpu))
        BY TwinTuples
      <3> HIDE DEF sample
      <3>2. Alike(of(k), k, of(j), j)
        BY <3>1 DEF Alike, Within
      <3> QED
        BY <3>2 DEF sample
    <2> HIDE DEF samples
    <2> QED
      BY <2>1, AlikeParts
  <1> HIDE DEF body
  <1>2. Shows(Loop(bodies), i, Loop(one))
    <2>1. /\ DOMAIN bodies = DOMAIN e.items /\ DOMAIN bodies \subseteq Nat
          /\ \A k \in DOMAIN bodies : bodies[k] = body(k, e.items[k])
      BY DEF IsSequence
    <2>2. DOMAIN one = {1} /\ one[1] = body(1, e.items[i])
      OBVIOUS
    <2> HIDE DEF bodies, one
    <2> QED
      BY <1>1, <2>1, <2>2, LoopShows
  <1>3. /\ UpdateLnstat(e) = Need(e.netstat, {}) \bullet Loop(bodies)
        /\ UpdateLnstat(e1) = Need(e.netstat, {}) \bullet Loop(one)
    BY DEF UpdateLnstat, body
  <1> HIDE DEF bodies, one
  <1> QED
    BY <1>2, <1>3, ShowsParts

LEMMA MdadmShows ==
    ASSUME NEW e, IsSequence(e.items), NEW i \in DOMAIN e.items, NEW e1, e1.items = <<e.items[i]>>,
           e1.mdstat = e.mdstat
    PROVE  Shows(UpdateMdadm(e), i, UpdateMdadm(e1))
  <1> DEFINE samples(k, x) == MdSamples(k, x)
             body(k, x) == Send(samples(k, x))
             bodies == [k \in DOMAIN e.items |-> body(k, e.items[k])]
             one == [k \in DOMAIN e1.items |-> body(k, e1.items[k])]
  <1>1. ASSUME NEW k, NEW j, NEW x PROVE AlikeBodies(body(k, x), k, body(j, x), j)
    <2>1. Alike(samples(k, x), k, samples(j, x), j)
      <3> DEFINE numbers(l) == Samples("md", {"disks_required", "blocks", "blocks_synced"}, <<x.name>>, <<l>>)
                 disk(l, s) == Sample(<<"md", "disks">>, <<x.name, s>>, <<l, s>>)
                 disks(l) == {disk(l, s) : s \in {"active", "failed", "spare"}}
                 on(s) == MdStates[s] = x.activity
                 state(l, s) == Sample(<<"md", "state">>, <<x.name, s>>, <<l, "state", on(s)>>)
                 states(l) == {state(l, s) : s \in DOMAIN MdStates}
      <3>1. \A l, m, s : disk(l, s).of[1] = l /\ Twin(disk(l, s), disk(m, s))
        BY TwinTuples
      <3>2. \A l : MdSamples(l, x) = numbers(l) \cup disks(l) \cup states(l)
        BY DEF MdSamples
      <3> HIDE DEF on
      <3>3. \A l, m, s : state(l, s).of[1] = l /\ Twin(state(l, s), state(m, s))
        BY TwinTuples
      <3>4. Alike(numbers(k), k, numbers(j), j)
        BY TwinSamples
      <3> HIDE DEF numbers, disk, state
      <3>5. Alike(disks(k), k, disks(j), j)
        BY <3>1 DEF Alike, Within
      <3>6. Alike(states(k), k, states(j), j)
        BY <3>3 DEF Alike, Within
      <3> HIDE DEF disks, states
      <3>7. Alike(numbers(k) \cup disks(k) \cup states(k), k, numbers(j) \cup disks(j) \cup states(j), j)
        BY <3>4, <3>5, <3>6, AlikeSets
      <3> QED
        BY <3>2, <3>7
    <2> HIDE DEF samples
    <2> QED
      BY <2>1, AlikeParts
  <1> HIDE DEF body
  <1>2. Shows(Loop(bodies), i, Loop(one))
    <2>1. /\ DOMAIN bodies = DOMAIN e.items /\ DOMAIN bodies \subseteq Nat
          /\ \A k \in DOMAIN bodies : bodies[k] = body(k, e.items[k])
      BY DEF IsSequence
    <2>2. DOMAIN one = {1} /\ one[1] = body(1, e.items[i])
      OBVIOUS
    <2> HIDE DEF bodies, one
    <2> QED
      BY <1>1, <2>1, <2>2, LoopShows
  <1>3. /\ UpdateMdadm(e) = Need(e.mdstat, {"notexist"}) \bullet Loop(bodies)
        /\ UpdateMdadm(e1) = Need(e.mdstat, {"notexist"}) \bullet Loop(one)
    BY DEF UpdateMdadm, body
  <1> HIDE DEF bodies, one
  <1> QED
    BY <1>2, <1>3, ShowsParts

LEMMA CPUFreqShows ==
    ASSUME NEW e, IsSequence(e.items), NEW i \in DOMAIN e.items, NEW e1, e1.items = <<e.items[i]>>,
           e1.freqs = e.freqs
    PROVE  Shows(UpdateCPUFreq(e), i, UpdateCPUFreq(e1))
  <1> DEFINE samples(k, x) == CPUFreqSamples(k, x)
             body(k, x) == Send(samples(k, x))
             bodies == [k \in DOMAIN e.items |-> body(k, e.items[k])]
             one == [k \in DOMAIN e1.items |-> body(k, e1.items[k])]
  <1>1. ASSUME NEW k, NEW j, NEW x PROVE AlikeBodies(body(k, x), k, body(j, x), j)
    <2>1. Alike(samples(k, x), k, samples(j, x), j)
      <3> DEFINE numbers(l) == Samples("cpu", CPUFreqFamilies \cap x.given, <<x.name>>, <<l>>)
                 on(g) == g = x.governor
                 state(l, g) == Sample(<<"cpu", "scaling_governor">>, <<x.name, g>>, <<l, "state", g, on(g)>>)
                 states(l) == {state(l, g) : g \in AvailableGovernors(x)}
      <3>1. \A l : CPUFreqSamples(l, x) = numbers(l) \cup IF x.governor = "" THEN {} ELSE states(l)
        BY DEF CPUFreqSamples
      <3> HIDE DEF on
      <3>2. \A l, m, g : state(l, g).of[1] = l /\ Twin(state(l, g), state(m, g))
        BY TwinTuples
      <3>3. Alike(numbers(k), k, numbers(j), j)
        BY TwinSamples
      <3> HIDE DEF numbers, state
      <3>4. Alike(states(k), k, states(j), j)
        BY <3>2 DEF Alike, Within
      <3> HIDE DEF states
      <3>5. Alike(numbers(k) \cup states(k), k, numbers(j) \cup states(j), j)
        BY <3>3, <3>4, AlikeSets
      <3> QED
        BY <3>1, <3>5, <3>3, AlikeSets
    <2> HIDE DEF samples
    <2> QED
      BY <2>1, AlikeParts
  <1> HIDE DEF body
  <1>2. Shows(Loop(bodies), i, Loop(one))
    <2>1. /\ DOMAIN bodies = DOMAIN e.items /\ DOMAIN bodies \subseteq Nat
          /\ \A k \in DOMAIN bodies : bodies[k] = body(k, e.items[k])
      BY DEF IsSequence
    <2>2. DOMAIN one = {1} /\ one[1] = body(1, e.items[i])
      OBVIOUS
    <2> HIDE DEF bodies, one
    <2> QED
      BY <1>1, <2>1, <2>2, LoopShows
  <1>3. /\ UpdateCPUFreq(e) = Need(e.freqs, {}) \bullet Loop(bodies)
        /\ UpdateCPUFreq(e1) = Need(e.freqs, {}) \bullet Loop(one)
    BY DEF UpdateCPUFreq, body
  <1> HIDE DEF bodies, one
  <1> QED
    BY <1>2, <1>3, ShowsParts

LEMMA InfiniBandShows ==
    ASSUME NEW e, IsSequence(e.items), NEW i \in DOMAIN e.items, NEW e1, e1.items = <<e.items[i]>>,
           e1.class = e.class
    PROVE  Shows(UpdateInfiniBand(e), i, UpdateInfiniBand(e1))
  <1> DEFINE samples(k, x) == InfiniBandSamples(k, x)
             body(k, x) == Send(samples(k, x))
             bodies == [k \in DOMAIN e.items |-> body(k, e.items[k])]
             one == [k \in DOMAIN e1.items |-> body(k, e1.items[k])]
  <1>1. ASSUME NEW k, NEW j, NEW x PROVE AlikeBodies(body(k, x), k, body(j, x), j)
    <2>1. Alike(samples(k, x), k, samples(j, x), j)
      <3> DEFINE info(l) == Samples("infiniband", {"info"}, <<x.name>>, <<l>>)
                 port(l, p) == Samples("infiniband",
                                       {"state_id", "physical_state_id", "rate_bytes_per_second"}
                                         \cup (InfiniBandCounters \ p.missing),
                                       <<x.name, p.port>>, <<l, p.port>>)
                 ports(l) == UNION {port(l, p) : p \in x.ports}
      <3>1. \A p : Alike(port(k, p), k, port(j, p), j)
        BY TwinSamples
      <3>2. \A l : InfiniBandSamples(l, x) = info(l) \cup ports(l)
        BY DEF InfiniBandSamples
      <3>3. Alike(info(k), k, info(j), j)
        BY TwinSamples
      <3> HIDE DEF info, port
      <3>4. Alike(ports(k), k, ports(j), j)
        BY <3>1 DEF Alike, Within
      <3> HIDE DEF ports
      <3>5. Alike(info(k) \cup ports(k), k, info(j) \cup ports(j), j)
        BY <3>3, <3>4, AlikeSets
      <3> QED
        BY <3>2, <3>5
    <2> HIDE DEF samples
    <2> QED
      BY <2>1, AlikeParts
  <1> HIDE DEF body
  <1>2. Shows(Loop(bodies), i, Loop(one))
    <2>1. /\ DOMAIN bodies = DOMAIN e.items /\ DOMAIN bodies \subseteq Nat
          /\ \A k \in DOMAIN bodies : bodies[k] = body(k, e.items[k])
      BY DEF IsSequence
    <2>2. DOMAIN one = {1} /\ one[1] = body(1, e.items[i])
      OBVIOUS
    <2> HIDE DEF bodies, one
    <2> QED
      BY <1>1, <2>1, <2>2, LoopShows
  <1>3. /\ UpdateInfiniBand(e) = Need(e.class, {"notexist"}) \bullet Loop(bodies)
        /\ UpdateInfiniBand(e1) = Need(e.class, {"notexist"}) \bullet Loop(one)
    BY DEF UpdateInfiniBand, body
  <1> HIDE DEF bodies, one
  <1> QED
    BY <1>2, <1>3, ShowsParts

LEMMA ZoneinfoShows ==
    ASSUME NEW e, IsSequence(e.items), NEW i \in DOMAIN e.items, NEW e1, e1.items = <<e.items[i]>>,
           e1.zoneinfo = e.zoneinfo
    PROVE  Shows(UpdateZoneinfo(e), i, UpdateZoneinfo(e1))
  <1> DEFINE samples(k, x) == 
             Samples("zoneinfo", (ZoneGauges \cup ZoneCounters) \ x.missing, <<x.node, x.zone>>, <<k>>)
               \cup {Sample(<<"zoneinfo", "protection", n>>, <<x.node, x.zone>>, <<k, n>>) : n \in 1..x.protections}
             body(k, x) == Send(samples(k, x))
             bodies == [k \in DOMAIN e.items |-> body(k, e.items[k])]
             one == [k \in DOMAIN e1.items |-> body(k, e1.items[k])]
  <1>1. ASSUME NEW k, NEW j, NEW x PROVE AlikeBodies(body(k, x), k, body(j, x), j)
    <2>1. Alike(samples(k, x), k, samples(j, x), j)
      <3> DEFINE numbers(l) == Samples("zoneinfo", (ZoneGauges \cup ZoneCounters) \ x.missing, <<x.node, x.zone>>, <<l>>)
                 level(l, n) == Sample(<<"zoneinfo", "protection", n>>, <<x.node, x.zone>>, <<l, n>>)
                 levels(l) == {level(l, n) : n \in 1..x.protections}
      <3>1. \A l, m, n : level(l, n).of[1] = l /\ Twin(level(l, n), level(m, n))
        BY TwinTuples
      <3>2. \A l : samples(l, x) = numbers(l) \cup levels(l)
        OBVIOUS
      <3>3. Alike(numbers(k), k, numbers(j), j)
        BY TwinSamples
      <3> HIDE DEF numbers, level
      <3>4. Alike(levels(k), k, levels(j), j)
        BY <3>1 DEF Alike, Within
      <3> HIDE DEF levels, samples
      <3>5. Alike(numbers(k) \cup levels(k), k, numbers(j) \cup levels(j), j)
        BY <3>3, <3>4, AlikeSets
      <3> QED
        BY <3>2, <3>5
    <2> HIDE DEF samples
    <2> QED
      BY <2>1, AlikeParts
  <1> HIDE DEF body
  <1>2. Shows(Loop(bodies), i, Loop(one))
    <2>1. /\ DOMAIN bodies = DOMAIN e.items /\ DOMAIN bodies \subseteq Nat
          /\ \A k \in DOMAIN bodies : bodies[k] = body(k, e.items[k])
      BY DEF IsSequence
    <2>2. DOMAIN one = {1} /\ one[1] = body(1, e.items[i])
      OBVIOUS
    <2> HIDE DEF bodies, one
    <2> QED
      BY <1>1, <2>1, <2>2, LoopShows
  <1>3. /\ UpdateZoneinfo(e) = Need(e.zoneinfo, {}) \bullet Loop(bodies)
        /\ UpdateZoneinfo(e1) = Need(e.zoneinfo, {}) \bullet Loop(one)
    BY DEF UpdateZoneinfo, body
  <1> HIDE DEF bodies, one
  <1> QED
    BY <1>2, <1>3, ShowsParts

LEMMA RunitShows ==
    ASSUME NEW e, IsSequence(e.items), NEW i \in DOMAIN e.items, NEW e1, e1.items = <<e.items[i]>>,
           e1.services = e.services
    PROVE  Shows(UpdateRunit(e), i, UpdateRunit(e1))
  <1> DEFINE samples(k, x) == 
             Samples("service", {"state", "desired_state", "state_last_change_timestamp_seconds"}, <<x.name>>, <<k>>)
               \cup {Sample(<<"service", "normal_state">>, <<x.name>>, <<k, x.normallyUp>>)}
             body(k, x) == IF x.status = "ok" THEN Send(samples(k, x)) ELSE Nothing
             bodies == [k \in DOMAIN e.items |-> body(k, e.items[k])]
             one == [k \in DOMAIN e1.items |-> body(k, e1.items[k])]
  <1>1. ASSUME NEW k, NEW j, NEW x PROVE AlikeBodies(body(k, x), k, body(j, x), j)
    <2>1. Alike(samples(k, x), k, samples(j, x), j)
      <3> DEFINE states(l) ==
                   Samples("service", {"state", "desired_state", "state_last_change_timestamp_seconds"}, <<x.name>>, <<l>>)
                 normal(l) == Sample(<<"service", "normal_state">>, <<x.name>>, <<l, x.normallyUp>>)
      <3>1. \A l, m : normal(l).of[1] = l /\ Twin(normal(l), normal(m))
        BY TwinTuples
      <3>2. \A l : samples(l, x) = states(l) \cup {normal(l)}
        OBVIOUS
      <3>3. Alike(states(k), k, states(j), j)
        BY TwinSamples
      <3> HIDE DEF states, normal
      <3>4. Alike({normal(k)}, k, {normal(j)}, j)
        BY <3>1 DEF Alike, Within
      <3> HIDE DEF samples
      <3>5. Alike(states(k) \cup {normal(k)}, k, states(j) \cup {normal(j)}, j)
        BY <3>3, <3>4, AlikeSets
      <3> QED
        BY <3>2, <3>5
    <2> HIDE DEF samples
    <2> QED
      BY <2>1, AlikeParts
  <1> HIDE DEF body
  <1>2. Shows(Loop(bodies), i, Loop(one))
    <2>1. /\ DOMAIN bodies = DOMAIN e.items /\ DOMAIN bodies \subseteq Nat
          /\ \A k \in DOMAIN bodies : bodies[k] = body(k, e.items[k])
      BY DEF IsSequence
    <2>2. DOMAIN one = {1} /\ one[1] = body(1, e.items[i])
      OBVIOUS
    <2> HIDE DEF bodies, one
    <2> QED
      BY <1>1, <2>1, <2>2, LoopShows
  <1>3. /\ UpdateRunit(e) = Need(e.services, {}) \bullet Loop(bodies)
        /\ UpdateRunit(e1) = Need(e.services, {}) \bullet Loop(one)
    BY DEF UpdateRunit, body
  <1> HIDE DEF bodies, one
  <1> QED
    BY <1>2, <1>3, ShowsParts

LEMMA BcacheShows ==
    ASSUME NEW e, IsSequence(e.items), NEW i \in DOMAIN e.items, NEW e1, e1.items = <<e.items[i]>>,
           e1.stats = e.stats, e1.priorityStats = e.priorityStats
    PROVE  Shows(UpdateBcache(e), i, UpdateBcache(e1))
  <1> DEFINE samples(k, x) == UpdateBcacheStats(k, x, e.priorityStats)
             body(k, x) == Send(samples(k, x))
             bodies == [k \in DOMAIN e.items |-> body(k, e.items[k])]
             one == [k \in DOMAIN e1.items |-> body(k, e1.items[k])]
  <1>1. ASSUME NEW k, NEW j, NEW x PROVE AlikeBodies(body(k, x), k, body(j, x), j)
    <2>1. Alike(samples(k, x), k, samples(j, x), j)
      <3> DEFINE whole(l) == Samples("bcache", BcacheFamilies, <<x.name>>, <<l>>)
                 rates(l, b) == Samples("bcache", BdevFamilies, <<x.name, b.name>>, <<l, "bdev", b.name>>)
                 period(l, b) == BcachePeriodStatsToMetric(x.name, b, <<l, "bdev", b.name>>)
                 bdevs(l) == UNION {rates(l, b) \cup period(l, b) : b \in x.bdevs}
                 cache(l, c) == Samples("bcache", CacheFamilies(e.priorityStats), <<x.name, c>>, <<l, "cache", c>>)
                 caches(l) == UNION {cache(l, c) : c \in x.caches}
      <3>1. \A l : UpdateBcacheStats(l, x, e.priorityStats) = whole(l) \cup bdevs(l) \cup caches(l)
        BY DEF UpdateBcacheStats
      <3>2. /\ Alike(whole(k), k, whole(j), j)
            /\ \A b : Alike(rates(k, b), k, rates(j, b), j)
            /\ \A c : Alike(cache(k, c), k, cache(j, c), j)
        BY TwinSamples
      <3>3. \A b : Alike(period(k, b), k, period(j, b), j)
        BY TwinSamples DEF BcachePeriodStatsToMetric
      <3> HIDE DEF whole, rates, period, cache
      <3>4. Alike(bdevs(k), k, bdevs(j), j)
        BY <3>2, <3>3 DEF Alike, Within
      <3>5. Alike(caches(k), k, caches(j), j)
        BY <3>2 DEF Alike, Within
      <3> HIDE DEF bdevs, caches
      <3>6. Alike(whole(k) \cup bdevs(k) \cup caches(k), k, whole(j) \cup bdevs(j) \cup caches(j), j)
        BY <3>2, <3>4, <3>5, AlikeSets
      <3> QED
        BY <3>1, <3>6
    <2> HIDE DEF samples
    <2> QED
      BY <2>1, AlikeParts
  <1> HIDE DEF body
  <1>2. Shows(Loop(bodies), i, Loop(one))
    <2>1. /\ DOMAIN bodies = DOMAIN e.items /\ DOMAIN bodies \subseteq Nat
          /\ \A k \in DOMAIN bodies : bodies[k] = body(k, e.items[k])
      BY DEF IsSequence
    <2>2. DOMAIN one = {1} /\ one[1] = body(1, e.items[i])
      OBVIOUS
    <2> HIDE DEF bodies, one
    <2> QED
      BY <1>1, <2>1, <2>2, LoopShows
  <1>3. /\ UpdateBcache(e) = Need(e.stats, {}) \bullet Loop(bodies)
        /\ UpdateBcache(e1) = Need(e.stats, {}) \bullet Loop(one)
    BY DEF UpdateBcache, body
  <1> HIDE DEF bodies, one
  <1> QED
    BY <1>2, <1>3, ShowsParts

(* btrfs: the statistics of an item are those of its mount, in any scrape. *)
LEMMA AllocationsAlike ==
    ASSUME NEW x, NEW k, NEW j
    PROVE  \A a : Alike(GetAllocationStats(k, x, a), k, GetAllocationStats(j, x, a), j)
  <1> TAKE a
  <1> DEFINE reserved(l) == Samples("btrfs", {"reserved_bytes"}, <<x.uuid, a>>, <<l, a>>)
             layouts(l) == UNION {GetLayoutStats(l, x, a, layout) : layout \in x.layouts}
  <1>1. \A l : GetAllocationStats(l, x, a) = reserved(l) \cup layouts(l)
    BY DEF GetAllocationStats
  <1>2. Alike(reserved(k), k, reserved(j), j)
    BY TwinSamples
  <1>3. \A layout : Alike(GetLayoutStats(k, x, a, layout), k, GetLayoutStats(j, x, a, layout), j)
    BY TwinSamples DEF GetLayoutStats
  <1> HIDE DEF reserved
  <1>4. Alike(layouts(k), k, layouts(j), j)
    BY <1>3 DEF Alike, Within
  <1> HIDE DEF layouts
  <1>5. Alike(reserved(k) \cup layouts(k), k, reserved(j) \cup layouts(j), j)
    BY <1>2, <1>4, AlikeSets
  <1> QED
    BY <1>1, <1>5

LEMMA IoctlMetricsAlike ==
    ASSUME NEW x, NEW k, NEW j
    PROVE  \A d : Alike(BtrfsIoctlMetrics(k, x, d), k, BtrfsIoctlMetrics(j, x, d), j)
  <1> TAKE d
  <1> DEFINE sizes(l) == Samples("btrfs", {"device_size_bytes", "device_unused_bytes"}, <<x.uuid, d>>, <<l, d>>)
             error(l, t) == Sample(<<"btrfs", "device_errors_total">>, <<x.uuid, t, d>>, <<l, d, t>>)
             errors(l) == {error(l, t) : t \in {"write", "read", "flush", "corruption", "generation"}}
  <1>1. \A l : BtrfsIoctlMetrics(l, x, d) = sizes(l) \cup errors(l)
    BY DEF BtrfsIoctlMetrics
  <1>2. Alike(sizes(k), k, sizes(j), j)
    BY TwinSamples
  <1>3. \A l, m, t : error(l, t).of[1] = l /\ Twin(error(l, t), error(m, t))
    BY TwinTuples
  <1> HIDE DEF sizes, error
  <1>4. Alike(errors(k), k, errors(j), j)
    BY <1>3 DEF Alike, Within
  <1> HIDE DEF errors
  <1>5. Alike(sizes(k) \cup errors(k), k, sizes(j) \cup errors(j), j)
    BY <1>2, <1>4, AlikeSets
  <1> QED
    BY <1>1, <1>5

LEMMA BtrfsShows ==
    ASSUME NEW e, IsSequence(e.items), NEW i \in DOMAIN e.items, NEW e1, e1.items = <<e.items[i]>>,
           e1.stats = e.stats, e1.mountPoints = e.mountPoints, e1.mounts = e.mounts
    PROVE  Shows(UpdateBtrfs(e), i, UpdateBtrfs(e1))
  <1> DEFINE samples(k, x) == GetBtrfsMetrics(k, x, GetIoctlStats(IF e.mountPoints = "ok" THEN e.mounts ELSE <<>>))
             body(k, x) == Send(samples(k, x))
             bodies == [k \in DOMAIN e.items |-> body(k, e.items[k])]
             one == [k \in DOMAIN e1.items |-> body(k, e1.items[k])]
  <1>1. ASSUME NEW k, NEW j, NEW x PROVE AlikeBodies(body(k, x), k, body(j, x), j)
    <2>1. Alike(samples(k, x), k, samples(j, x), j)
      <3> DEFINE stats == GetIoctlStats(IF e.mountPoints = "ok" THEN e.mounts ELSE <<>>)
                 info(l) == Samples("btrfs", {"info"}, <<x.uuid, x.label>>, <<l>>)
                 global(l) == Samples("btrfs", {"global_rsv_size_bytes"}, <<x.uuid>>, <<l>>)
                 allocations(l) == UNION {GetAllocationStats(l, x, a) : a \in {"data", "metadata", "system"}}
                 found == GetIoctlDeviceStats(stats[x.uuid]).devices
                 ioctl(l) == UNION {BtrfsIoctlMetrics(l, x, d) : d \in found}
                 size(l, d) == Samples("btrfs", {"device_size_bytes"}, <<x.uuid, d>>, <<l, d>>)
                 sizes(l) == UNION {size(l, d) : d \in x.devices}
                 devices(l) == IF x.uuid \in DOMAIN stats THEN ioctl(l) ELSE sizes(l)
      <3>1. \A l : samples(l, x) = info(l) \cup global(l) \cup allocations(l) \cup devices(l)
        BY DEF GetBtrfsMetrics
      <3>2. /\ Alike(info(k), k, info(j), j)
            /\ Alike(global(k), k, global(j), j)
            /\ \A d : Alike(size(k, d), k, size(j, d), j)
        BY TwinSamples
      <3> HIDE DEF stats, found, info, global, size
      <3>3. Alike(allocations(k), k, allocations(j), j)
        BY AllocationsAlike DEF Alike, Within
      <3>4. Alike(ioctl(k), k, ioctl(j), j)
        <4>1. \A d : Alike(BtrfsIoctlMetrics(k, x, d), k, BtrfsIoctlMetrics(j, x, d), j)
          BY IoctlMetricsAlike
        <4> QED
          BY <4>1 DEF Alike, Within
      <3>5. Alike(sizes(k), k, sizes(j), j)
        BY <3>2 DEF Alike, Within
      <3> HIDE DEF allocations, ioctl, sizes, samples
      <3>6. Alike(devices(k), k, devices(j), j)
        BY <3>4, <3>5
      <3> HIDE DEF devices
      <3>7. Alike(info(k) \cup global(k) \cup allocations(k) \cup devices(k), k,
                  info(j) \cup global(j) \cup allocations(j) \cup devices(j), j)
        BY <3>2, <3>3, <3>6, AlikeSets
      <3> QED
        BY <3>1, <3>7
    <2> HIDE DEF samples
    <2> QED
      BY <2>1, AlikeParts
  <1> HIDE DEF body
  <1>2. Shows(Loop(bodies), i, Loop(one))
    <2>1. /\ DOMAIN bodies = DOMAIN e.items /\ DOMAIN bodies \subseteq Nat
          /\ \A k \in DOMAIN bodies : bodies[k] = body(k, e.items[k])
      BY DEF IsSequence
    <2>2. DOMAIN one = {1} /\ one[1] = body(1, e.items[i])
      OBVIOUS
    <2> HIDE DEF bodies, one
    <2> QED
      BY <1>1, <2>1, <2>2, LoopShows
  <1>3. /\ UpdateBtrfs(e) = Need(e.stats, {}) \bullet Loop(bodies)
        /\ UpdateBtrfs(e1) = Need(e.stats, {}) \bullet Loop(one)
    BY DEF UpdateBtrfs, body
  <1> HIDE DEF bodies, one
  <1> QED
    BY <1>2, <1>3, ShowsParts

(* ethtool: what is sent of the modes of a device.                         *)
LEMMA SpeedsAlike ==
    ASSUME NEW x, NEW k, NEW j
    PROVE  \A prefix, modes : Alike(UpdateSpeeds(k, x, prefix, modes), k, UpdateSpeeds(j, x, prefix, modes), j)
  <1> TAKE prefix, modes
  <1> DEFINE sample(l, b) == Sample(<<"network", prefix \o "_speed_bytes">>, <<x.name>> \o SpeedModes[b], <<l, prefix, b>>)
  <1>1. \A l, m, b : sample(l, b).of[1] = l /\ Twin(sample(l, b), sample(m, b))
    BY TwinTuples
  <1>2. \A l : UpdateSpeeds(l, x, prefix, modes) = {sample(l, b) : b \in DOMAIN SpeedModes \cap modes}
    BY DEF UpdateSpeeds
  <1> HIDE DEF sample
  <1> QED
    BY <1>1, <1>2 DEF Alike, Within

LEMMA PortInfoAlike ==
    ASSUME NEW x, NEW k, NEW j
    PROVE  \A modes : Alike(UpdatePortInfo(k, x, modes), k, UpdatePortInfo(j, x, modes), j)
  <1> TAKE modes
  <1> DEFINE sample(l, b) == Sample(<<"network", "supported_port_info">>, <<x.name, PortInfo[b]>>, <<l, b>>)
  <1>1. \A l, m, b : sample(l, b).of[1] = l /\ Twin(sample(l, b), sample(m, b))
    BY TwinTuples
  <1>2. \A l : UpdatePortInfo(l, x, modes) = {sample(l, b) : b \in DOMAIN PortInfo \cap modes}
    BY DEF UpdatePortInfo
  <1> HIDE DEF sample
  <1> QED
    BY <1>1, <1>2 DEF Alike, Within

LEMMA EthtoolShows ==
    ASSUME NEW e, IsSequence(e.items), NEW i \in DOMAIN e.items, NEW e1, e1.items = <<e.items[i]>>,
           e1.netClass = e.netClass, e1.flags = e.flags, e1.metrics = e.metrics
    PROVE  Shows(UpdateEthtool(e), i, UpdateEthtool(e1))
  <1> DEFINE samples(k, x) == EthtoolDevice(k, x, e.metrics)
             body(k, x) == IF Ignored(NewEthtoolFilter(e.flags), x.name) THEN Nothing ELSE Send(samples(k, x))
             bodies == [k \in DOMAIN e.items |-> body(k, e.items[k])]
             one == [k \in DOMAIN e1.items |-> body(k, e1.items[k])]
  <1>1. ASSUME NEW k, NEW j, NEW x PROVE AlikeBodies(body(k, x), k, body(j, x), j)
    <2>1. Alike(samples(k, x), k, samples(j, x), j)
      <3> DEFINE supported(l) == UpdateSpeeds(l, x, "supported", x.supported)
                 ports(l) == UpdatePortInfo(l, x, x.supported)
                 can(l) == UpdatePortCapabilities(l, x, "supported")
                 advertised(l) == UpdateSpeeds(l, x, "advertised", x.advertising)
                 may(l) == UpdatePortCapabilities(l, x, "advertised")
                 negotiates(l) == Samples("network", {"autonegotiate"}, <<x.name>>, <<l>>)
                 link(l) == supported(l) \cup ports(l) \cup can(l) \cup advertised(l) \cup may(l) \cup negotiates(l)
                 info(l) == Samples("ethtool", {"info"}, <<x.name, x.driver>>, <<l>>)
                 of(l, s) == Sample(<<"ethtool", EntryWithCreate(s)>>, <<x.name>>, <<l, s.raw>>)
                 kept == Unclashed({t \in x.stats : ~e.metrics.set \/ t.raw \in e.metrics.matches})
                 stats(l) == {of(l, s) : s \in kept}
                 maybe(b, S) == IF b THEN S ELSE {}
      <3>1. \A l : samples(l, x) = maybe(x.linkInfo, link(l)) \cup maybe(x.driverInfo, info(l)) \cup stats(l)
        BY DEF EthtoolDevice
      <3>2. Alike(supported(k), k, supported(j), j) /\ Alike(advertised(k), k, advertised(j), j)
        BY SpeedsAlike
      <3>3. Alike(ports(k), k, ports(j), j)
        BY PortInfoAlike
      <3>4. Alike(can(k), k, can(j), j) /\ Alike(may(k), k, may(j), j)
        BY TwinSamples DEF UpdatePortCapabilities
      <3>5. Alike(negotiates(k), k, negotiates(j), j) /\ Alike(info(k), k, info(j), j)
        BY TwinSamples
      <3>6. \A l, m, s : of(l, s).of[1] = l /\ Twin(of(l, s), of(m, s))
        BY TwinTuples
      <3> HIDE DEF supported, ports, can, advertised, may, negotiates, info, of, kept, samples
      <3>7. Alike(stats(k), k, stats(j), j)
        BY <3>6 DEF Alike, Within
      <3> HIDE DEF stats
      <3>8. Alike(link(k), k, link(j), j)
        BY <3>2, <3>3, <3>4, <3>5, AlikeSets
      <3> HIDE DEF link
      <3>9. /\ Alike(maybe(x.linkInfo, link(k)), k, maybe(x.linkInfo, link(j)), j)
            /\ Alike(maybe(x.driverInfo, info(k)), k, maybe(x.driverInfo, info(j)), j)
        BY <3>5, <3>8, AlikeSets
      <3> HIDE DEF maybe
      <3>10. Alike(maybe(x.linkInfo, link(k)) \cup maybe(x.driverInfo, info(k)) \cup stats(k), k,
                   maybe(x.linkInfo, link(j)) \cup maybe(x.driverInfo, info(j)) \cup stats(j), j)
        BY <3>7, <3>9, AlikeSets
      <3> QED
        BY <3>1, <3>10
    <2> HIDE DEF samples
    <2> QED
      BY <2>1, AlikeParts
  <1> HIDE DEF body
  <1>2. Shows(Loop(bodies), i, Loop(one))
    <2>1. /\ DOMAIN bodies = DOMAIN e.items /\ DOMAIN bodies \subseteq Nat
          /\ \A k \in DOMAIN bodies : bodies[k] = body(k, e.items[k])
      BY DEF IsSequence
    <2>2. DOMAIN one = {1} /\ one[1] = body(1, e.items[i])
      OBVIOUS
    <2> HIDE DEF bodies, one
    <2> QED
      BY <1>1, <2>1, <2>2, LoopShows
  <1> DEFINE guard(f) == Need(f.netClass, {"notexist", "permission"}) \bullet Check(f.items # <<>>, "error")
  <1>3. UpdateEthtool(e) = guard(e) \bullet Loop(bodies) /\ UpdateEthtool(e1) = guard(e1) \bullet Loop(one)
    BY DEF UpdateEthtool, body
  <1>4. e.items # <<>> /\ e1.items # <<>>
    BY DEF IsSequence
  <1>5. Check(e.items # <<>>, "error") = Nothing /\ Check(e1.items # <<>>, "error") = Nothing
    BY <1>4 DEF Check
  <1>6. Shows(guard(e), i, guard(e1))
    BY <1>5, ShowsParts
  <1> HIDE DEF bodies, one, guard
  <1> QED
    BY <1>2, <1>3, <1>6, ShowsParts

LEMMA WifiShows ==
    ASSUME NEW e, IsSequence(e.items), NEW i \in DOMAIN e.items, NEW e1, e1.items = <<e.items[i]>>,
           e1.stater = e.stater, e1.interfaces = e.interfaces
    PROVE  Shows(UpdateWifi(e), i, UpdateWifi(e1))
  <1> DEFINE maybe(read, S) == IF read = "notexist" THEN Nothing ELSE Need(read, {}) \bullet Send(S)
             frequency(k, x) == Send(Samples("wifi", {"interface_frequency_hertz"}, <<x.name>>, <<k>>))
             bss(k, x) == maybe(x.bssRead, UpdateBSSStats(k, x.name, x.bss))
             each(k, x) == UNION {UpdateStationStats(k, x.name, s) : s \in x.stations}
             stations(k, x) == maybe(x.stationRead, each(k, x))
             body(k, x) == IF x.name = "" THEN Nothing ELSE frequency(k, x) \bullet bss(k, x) \bullet stations(k, x)
             bodies == [k \in DOMAIN e.items |-> body(k, e.items[k])]
             one == [k \in DOMAIN e1.items |-> body(k, e1.items[k])]
  <1>1. ASSUME NEW k, NEW j, NEW x PROVE AlikeBodies(body(k, x), k, body(j, x), j)
    <2>1. AlikeBodies(frequency(k, x), k, frequency(j, x), j)
      BY TwinSamples, AlikeParts
    <2>2. \A r, S, T : Alike(S, k, T, j) => AlikeBodies(maybe(r, S), k, maybe(r, T), j)
      BY AlikeParts
    <2>3. Alike(UpdateBSSStats(k, x.name, x.bss), k, UpdateBSSStats(j, x.name, x.bss), j)
      <3> DEFINE sample(l) == Sample(<<"wifi", "station_info">>, <<x.name, x.bss.bssid, BSSStatusMode(x.bss.status)>>, <<l>>)
      <3>1. \A l, m : sample(l).of[1] = l /\ Twin(sample(l), sample(m))
        BY TwinTuples
      <3>2. \A l : UpdateBSSStats(l, x.name, x.bss) = {sample(l)}
        BY DEF UpdateBSSStats
      <3> HIDE DEF sample
      <3> QED
        BY <3>1, <3>2 DEF Alike, Within
    <2>4. Alike(each(k, x), k, each(j, x), j)
      <3>1. \A s : Alike(UpdateStationStats(k, x.name, s), k, UpdateStationStats(j, x.name, s), j)
        BY TwinSamples DEF UpdateStationStats
      <3> QED
        BY <3>1 DEF Alike, Within
    <2> HIDE DEF maybe, each
    <2>5. AlikeBodies(bss(k, x), k, bss(j, x), j) /\ AlikeBodies(stations(k, x), k, stations(j, x), j)
      BY <2>2, <2>3, <2>4
    <2> HIDE DEF frequency, bss, stations
    <2> QED
      BY <2>1, <2>5, AlikeParts
  <1> HIDE DEF body
  <1>2. Shows(Loop(bodies), i, Loop(one))
    <2>1. /\ DOMAIN bodies = DOMAIN e.items /\ DOMAIN bodies \subseteq Nat
          /\ \A k \in DOMAIN bodies : bodies[k] = body(k, e.items[k])
      BY DEF IsSequence
    <2>2. DOMAIN one = {1} /\ one[1] = body(1, e.items[i])
      OBVIOUS
    <2> HIDE DEF bodies, one
    <2> QED
      BY <1>1, <2>1, <2>2, LoopShows
  <1>3. /\ UpdateWifi(e) = Need(e.stater, {"notexist", "permission"}) \bullet Need(e.interfaces, {}) \bullet Loop(bodies)
        /\ UpdateWifi(e1) = Need(e.stater, {"notexist", "permission"}) \bullet Need(e.interfaces, {}) \bullet Loop(one)
    BY DEF UpdateWifi, body
  <1> HIDE DEF bodies, one
  <1> QED
    BY <1>2, <1>3, ShowsParts

LEMMA RaplShows ==
    ASSUME NEW e, IsSequence(e.items), NEW i \in DOMAIN e.items, NEW e1, e1.items = <<e.items[i]>>,
           e1.zones = e.zones, e1.zoneLabel = e.zoneLabel
    PROVE  Shows(UpdateRapl(e), i, UpdateRapl(e1))
  <1> DEFINE sample(k, x) ==
               IF e.zoneLabel THEN Sample(<<"rapl", "joules_total">>, <<x.index, x.path, x.name>>, <<k>>)
               ELSE Sample(<<"rapl", x.name \o "_joules_total">>, <<x.index, x.path>>, <<k>>)
             body(k, x) == Need(x.read, {"permission"}) \bullet Send({sample(k, x)})
             bodies == [k \in DOMAIN e.items |-> body(k, e.items[k])]
             one == [k \in DOMAIN e1.items |-> body(k, e1.items[k])]
  <1>1. ASSUME NEW k, NEW j, NEW x PROVE AlikeBodies(body(k, x), k, body(j, x), j)
    <2>1. \A l, m : sample(l, x).of[1] = l /\ Twin(sample(l, x), sample(m, x))
      BY TwinTuples
    <2> HIDE DEF sample
    <2>2. Alike({sample(k, x)}, k, {sample(j, x)}, j)
      BY <2>1 DEF Alike, Within
    <2> QED
      BY <2>2, AlikeParts
  <1> HIDE DEF body
  <1>2. Shows(Loop(bodies), i, Loop(one))
    <2>1. /\ DOMAIN bodies = DOMAIN e.items /\ DOMAIN bodies \subseteq Nat
          /\ \A k \in DOMAIN bodies : bodies[k] = body(k, e.items[k])
      BY DEF IsSequence
    <2>2. DOMAIN one = {1} /\ one[1] = body(1, e.items[i])
      OBVIOUS
    <2> HIDE DEF bodies, one
    <2> QED
      BY <1>1, <2>1, <2>2, LoopShows
  <1>3. /\ UpdateRapl(e) = Need(e.zones, {"notexist", "permission"}) \bullet Loop(bodies)
        /\ UpdateRapl(e1) = Need(e.zones, {"notexist", "permission"}) \bullet Loop(one)
    BY DEF UpdateRapl, RaplSample, body
  <1> HIDE DEF bodies, one
  <1> QED
    BY <1>2, <1>3, ShowsParts

(* edac: a count of a controller, or of a row of it.                       *)
LEMMA CountsAlike ==
    ASSUME NEW k, NEW j
    PROVE  \A read, family, labels :
             /\ AlikeBodies(EdacCount(read, family, labels, <<k>>), k, EdacCount(read, family, labels, <<j>>), j)
             /\ \A n : AlikeBodies(EdacCount(read, family, labels, <<k, n>>), k, EdacCount(read, family, labels, <<j, n>>), j)
  <1> TAKE read, family, labels
  <1> DEFINE one(l) == Sample(<<"edac", family>>, labels, <<l>>)
             pair(l, n) == Sample(<<"edac", family>>, labels, <<l, n>>)
  <1>1. /\ \A l, m : one(l).of[1] = l /\ Twin(one(l), one(m))
        /\ \A l, m, n : pair(l, n).of[1] = l /\ Twin(pair(l, n), pair(m, n))
    BY TwinTuples
  <1>2. /\ \A l : EdacCount(read, family, labels, <<l>>) = Need(read, {}) \bullet Send({one(l)})
        /\ \A l, n : EdacCount(read, family, labels, <<l, n>>) = Need(read, {}) \bullet Send({pair(l, n)})
    BY DEF EdacCount
  <1> HIDE DEF one, pair
  <1>3. Alike({one(k)}, k, {one(j)}, j) /\ \A n : Alike({pair(k, n)}, k, {pair(j, n)}, j)
    BY <1>1 DEF Alike, Within
  <1>4. AlikeBodies(Need(read, {}) \bullet Send({one(k)}), k, Need(read, {}) \bullet Send({one(j)}), j)
    BY <1>3, AlikeParts
  <1>5. ASSUME NEW n
        PROVE  AlikeBodies(Need(read, {}) \bullet Send({pair(k, n)}), k, Need(read, {}) \bullet Send({pair(j, n)}), j)
    BY <1>3, AlikeParts
  <1>6. AlikeBodies(EdacCount(read, family, labels, <<k>>), k, EdacCount(read, family, labels, <<j>>), j)
    BY <1>2, <1>4
  <1>7. ASSUME NEW n
        PROVE  AlikeBodies(EdacCount(read, family, labels, <<k, n>>), k, EdacCount(read, family, labels, <<j, n>>), j)
    BY <1>2, <1>5
  <1> QED
    BY <1>6, <1>7

LEMMA EdacShows ==
    ASSUME NEW e, IsSequence(e.items), NEW i \in DOMAIN e.items, NEW e1, e1.items = <<e.items[i]>>,
           \A k \in DOMAIN e.items : IsSequence(e.items[k].rows)
    PROVE  Shows(UpdateEdac(e), i, UpdateEdac(e1))
  <1> DEFINE ce(k, x) == EdacCount(x.ce, "correctable_errors_total", <<x.name>>, <<k>>)
             ceNoinfo(k, x) == EdacCount(x.ceNoinfo, "csrow_correctable_errors_total", <<x.name, "unknown">>, <<k>>)
             ue(k, x) == EdacCount(x.ue, "uncorrectable_errors_total", <<x.name>>, <<k>>)
             ueNoinfo(k, x) == EdacCount(x.ueNoinfo, "csrow_uncorrectable_errors_total", <<x.name, "unknown">>, <<k>>)
             row(k, x, r) ==
               EdacCount(r.ce, "csrow_correctable_errors_total", <<x.name, r.name>>, <<k, r.name>>)
                 \bullet EdacCount(r.ue, "csrow_uncorrectable_errors_total", <<x.name, r.name>>, <<k, r.name>>)
             rows(k, x) == [n \in DOMAIN x.rows |-> row(k, x, x.rows[n])]
             body(k, x) ==
               ce(k, x) \bullet ceNoinfo(k, x) \bullet ue(k, x) \bullet ueNoinfo(k, x) \bullet Loop(rows(k, x))
             bodies == [k \in DOMAIN e.items |-> body(k, e.items[k])]
             one == [k \in DOMAIN e1.items |-> body(k, e1.items[k])]
  <1>1. ASSUME NEW k, NEW j, NEW x, IsSequence(x.rows) PROVE AlikeBodies(body(k, x), k, body(j, x), j)
    <2> DEFINE whole(l) == ce(l, x) \bullet ceNoinfo(l, x) \bullet ue(l, x) \bullet ueNoinfo(l, x)
    <2>1. AlikeBodies(whole(k), k, whole(j), j)
      <3>1. /\ AlikeBodies(ce(k, x), k, ce(j, x), j) /\ AlikeBodies(ceNoinfo(k, x), k, ceNoinfo(j, x), j)
            /\ AlikeBodies(ue(k, x), k, ue(j, x), j) /\ AlikeBodies(ueNoinfo(k, x), k, ueNoinfo(j, x), j)
        BY CountsAlike
      <3> HIDE DEF ce, ceNoinfo, ue, ueNoinfo
      <3> QED
        BY <3>1, AlikeParts
    <2>2. \A n \in DOMAIN x.rows : AlikeBodies(row(k, x, x.rows[n]), k, row(j, x, x.rows[n]), j)
      BY CountsAlike, AlikeParts
    <2> HIDE DEF whole, row
    <2>3. AlikeBodies(Loop(rows(k, x)), k, Loop(rows(j, x)), j)
      <3>1. /\ DOMAIN rows(k, x) = DOMAIN rows(j, x) /\ DOMAIN rows(k, x) \subseteq Nat
            /\ \A n \in DOMAIN rows(k, x) : AlikeBodies(rows(k, x)[n], k, rows(j, x)[n], j)
        BY <1>1, <2>2 DEF IsSequence
      <3> HIDE DEF rows
      <3> QED
        BY <3>1, AlikeLoops
    <2> HIDE DEF rows
    <2>4. AlikeBodies(whole(k) \bullet Loop(rows(k, x)), k, whole(j) \bullet Loop(rows(j, x)), j)
      BY <2>1, <2>3, AlikeParts
    <2> QED
      BY <2>4 DEF whole
  <1> HIDE DEF body
  <1>2. Shows(Loop(bodies), i, Loop(one))
    <2>1. /\ DOMAIN bodies = DOMAIN e.items /\ DOMAIN bodies \subseteq Nat
          /\ \A k \in DOMAIN bodies : bodies[k] = body(k, e.items[k])
      BY DEF IsSequence
    <2>2. DOMAIN one = {1} /\ one[1] = body(1, e.items[i])
      OBVIOUS
    <2> HIDE DEF bodies, one
    <2>3. \A k \in DOMAIN bodies : AlikeBodies(bodies[k], k, body(1, e.items[k]), 1)
      BY <1>1, <2>1
    <2> QED
      BY <2>1, <2>2, <2>3, LoopShows
  <1>3. UpdateEdac(e) = Loop(bodies) /\ UpdateEdac(e1) = Loop(one)
    BY DEF UpdateEdac, body
  <1> HIDE DEF bodies, one
  <1> QED
    BY <1>2, <1>3

(* Two and three loops one after the other.                                *)
LEMMA NetDevShows ==
    ASSUME NEW e, IsSequence(e.items), NEW i \in DOMAIN e.items, NEW e1, e1.items = <<e.items[i]>>,
           e1.flags = e.flags, e1.stats = e.stats, e1.netlink = e.netlink, e1.detailed = e.detailed, e1.addressInfo = e.addressInfo, e1.interfaces = e.interfaces
    PROVE  Shows(UpdateNetDev(e), i, UpdateNetDev(e1))
  <1> DEFINE stats == IF e.netlink THEN NetlinkStats ELSE ProcNetDevStats
             shown == IF e.detailed THEN stats ELSE Legacy(stats)
             filter == NewNetDevFilter(e.flags)
             sample(k, x, n) == Sample(<<"network", n \o "_total">>, <<x.name>>, <<k, shown[n]>>)
             samples(k, x) == {sample(k, x, n) : n \in DOMAIN shown}
             info(k, x, a) == Sample(<<"network_address", "info">>, <<x.name, a.ip, a.size, Scope(a.kind)>>, <<k, a>>)
             parsed(x) == {a \in x.addresses : a.parses}
             addresses(k, x) == IF x.addrs # "ok" THEN {} ELSE {info(k, x, a) : a \in parsed(x)}
             bodyN(k, x) == Check(Ignored(filter, x.name) \/ x.stats64 \/ ~e.netlink, "panic")
             bodyS(k, x) == IF ~Ignored(filter, x.name) THEN Send(samples(k, x)) ELSE Nothing
             bodyA(k, x) == Send(addresses(k, x))
             bodiesN == [k \in DOMAIN e.items |-> bodyN(k, e.items[k])]
             bodiesS == [k \in DOMAIN e.items |-> bodyS(k, e.items[k])]
             bodiesA == [k \in DOMAIN e.items |-> bodyA(k, e.items[k])]
             oneN == [k \in DOMAIN e1.items |-> bodyN(k, e1.items[k])]
             oneS == [k \in DOMAIN e1.items |-> bodyS(k, e1.items[k])]
             oneA == [k \in DOMAIN e1.items |-> bodyA(k, e1.items[k])]
  <1>2. ASSUME NEW k, NEW j, NEW x PROVE AlikeBodies(bodyS(k, x), k, bodyS(j, x), j)
    <2> HIDE DEF stats, shown, filter
    <2>1. \A l, m, c : sample(l, x, c).of[1] = l /\ Twin(sample(l, x, c), sample(m, x, c))
      BY TwinTuples
    <2> HIDE DEF sample
    <2>2. Alike(samples(k, x), k, samples(j, x), j)
      BY <2>1 DEF Alike, Within
    <2> HIDE DEF samples
    <2> QED
      BY <2>2, AlikeParts
  <1>3. ASSUME NEW k, NEW j, NEW x PROVE AlikeBodies(bodyA(k, x), k, bodyA(j, x), j)
    <2>1. \A l, m, a : info(l, x, a).of[1] = l /\ Twin(info(l, x, a), info(m, x, a))
      BY TwinTuples
    <2> HIDE DEF info, parsed
    <2>2. Alike(addresses(k, x), k, addresses(j, x), j)
      BY <2>1 DEF Alike, Within
    <2> HIDE DEF addresses
    <2> QED
      BY <2>2, AlikeParts
  <1>1. ASSUME NEW k, NEW j, NEW x PROVE AlikeBodies(bodyN(k, x), k, bodyN(j, x), j)
    BY AlikeParts
  <1> HIDE DEF bodyN, bodyS, bodyA
  <1>4. Shows(Loop(bodiesN), i, Loop(oneN))
    <2>1. /\ DOMAIN bodiesN = DOMAIN e.items /\ DOMAIN bodiesN \subseteq Nat
          /\ \A k \in DOMAIN bodiesN : bodiesN[k] = bodyN(k, e.items[k])
      BY DEF IsSequence
    <2>2. DOMAIN oneN = {1} /\ oneN[1] = bodyN(1, e.items[i])
      OBVIOUS
    <2> HIDE DEF bodiesN, oneN
    <2>3. \A k \in DOMAIN bodiesN : AlikeBodies(bodiesN[k], k, bodyN(1, e.items[k]), 1)
      BY <1>1, <2>1
    <2>4. AlikeBodies(bodiesN[i], i, oneN[1], 1)
      BY <1>1, <2>1, <2>2
    <2> QED
      BY <2>1, <2>2, <2>3, <2>4, LoopShows
  <1>5. Shows(Loop(bodiesS), i, Loop(oneS))
    <2>1. /\ DOMAIN bodiesS = DOMAIN e.items /\ DOMAIN bodiesS \subseteq Nat
          /\ \A k \in DOMAIN bodiesS : bodiesS[k] = bodyS(k, e.items[k])
      BY DEF IsSequence
    <2>2. DOMAIN oneS = {1} /\ oneS[1] = bodyS(1, e.items[i])
      OBVIOUS
    <2> HIDE DEF bodiesS, oneS
    <2>3. \A k \in DOMAIN bodiesS : AlikeBodies(bodiesS[k], k, bodyS(1, e.items[k]), 1)
      BY <1>2, <2>1
    <2>4. AlikeBodies(bodiesS[i], i, oneS[1], 1)
      BY <1>2, <2>1, <2>2
    <2> QED
      BY <2>1, <2>2, <2>3, <2>4, LoopShows
  <1>6. Shows(Loop(bodiesA), i, Loop(oneA))
    <2>1. /\ DOMAIN bodiesA = DOMAIN e.items /\ DOMAIN bodiesA \subseteq Nat
          /\ \A k \in DOMAIN bodiesA : bodiesA[k] = bodyA(k, e.items[k])
      BY DEF IsSequence
    <2>2. DOMAIN oneA = {1} /\ oneA[1] = bodyA(1, e.items[i])
      OBVIOUS
    <2> HIDE DEF bodiesA, oneA
    <2>3. \A k \in DOMAIN bodiesA : AlikeBodies(bodiesA[k], k, bodyA(1, e.items[k]), 1)
      BY <1>3, <2>1
    <2>4. AlikeBodies(bodiesA[i], i, oneA[1], 1)
      BY <1>3, <2>1, <2>2
    <2> QED
      BY <2>1, <2>2, <2>3, <2>4, LoopShows
  <1> DEFINE guard == Check(filter.built, "unbuilt")
             read == Need(e.stats, {})
             rest(l) == IF ~e.addressInfo THEN Nothing ELSE Need(e.interfaces, {}) \bullet Loop(l)
  <1>7. UpdateNetDev(e) = guard \bullet (read \bullet Loop(bodiesN)) \bullet Loop(bodiesS) \bullet rest(bodiesA)
    <2>1. \A k \in DOMAIN e.items : NetDevSamples(e, k) = samples(k, e.items[k])
      BY DEF NetDevSamples, NetDevStats
    <2>2. \A k \in DOMAIN e.items : AddrInfo(k, e.items[k]) = addresses(k, e.items[k])
      BY DEF AddrInfo
    <2> HIDE DEF samples, addresses
    <2>3. /\ bodiesS = [k \in DOMAIN e.items |->
                         IF ~Ignored(filter, e.items[k].name) THEN Send(NetDevSamples(e, k)) ELSE Nothing]
          /\ bodiesA = [k \in DOMAIN e.items |-> Send(AddrInfo(k, e.items[k]))]
          /\ bodiesN = [k \in DOMAIN e.items |->
                         Check(Ignored(filter, e.items[k].name) \/ e.items[k].stats64 \/ ~e.netlink, "panic")]
      BY <2>1, <2>2 DEF bodyN, bodyS, bodyA
    <2> HIDE DEF bodiesN, bodiesS, bodiesA
    <2> QED
      BY <2>3 DEF UpdateNetDev, GetNetDevStats
  <1>8. UpdateNetDev(e1) = guard \bullet (read \bullet Loop(oneN)) \bullet Loop(oneS) \bullet rest(oneA)
    <2>1. \A k \in DOMAIN e1.items : NetDevSamples(e1, k) = samples(k, e1.items[k])
      BY DEF NetDevSamples, NetDevStats
    <2>2. \A k \in DOMAIN e1.items : AddrInfo(k, e1.items[k]) = addresses(k, e1.items[k])
      BY DEF AddrInfo
    <2> HIDE DEF samples, addresses
    <2>3. /\ oneS = [k \in DOMAIN e1.items |->
                     IF ~Ignored(filter, e1.items[k].name) THEN Send(NetDevSamples(e1, k)) ELSE Nothing]
          /\ oneA = [k \in DOMAIN e1.items |-> Send(AddrInfo(k, e1.items[k]))]
          /\ oneN = [k \in DOMAIN e1.items |->
                     Check(Ignored(filter, e1.items[k].name) \/ e1.items[k].stats64 \/ ~e1.netlink, "panic")]
      BY <2>1, <2>2 DEF bodyN, bodyS, bodyA
    <2> HIDE DEF oneN, oneS, oneA
    <2> QED
      BY <2>3 DEF UpdateNetDev, GetNetDevStats
  <1> HIDE DEF bodiesN, bodiesS, bodiesA, oneN, oneS, oneA
  <1>9. Shows(guard, i, guard) /\ Shows(read, i, read) /\ Shows(rest(bodiesA), i, rest(oneA))
    BY <1>6, ShowsParts
  <1> HIDE DEF guard, read, rest
  <1> QED
    BY <1>5, <1>7, <1>8, <1>9, <1>4, ShowsParts

LEMMA NetClassSysfsShows ==
    ASSUME NEW e, IsSequence(e.items), NEW i \in DOMAIN e.items, NEW e1, e1.items = <<e.items[i]>>,
           e1.devices = e.devices, e1.ignoreInvalidSpeed = e.ignoreInvalidSpeed
    PROVE  Shows(NetClassSysfsUpdate(e), i, NetClassSysfsUpdate(e1))
  <1> DEFINE skip(x, b) == IF x.ignored THEN Nothing ELSE b
             up(k, x) == Samples("network", {"up"}, <<x.name>>, <<k>>)
             fields(k, x) == Samples("network", NetClassFields \ x.missing, <<x.name>>, <<k>>)
             speed(k, x) == Samples("network", {"speed_bytes"}, <<x.name>>, <<k>>)
             maybe(c, S) == IF c THEN S ELSE {}
             info(k, x) == Samples("network", {"info"}, <<x.name, x.operstate, AdminState(x.flags)>>, <<k>>)
             samples(k, x) == up(k, x) \cup info(k, x) \cup fields(k, x) \cup maybe(SendsSpeed(e, x.speed), speed(k, x))
             bodyR(k, x) == skip(x, Need(x.read, {"notexist", "permission"}))
             bodyS(k, x) == skip(x, Send(samples(k, x)))
             bodiesR == [k \in DOMAIN e.items |-> bodyR(k, e.items[k])]
             bodiesS == [k \in DOMAIN e.items |-> bodyS(k, e.items[k])]
             oneR == [k \in DOMAIN e1.items |-> bodyR(k, e1.items[k])]
             oneS == [k \in DOMAIN e1.items |-> bodyS(k, e1.items[k])]
  <1>1. ASSUME NEW k, NEW j, NEW x PROVE AlikeBodies(bodyR(k, x), k, bodyR(j, x), j)
    BY AlikeParts
  <1>2. ASSUME NEW k, NEW j, NEW x PROVE AlikeBodies(bodyS(k, x), k, bodyS(j, x), j)
    <2>1. /\ Alike(up(k, x), k, up(j, x), j) /\ Alike(info(k, x), k, info(j, x), j)
          /\ Alike(fields(k, x), k, fields(j, x), j) /\ Alike(speed(k, x), k, speed(j, x), j)
      BY TwinSamples
    <2> HIDE DEF up, info, fields, speed
    <2>2. \A c, S, U : Alike(S, k, U, j) => Alike(maybe(c, S), k, maybe(c, U), j)
      BY AlikeSets
    <2> HIDE DEF maybe
    <2>3. Alike(samples(k, x), k, samples(j, x), j)
      BY <2>1, <2>2, AlikeSets
    <2> HIDE DEF samples
    <2> QED
      BY <2>3, AlikeParts
  <1> HIDE DEF bodyR, bodyS
  <1>3. Shows(Loop(bodiesR), i, Loop(oneR))
    <2>1. /\ DOMAIN bodiesR = DOMAIN e.items /\ DOMAIN bodiesR \subseteq Nat
          /\ \A k \in DOMAIN bodiesR : bodiesR[k] = bodyR(k, e.items[k])
      BY DEF IsSequence
    <2>2. DOMAIN oneR = {1} /\ oneR[1] = bodyR(1, e.items[i])
      OBVIOUS
    <2> HIDE DEF bodiesR, oneR
    <2>3. \A k \in DOMAIN bodiesR : AlikeBodies(bodiesR[k], k, bodyR(1, e.items[k]), 1)
      BY <1>1, <2>1
    <2>4. AlikeBodies(bodiesR[i], i, oneR[1], 1)
      BY <1>1, <2>1, <2>2
    <2> QED
      BY <2>1, <2>2, <2>3, <2>4, LoopShows
  <1>4. Shows(Loop(bodiesS), i, Loop(oneS))
    <2>1. /\ DOMAIN bodiesS = DOMAIN e.items /\ DOMAIN bodiesS \subseteq Nat
          /\ \A k \in DOMAIN bodiesS : bodiesS[k] = bodyS(k, e.items[k])
      BY DEF IsSequence
    <2>2. DOMAIN oneS = {1} /\ oneS[1] = bodyS(1, e.items[i])
      OBVIOUS
    <2> HIDE DEF bodiesS, oneS
    <2>3. \A k \in DOMAIN bodiesS : AlikeBodies(bodiesS[k], k, bodyS(1, e.items[k]), 1)
      BY <1>2, <2>1
    <2>4. AlikeBodies(bodiesS[i], i, oneS[1], 1)
      BY <1>2, <2>1, <2>2
    <2> QED
      BY <2>1, <2>2, <2>3, <2>4, LoopShows
  <1> DEFINE guard == Need(e.devices, {"notexist", "permission"})
  <1>5. NetClassSysfsUpdate(e) = (guard \bullet Loop(bodiesR)) \bullet Loop(bodiesS)
    <2>1. \A k \in DOMAIN e.items : NetClassSamples(e, k) = samples(k, e.items[k])
      BY DEF NetClassSamples
    <2> HIDE DEF samples
    <2>2. /\ bodiesR = [k \in DOMAIN e.items |->
             IF e.items[k].ignored THEN Nothing ELSE Need(e.items[k].read, {"notexist", "permission"})]
          /\ bodiesS = [k \in DOMAIN e.items |->
             IF e.items[k].ignored THEN Nothing ELSE Send(NetClassSamples(e, k))]
      BY <2>1 DEF bodyR, bodyS
    <2> HIDE DEF bodiesR, bodiesS
    <2> QED
      BY <2>2 DEF NetClassSysfsUpdate, NetClassInfo
  <1>6. NetClassSysfsUpdate(e1) = (guard \bullet Loop(oneR)) \bullet Loop(oneS)
    <2>1. \A k \in DOMAIN e1.items : NetClassSamples(e1, k) = samples(k, e1.items[k])
      BY DEF NetClassSamples, SendsSpeed
    <2> HIDE DEF samples
    <2>2. /\ oneR = [k \in DOMAIN e1.items |->
             IF e1.items[k].ignored THEN Nothing ELSE Need(e1.items[k].read, {"notexist", "permission"})]
          /\ oneS = [k \in DOMAIN e1.items |->
             IF e1.items[k].ignored THEN Nothing ELSE Send(NetClassSamples(e1, k))]
      BY <2>1 DEF bodyR, bodyS
    <2> HIDE DEF oneR, oneS
    <2> QED
      BY <2>2 DEF NetClassSysfsUpdate, NetClassInfo
  <1> HIDE DEF bodiesR, bodiesS, oneR, oneS
  <1>7. Shows(guard, i, guard)
    BY ShowsParts
  <1> HIDE DEF guard
  <1> QED
    BY <1>3, <1>4, <1>5, <1>6, <1>7, ShowsParts

LEMMA NetClassRTNLShows ==
    ASSUME NEW e, IsSequence(e.items), NEW i \in DOMAIN e.items, NEW e1, e1.items = <<e.items[i]>>,
           e1.devices = e.devices, e1.linkModes = e.linkModes, e1.withStats = e.withStats
    PROVE  Shows(NetClassRTNLUpdate(e), i, NetClassRTNLUpdate(e1))
  <1> DEFINE skip(x, b) == IF x.ignored THEN Nothing ELSE b
             up(k, x) == Samples("network", {"up"}, <<x.name>>, <<k>>)
             fields(k, x) == Samples("network", NetClassFields \ x.missing, <<x.name>>, <<k>>)
             speed(k, x) == Samples("network", {"speed_bytes"}, <<x.name>>, <<k>>)
             maybe(c, S) == IF c THEN S ELSE {}
             info(k, x) == Samples("network", {"info"}, <<x.name, x.operstate>>, <<k>>)
             stats(k, x) == Samples("network", RTNLStats, <<x.name>>, <<k>>)
             samples(k, x) == up(k, x) \cup info(k, x) \cup fields(k, x) \cup maybe(e.withStats /\ x.stats64, stats(k, x))
             bodyV(k, x) == IF x.ignored \/ ~x.speed.given \/ x.speed.value < 0 THEN Nothing ELSE Send(speed(k, x))
             bodyR(k, x) == skip(x, Need(x.read, {}))
             bodyS(k, x) == skip(x, Send(samples(k, x)))
             bodiesV == [k \in DOMAIN e.items |-> bodyV(k, e.items[k])]
             bodiesR == [k \in DOMAIN e.items |-> bodyR(k, e.items[k])]
             bodiesS == [k \in DOMAIN e.items |-> bodyS(k, e.items[k])]
             oneV == [k \in DOMAIN e1.items |-> bodyV(k, e1.items[k])]
             oneR == [k \in DOMAIN e1.items |-> bodyR(k, e1.items[k])]
             oneS == [k \in DOMAIN e1.items |-> bodyS(k, e1.items[k])]
  <1>1. ASSUME NEW k, NEW j, NEW x PROVE AlikeBodies(bodyV(k, x), k, bodyV(j, x), j)
    <2>1. Alike(speed(k, x), k, speed(j, x), j)
      BY TwinSamples
    <2> HIDE DEF speed
    <2> QED
      BY <2>1, AlikeParts
  <1>2. ASSUME NEW k, NEW j, NEW x PROVE AlikeBodies(bodyR(k, x), k, bodyR(j, x), j)
    BY AlikeParts
  <1>3. ASSUME NEW k, NEW j, NEW x PROVE AlikeBodies(bodyS(k, x), k, bodyS(j, x), j)
    <2>1. /\ Alike(up(k, x), k, up(j, x), j) /\ Alike(info(k, x), k, info(j, x), j)
          /\ Alike(fields(k, x), k, fields(j, x), j) /\ Alike(stats(k, x), k, stats(j, x), j)
      BY TwinSamples
    <2> HIDE DEF up, info, fields, stats
    <2>2. \A c, S, U : Alike(S, k, U, j) => Alike(maybe(c, S), k, maybe(c, U), j)
      BY AlikeSets
    <2> HIDE DEF maybe
    <2>3. Alike(samples(k, x), k, samples(j, x), j)
      BY <2>1, <2>2, AlikeSets
    <2> HIDE DEF samples
    <2> QED
      BY <2>3, AlikeParts
  <1> HIDE DEF bodyV, bodyR, bodyS
  <1>4. Shows(Loop(bodiesV), i, Loop(oneV))
    <2>1. /\ DOMAIN bodiesV = DOMAIN e.items /\ DOMAIN bodiesV \subseteq Nat
          /\ \A k \in DOMAIN bodiesV : bodiesV[k] = bodyV(k, e.items[k])
      BY DEF IsSequence
    <2>2. DOMAIN oneV = {1} /\ oneV[1] = bodyV(1, e.items[i])
      OBVIOUS
    <2> HIDE DEF bodiesV, oneV
    <2>3. \A k \in DOMAIN bodiesV : AlikeBodies(bodiesV[k], k, bodyV(1, e.items[k]), 1)
      BY <1>1, <2>1
    <2>4. AlikeBodies(bodiesV[i], i, oneV[1], 1)
      BY <1>1, <2>1, <2>2
    <2> QED
      BY <2>1, <2>2, <2>3, <2>4, LoopShows
  <1>5. Shows(Loop(bodiesR), i, Loop(oneR))
    <2>1. /\ DOMAIN bodiesR = DOMAIN e.items /\ DOMAIN bodiesR \subseteq Nat
          /\ \A k \in DOMAIN bodiesR : bodiesR[k] = bodyR(k, e.items[k])
      BY DEF IsSequence
    <2>2. DOMAIN oneR = {1} /\ oneR[1] = bodyR(1, e.items[i])
      OBVIOUS
    <2> HIDE DEF bodiesR, oneR
    <2>3. \A k \in DOMAIN bodiesR : AlikeBodies(bodiesR[k], k, bodyR(1, e.items[k]), 1)
      BY <1>2, <2>1
    <2>4. AlikeBodies(bodiesR[i], i, oneR[1], 1)
      BY <1>2, <2>1, <2>2
    <2> QED
      BY <2>1, <2>2, <2>3, <2>4, LoopShows
  <1>6. Shows(Loop(bodiesS), i, Loop(oneS))
    <2>1. /\ DOMAIN bodiesS = DOMAIN e.items /\ DOMAIN bodiesS \subseteq Nat
          /\ \A k \in DOMAIN bodiesS : bodiesS[k] = bodyS(k, e.items[k])
      BY DEF IsSequence
    <2>2. DOMAIN oneS = {1} /\ oneS[1] = bodyS(1, e.items[i])
      OBVIOUS
    <2> HIDE DEF bodiesS, oneS
    <2>3. \A k \in DOMAIN bodiesS : AlikeBodies(bodiesS[k], k, bodyS(1, e.items[k]), 1)
      BY <1>3, <2>1
    <2>4. AlikeBodies(bodiesS[i], i, oneS[1], 1)
      BY <1>3, <2>1, <2>2
    <2> QED
      BY <2>1, <2>2, <2>3, <2>4, LoopShows
  <1> DEFINE guard == Need(e.devices, {})
             speeds(l) == IF e.linkModes = "notexist" THEN Nothing ELSE Need(e.linkModes, {}) \bullet Loop(l)
  <1>7. NetClassRTNLUpdate(e) = speeds(bodiesV) \bullet guard \bullet Loop(bodiesR) \bullet Loop(bodiesS)
    <2>1. \A k \in DOMAIN e.items : RTNLSamples(e, k) = samples(k, e.items[k])
      BY DEF RTNLSamples
    <2> HIDE DEF samples
    <2>2. /\ bodiesV = [k \in DOMAIN e.items |->
             IF e.items[k].ignored \/ ~e.items[k].speed.given \/ e.items[k].speed.value < 0
             THEN Nothing ELSE Send(Samples("network", {"speed_bytes"}, <<e.items[k].name>>, <<k>>))]
          /\ bodiesR = [k \in DOMAIN e.items |->
             IF e.items[k].ignored THEN Nothing ELSE Need(e.items[k].read, {})]
          /\ bodiesS = [k \in DOMAIN e.items |->
             IF e.items[k].ignored THEN Nothing ELSE Send(RTNLSamples(e, k))]
      BY <2>1 DEF bodyV, bodyR, bodyS
    <2> HIDE DEF bodiesV, bodiesR, bodiesS
    <2> QED
      BY <2>2 DEF NetClassRTNLUpdate, RTNLSpeeds, SysfsAttributes
  <1>8. NetClassRTNLUpdate(e1) = speeds(oneV) \bullet guard \bullet Loop(oneR) \bullet Loop(oneS)
    <2>1. \A k \in DOMAIN e1.items : RTNLSamples(e1, k) = samples(k, e1.items[k])
      BY DEF RTNLSamples
    <2> HIDE DEF samples
    <2>2. /\ oneV = [k \in DOMAIN e1.items |->
             IF e1.items[k].ignored \/ ~e1.items[k].speed.given \/ e1.items[k].speed.value < 0
             THEN Nothing ELSE Send(Samples("network", {"speed_bytes"}, <<e1.items[k].name>>, <<k>>))]
          /\ oneR = [k \in DOMAIN e1.items |->
             IF e1.items[k].ignored THEN Nothing ELSE Need(e1.items[k].read, {})]
          /\ oneS = [k \in DOMAIN e1.items |->
             IF e1.items[k].ignored THEN Nothing ELSE Send(RTNLSamples(e1, k))]
      BY <2>1 DEF bodyV, bodyR, bodyS
    <2> HIDE DEF oneV, oneR, oneS
    <2> QED
      BY <2>2 DEF NetClassRTNLUpdate, RTNLSpeeds, SysfsAttributes
  <1> HIDE DEF bodiesV, bodiesR, bodiesS, oneV, oneR, oneS
  <1>9. Shows(guard, i, guard) /\ Shows(speeds(bodiesV), i, speeds(oneV))
    BY <1>4, ShowsParts
  <1> HIDE DEF guard, speeds
  <1> QED
    BY <1>5, <1>6, <1>7, <1>8, <1>9, ShowsParts

LEMMA NetClassShows ==
    ASSUME NEW e, IsSequence(e.items), NEW i \in DOMAIN e.items, NEW e1, e1.items = <<e.items[i]>>,
           e1.netlink = e.netlink, e1.devices = e.devices, e1.ignoreInvalidSpeed = e.ignoreInvalidSpeed,
           e1.linkModes = e.linkModes, e1.withStats = e.withStats
    PROVE  Shows(UpdateNetClass(e), i, UpdateNetClass(e1))
  BY NetClassSysfsShows, NetClassRTNLShows DEF UpdateNetClass

(* A loop that only sends.                                                 *)
LEMMA LoopOfSends ==
    ASSUME NEW f, NEW bodies, DOMAIN bodies = DOMAIN f, \A k \in DOMAIN f : bodies[k] = Send(f[k])
    PROVE  Loop(bodies) = Send(UNION {f[k] : k \in DOMAIN f})
  <1>1. \A k \in DOMAIN bodies : bodies[k].ret = "ok" /\ bodies[k].sent = f[k]
    BY GoingOn, Through
  <1>2. Loop(bodies) = Send(UNION {bodies[k].sent : k \in DOMAIN bodies})
    BY <1>1 DEF Loop, Returning
  <1>3. UNION {bodies[k].sent : k \in DOMAIN bodies} = UNION {f[k] : k \in DOMAIN f}
    BY <1>1
  <1> QED
    BY <1>2, <1>3

(* A set of samples, which is what a loop sends.                           *)
LEMMA PowerSupplyClassShows ==
    ASSUME NEW e, IsSequence(e.items), NEW i \in DOMAIN e.items, NEW e1, e1.items = <<e.items[i]>>,
           e1.read = e.read
    PROVE  Shows(UpdatePowerSupplyClass(e), i, UpdatePowerSupplyClass(e1))
  <1> DEFINE samples(k, x) == Samples("power_supply", PowerSupplyValues \cap x.values, <<x.name>>, <<k>>)
                          \cup Samples("power_supply", {"info"}, <<x.name, PowerSupplyInfo \cap x.texts>>, <<k>>)
             body(k, x) == IF x.ignored THEN Nothing ELSE Send(samples(k, x))
             bodies == [k \in DOMAIN e.items |-> body(k, e.items[k])]
             one == [k \in DOMAIN e1.items |-> body(k, e1.items[k])]
  <1>1. ASSUME NEW k, NEW j, NEW x PROVE AlikeBodies(body(k, x), k, body(j, x), j)
    <2>1. Alike(samples(k, x), k, samples(j, x), j)
      BY TwinSamples, AlikeSets
    <2> HIDE DEF samples
    <2> QED
      BY <2>1, AlikeParts
  <1> HIDE DEF body
  <1>2. Shows(Loop(bodies), i, Loop(one))
    <2>1. /\ DOMAIN bodies = DOMAIN e.items /\ DOMAIN bodies \subseteq Nat
          /\ \A k \in DOMAIN bodies : bodies[k] = body(k, e.items[k])
      BY DEF IsSequence
    <2>2. DOMAIN one = {1} /\ one[1] = body(1, e.items[i])
      OBVIOUS
    <2> HIDE DEF bodies, one
    <2>3. \A k \in DOMAIN bodies : AlikeBodies(bodies[k], k, body(1, e.items[k]), 1)
      BY <1>1, <2>1
    <2>4. AlikeBodies(bodies[i], i, one[1], 1)
      BY <1>1, <2>1, <2>2
    <2> QED
      BY <2>1, <2>2, <2>3, <2>4, LoopShows
  <1> DEFINE guard == Need(e.read, {"notexist"})
  <1>3. UpdatePowerSupplyClass(e) = guard \bullet Loop(bodies)
    <2> DEFINE kept == {k \in DOMAIN e.items : ~e.items[k].ignored}
               each(k) == samples(k, e.items[k])
    <2>1. UpdatePowerSupplyClass(e) = guard \bullet Send(UNION {each(k) : k \in kept})
      BY DEF UpdatePowerSupplyClass, GetPowerSupplyClassInfo
    <2> HIDE DEF samples
    <2>2. /\ DOMAIN bodies = DOMAIN e.items
          /\ \A k \in DOMAIN e.items : bodies[k] = (IF k \in kept THEN Send(each(k)) ELSE Nothing)
      BY DEF body
    <2> HIDE DEF bodies, each, kept
    <2>3. ASSUME NEW k \in DOMAIN e.items
          PROVE  bodies[k].ret = "ok" /\ bodies[k].sent = (IF k \in kept THEN each(k) ELSE {})
      <3>1. CASE k \in kept
        <4>1. bodies[k] = Send(each(k))
          BY <2>2, <3>1
        <4> QED
          BY <3>1, <4>1, Through, GoingOn
      <3>2. CASE k \notin kept
        <4>1. bodies[k] = Nothing
          BY <2>2, <3>2
        <4> QED
          BY <3>2, <4>1, Through, GoingOn
      <3> QED
        BY <3>1, <3>2
    <2>4. Loop(bodies) = Send(UNION {bodies[k].sent : k \in DOMAIN bodies})
      BY <2>3, <2>2 DEF Loop, Returning
    <2>5. UNION {bodies[k].sent : k \in DOMAIN bodies} = UNION {each(k) : k \in kept}
      BY <2>3, <2>2 DEF kept
    <2> QED
      BY <2>1, <2>4, <2>5
  <1>4. UpdatePowerSupplyClass(e1) = guard \bullet Loop(one)
    <2> DEFINE kept == {k \in DOMAIN e1.items : ~e1.items[k].ignored}
               each(k) == samples(k, e1.items[k])
    <2>1. UpdatePowerSupplyClass(e1) = guard \bullet Send(UNION {each(k) : k \in kept})
      BY DEF UpdatePowerSupplyClass, GetPowerSupplyClassInfo
    <2> HIDE DEF samples
    <2>2. /\ DOMAIN one = DOMAIN e1.items
          /\ \A k \in DOMAIN e1.items : one[k] = (IF k \in kept THEN Send(each(k)) ELSE Nothing)
      BY DEF body
    <2> HIDE DEF one, each, kept
    <2>3. ASSUME NEW k \in DOMAIN e1.items
          PROVE  one[k].ret = "ok" /\ one[k].sent = (IF k \in kept THEN each(k) ELSE {})
      <3>1. CASE k \in kept
        <4>1. one[k] = Send(each(k))
          BY <2>2, <3>1
        <4> QED
          BY <3>1, <4>1, Through, GoingOn
      <3>2. CASE k \notin kept
        <4>1. one[k] = Nothing
          BY <2>2, <3>2
        <4> QED
          BY <3>2, <4>1, Through, GoingOn
      <3> QED
        BY <3>1, <3>2
    <2>4. Loop(one) = Send(UNION {one[k].sent : k \in DOMAIN one})
      BY <2>3, <2>2 DEF Loop, Returning
    <2>5. UNION {one[k].sent : k \in DOMAIN one} = UNION {each(k) : k \in kept}
      BY <2>3, <2>2 DEF kept
    <2> QED
      BY <2>1, <2>4, <2>5
  <1> HIDE DEF bodies, one
  <1>5. Shows(guard, i, guard)
    BY ShowsParts
  <1> HIDE DEF guard
  <1> QED
    BY <1>2, <1>3, <1>4, <1>5, ShowsParts

(* perf: a loop for each kind of profiler.                                 *)
LEMMA PerfStatsShows ==
    ASSUME NEW e, IsSequence(e.items), NEW i \in DOMAIN e.items, NEW kind, NEW e1, e1.items = <<e.items[i]>>,
           e1.kinds = e.kinds, e1.cacheProfilers = e.cacheProfilers
    PROVE  Shows(PerfStats(e, kind), i, PerfStats(e1, kind))
  <1> DEFINE samples(k, x) == Samples("perf", ChosenProfilers(e)[kind] \ x.missing, <<x.cpu>>, <<k>>)
             body(k, x) == Check(kind \notin x.fails, "error") \bullet Send(samples(k, x))
             bodies == [k \in DOMAIN e.items |-> body(k, e.items[k])]
             one == [k \in DOMAIN e1.items |-> body(k, e1.items[k])]
  <1>1. ASSUME NEW k, NEW j, NEW x PROVE AlikeBodies(body(k, x), k, body(j, x), j)
    <2>1. Alike(samples(k, x), k, samples(j, x), j)
      BY TwinSamples
    <2> HIDE DEF samples
    <2> QED
      BY <2>1, AlikeParts
  <1> HIDE DEF body
  <1>2. Shows(Loop(bodies), i, Loop(one))
    <2>1. /\ DOMAIN bodies = DOMAIN e.items /\ DOMAIN bodies \subseteq Nat
          /\ \A k \in DOMAIN bodies : bodies[k] = body(k, e.items[k])
      BY DEF IsSequence
    <2>2. DOMAIN one = {1} /\ one[1] = body(1, e.items[i])
      OBVIOUS
    <2> HIDE DEF bodies, one
    <2>3. \A k \in DOMAIN bodies : AlikeBodies(bodies[k], k, body(1, e.items[k]), 1)
      BY <1>1, <2>1
    <2>4. AlikeBodies(bodies[i], i, one[1], 1)
      BY <1>1, <2>1, <2>2
    <2> QED
      BY <2>1, <2>2, <2>3, <2>4, LoopShows
  <1> DEFINE maybe(l) == IF kind \notin e.kinds THEN Nothing ELSE Loop(l)
  <1>3. PerfStats(e, kind) = maybe(bodies) /\ PerfStats(e1, kind) = maybe(one)
    BY DEF PerfStats, ChosenProfilers, body
  <1> HIDE DEF bodies, one
  <1> QED
    BY <1>2, <1>3, ShowsParts

LEMMA TracepointStatsShows ==
    ASSUME NEW e, IsSequence(e.items), NEW i \in DOMAIN e.items, NEW e1, e1.items = <<e.items[i]>>,
           e1.tracepoints = e.tracepoints
    PROVE  Shows(TracepointStats(e), i, TracepointStats(e1))
  <1> DEFINE point(k, x, n) == Sample(<<"perf", e.tracepoints[n]>>, <<x.cpu>>, <<k, "tracepoint", n>>)
             samples(k, x) == {point(k, x, n) : n \in DOMAIN e.tracepoints}
             body(k, x) == Check("tracepoint" \notin x.fails, "error") \bullet Send(samples(k, x))
             bodies == [k \in DOMAIN e.items |-> body(k, e.items[k])]
             one == [k \in DOMAIN e1.items |-> body(k, e1.items[k])]
  <1>1. ASSUME NEW k, NEW j, NEW x PROVE AlikeBodies(body(k, x), k, body(j, x), j)
    <2>1. Alike(samples(k, x), k, samples(j, x), j)
      <3>1. \A l, m, n : point(l, x, n).of[1] = l /\ Twin(point(l, x, n), point(m, x, n))
        BY TwinTuples
      <3> HIDE DEF point
      <3> QED
        BY <3>1 DEF Alike, Within
    <2> HIDE DEF samples
    <2> QED
      BY <2>1, AlikeParts
  <1> HIDE DEF body
  <1>2. Shows(Loop(bodies), i, Loop(one))
    <2>1. /\ DOMAIN bodies = DOMAIN e.items /\ DOMAIN bodies \subseteq Nat
          /\ \A k \in DOMAIN bodies : bodies[k] = body(k, e.items[k])
      BY DEF IsSequence
    <2>2. DOMAIN one = {1} /\ one[1] = body(1, e.items[i])
      OBVIOUS
    <2> HIDE DEF bodies, one
    <2>3. \A k \in DOMAIN bodies : AlikeBodies(bodies[k], k, body(1, e.items[k]), 1)
      BY <1>1, <2>1
    <2>4. AlikeBodies(bodies[i], i, one[1], 1)
      BY <1>1, <2>1, <2>2
    <2> QED
      BY <2>1, <2>2, <2>3, <2>4, LoopShows
  <1>3. TracepointStats(e) = Loop(bodies) /\ TracepointStats(e1) = Loop(one)
    BY DEF TracepointStats, body
  <1> HIDE DEF bodies, one
  <1> QED
    BY <1>2, <1>3

LEMMA PerfShows ==
    ASSUME NEW e, IsSequence(e.items), NEW i \in DOMAIN e.items, NEW e1, e1.items = <<e.items[i]>>,
           e1.tracepoints = e.tracepoints, e1.start = e.start, e1.kinds = e.kinds, e1.cacheProfilers = e.cacheProfilers
    PROVE  Shows(UpdatePerf(e), i, UpdatePerf(e1))
  <1> DEFINE stats(f, kind) == PerfStats(f, kind)
             points(f) == IF e.tracepoints = <<>> THEN Nothing ELSE TracepointStats(f)
             guard(f) == NewPerfCollector(f)
             whole(f) == guard(f) \bullet stats(f, "hardware") \bullet stats(f, "software") \bullet stats(f, "cache")
                           \bullet points(f)
  <1>1. UpdatePerf(e) = whole(e) /\ UpdatePerf(e1) = whole(e1)
    BY DEF UpdatePerf
  <1>2. guard(e) = guard(e1) /\ Shows(guard(e), i, guard(e))
    BY ShowsParts DEF NewPerfCollector
  <1>3. \A kind : Shows(stats(e, kind), i, stats(e1, kind))
    BY PerfStatsShows
  <1>4. Shows(points(e), i, points(e1))
    BY TracepointStatsShows, ShowsParts
  <1> HIDE DEF guard, stats, points
  <1>5. Shows(whole(e), i, whole(e1))
    BY <1>2, <1>3, <1>4, ShowsParts
  <1> QED
    BY <1>1, <1>5

(* A loop within each body of the loop.                                    *)
LEMMA BondingShows ==
    ASSUME NEW e, IsSequence(e.items), NEW i \in DOMAIN e.items, NEW e1, e1.items = <<e.items[i]>>,
           e1.masters = e.masters,
           \A k \in DOMAIN e.items : IsSequence(e.items[k].slaves)
    PROVE  Shows(UpdateBonding(e), i, UpdateBonding(e1))
  <1> DEFINE slave(x, n) == Need(SlaveState(x.slaves[n]), {"notexist"})
             slaves(x) == [n \in DOMAIN x.slaves |-> slave(x, n)]
             bodyR(k, x) == Need(x.slavesRead, {"notexist"}) \bullet Loop(slaves(x))
             bodyS(k, x) == Send(Samples("bonding", {"slaves", "active"}, <<x.name>>, <<k>>))
             bodiesR == [k \in DOMAIN e.items |-> bodyR(k, e.items[k])]
             bodiesS == [k \in DOMAIN e.items |-> bodyS(k, e.items[k])]
             oneR == [k \in DOMAIN e1.items |-> bodyR(k, e1.items[k])]
             oneS == [k \in DOMAIN e1.items |-> bodyS(k, e1.items[k])]
  <1>1. ASSUME NEW k, NEW j, NEW x, IsSequence(x.slaves) PROVE AlikeBodies(bodyR(k, x), k, bodyR(j, x), j)
    <2>1. \A n : AlikeBodies(slave(x, n), k, slave(x, n), j)
      BY AlikeParts
    <2> HIDE DEF slave
    <2>2. AlikeBodies(Loop(slaves(x)), k, Loop(slaves(x)), j)
      <3>1. DOMAIN slaves(x) \subseteq Nat /\ \A n \in DOMAIN slaves(x) : slaves(x)[n] = slave(x, n)
        BY <1>1 DEF IsSequence
      <3> HIDE DEF slaves
      <3> QED
        BY <2>1, <3>1, AlikeLoops
    <2> HIDE DEF slaves
    <2> QED
      BY <2>2, AlikeParts
  <1>2. ASSUME NEW k, NEW j, NEW x PROVE AlikeBodies(bodyS(k, x), k, bodyS(j, x), j)
    BY TwinSamples, AlikeParts
  <1> HIDE DEF bodyR, bodyS
  <1>3. Shows(Loop(bodiesR), i, Loop(oneR))
    <2>1. /\ DOMAIN bodiesR = DOMAIN e.items /\ DOMAIN bodiesR \subseteq Nat
          /\ \A k \in DOMAIN bodiesR : bodiesR[k] = bodyR(k, e.items[k])
      BY DEF IsSequence
    <2>2. DOMAIN oneR = {1} /\ oneR[1] = bodyR(1, e.items[i])
      OBVIOUS
    <2> HIDE DEF bodiesR, oneR
    <2>3. \A k \in DOMAIN bodiesR : AlikeBodies(bodiesR[k], k, bodyR(1, e.items[k]), 1)
      BY <1>1, <2>1
    <2>4. AlikeBodies(bodiesR[i], i, oneR[1], 1)
      BY <1>1, <2>1, <2>2
    <2> QED
      BY <2>1, <2>2, <2>3, <2>4, LoopShows
  <1>4. Shows(Loop(bodiesS), i, Loop(oneS))
    <2>1. /\ DOMAIN bodiesS = DOMAIN e.items /\ DOMAIN bodiesS \subseteq Nat
          /\ \A k \in DOMAIN bodiesS : bodiesS[k] = bodyS(k, e.items[k])
      BY DEF IsSequence
    <2>2. DOMAIN oneS = {1} /\ oneS[1] = bodyS(1, e.items[i])
      OBVIOUS
    <2> HIDE DEF bodiesS, oneS
    <2>3. \A k \in DOMAIN bodiesS : AlikeBodies(bodiesS[k], k, bodyS(1, e.items[k]), 1)
      BY <1>2, <2>1
    <2>4. AlikeBodies(bodiesS[i], i, oneS[1], 1)
      BY <1>2, <2>1, <2>2
    <2> QED
      BY <2>1, <2>2, <2>3, <2>4, LoopShows
  <1> DEFINE guard == Need(e.masters, {"notexist"})
  <1>5. /\ UpdateBonding(e) = (guard \bullet Loop(bodiesR)) \bullet Loop(bodiesS)
        /\ UpdateBonding(e1) = (guard \bullet Loop(oneR)) \bullet Loop(oneS)
    BY DEF UpdateBonding, ReadBondingStats, bodyR, bodyS
  <1>6. Shows(guard, i, guard)
    BY ShowsParts
  <1> HIDE DEF bodiesR, bodiesS, oneR, oneS, guard
  <1> QED
    BY <1>3, <1>4, <1>5, <1>6, ShowsParts

LEMMA MeminfoNumaShows ==
    ASSUME NEW e, IsSequence(e.items), NEW i \in DOMAIN e.items, NEW e1, e1.items = <<e.items[i]>>,
           \A k \in DOMAIN e.items : IsSequence(e.items[k].lines)
    PROVE  Shows(UpdateMeminfoNuma(e), i, UpdateMeminfoNuma(e1))
  <1> DEFINE check(x, n) == ParseNumaLine(x.lines[n])
             checks(x) == [n \in DOMAIN x.lines |-> check(x, n)]
             line(k, x, n) == Sample(<<"memory_numa", x.lines[n].name>>, <<x.name>>, <<k, "meminfo", n>>)
             lines(k, x) == {line(k, x, n) : n \in {m \in DOMAIN x.lines : x.lines[m].columns > 0}}
             stat(k, x, s) == Sample(<<"memory_numa", s \o "_total">>, <<x.name>>, <<k, "numastat", s>>)
             stats(k, x) == {stat(k, x, s) : s \in x.stats}
             meminfo(k, x) == Need(x.meminfo, {}) \bullet Loop(checks(x)) \bullet Send(lines(k, x))
             numastat(k, x) == Need(x.numastat, {}) \bullet Send(stats(k, x))
             body(k, x) == meminfo(k, x) \bullet numastat(k, x)
             bodies == [k \in DOMAIN e.items |-> body(k, e.items[k])]
             one == [k \in DOMAIN e1.items |-> body(k, e1.items[k])]
  <1>1. ASSUME NEW k, NEW j, NEW x, IsSequence(x.lines) PROVE AlikeBodies(body(k, x), k, body(j, x), j)
    <2>1. \A n : AlikeBodies(check(x, n), k, check(x, n), j)
      <3> SUFFICES ASSUME NEW n PROVE AlikeBodies(check(x, n), k, check(x, n), j)
        OBVIOUS
      <3> DEFINE long == Check(x.lines[n].columns >= 4, "panic")
                 value == Check(x.lines[n].parses /\ (x.lines[n].columns = 4 \/ (x.lines[n].columns = 5 /\ x.lines[n].kB)), "error")
      <3>1. check(x, n) = IF x.lines[n].columns = 0 THEN Nothing ELSE long \bullet value
        BY DEF ParseNumaLine
      <3>2. AlikeBodies(long, k, long, j) /\ AlikeBodies(value, k, value, j)
        BY AlikeParts
      <3> HIDE DEF long, value, check
      <3> QED
        BY <3>1, <3>2, AlikeParts
    <2> HIDE DEF check
    <2>2. AlikeBodies(Loop(checks(x)), k, Loop(checks(x)), j)
      <3>1. DOMAIN checks(x) \subseteq Nat /\ \A n \in DOMAIN checks(x) : checks(x)[n] = check(x, n)
        BY <1>1 DEF IsSequence
      <3> HIDE DEF checks
      <3> QED
        BY <2>1, <3>1, AlikeLoops
    <2> HIDE DEF checks
    <2>3. \A l, m, n : line(l, x, n).of[1] = l /\ Twin(line(l, x, n), line(m, x, n))
      BY TwinTuples
    <2>4. \A l, m, s : stat(l, x, s).of[1] = l /\ Twin(stat(l, x, s), stat(m, x, s))
      BY TwinTuples
    <2> HIDE DEF line, stat
    <2>5. Alike(lines(k, x), k, lines(j, x), j) /\ Alike(stats(k, x), k, stats(j, x), j)
      BY <2>3, <2>4 DEF Alike, Within
    <2> HIDE DEF lines, stats
    <2>6. AlikeBodies(meminfo(k, x), k, meminfo(j, x), j) /\ AlikeBodies(numastat(k, x), k, numastat(j, x), j)
      BY <2>2, <2>5, AlikeParts
    <2> HIDE DEF meminfo, numastat
    <2> QED
      BY <2>6, AlikeParts
  <1> HIDE DEF body
  <1>2. Shows(Loop(bodies), i, Loop(one))
    <2>1. /\ DOMAIN bodies = DOMAIN e.items /\ DOMAIN bodies \subseteq Nat
          /\ \A k \in DOMAIN bodies : bodies[k] = body(k, e.items[k])
      BY DEF IsSequence
    <2>2. DOMAIN one = {1} /\ one[1] = body(1, e.items[i])
      OBVIOUS
    <2> HIDE DEF bodies, one
    <2>3. \A k \in DOMAIN bodies : AlikeBodies(bodies[k], k, body(1, e.items[k]), 1)
      BY <1>1, <2>1
    <2>4. AlikeBodies(bodies[i], i, one[1], 1)
      BY <1>1, <2>1, <2>2
    <2> QED
      BY <2>1, <2>2, <2>3, <2>4, LoopShows
  <1>3. GetMemInfoNuma(e) = Loop(bodies) /\ GetMemInfoNuma(e1) = Loop(one)
    BY DEF GetMemInfoNuma, ParseMemInfoNuma, ParseMemInfoNumaStat, body
  <1> HIDE DEF bodies, one
  <1>4. Shows(GetMemInfoNuma(e), i, GetMemInfoNuma(e1))
    BY <1>2, <1>3
  <1> QED
    BY <1>4 DEF Shows, UpdateMeminfoNuma, Return

(* Samples besides, of no item.                                            *)
LEMMA ThermalZoneShows ==
    ASSUME NEW e, IsSequence(e.items), NEW i \in DOMAIN e.items, NEW e1, e1.items = <<e.items[i]>>,
           e1.zones = e.zones, e1.cooling = e.cooling, e1.devices = e.devices
    PROVE  Shows(UpdateThermalZone(e), i, UpdateThermalZone(e1))
  <1> DEFINE body(k, x) == Send(Samples("thermal_zone", {"temp"}, <<x.name, x.type>>, <<k>>))
             bodies == [k \in DOMAIN e.items |-> body(k, e.items[k])]
             one == [k \in DOMAIN e1.items |-> body(k, e1.items[k])]
  <1>1. ASSUME NEW k, NEW j, NEW x PROVE AlikeBodies(body(k, x), k, body(j, x), j)
    BY TwinSamples, AlikeParts
  <1> HIDE DEF body
  <1>2. Shows(Loop(bodies), i, Loop(one))
    <2>1. /\ DOMAIN bodies = DOMAIN e.items /\ DOMAIN bodies \subseteq Nat
          /\ \A k \in DOMAIN bodies : bodies[k] = body(k, e.items[k])
      BY DEF IsSequence
    <2>2. DOMAIN one = {1} /\ one[1] = body(1, e.items[i])
      OBVIOUS
    <2> HIDE DEF bodies, one
    <2>3. \A k \in DOMAIN bodies : AlikeBodies(bodies[k], k, body(1, e.items[k]), 1)
      BY <1>1, <2>1
    <2>4. AlikeBodies(bodies[i], i, one[1], 1)
      BY <1>1, <2>1, <2>2
    <2> QED
      BY <2>1, <2>2, <2>3, <2>4, LoopShows
  <1> DEFINE guard == Need(e.zones, {"notexist", "permission", "invalid"})
             next == Need(e.cooling, {})
             device(d) == Samples("cooling_device", {"cur_state", "max_state"}, <<d>>, <<0, d>>)
             devices == UNION {device(d) : d \in e.devices}
  <1>3. /\ UpdateThermalZone(e) = guard \bullet Loop(bodies) \bullet next \bullet Send(devices)
        /\ UpdateThermalZone(e1) = guard \bullet Loop(one) \bullet next \bullet Send(devices)
    BY DEF UpdateThermalZone, body
  <1>4. Shows(guard, i, guard) /\ Shows(next, i, next)
    BY ShowsParts
  <1>5. Shows(Send(devices), i, Send(devices))
    <2>1. \A d : Alike(device(d), 0, device(d), 0)
      BY TwinSamples
    <2> HIDE DEF device
    <2>2. \A d : \A s \in device(d) : s.of[1] = 0
      BY <2>1 DEF Alike, Within
    <2>3. \A s \in devices : s.of[1] # i /\ s.of[1] # 1
      BY <2>2 DEF IsSequence
    <2> HIDE DEF devices
    <2> QED
      BY <2>3, ShowsParts
  <1> HIDE DEF bodies, one, guard, next, devices
  <1> QED
    BY <1>2, <1>3, <1>4, <1>5, ShowsParts

LEMMA TimeShows ==
    ASSUME NEW e, IsSequence(e.items), NEW i \in DOMAIN e.items, NEW e1, e1.items = <<e.items[i]>>,
           e1.zone = e.zone, e1.clocksources = e.clocksources
    PROVE  Shows(UpdateTime(e), i, UpdateTime(e1))
  <1> DEFINE source(k, x, a) == Sample(<<"time", "clocksource_available_info">>, <<x.index, a>>, <<k, "of", a>>)
             sources(k, x) == {source(k, x, a) : a \in x.available}
             current(k, x) == Samples("time", {"clocksource_current_info"}, <<x.index, x.current>>, <<k>>)
             body(k, x) == Send(sources(k, x) \cup current(k, x))
             bodies == [k \in DOMAIN e.items |-> body(k, e.items[k])]
             one == [k \in DOMAIN e1.items |-> body(k, e1.items[k])]
  <1>1. ASSUME NEW k, NEW j, NEW x PROVE AlikeBodies(body(k, x), k, body(j, x), j)
    <2>1. \A l, m, a : source(l, x, a).of[1] = l /\ Twin(source(l, x, a), source(m, x, a))
      BY TwinTuples
    <2> HIDE DEF source
    <2>2. Alike(sources(k, x), k, sources(j, x), j)
      BY <2>1 DEF Alike, Within
    <2>3. Alike(current(k, x), k, current(j, x), j)
      BY TwinSamples
    <2> HIDE DEF sources, current
    <2>4. Alike(sources(k, x) \cup current(k, x), k, sources(j, x) \cup current(j, x), j)
      BY <2>2, <2>3, AlikeSets
    <2> QED
      BY <2>4, AlikeParts
  <1> HIDE DEF body
  <1>2. Shows(Loop(bodies), i, Loop(one))
    <2>1. /\ DOMAIN bodies = DOMAIN e.items /\ DOMAIN bodies \subseteq Nat
          /\ \A k \in DOMAIN bodies : bodies[k] = body(k, e.items[k])
      BY DEF IsSequence
    <2>2. DOMAIN one = {1} /\ one[1] = body(1, e.items[i])
      OBVIOUS
    <2> HIDE DEF bodies, one
    <2>3. \A k \in DOMAIN bodies : AlikeBodies(bodies[k], k, body(1, e.items[k]), 1)
      BY <1>1, <2>1
    <2>4. AlikeBodies(bodies[i], i, one[1], 1)
      BY <1>1, <2>1, <2>2
    <2> QED
      BY <2>1, <2>2, <2>3, <2>4, LoopShows
  <1> DEFINE now == {Sample(<<"time", "seconds">>, <<>>, <<0>>), Sample(<<"time", "zone_offset_seconds">>, <<e.zone>>, <<0>>)}
             guard == Need(e.clocksources, {})
  <1>3. /\ UpdateTime(e) = Send(now) \bullet guard \bullet Loop(bodies)
        /\ UpdateTime(e1) = Send(now) \bullet guard \bullet Loop(one)
    BY DEF UpdateTime, body
  <1>4. Shows(guard, i, guard)
    BY ShowsParts
  <1>5. Shows(Send(now), i, Send(now))
    <2>1. \A s \in now : s.of[1] = 0
      BY DEF Sample
    <2> HIDE DEF now
    <2>2. \A s \in now : s.of[1] # i /\ s.of[1] # 1
      BY <2>1 DEF IsSequence
    <2> QED
      BY <2>2, ShowsParts
  <1> HIDE DEF bodies, one, guard, now
  <1> QED
    BY <1>2, <1>3, <1>4, <1>5, ShowsParts

LEMMA TextfileShows ==
    ASSUME NEW e, IsSequence(e.items), NEW i \in DOMAIN e.items, NEW e1, e1.items = <<e.items[i]>>,
           \A k \in DOMAIN e.items : IsSequence(e.items[k].families)
    PROVE  Shows(UpdateTextfile(e), i, UpdateTextfile(e1))
  <1> DEFINE metric(k, x, m, l) ==
               Sample(<<m.name>>, AllLabels(m.metrics[l], m), <<k, "metric", m.name, l, x.version>>)
             family(k, x, m) == {metric(k, x, m, l) : l \in DOMAIN m.metrics}
             allowed(m) == Check(~m.reserved, "panic")
             families(k, x) == [n \in DOMAIN Families(x) |->
                                 allowed(Families(x)[n]) \bullet Send(family(k, x, Families(x)[n]))]
             bodyF(k, x) == IF x.prom THEN Loop(families(k, x)) ELSE Nothing
             stamp(k, x) == Sample(<<"textfile", "mtime_seconds">>, <<x.dir, x.name>>, <<k, "mtime", StatOpened(x)>>)
             mtime(k, x) == IF ~x.prom \/ ProcessFails(x) THEN {} ELSE {stamp(k, x)}
             bodyT(k, x) == Send(mtime(k, x))
             bodiesF == [k \in DOMAIN e.items |-> bodyF(k, e.items[k])]
             bodiesT == [k \in DOMAIN e.items |-> bodyT(k, e.items[k])]
             oneF == [k \in DOMAIN e1.items |-> bodyF(k, e1.items[k])]
             oneT == [k \in DOMAIN e1.items |-> bodyT(k, e1.items[k])]
  <1>1. ASSUME NEW k, NEW j, NEW x, IsSequence(x.families) PROVE AlikeBodies(bodyF(k, x), k, bodyF(j, x), j)
    <2>1. \A l, h, m, n : metric(l, x, m, n).of[1] = l /\ Twin(metric(l, x, m, n), metric(h, x, m, n))
      BY TwinTuples
    <2> HIDE DEF metric
    <2>2. \A m : Alike(family(k, x, m), k, family(j, x, m), j)
      BY <2>1 DEF Alike, Within
    <2> HIDE DEF family
    <2>3. \A m : AlikeBodies(allowed(m), k, allowed(m), j)
      BY AlikeParts
    <2> HIDE DEF allowed
    <2>4. \A m : AlikeBodies(allowed(m) \bullet Send(family(k, x, m)), k, allowed(m) \bullet Send(family(j, x, m)), j)
      BY <2>2, <2>3, AlikeParts
    <2>5. /\ DOMAIN families(k, x) = DOMAIN families(j, x) /\ DOMAIN families(k, x) \subseteq Nat
          /\ \A n \in DOMAIN families(k, x) : AlikeBodies(families(k, x)[n], k, families(j, x)[n], j)
      BY <1>1, <2>4 DEF Families, IsSequence
    <2> HIDE DEF families
    <2>6. AlikeBodies(Loop(families(k, x)), k, Loop(families(j, x)), j)
      BY <2>5, AlikeLoops
    <2> QED
      BY <2>6, AlikeParts
  <1>2. ASSUME NEW k, NEW j, NEW x PROVE AlikeBodies(bodyT(k, x), k, bodyT(j, x), j)
    <2>1. \A l, h : stamp(l, x).of[1] = l /\ Twin(stamp(l, x), stamp(h, x))
      BY TwinTuples
    <2> HIDE DEF stamp
    <2>2. Alike(mtime(k, x), k, mtime(j, x), j)
      BY <2>1 DEF Alike, Within
    <2> HIDE DEF mtime
    <2> QED
      BY <2>2, AlikeParts
  <1>3. /\ \A k \in DOMAIN e.items : IsSequence(e.items[k].families)
        /\ \A k \in DOMAIN e1.items : k = 1 /\ e1.items[k] = e.items[i]
    OBVIOUS
  <1> HIDE DEF bodyF, bodyT
  <1>4. Shows(Loop(bodiesF), i, Loop(oneF))
    <2>1. /\ DOMAIN bodiesF = DOMAIN e.items /\ DOMAIN bodiesF \subseteq Nat
          /\ \A k \in DOMAIN bodiesF : bodiesF[k] = bodyF(k, e.items[k])
      BY DEF IsSequence
    <2>2. DOMAIN oneF = {1} /\ oneF[1] = bodyF(1, e.items[i])
      OBVIOUS
    <2> HIDE DEF bodiesF, oneF
    <2>3. \A k \in DOMAIN bodiesF : AlikeBodies(bodiesF[k], k, bodyF(1, e.items[k]), 1)
      BY <1>1, <1>3, <2>1
    <2>4. AlikeBodies(bodiesF[i], i, oneF[1], 1)
      BY <1>1, <1>3, <2>1, <2>2
    <2> QED
      BY <2>1, <2>2, <2>3, <2>4, LoopShows
  <1>5. Shows(Loop(bodiesT), i, Loop(oneT))
    <2>1. /\ DOMAIN bodiesT = DOMAIN e.items /\ DOMAIN bodiesT \subseteq Nat
          /\ \A k \in DOMAIN bodiesT : bodiesT[k] = bodyT(k, e.items[k])
      BY DEF IsSequence
    <2>2. DOMAIN oneT = {1} /\ oneT[1] = bodyT(1, e.items[i])
      OBVIOUS
    <2> HIDE DEF bodiesT, oneT
    <2>3. \A k \in DOMAIN bodiesT : AlikeBodies(bodiesT[k], k, bodyT(1, e.items[k]), 1)
      BY <1>2, <2>1
    <2>4. AlikeBodies(bodiesT[i], i, oneT[1], 1)
      BY <1>2, <2>1, <2>2
    <2> QED
      BY <2>1, <2>2, <2>3, <2>4, LoopShows
  <1> DEFINE last(f) == {Sample(<<"textfile", "scrape_error">>, <<>>, <<0, "scrape_error", TextfileErrored(f)>>)}
  <1>6. UpdateTextfile(e) = Loop(bodiesF) \bullet Loop(bodiesT) \bullet Send(last(e))
    <2> DEFINE stamps == [k \in DOMAIN e.items |-> mtime(k, e.items[k])]
    <2>1. UpdateTextfile(e) = Loop(bodiesF) \bullet Send(UNION {stamps[k] : k \in DOMAIN stamps}) \bullet Send(last(e))
      BY DEF UpdateTextfile, ConvertFamilies, ConvertMetricFamily, ExportMTime, bodyF
    <2>2. DOMAIN bodiesT = DOMAIN stamps /\ \A k \in DOMAIN stamps : bodiesT[k] = Send(stamps[k])
      BY DEF bodyT
    <2> HIDE DEF bodiesF, bodiesT, stamps, last
    <2> QED
      BY <2>1, <2>2, LoopOfSends
  <1>7. UpdateTextfile(e1) = Loop(oneF) \bullet Loop(oneT) \bullet Send(last(e1))
    <2> DEFINE stamps == [k \in DOMAIN e1.items |-> mtime(k, e1.items[k])]
    <2>1. UpdateTextfile(e1) = Loop(oneF) \bullet Send(UNION {stamps[k] : k \in DOMAIN stamps}) \bullet Send(last(e1))
      BY DEF UpdateTextfile, ConvertFamilies, ConvertMetricFamily, ExportMTime, bodyF
    <2>2. DOMAIN oneT = DOMAIN stamps /\ \A k \in DOMAIN stamps : oneT[k] = Send(stamps[k])
      BY DEF bodyT
    <2> HIDE DEF oneF, oneT, stamps, last
    <2> QED
      BY <2>1, <2>2, LoopOfSends
  <1>8. Shows(Send(last(e)), i, Send(last(e1)))
    <2>1. \A f : \A s \in last(f) : s.of[1] = 0
      BY DEF Sample
    <2> HIDE DEF last
    <2>2. \A f : \A s \in last(f) : s.of[1] # i /\ s.of[1] # 1
      BY <2>1 DEF IsSequence
    <2> QED
      BY <2>2, ShowsParts
  <1> HIDE DEF bodiesF, bodiesT, oneF, oneT, last
  <1> QED
    BY <1>4, <1>5, <1>6, <1>7, <1>8, ShowsParts

(* Every process gives every field, so none is left over from another.     *)
LEMMA InfoIsItsOwn ==
    ASSUME NEW e, IsSequence(e.items), NEW field, \A l \in DOMAIN e.items : field \in DOMAIN e.items[l],
           NEW k \in DOMAIN e.items
    PROVE  SupervisordInfo(e, k, field) = e.items[k][field]
  <1> DEFINE given == {j \in 1..k : field \in DOMAIN e.items[j]}
             last == CHOOSE j \in given : \A l \in given : l <= j
  <1>1. given = 1..k /\ k \in Nat /\ k >= 1
    BY DEF IsSequence
  <1>2. SupervisordInfo(e, k, field) = IF given = {} THEN 0 ELSE e.items[last][field]
    BY DEF SupervisordInfo
  <1>3. given # {} /\ last = k
    BY <1>1
  <1> HIDE DEF given, last
  <1> QED
    BY <1>2, <1>3

LEMMA SupervisordShows ==
    ASSUME NEW e, IsSequence(e.items), NEW i \in DOMAIN e.items, NEW e1, e1.items = <<e.items[i]>>,
           e1.call = e.call, e1.array = e.array,
           \A l \in DOMAIN e.items : {"name", "group", "state", "exitstatus", "start"} \subseteq DOMAIN e.items[l]
    PROVE  Shows(UpdateSupervisord(e), i, UpdateSupervisord(e1))
  <1> DEFINE labels(x) == <<x["name"], x["group"]>>
             field(k, x, f) == Sample(<<"supervisord", f>>, labels(x), <<k, f, x[f]>>)
             fields(k, x) == {field(k, x, f) : f \in {"state", "exitstatus"}}
             running(x) == IsRunning(x["state"])
             up(k, x) == {Sample(<<"supervisord", "up">>, labels(x), <<k, running(x)>>)}
             start(k, x) == {Sample(<<"supervisord", "start_time_seconds">>, labels(x), <<k, "start", x["start"]>>)}
             started(k, x) == IF running(x) THEN start(k, x) ELSE {}
             samples(k, x) == fields(k, x) \cup up(k, x) \cup started(k, x)
             shaped(x) == Check(x.shaped, "panic")
             body(k, x) == shaped(x) \bullet Send(samples(k, x))
             bodies == [k \in DOMAIN e.items |-> body(k, e.items[k])]
             one == [k \in DOMAIN e1.items |-> body(k, e1.items[k])]
  <1>1. ASSUME NEW k, NEW j, NEW x PROVE AlikeBodies(body(k, x), k, body(j, x), j)
    <2> HIDE DEF labels
    <2>1. Alike(fields(k, x), k, fields(j, x), j)
      <3>1. \A l, m, f : field(l, x, f).of[1] = l /\ Twin(field(l, x, f), field(m, x, f))
        BY TwinTuples
      <3> HIDE DEF field
      <3> QED
        BY <3>1 DEF Alike, Within
    <2> HIDE DEF running
    <2>2. Alike(up(k, x), k, up(j, x), j)
      <3> DEFINE is(l) == Sample(<<"supervisord", "up">>, labels(x), <<l, running(x)>>)
      <3>1. \A l, m : is(l).of[1] = l /\ Twin(is(l), is(m))
        BY TwinTuples
      <3>2. \A l : up(l, x) = {is(l)}
        OBVIOUS
      <3> HIDE DEF is, up
      <3> QED
        BY <3>1, <3>2 DEF Alike, Within
    <2>3. Alike(start(k, x), k, start(j, x), j)
      <3> DEFINE is(l) == Sample(<<"supervisord", "start_time_seconds">>, labels(x), <<l, "start", x["start"]>>)
      <3>1. \A l, m : is(l).of[1] = l /\ Twin(is(l), is(m))
        BY TwinTuples
      <3>2. \A l : start(l, x) = {is(l)}
        OBVIOUS
      <3> HIDE DEF is, start
      <3> QED
        BY <3>1, <3>2 DEF Alike, Within
    <2> HIDE DEF fields, up, start
    <2>4. Alike(started(k, x), k, started(j, x), j)
      BY <2>3, AlikeSets
    <2> HIDE DEF started
    <2>5. Alike(samples(k, x), k, samples(j, x), j)
      BY <2>1, <2>2, <2>4, AlikeSets
    <2>6. AlikeBodies(shaped(x), k, shaped(x), j)
      BY AlikeParts
    <2> HIDE DEF samples, shaped
    <2> QED
      BY <2>5, <2>6, AlikeParts
  <1> HIDE DEF body
  <1>2. Shows(Loop(bodies), i, Loop(one))
    <2>1. /\ DOMAIN bodies = DOMAIN e.items /\ DOMAIN bodies \subseteq Nat
          /\ \A k \in DOMAIN bodies : bodies[k] = body(k, e.items[k])
      BY DEF IsSequence
    <2>2. DOMAIN one = {1} /\ one[1] = body(1, e.items[i])
      OBVIOUS
    <2> HIDE DEF bodies, one
    <2>3. \A k \in DOMAIN bodies : AlikeBodies(bodies[k], k, body(1, e.items[k]), 1)
      BY <1>1, <2>1
    <2>4. AlikeBodies(bodies[i], i, one[1], 1)
      BY <1>1, <2>1, <2>2
    <2> QED
      BY <2>1, <2>2, <2>3, <2>4, LoopShows
  <1> DEFINE guard == Need(e.call, {}) \bullet Check(e.array, "panic")
  <1>3. UpdateSupervisord(e) = guard \bullet Loop(bodies)
    <2> DEFINE info(k, f) == SupervisordInfo(e, k, f)
               sent(k) ==
                 {Sample(<<"supervisord", f>>, <<info(k, "name"), info(k, "group")>>, <<k, f, info(k, f)>>) :
                     f \in {"state", "exitstatus"}}
                   \cup {Sample(<<"supervisord", "up">>, <<info(k, "name"), info(k, "group")>>,
                                 <<k, IsRunning(info(k, "state"))>>)}
                   \cup (IF IsRunning(info(k, "state"))
                         THEN {Sample(<<"supervisord", "start_time_seconds">>, <<info(k, "name"), info(k, "group")>>,
                                      <<k, "start", info(k, "start")>>)}
                         ELSE {})
    <2>1. ASSUME NEW k \in DOMAIN e.items PROVE sent(k) = samples(k, e.items[k])
      <3>1. \A f \in {"name", "group", "state", "exitstatus", "start"} : info(k, f) = e.items[k][f]
        BY InfoIsItsOwn DEF IsSequence
      <3> HIDE DEF info
      <3> QED
        BY <3>1
    <2> HIDE DEF samples
    <2>2. bodies = [k \in DOMAIN e.items |-> shaped(e.items[k]) \bullet Send(sent(k))]
      BY <2>1 DEF body
    <2> HIDE DEF bodies
    <2> QED
      BY <2>2 DEF UpdateSupervisord
  <1>4. /\ IsSequence(e1.items)
        /\ \A l \in DOMAIN e1.items : {"name", "group", "state", "exitstatus", "start"} \subseteq DOMAIN e1.items[l]
    BY DEF IsSequence
  <1>5. UpdateSupervisord(e1) = guard \bullet Loop(one)
    <2> DEFINE info(k, f) == SupervisordInfo(e1, k, f)
               sent(k) ==
                 {Sample(<<"supervisord", f>>, <<info(k, "name"), info(k, "group")>>, <<k, f, info(k, f)>>) :
                     f \in {"state", "exitstatus"}}
                   \cup {Sample(<<"supervisord", "up">>, <<info(k, "name"), info(k, "group")>>,
                                 <<k, IsRunning(info(k, "state"))>>)}
                   \cup (IF IsRunning(info(k, "state"))
                         THEN {Sample(<<"supervisord", "start_time_seconds">>, <<info(k, "name"), info(k, "group")>>,
                                      <<k, "start", info(k, "start")>>)}
                         ELSE {})
    <2>1. ASSUME NEW k \in DOMAIN e1.items PROVE sent(k) = samples(k, e1.items[k])
      <3>1. \A f \in {"name", "group", "state", "exitstatus", "start"} : info(k, f) = e1.items[k][f]
        BY InfoIsItsOwn, <1>4 DEF IsSequence
      <3> HIDE DEF info
      <3> QED
        BY <3>1
    <2> HIDE DEF samples
    <2>2. one = [k \in DOMAIN e1.items |-> shaped(e1.items[k]) \bullet Send(sent(k))]
      BY <2>1 DEF body
    <2> HIDE DEF one
    <2> QED
      BY <2>2 DEF UpdateSupervisord
  <1> HIDE DEF bodies, one
  <1>6. Shows(guard, i, guard)
    BY ShowsParts
  <1> HIDE DEF guard
  <1> QED
    BY <1>2, <1>3, <1>5, <1>6, ShowsParts

(* Only a mount that is the same as an earlier one depends on another.     *)
LEMMA FilesystemShows ==
    ASSUME NEW e, IsSequence(e.items), NEW i \in DOMAIN e.items, NEW e1, e1.items = <<e.items[i]>>,
           e1.flags = e.flags, e1.mounts = e.mounts,
           ~ \E l \in 1..(i - 1) : FilesystemLabels(e.items[l]) = FilesystemLabels(e.items[i])
    PROVE  Shows(UpdateFilesystem(e), i, UpdateFilesystem(e1))
  <1> DEFINE filter == NewFilesystemCollector(e.flags)
             guard == Check(filter.built, "unbuilt") \bullet Need(e.mounts, {})
             names(x) == {"device_error"} \cup IF x.statfs # "ok" THEN {}
                           ELSE {"size_bytes", "free_bytes", "avail_bytes", "files", "files_free", "readonly"}
             samples(k, x) == Samples("filesystem", names(x), SubSeq(FilesystemLabels(x), 1, 3), <<k>>)
             body(k, x) == IF x.mountPoint \in filter.points \/ x.fsType \in filter.types
                           THEN Nothing ELSE Send(samples(k, x))
             seen(k) == \E l \in 1..(k - 1) : FilesystemLabels(e.items[l]) = FilesystemLabels(e.items[k])
             bodies == [k \in DOMAIN e.items |-> IF seen(k) THEN Nothing ELSE body(k, e.items[k])]
             one == [k \in DOMAIN e1.items |-> body(k, e1.items[k])]
  <1>1. ASSUME NEW k, NEW j, NEW x PROVE AlikeBodies(body(k, x), k, body(j, x), j)
    <2>1. Alike(samples(k, x), k, samples(j, x), j)
      BY TwinSamples
    <2> HIDE DEF samples, filter
    <2> QED
      BY <2>1, AlikeParts
  <1>2. UpdateFilesystem(e) = guard \bullet Loop(bodies)
    <2> DEFINE plain == [k \in DOMAIN e.items |->
                          IF e.items[k].mountPoint \in filter.points \/ e.items[k].fsType \in filter.types \/ seen(k)
                          THEN Nothing ELSE Send(FilesystemSamples(k, e.items[k]))]
    <2>1. UpdateFilesystem(e) = guard \bullet Loop(plain)
      BY DEF UpdateFilesystem
    <2>2. \A k, x : FilesystemSamples(k, x) = samples(k, x)
      BY DEF FilesystemSamples
    <2> HIDE DEF samples, filter, seen
    <2>3. plain = bodies
      BY <2>2
    <2> QED
      BY <2>1, <2>3
  <1>3. UpdateFilesystem(e1) = guard \bullet Loop(one)
    <2> DEFINE none(k) == \E l \in 1..(k - 1) : FilesystemLabels(e1.items[l]) = FilesystemLabels(e1.items[k])
               plain == [k \in DOMAIN e1.items |->
                          IF e1.items[k].mountPoint \in filter.points \/ e1.items[k].fsType \in filter.types \/ none(k)
                          THEN Nothing ELSE Send(FilesystemSamples(k, e1.items[k]))]
    <2>1. UpdateFilesystem(e1) = guard \bullet Loop(plain)
      BY DEF UpdateFilesystem
    <2>2. \A k, x : FilesystemSamples(k, x) = samples(k, x)
      BY DEF FilesystemSamples
    <2>3. \A k \in DOMAIN e1.items : ~none(k)
      <3>1. DOMAIN e1.items = {1} /\ 1..(1 - 1) = {}
        OBVIOUS
      <3> QED
        BY <3>1
    <2> HIDE DEF samples, filter, none
    <2>4. plain = one
      BY <2>2, <2>3
    <2> QED
      BY <2>1, <2>4
  <1> HIDE DEF body, guard
  <1>4. Shows(Loop(bodies), i, Loop(one))
    <2>1. /\ DOMAIN bodies = DOMAIN e.items /\ DOMAIN bodies \subseteq Nat
          /\ \A k \in DOMAIN bodies : bodies[k] = IF seen(k) THEN Nothing ELSE body(k, e.items[k])
      BY DEF IsSequence
    <2>2. DOMAIN one = {1} /\ one[1] = body(1, e.items[i]) /\ ~seen(i)
      OBVIOUS
    <2> HIDE DEF bodies, one, seen
    <2>3. ASSUME NEW k \in DOMAIN bodies PROVE \E b : AlikeBodies(bodies[k], k, b, 1)
      <3>1. CASE seen(k)
        BY <2>1, <3>1, AlikeParts
      <3>2. CASE ~seen(k)
        BY <1>1, <2>1, <3>2
      <3> QED
        BY <3>1, <3>2
    <2>4. AlikeBodies(bodies[i], i, one[1], 1)
      BY <1>1, <2>1, <2>2
    <2> QED
      BY <2>1, <2>2, <2>3, <2>4, LoopShows
  <1>5. Shows(guard, i, guard)
    BY ShowsParts DEF guard
  <1> HIDE DEF bodies, one
  <1> QED
    BY <1>2, <1>3, <1>4, <1>5, ShowsParts

(* What is of no item shows nothing of one.                                *)
LEMMA ShowsOfNone ==
    ASSUME NEW a, NEW i, i # 0, \A s \in a.sent : s.of[1] = 0
    PROVE  Shows(a, i, a)
  BY DEF Shows, SamplesOf

LEMMA SentOfInode ==
    ASSUME NEW dev, NEW columns, NEW s \in InodeSamples(dev, columns).sent
    PROVE  s.of[1] = 0
  <1> DEFINE inode(n) == Sample(<<"disk", DiskInfoDescs.inode[n]>>, <<dev>>, <<0, dev, n>>)
             bodies == [n \in 1..(IF Len(columns) < 3 THEN Len(columns) ELSE 3) |->
                          IF columns[n] = "num" THEN Send({inode(n)}) ELSE Return("error")]
  <1>1. InodeSamples(dev, columns) = Loop(bodies)
    BY DEF InodeSamples
  <1>2. DOMAIN bodies \subseteq Nat
    OBVIOUS
  <1>3. \A n : inode(n).of[1] = 0
    BY DEF Sample
  <1> HIDE DEF inode
  <1>4. \A n \in DOMAIN bodies : \A t \in bodies[n].sent : t.of[1] = 0
    BY <1>3 DEF Send, Return
  <1> HIDE DEF bodies
  <1> QED
    BY <1>1, <1>2, <1>4, SentByLoop

LEMMA DiskstatsShows ==
    ASSUME NEW e, IsSequence(e.items), NEW i \in DOMAIN e.items, NEW e1, e1.items = <<e.items[i]>>,
           e1.flags = e.flags, e1.diskstats = e.diskstats, e1.df = e.df, e1.order = e.order, e1.rows = e.rows, e1.ignoredDevices = e.ignoredDevices,
           IsSequence(e.order)
    PROVE  Shows(UpdateDiskstats(e), i, UpdateDiskstats(e1))
  <1> DEFINE filter == NewDiskstatsDeviceFilter(e.flags)
             body(k, x) == IF Ignored(filter, x.name) THEN Nothing ELSE Send(DiskSamples(k, x))
             bodies == [k \in DOMAIN e.items |-> body(k, e.items[k])]
             one == [k \in DOMAIN e1.items |-> body(k, e1.items[k])]
  <1>1. ASSUME NEW k, NEW j, NEW x PROVE AlikeBodies(body(k, x), k, body(j, x), j)
    <2>1. Alike(DiskSamples(k, x), k, DiskSamples(j, x), j)
      <3> DEFINE p == GetUdevDeviceProperties(x)
                 ata == {a \in DiskInfoDescs.ata : p.ata # "" /\ x.udev = "ok" /\ a \in x.ataNumbers}
                 stats == {DiskDescs[n] : n \in 1..(x.ioStatsCount - 3)}
                 info(l) == Sample(<<"disk", "info">>, <<x.name, Serial(p)>>, <<l>>)
                 system(l) == Sample(<<"disk", DiskInfoDescs.filesystem>>, <<x.name, p.fsType>>, <<l>>)
                 mapper(l) == Sample(<<"disk", DiskInfoDescs.deviceMapper>>, <<x.name, p.dmName>>, <<l>>)
                 maybe(text, S) == IF text = "" THEN {} ELSE S
                 counts(l) == Samples("disk", stats, <<x.name>>, <<l>>)
                 numbers(l) == Samples("disk", ata, <<x.name>>, <<l>>)
                 all(l) == {info(l)} \cup counts(l) \cup maybe(p.fsType, {system(l)})
                             \cup maybe(p.dmName, {mapper(l)}) \cup numbers(l)
      <3>1. \A l : DiskSamples(l, x) = all(l)
        BY DEF DiskSamples
      <3>2. /\ \A l, m : info(l).of[1] = l /\ Twin(info(l), info(m))
            /\ \A l, m : system(l).of[1] = l /\ Twin(system(l), system(m))
            /\ \A l, m : mapper(l).of[1] = l /\ Twin(mapper(l), mapper(m))
        BY TwinTuples
      <3> HIDE DEF p, ata, stats, info, system, mapper
      <3>3. Alike(counts(k), k, counts(j), j) /\ Alike(numbers(k), k, numbers(j), j)
        BY TwinSamples
      <3> HIDE DEF counts, numbers
      <3>4. /\ Alike({info(k)}, k, {info(j)}, j)
            /\ Alike({system(k)}, k, {system(j)}, j)
            /\ Alike({mapper(k)}, k, {mapper(j)}, j)
        BY <3>2 DEF Alike, Within
      <3>5. \A text, S, T : Alike(S, k, T, j) => Alike(maybe(text, S), k, maybe(text, T), j)
        BY AlikeSets
      <3> HIDE DEF maybe
      <3>6. Alike(all(k), k, all(j), j)
        BY <3>3, <3>4, <3>5, AlikeSets
      <3> QED
        BY <3>1, <3>6
    <2> QED
      BY <2>1, AlikeParts
  <1> HIDE DEF body
  <1>2. Shows(Loop(bodies), i, Loop(one))
    <2>1. /\ DOMAIN bodies = DOMAIN e.items /\ DOMAIN bodies \subseteq Nat
          /\ \A k \in DOMAIN bodies : bodies[k] = body(k, e.items[k])
      BY DEF IsSequence
    <2>2. DOMAIN one = {1} /\ one[1] = body(1, e.items[i])
      OBVIOUS
    <2> HIDE DEF bodies, one
    <2>3. \A k \in DOMAIN bodies : AlikeBodies(bodies[k], k, body(1, e.items[k]), 1)
      BY <1>1, <2>1
    <2>4. AlikeBodies(bodies[i], i, one[1], 1)
      BY <1>1, <2>1, <2>2
    <2> QED
      BY <2>1, <2>2, <2>3, <2>4, LoopShows
  <1> DEFINE inodes == ParseDiskInode(e.rows)
             inode(n) == IF e.order[n] \notin DOMAIN inodes \/ e.order[n] \in e.ignoredDevices THEN Nothing
                         ELSE InodeSamples(e.order[n], inodes[e.order[n]])
             all == [n \in DOMAIN e.order |-> inode(n)]
             guard == Check(filter.built, "unbuilt") \bullet Need(e.diskstats, {})
             next == Need(e.df, {})
  <1>3. /\ UpdateDiskstats(e) = guard \bullet Loop(bodies) \bullet next \bullet Loop(all)
        /\ UpdateDiskstats(e1) = guard \bullet Loop(one) \bullet next \bullet Loop(all)
    BY DEF UpdateDiskstats, body
  <1>4. Shows(guard, i, guard) /\ Shows(next, i, next)
    BY ShowsParts
  <1>5. Shows(Loop(all), i, Loop(all))
    <2>1. ASSUME NEW n \in DOMAIN e.order PROVE \A s \in inode(n).sent : s.of[1] = 0
      <3> HIDE DEF inodes
      <3>1. CASE e.order[n] \notin DOMAIN inodes \/ e.order[n] \in e.ignoredDevices
        BY <3>1, Through
      <3>2. CASE e.order[n] \in DOMAIN inodes /\ e.order[n] \notin e.ignoredDevices
        <4>1. inode(n) = InodeSamples(e.order[n], inodes[e.order[n]])
          BY <3>2
        <4> QED
          BY <4>1, SentOfInode
      <3> QED
        BY <3>1, <3>2
    <2>2. DOMAIN all = DOMAIN e.order /\ DOMAIN all \subseteq Nat /\ \A n \in DOMAIN e.order : all[n] = inode(n)
      BY DEF IsSequence
    <2> HIDE DEF inode, all
    <2>3. \A s \in Loop(all).sent : s.of[1] = 0
      BY <2>1, <2>2, SentByLoop
    <2> QED
      BY <2>3, ShowsOfNone DEF IsSequence
  <1> HIDE DEF bodies, one, all, guard, next
  <1> QED
    BY <1>2, <1>3, <1>4, <1>5, ShowsParts

(* What a sensor and a chip send, whatever becomes of the chip.            *)
LEMMA SensorAlike ==
    ASSUME NEW k, NEW j, NEW chip, NEW sensor, NEW type, NEW elements, NEW numbers
    PROVE  Alike(HwmonSensor(k, chip, sensor, type, elements, numbers), k,
                 HwmonSensor(j, chip, sensor, type, elements, numbers), j)
  <1> DEFINE names == {n \in {HwmonSpecial[type]} : type = "beep_enable" \/ "" \in numbers}
             label(l) == Samples("hwmon", {"sensor_label"}, <<chip, sensor>>, <<l, sensor>>)
             special(l) == Samples("hwmon", names, <<chip, sensor>>, <<l, sensor>>)
             value(l, x) == Sample(<<"hwmon", HwmonMetric(type, x, elements)>>, <<chip, sensor>>, <<l, sensor, x>>)
             values(l) == {value(l, x) : x \in (elements \cap numbers) \ {"label"}}
             labelled(l) == IF "label" \in elements THEN label(l) ELSE {}
             read(l) == IF type \in DOMAIN HwmonSpecial THEN special(l) ELSE values(l)
  <1>1. \A l : HwmonSensor(l, chip, sensor, type, elements, numbers) = labelled(l) \cup read(l)
    BY DEF HwmonSensor
  <1> HIDE DEF names
  <1>2. Alike(label(k), k, label(j), j) /\ Alike(special(k), k, special(j), j)
    BY TwinSamples
  <1>3. \A l, m, x : value(l, x).of[1] = l /\ Twin(value(l, x), value(m, x))
    BY TwinTuples
  <1> HIDE DEF label, special, value
  <1>4. Alike(values(k), k, values(j), j)
    BY <1>3 DEF Alike, Within
  <1> HIDE DEF values
  <1>5. Alike(labelled(k), k, labelled(j), j) /\ Alike(read(k), k, read(j), j)
    BY <1>2, <1>4, AlikeSets
  <1> HIDE DEF labelled, read
  <1> QED
    BY <1>1, <1>5, AlikeSets

LEMMA ChipAlike ==
    ASSUME NEW k, NEW j, NEW x
    PROVE  Alike(UpdateHwmonChip(k, x).sent, k, UpdateHwmonChip(j, x).sent, j)
  <1> DEFINE sensors == CollectSensorData(x.files)
             numbers(s) == {f.element : f \in {g \in x.files : g.sensor = s /\ g.parses}}
             guard == Check(HwmonName(x) # "", "error") \bullet Need(x.readDir, {})
             name(l) == HwmonHumanReadableChipName(l, x)
             sensor(l, s) == HwmonSensor(l, HwmonName(x), s, SensorTypes(x.files)[s], sensors[s], numbers(s))
             all(l) == UNION {sensor(l, s) : s \in DOMAIN sensors}
  <1>1. \A l : UpdateHwmonChip(l, x) = guard \bullet Send(name(l)) \bullet Send(all(l))
    BY DEF UpdateHwmonChip
  <1>2. Alike(name(k), k, name(j), j)
    <2> DEFINE chip(l) == Samples("hwmon", {"chip_names"}, <<HwmonName(x), x.clean.name>>, <<l>>)
    <2>1. Alike(chip(k), k, chip(j), j)
      BY TwinSamples
    <2>2. \A l : name(l) = IF x.clean.name = "" THEN {} ELSE chip(l)
      BY DEF HwmonHumanReadableChipName
    <2> HIDE DEF chip, name
    <2> QED
      BY <2>1, <2>2, AlikeSets
  <1>3. Alike(all(k), k, all(j), j)
    <2>1. \A s : Alike(sensor(k, s), k, sensor(j, s), j)
      BY SensorAlike
    <2> HIDE DEF sensor, sensors
    <2> QED
      BY <2>1 DEF Alike, Within
  <1>4. guard.sent = {}
    <2>1. Check(HwmonName(x) # "", "error").sent = {} /\ Need(x.readDir, {}).sent = {}
      BY Through
    <2> QED
      BY <2>1, Joined
  <1> HIDE DEF guard, name, all
  <1>5. CASE guard.ret = "ok"
    <2>1. ASSUME NEW l PROVE UpdateHwmonChip(l, x).sent = name(l) \cup all(l)
      <3>1. (guard \bullet Send(name(l))).ret = "ok" /\ (guard \bullet Send(name(l))).sent = name(l)
        <4>1. (guard \bullet Send(name(l))).ret = "ok"
          BY <1>5, GoingOn
        <4>2. (guard \bullet Send(name(l))).sent = guard.sent \cup Send(name(l)).sent
          BY <4>1, Through
        <4>3. Send(name(l)).sent = name(l)
          BY Through
        <4> QED
          BY <1>4, <4>1, <4>2, <4>3
      <3>2. (guard \bullet Send(name(l)) \bullet Send(all(l))).ret = "ok"
        BY <3>1, GoingOn
      <3> QED
        BY <1>1, <3>1, <3>2, Through
    <2>2. Alike(name(k) \cup all(k), k, name(j) \cup all(j), j)
      BY <1>2, <1>3, AlikeSets
    <2> QED
      BY <2>1, <2>2
  <1>6. CASE guard.ret # "ok"
    <2>1. \A l : UpdateHwmonChip(l, x).sent = {}
      BY <1>1, <1>4, <1>6, Joined
    <2> QED
      BY <2>1, AlikeSets
  <1> QED
    BY <1>5, <1>6

(* What Update returns is of the last chip alone, so a chip that fails and *)
(* is not the last is sent all the same, by itself with an error.          *)
LEMMA HwmonShows ==
    ASSUME NEW e, IsSequence(e.items), NEW i \in DOMAIN e.items, NEW e1, e1.items = <<e.items[i]>>,
           e1.dir = e.dir, UpdateHwmon(e).ret = "ok"
    PROVE  SamplesOf(UpdateHwmon(e), i) = SamplesOf(UpdateHwmon(e1), 1)
  <1> DEFINE chip(k, x) == Ignoring(UpdateHwmonChip(k, x))
             body(k, x) == Check(x.lstat = "ok", "panic") \bullet (IF IsChip(x) THEN chip(k, x) ELSE Nothing)
             bodies == [k \in DOMAIN e.items |-> body(k, e.items[k])]
             one == [k \in DOMAIN e1.items |-> body(k, e1.items[k])]
             guard == Need(e.dir, {"notexist"})
             last(f) == Check(~LastFailure(f), "error")
  <1>1. ASSUME NEW k, NEW j, NEW x PROVE AlikeBodies(body(k, x), k, body(j, x), j)
    <2>1. AlikeBodies(chip(k, x), k, chip(j, x), j)
      BY ChipAlike, AlikeParts DEF Ignoring
    <2> HIDE DEF chip
    <2> QED
      BY <2>1, AlikeParts
  <1> HIDE DEF body
  <1>2. Shows(Loop(bodies), i, Loop(one))
    <2>1. /\ DOMAIN bodies = DOMAIN e.items /\ DOMAIN bodies \subseteq Nat
          /\ \A k \in DOMAIN bodies : bodies[k] = body(k, e.items[k])
      BY DEF IsSequence
    <2>2. DOMAIN one = {1} /\ one[1] = body(1, e.items[i])
      OBVIOUS
    <2> HIDE DEF bodies, one
    <2> QED
      BY <1>1, <2>1, <2>2, LoopShows
  <1>3. UpdateHwmon(e) = guard \bullet Loop(bodies) \bullet last(e) /\ UpdateHwmon(e1) = guard \bullet Loop(one) \bullet last(e1)
    BY DEF UpdateHwmon, HwmonEntry, body
  <1>4. Shows(guard, i, guard)
    BY ShowsParts
  <1> HIDE DEF bodies, one, guard
  <1>5. Shows(guard \bullet Loop(bodies), i, guard \bullet Loop(one))
    BY <1>2, <1>4, ShowsParts
  <1> DEFINE a == guard \bullet Loop(bodies)
             b == guard \bullet Loop(one)
  <1> HIDE DEF a, b
  <1>6. UpdateHwmon(e) = a \bullet last(e) /\ UpdateHwmon(e1) = b \bullet last(e1) /\ Shows(a, i, b)
    BY <1>3, <1>5 DEF a, b
  <1>7. a.ret = "ok" /\ UpdateHwmon(e).sent = a.sent \cup last(e).sent
    BY <1>6, Through
  <1>8. b.ret = "ok" /\ SamplesOf(a, i) = SamplesOf(b, 1)
    BY <1>6, <1>7 DEF Shows
  <1>9. UpdateHwmon(e1).sent = b.sent \cup last(e1).sent
    BY <1>6, <1>8, Joined
  <1>10. last(e).sent = {} /\ last(e1).sent = {}
    BY Through
  <1>11. UpdateHwmon(e).sent = a.sent /\ UpdateHwmon(e1).sent = b.sent
    BY <1>7, <1>9, <1>10
  <1> QED
    BY <1>8, <1>11 DEF SamplesOf

(* zfs: its files of lines, and its three loops over pools.                *)
LEMMA KstatAlike ==
    ASSUME NEW i, NEW j, NEW lines, IsSequence(lines), NEW types, NEW a, NEW b,
           \A n \in DOMAIN lines : Alike(a[n], i, b[n], j)
    PROVE  AlikeBodies(ParseKstat(lines, types, a), i, ParseKstat(lines, types, b), j)
  <1> DEFINE headers == {n \in DOMAIN lines : lines[n].kind = "header"}
             counts(n) == n > FirstOf(headers) /\ lines[n].kind = "value" /\ lines[n].type \in types
             body(f, n) == IF ~counts(n) THEN Nothing
                           ELSE IF lines[n].parses THEN Send(f[n]) ELSE Return("error")
             bodies(f) == [n \in DOMAIN lines |-> body(f, n)]
  <1>1. \A f : ParseKstat(lines, types, f) = IF headers = {} THEN Return("error") ELSE Loop(bodies(f))
    BY DEF ParseKstat
  <1>2. \A n \in DOMAIN lines : AlikeBodies(body(a, n), i, body(b, n), j)
    <2> HIDE DEF counts
    <2>1. \A n \in DOMAIN lines : AlikeBodies(Send(a[n]), i, Send(b[n]), j)
      BY AlikeParts
    <2>2. AlikeBodies(Return("error"), i, Return("error"), j)
      BY DEF AlikeBodies, Return
    <2>3. AlikeBodies(Nothing, i, Nothing, j)
      BY AlikeParts
    <2> QED
      BY <2>1, <2>2, <2>3
  <1>3. AlikeBodies(Loop(bodies(a)), i, Loop(bodies(b)), j)
    <2>1. \A f : DOMAIN bodies(f) = DOMAIN lines /\ DOMAIN bodies(f) \subseteq Nat
                 /\ \A n \in DOMAIN lines : bodies(f)[n] = body(f, n)
      BY DEF IsSequence
    <2> HIDE DEF bodies, body
    <2> QED
      BY <1>2, <2>1, AlikeLoops
  <1> HIDE DEF headers, bodies
  <1> QED
    BY <1>1, <1>3 DEF AlikeBodies, Return

LEMMA IOAlike ==
    ASSUME NEW k, NEW j, NEW pool, NEW io, IsSequence(io.rows), IsSequence(io.fields)
    PROVE  AlikeBodies(ParsePoolProcfsFile(k, pool, io), k, ParsePoolProcfsFile(j, pool, io), j)
  <1> DEFINE sent(l, f) == Send(Samples("zfs_zpool", {io.fields[f]}, <<pool>>, <<l>>))
             number(l, row, f) == IF f > Len(row) THEN Return("panic")
                                  ELSE IF row[f] = "num" THEN sent(l, f) ELSE Return("error")
             row(l, r) == [f \in DOMAIN io.fields |-> number(l, io.rows[r], f)]
             rows(l) == [r \in DOMAIN io.rows |-> Loop(row(l, r))]
  <1>1. \A l : ParsePoolProcfsFile(l, pool, io) = Loop(rows(l))
    BY DEF ParsePoolProcfsFile
  <1>2. \A r, f : AlikeBodies(number(k, r, f), k, number(j, r, f), j)
    <2>1. \A f : AlikeBodies(sent(k, f), k, sent(j, f), j)
      BY TwinSamples, AlikeParts
    <2>2. \A how : how # "ok" => AlikeBodies(Return(how), k, Return(how), j)
      BY DEF AlikeBodies, Return
    <2> HIDE DEF sent
    <2> QED
      BY <2>1, <2>2
  <1>3. ASSUME NEW r \in DOMAIN io.rows PROVE AlikeBodies(Loop(row(k, r)), k, Loop(row(j, r)), j)
    <2>1. \A l : DOMAIN row(l, r) = DOMAIN io.fields /\ DOMAIN row(l, r) \subseteq Nat
                 /\ \A f \in DOMAIN io.fields : row(l, r)[f] = number(l, io.rows[r], f)
      BY DEF IsSequence
    <2> HIDE DEF row, number
    <2> QED
      BY <1>2, <2>1, AlikeLoops
  <1>4. \A l : DOMAIN rows(l) = DOMAIN io.rows /\ DOMAIN rows(l) \subseteq Nat
               /\ \A r \in DOMAIN io.rows : rows(l)[r] = Loop(row(l, r))
    BY DEF IsSequence
  <1> HIDE DEF row, rows
  <1> QED
    BY <1>1, <1>3, <1>4, AlikeLoops

LEMMA ObjsetAlike ==
    ASSUME NEW k, NEW j, NEW pool, NEW lines, IsSequence(lines)
    PROVE  AlikeBodies(ParsePoolObjsetFile(k, pool, lines), k, ParsePoolObjsetFile(j, pool, lines), j)
  <1> DEFINE names(n) == {m \in 1..n : lines[m].kind = "dataset"}
             dataset(n) == IF names(n) = {} THEN "" ELSE
                             lines[CHOOSE m \in names(n) : \A l \in names(n) : l <= m].name
             labels(n) == IF names(n) = {} THEN <<"", "">> ELSE <<pool, dataset(n)>>
             of(l, n) == Samples("zfs_zpool_dataset", {lines[n].name}, labels(n), <<l, "dataset", dataset(n)>>)
             body(l) == [n \in DOMAIN lines |-> of(l, n)]
  <1>1. \A l : ParsePoolObjsetFile(l, pool, lines) = ParseKstat(lines, {"uint64"}, body(l))
    BY DEF ParsePoolObjsetFile
  <1> HIDE DEF dataset, labels
  <1>2. \A n : Alike(of(k, n), k, of(j, n), j)
    BY TwinSamples
  <1>3. \A l : \A n \in DOMAIN lines : body(l)[n] = of(l, n)
    OBVIOUS
  <1> HIDE DEF of, body
  <1> QED
    BY <1>1, <1>2, <1>3, KstatAlike

LEMMA ZFSShows ==
    ASSUME NEW e, IsSequence(e.items), NEW i \in DOMAIN e.items, NEW e1, e1.items = <<e.items[i]>>,
           e1.base = e.base, e1.files = e.files,
           IsSequence(e.files),
           \A l \in DOMAIN e.files : IsSequence(e.files[l].lines),
           \A l \in DOMAIN e.items : IsSequence(e.items[l].io.rows) /\ IsSequence(e.items[l].io.fields),
           \A l \in DOMAIN e.items : IsSequence(e.items[l].objsets),
           \A l \in DOMAIN e.items : \A n \in DOMAIN e.items[l].objsets : IsSequence(e.items[l].objsets[n].lines)
    PROVE  Shows(UpdateZFS(e), i, UpdateZFS(e1))
  <1> DEFINE objset(k, x, n) == OpenProcFile(x.objsets[n].open) \bullet ParsePoolObjsetFile(k, x.name, x.objsets[n].lines)
             sets(k, x) == [n \in DOMAIN x.objsets |-> objset(k, x, n)]
             state(k, x, s) == Sample(<<"zfs_zpool", "state">>, <<x.name, s>>, <<k, "state", s, s = x.state.name>>)
             states(k, x) == {state(k, x, s) : s \in ZFSPoolStates}
             bodyI(k, x) == OpenProcFile(x.io.open) \bullet ParsePoolProcfsFile(k, x.name, x.io)
             bodyO(k, x) == Loop(sets(k, x))
             bodyS(k, x) == OpenProcFile(x.state.open) \bullet Send(states(k, x))
             bodiesI == [k \in DOMAIN e.items |-> bodyI(k, e.items[k])]
             bodiesO == [k \in DOMAIN e.items |-> bodyO(k, e.items[k])]
             bodiesS == [k \in DOMAIN e.items |-> bodyS(k, e.items[k])]
             oneI == [k \in DOMAIN e1.items |-> bodyI(k, e1.items[k])]
             oneO == [k \in DOMAIN e1.items |-> bodyO(k, e1.items[k])]
             oneS == [k \in DOMAIN e1.items |-> bodyS(k, e1.items[k])]
  <1>1. ASSUME NEW k, NEW j, NEW x, IsSequence(x.io.rows), IsSequence(x.io.fields) PROVE AlikeBodies(bodyI(k, x), k, bodyI(j, x), j)
    <2>1. AlikeBodies(ParsePoolProcfsFile(k, x.name, x.io), k, ParsePoolProcfsFile(j, x.name, x.io), j)
      BY <1>1, IOAlike
    <2> QED
      BY <2>1, AlikeParts DEF OpenProcFile
  <1>2. ASSUME NEW k, NEW j, NEW x, IsSequence(x.objsets), \A n \in DOMAIN x.objsets : IsSequence(x.objsets[n].lines) PROVE AlikeBodies(bodyO(k, x), k, bodyO(j, x), j)
    <2>1. ASSUME NEW n \in DOMAIN x.objsets PROVE AlikeBodies(objset(k, x, n), k, objset(j, x, n), j)
      <3>1. AlikeBodies(ParsePoolObjsetFile(k, x.name, x.objsets[n].lines), k,
                        ParsePoolObjsetFile(j, x.name, x.objsets[n].lines), j)
        BY <1>2, ObjsetAlike
      <3> QED
        BY <3>1, AlikeParts DEF OpenProcFile
    <2>2. \A l : DOMAIN sets(l, x) = DOMAIN x.objsets /\ DOMAIN sets(l, x) \subseteq Nat
                 /\ \A n \in DOMAIN x.objsets : sets(l, x)[n] = objset(l, x, n)
      BY <1>2 DEF IsSequence
    <2> HIDE DEF sets, objset
    <2> QED
      BY <2>1, <2>2, AlikeLoops
  <1>3. ASSUME NEW k, NEW j, NEW x PROVE AlikeBodies(bodyS(k, x), k, bodyS(j, x), j)
    <2> DEFINE is(s) == s = x.state.name
    <2>1. \A l, m, s : state(l, x, s).of[1] = l /\ Twin(state(l, x, s), state(m, x, s))
      <3> HIDE DEF is
      <3>1. \A l, m, s : LET z(p) == Sample(<<"zfs_zpool", "state">>, <<x.name, s>>, <<p, "state", s, is(s)>>)
                         IN  z(l).of[1] = l /\ Twin(z(l), z(m))
        BY TwinTuples
      <3> QED
        BY <3>1 DEF is
    <2> HIDE DEF state
    <2>2. Alike(states(k, x), k, states(j, x), j)
      BY <2>1 DEF Alike, Within
    <2> HIDE DEF states
    <2> QED
      BY <2>2, AlikeParts DEF OpenProcFile
  <1> HIDE DEF bodyI, bodyO, bodyS
  <1>4. Shows(Loop(bodiesI), i, Loop(oneI))
    <2>1. /\ DOMAIN bodiesI = DOMAIN e.items /\ DOMAIN bodiesI \subseteq Nat
          /\ \A k \in DOMAIN bodiesI : bodiesI[k] = bodyI(k, e.items[k])
      BY DEF IsSequence
    <2>2. DOMAIN oneI = {1} /\ oneI[1] = bodyI(1, e.items[i])
      OBVIOUS
    <2> HIDE DEF bodiesI, oneI
    <2>3. \A k \in DOMAIN bodiesI : AlikeBodies(bodiesI[k], k, bodyI(1, e.items[k]), 1)
      BY <1>1, <2>1
    <2>4. AlikeBodies(bodiesI[i], i, oneI[1], 1)
      BY <1>1, <2>1, <2>2
    <2> QED
      BY <2>1, <2>2, <2>3, <2>4, LoopShows
  <1>5. Shows(Loop(bodiesO), i, Loop(oneO))
    <2>1. /\ DOMAIN bodiesO = DOMAIN e.items /\ DOMAIN bodiesO \subseteq Nat
          /\ \A k \in DOMAIN bodiesO : bodiesO[k] = bodyO(k, e.items[k])
      BY DEF IsSequence
    <2>2. DOMAIN oneO = {1} /\ oneO[1] = bodyO(1, e.items[i])
      OBVIOUS
    <2> HIDE DEF bodiesO, oneO
    <2>3. \A k \in DOMAIN bodiesO : AlikeBodies(bodiesO[k], k, bodyO(1, e.items[k]), 1)
      BY <1>2, <2>1
    <2>4. AlikeBodies(bodiesO[i], i, oneO[1], 1)
      BY <1>2, <2>1, <2>2
    <2> QED
      BY <2>1, <2>2, <2>3, <2>4, LoopShows
  <1>6. Shows(Loop(bodiesS), i, Loop(oneS))
    <2>1. /\ DOMAIN bodiesS = DOMAIN e.items /\ DOMAIN bodiesS \subseteq Nat
          /\ \A k \in DOMAIN bodiesS : bodiesS[k] = bodyS(k, e.items[k])
      BY DEF IsSequence
    <2>2. DOMAIN oneS = {1} /\ oneS[1] = bodyS(1, e.items[i])
      OBVIOUS
    <2> HIDE DEF bodiesS, oneS
    <2>3. \A k \in DOMAIN bodiesS : AlikeBodies(bodiesS[k], k, bodyS(1, e.items[k]), 1)
      BY <1>3, <2>1
    <2>4. AlikeBodies(bodiesS[i], i, oneS[1], 1)
      BY <1>3, <2>1, <2>2
    <2> QED
      BY <2>1, <2>2, <2>3, <2>4, LoopShows
  <1> DEFINE guard == Need(e.base, Outcomes)
             file(n) == UpdateZFSStats(e.files[n].subsystem, e.files[n])
             files == [n \in DOMAIN e.files |-> file(n)]
  <1>7. UpdateZFS(e) = guard \bullet Loop(files) \bullet (Loop(bodiesI) \bullet Loop(bodiesO) \bullet Loop(bodiesS))
    BY DEF UpdateZFS, UpdatePoolStats, ParsePoolStateFile, bodyI, bodyO, bodyS
  <1>8. UpdateZFS(e1) = guard \bullet Loop(files) \bullet (Loop(oneI) \bullet Loop(oneO) \bullet Loop(oneS))
    BY DEF UpdateZFS, UpdatePoolStats, ParsePoolStateFile, bodyI, bodyO, bodyS
  <1>9. Shows(guard, i, guard)
    BY ShowsParts
  <1>10. Shows(Loop(files), i, Loop(files))
    <2>1. ASSUME NEW n \in DOMAIN e.files, NEW s \in file(n).sent PROVE s.of[1] = 0
      BY <2>1, FilesAreOfNone
    <2>2. DOMAIN files = DOMAIN e.files /\ DOMAIN files \subseteq Nat /\ \A n \in DOMAIN e.files : files[n] = file(n)
      BY DEF IsSequence
    <2> HIDE DEF files, file
    <2>3. \A s \in Loop(files).sent : s.of[1] = 0
      BY <2>1, <2>2, SentByLoop
    <2> QED
      BY <2>3, ShowsOfNone DEF IsSequence
  <1> HIDE DEF bodiesI, bodiesO, bodiesS, oneI, oneO, oneS, guard, files
  <1>11. Shows(Loop(bodiesI) \bullet Loop(bodiesO) \bullet Loop(bodiesS), i, Loop(oneI) \bullet Loop(oneO) \bullet Loop(oneS))
    BY <1>4, <1>5, <1>6, ShowsParts
  <1> QED
    BY <1>7, <1>8, <1>9, <1>10, <1>11, ShowsParts

(* A collector on an environment of one of its items, the rest as it was.  *)
LEMMA StorageShows ==
    ASSUME NEW c \in HaveItems \cap StorageCollectors, NEW e, ListsAreSequences(c, e), IsAsRead(c, e),
           NEW i \in DOMAIN e.items, NEW e1, e1.items = <<e.items[i]>>, \A f \in Reads[c] : e1[f] = e[f],
           Update(c, e).ret = "ok",
           c = "filesystem" =>
             ~ \E l \in 1..(i - 1) : FilesystemLabels(e.items[l]) = FilesystemLabels(e.items[i])
    PROVE  SamplesOf(Update(c, e), i) = SamplesOf(Update(c, e1), 1)
  <1>1. IsSequence(e.items)
    BY DEF ListsAreSequences
  <1>2. CASE c = "xfs"
    <2>1. Update(c, e) = UpdateXFS(e) /\ Update(c, e1) = UpdateXFS(e1)
      BY <1>2 DEF Update, UpdateOfStorage, StorageCollectors, NetworkCollectors, HardwareCollectors, ServiceCollectors,
           KernelCollectors
    <2>2. e1.stats = e.stats
      BY <1>2 DEF Reads
    <2> QED
      BY <1>1, <2>1, <2>2, XFSShows DEF Shows
  <1>3. CASE c = "bcache"
    <2>1. Update(c, e) = UpdateBcache(e) /\ Update(c, e1) = UpdateBcache(e1)
      BY <1>3 DEF Update, UpdateOfStorage, StorageCollectors, NetworkCollectors, HardwareCollectors, ServiceCollectors,
           KernelCollectors
    <2>2. e1.stats = e.stats /\ e1.priorityStats = e.priorityStats
      BY <1>3 DEF Reads
    <2> QED
      BY <1>1, <2>1, <2>2, BcacheShows DEF Shows
  <1>4. CASE c = "btrfs"
    <2>1. Update(c, e) = UpdateBtrfs(e) /\ Update(c, e1) = UpdateBtrfs(e1)
      BY <1>4 DEF Update, UpdateOfStorage, StorageCollectors, NetworkCollectors, HardwareCollectors, ServiceCollectors,
           KernelCollectors
    <2>2. e1.stats = e.stats /\ e1.mountPoints = e.mountPoints /\ e1.mounts = e.mounts
      BY <1>4 DEF Reads
    <2> QED
      BY <1>1, <2>1, <2>2, BtrfsShows DEF Shows
  <1>5. CASE c = "zfs"
    <2>1. Update(c, e) = UpdateZFS(e) /\ Update(c, e1) = UpdateZFS(e1)
      BY <1>5 DEF Update, UpdateOfStorage, StorageCollectors, NetworkCollectors, HardwareCollectors, ServiceCollectors,
           KernelCollectors
    <2>2. e1.base = e.base /\ e1.files = e.files
      BY <1>5 DEF Reads
    <2>3. IsSequence(e.files) /\ (\A l \in DOMAIN e.files : IsSequence(e.files[l].lines))
          /\ (\A l \in DOMAIN e.items : IsSequence(e.items[l].io.rows) /\ IsSequence(e.items[l].io.fields))
          /\ (\A l \in DOMAIN e.items : IsSequence(e.items[l].objsets))
          /\ (\A l \in DOMAIN e.items : \A n \in DOMAIN e.items[l].objsets : IsSequence(e.items[l].objsets[n].lines))
      BY <1>5 DEF ListsAreSequences
    <2> QED
      BY <1>1, <2>1, <2>2, <2>3, ZFSShows DEF Shows
  <1>6. CASE c = "mdadm"
    <2>1. Update(c, e) = UpdateMdadm(e) /\ Update(c, e1) = UpdateMdadm(e1)
      BY <1>6 DEF Update, UpdateOfStorage, StorageCollectors, NetworkCollectors, HardwareCollectors, ServiceCollectors,
           KernelCollectors
    <2>2. e1.mdstat = e.mdstat
      BY <1>6 DEF Reads
    <2> QED
      BY <1>1, <2>1, <2>2, MdadmShows DEF Shows
  <1>7. CASE c = "diskstats"
    <2>1. Update(c, e) = UpdateDiskstats(e) /\ Update(c, e1) = UpdateDiskstats(e1)
      BY <1>7 DEF Update, UpdateOfStorage, StorageCollectors, NetworkCollectors, HardwareCollectors, ServiceCollectors,
           KernelCollectors
    <2>2. e1.flags = e.flags /\ e1.diskstats = e.diskstats /\ e1.df = e.df /\ e1.order = e.order /\ e1.rows = e.rows /\ e1.ignoredDevices = e.ignoredDevices
      BY <1>7 DEF Reads
    <2>3. IsSequence(e.order)
      BY <1>7 DEF ListsAreSequences
    <2> QED
      BY <1>1, <2>1, <2>2, <2>3, DiskstatsShows DEF Shows
  <1>8. CASE c = "tapestats"
    <2>1. Update(c, e) = UpdateTapestats(e) /\ Update(c, e1) = UpdateTapestats(e1)
      BY <1>8 DEF Update, UpdateOfStorage, StorageCollectors, NetworkCollectors, HardwareCollectors, ServiceCollectors,
           KernelCollectors
    <2>2. e1.tapes = e.tapes
      BY <1>8 DEF Reads
    <2> QED
      BY <1>1, <2>1, <2>2, TapestatsShows DEF Shows
  <1>9. CASE c = "nvme"
    <2>1. Update(c, e) = UpdateNVMe(e) /\ Update(c, e1) = UpdateNVMe(e1)
      BY <1>9 DEF Update, UpdateOfStorage, StorageCollectors, NetworkCollectors, HardwareCollectors, ServiceCollectors,
           KernelCollectors
    <2>2. e1.class = e.class
      BY <1>9 DEF Reads
    <2> QED
      BY <1>1, <2>1, <2>2, NVMeShows DEF Shows
  <1>10. CASE c = "filesystem"
    <2>1. Update(c, e) = UpdateFilesystem(e) /\ Update(c, e1) = UpdateFilesystem(e1)
      BY <1>10 DEF Update, UpdateOfStorage, StorageCollectors, NetworkCollectors, HardwareCollectors, ServiceCollectors,
           KernelCollectors
    <2>2. e1.flags = e.flags /\ e1.mounts = e.mounts
      BY <1>10 DEF Reads
    <2> QED
      BY <1>1, <1>10, <2>1, <2>2, FilesystemShows DEF Shows
  <1> QED
    BY <1>2, <1>3, <1>4, <1>5, <1>6, <1>7, <1>8, <1>9, <1>10 DEF HaveItems, StorageCollectors

LEMMA NetworkShows ==
    ASSUME NEW c \in HaveItems \cap NetworkCollectors, NEW e, ListsAreSequences(c, e), IsAsRead(c, e),
           NEW i \in DOMAIN e.items, NEW e1, e1.items = <<e.items[i]>>, \A f \in Reads[c] : e1[f] = e[f],
           Update(c, e).ret = "ok"
    PROVE  SamplesOf(Update(c, e), i) = SamplesOf(Update(c, e1), 1)
  <1>1. IsSequence(e.items)
    BY DEF ListsAreSequences
  <1>2. CASE c = "netdev"
    <2>1. Update(c, e) = UpdateNetDev(e) /\ Update(c, e1) = UpdateNetDev(e1)
      BY <1>2 DEF Update, UpdateOfNetwork, StorageCollectors, NetworkCollectors, HardwareCollectors, ServiceCollectors,
           KernelCollectors
    <2>2. e1.flags = e.flags /\ e1.stats = e.stats /\ e1.netlink = e.netlink /\ e1.detailed = e.detailed /\ e1.addressInfo = e.addressInfo /\ e1.interfaces = e.interfaces
      BY <1>2 DEF Reads
    <2> QED
      BY <1>1, <2>1, <2>2, NetDevShows DEF Shows
  <1>3. CASE c = "netclass"
    <2>1. Update(c, e) = UpdateNetClass(e) /\ Update(c, e1) = UpdateNetClass(e1)
      BY <1>3 DEF Update, UpdateOfNetwork, StorageCollectors, NetworkCollectors, HardwareCollectors, ServiceCollectors,
           KernelCollectors
    <2>2. e1.netlink = e.netlink /\ e1.devices = e.devices /\ e1.ignoreInvalidSpeed = e.ignoreInvalidSpeed /\ e1.linkModes = e.linkModes /\ e1.withStats = e.withStats
      BY <1>3 DEF Reads
    <2> QED
      BY <1>1, <2>1, <2>2, NetClassShows DEF Shows
  <1>4. CASE c = "qdisc"
    <2>1. Update(c, e) = UpdateQdisc(e) /\ Update(c, e1) = UpdateQdisc(e1)
      BY <1>4 DEF Update, UpdateOfNetwork, StorageCollectors, NetworkCollectors, HardwareCollectors, ServiceCollectors,
           KernelCollectors
    <2>2. e1.flags = e.flags /\ e1.disciplines = e.disciplines
      BY <1>4 DEF Reads
    <2> QED
      BY <1>1, <2>1, <2>2, QdiscShows DEF Shows
  <1>5. CASE c = "ethtool"
    <2>1. Update(c, e) = UpdateEthtool(e) /\ Update(c, e1) = UpdateEthtool(e1)
      BY <1>5 DEF Update, UpdateOfNetwork, StorageCollectors, NetworkCollectors, HardwareCollectors, ServiceCollectors,
           KernelCollectors
    <2>2. e1.netClass = e.netClass /\ e1.flags = e.flags /\ e1.metrics = e.metrics
      BY <1>5 DEF Reads
    <2> QED
      BY <1>1, <2>1, <2>2, EthtoolShows DEF Shows
  <1>6. CASE c = "wifi"
    <2>1. Update(c, e) = UpdateWifi(e) /\ Update(c, e1) = UpdateWifi(e1)
      BY <1>6 DEF Update, UpdateOfNetwork, StorageCollectors, NetworkCollectors, HardwareCollectors, ServiceCollectors,
           KernelCollectors
    <2>2. e1.stater = e.stater /\ e1.interfaces = e.interfaces
      BY <1>6 DEF Reads
    <2> QED
      BY <1>1, <2>1, <2>2, WifiShows DEF Shows
  <1>7. CASE c = "softnet"
    <2>1. Update(c, e) = UpdateSoftnet(e) /\ Update(c, e1) = UpdateSoftnet(e1)
      BY <1>7 DEF Update, UpdateOfNetwork, StorageCollectors, NetworkCollectors, HardwareCollectors, ServiceCollectors,
           KernelCollectors
    <2>2. e1.stats = e.stats
      BY <1>7 DEF Reads
    <2> QED
      BY <1>1, <2>1, <2>2, SoftnetShows DEF Shows
  <1>8. CASE c = "lnstat"
    <2>1. Update(c, e) = UpdateLnstat(e) /\ Update(c, e1) = UpdateLnstat(e1)
      BY <1>8 DEF Update, UpdateOfNetwork, StorageCollectors, NetworkCollectors, HardwareCollectors, ServiceCollectors,
           KernelCollectors
    <2>2. e1.netstat = e.netstat
      BY <1>8 DEF Reads
    <2> QED
      BY <1>1, <2>1, <2>2, LnstatShows DEF Shows
  <1>9. CASE c = "bonding"
    <2>1. Update(c, e) = UpdateBonding(e) /\ Update(c, e1) = UpdateBonding(e1)
      BY <1>9 DEF Update, UpdateOfNetwork, StorageCollectors, NetworkCollectors, HardwareCollectors, ServiceCollectors,
           KernelCollectors
    <2>2. e1.masters = e.masters
      BY <1>9 DEF Reads
    <2>3. \A k \in DOMAIN e.items : IsSequence(e.items[k].slaves)
      BY <1>9 DEF ListsAreSequences
    <2> QED
      BY <1>1, <2>1, <2>2, <2>3, BondingShows DEF Shows
  <1> QED
    BY <1>2, <1>3, <1>4, <1>5, <1>6, <1>7, <1>8, <1>9 DEF HaveItems, NetworkCollectors

LEMMA HardwareShows ==
    ASSUME NEW c \in HaveItems \cap HardwareCollectors, NEW e, ListsAreSequences(c, e), IsAsRead(c, e),
           NEW i \in DOMAIN e.items, NEW e1, e1.items = <<e.items[i]>>, \A f \in Reads[c] : e1[f] = e[f],
           Update(c, e).ret = "ok"
    PROVE  SamplesOf(Update(c, e), i) = SamplesOf(Update(c, e1), 1)
  <1>1. IsSequence(e.items)
    BY DEF ListsAreSequences
  <1>2. CASE c = "hwmon"
    <2>1. Update(c, e) = UpdateHwmon(e) /\ Update(c, e1) = UpdateHwmon(e1)
      BY <1>2 DEF Update, UpdateOfHardware, StorageCollectors, NetworkCollectors, HardwareCollectors, ServiceCollectors,
           KernelCollectors
    <2>2. e1.dir = e.dir
      BY <1>2 DEF Reads
    <2> QED
      BY <1>1, <2>1, <2>2, HwmonShows
  <1>3. CASE c = "perf"
    <2>1. Update(c, e) = UpdatePerf(e) /\ Update(c, e1) = UpdatePerf(e1)
      BY <1>3 DEF Update, UpdateOfHardware, StorageCollectors, NetworkCollectors, HardwareCollectors, ServiceCollectors,
           KernelCollectors
    <2>2. e1.tracepoints = e.tracepoints /\ e1.start = e.start /\ e1.kinds = e.kinds /\ e1.cacheProfilers = e.cacheProfilers
      BY <1>3 DEF Reads
    <2> QED
      BY <1>1, <2>1, <2>2, PerfShows DEF Shows
  <1>4. CASE c = "powersupplyclass"
    <2>1. Update(c, e) = UpdatePowerSupplyClass(e) /\ Update(c, e1) = UpdatePowerSupplyClass(e1)
      BY <1>4 DEF Update, UpdateOfHardware, StorageCollectors, NetworkCollectors, HardwareCollectors, ServiceCollectors,
           KernelCollectors
    <2>2. e1.read = e.read
      BY <1>4 DEF Reads
    <2> QED
      BY <1>1, <2>1, <2>2, PowerSupplyClassShows DEF Shows
  <1>5. CASE c = "edac"
    <2>1. Update(c, e) = UpdateEdac(e) /\ Update(c, e1) = UpdateEdac(e1)
      BY <1>5 DEF Update, UpdateOfHardware, StorageCollectors, NetworkCollectors, HardwareCollectors, ServiceCollectors,
           KernelCollectors
    <2>2. \A k \in DOMAIN e.items : IsSequence(e.items[k].rows)
      BY <1>5 DEF ListsAreSequences
    <2> QED
      BY <1>1, <2>1, <2>2, EdacShows DEF Shows
  <1>6. CASE c = "rapl"
    <2>1. Update(c, e) = UpdateRapl(e) /\ Update(c, e1) = UpdateRapl(e1)
      BY <1>6 DEF Update, UpdateOfHardware, StorageCollectors, NetworkCollectors, HardwareCollectors, ServiceCollectors,
           KernelCollectors
    <2>2. e1.zones = e.zones /\ e1.zoneLabel = e.zoneLabel
      BY <1>6 DEF Reads
    <2> QED
      BY <1>1, <2>1, <2>2, RaplShows DEF Shows
  <1>7. CASE c = "drm"
    <2>1. Update(c, e) = UpdateDrm(e) /\ Update(c, e1) = UpdateDrm(e1)
      BY <1>7 DEF Update, UpdateOfHardware, StorageCollectors, NetworkCollectors, HardwareCollectors, ServiceCollectors,
           KernelCollectors
    <2>2. e1.cards = e.cards
      BY <1>7 DEF Reads
    <2> QED
      BY <1>1, <2>1, <2>2, DrmShows DEF Shows
  <1>8. CASE c = "thermal_zone"
    <2>1. Update(c, e) = UpdateThermalZone(e) /\ Update(c, e1) = UpdateThermalZone(e1)
      BY <1>8 DEF Update, UpdateOfHardware, StorageCollectors, NetworkCollectors, HardwareCollectors, ServiceCollectors,
           KernelCollectors
    <2>2. e1.zones = e.zones /\ e1.cooling = e.cooling /\ e1.devices = e.devices
      BY <1>8 DEF Reads
    <2> QED
      BY <1>1, <2>1, <2>2, ThermalZoneShows DEF Shows
  <1>9. CASE c = "cpufreq"
    <2>1. Update(c, e) = UpdateCPUFreq(e) /\ Update(c, e1) = UpdateCPUFreq(e1)
      BY <1>9 DEF Update, UpdateOfHardware, StorageCollectors, NetworkCollectors, HardwareCollectors, ServiceCollectors,
           KernelCollectors
    <2>2. e1.freqs = e.freqs
      BY <1>9 DEF Reads
    <2> QED
      BY <1>1, <2>1, <2>2, CPUFreqShows DEF Shows
  <1>10. CASE c = "fibrechannel"
    <2>1. Update(c, e) = UpdateFibreChannel(e) /\ Update(c, e1) = UpdateFibreChannel(e1)
      BY <1>10 DEF Update, UpdateOfHardware, StorageCollectors, NetworkCollectors, HardwareCollectors, ServiceCollectors,
           KernelCollectors
    <2>2. e1.class = e.class
      BY <1>10 DEF Reads
    <2> QED
      BY <1>1, <2>1, <2>2, FibreChannelShows DEF Shows
  <1>11. CASE c = "infiniband"
    <2>1. Update(c, e) = UpdateInfiniBand(e) /\ Update(c, e1) = UpdateInfiniBand(e1)
      BY <1>11 DEF Update, UpdateOfHardware, StorageCollectors, NetworkCollectors, HardwareCollectors, ServiceCollectors,
           KernelCollectors
    <2>2. e1.class = e.class
      BY <1>11 DEF Reads
    <2> QED
      BY <1>1, <2>1, <2>2, InfiniBandShows DEF Shows
  <1> QED
    BY <1>2, <1>3, <1>4, <1>5, <1>6, <1>7, <1>8, <1>9, <1>10, <1>11 DEF HaveItems, HardwareCollectors

LEMMA KernelShows ==
    ASSUME NEW c \in HaveItems \cap KernelCollectors, NEW e, ListsAreSequences(c, e), IsAsRead(c, e),
           NEW i \in DOMAIN e.items, NEW e1, e1.items = <<e.items[i]>>, \A f \in Reads[c] : e1[f] = e[f],
           Update(c, e).ret = "ok"
    PROVE  SamplesOf(Update(c, e), i) = SamplesOf(Update(c, e1), 1)
  <1>1. IsSequence(e.items)
    BY DEF ListsAreSequences
  <1>2. CASE c = "zoneinfo"
    <2>1. Update(c, e) = UpdateZoneinfo(e) /\ Update(c, e1) = UpdateZoneinfo(e1)
      BY <1>2 DEF Update, UpdateOfKernel, StorageCollectors, NetworkCollectors, HardwareCollectors, ServiceCollectors,
           KernelCollectors
    <2>2. e1.zoneinfo = e.zoneinfo
      BY <1>2 DEF Reads
    <2> QED
      BY <1>1, <2>1, <2>2, ZoneinfoShows DEF Shows
  <1>3. CASE c = "buddyinfo"
    <2>1. Update(c, e) = UpdateBuddyinfo(e) /\ Update(c, e1) = UpdateBuddyinfo(e1)
      BY <1>3 DEF Update, UpdateOfKernel, StorageCollectors, NetworkCollectors, HardwareCollectors, ServiceCollectors,
           KernelCollectors
    <2>2. e1.buddyinfo = e.buddyinfo
      BY <1>3 DEF Reads
    <2> QED
      BY <1>1, <2>1, <2>2, BuddyinfoShows DEF Shows
  <1>4. CASE c = "slabinfo"
    <2>1. Update(c, e) = UpdateSlabinfo(e) /\ Update(c, e1) = UpdateSlabinfo(e1)
      BY <1>4 DEF Update, UpdateOfKernel, StorageCollectors, NetworkCollectors, HardwareCollectors, ServiceCollectors,
           KernelCollectors
    <2>2. e1.slabinfo = e.slabinfo
      BY <1>4 DEF Reads
    <2> QED
      BY <1>1, <2>1, <2>2, SlabinfoShows DEF Shows
  <1>5. CASE c = "cgroups"
    <2>1. Update(c, e) = UpdateCgroups(e) /\ Update(c, e1) = UpdateCgroups(e1)
      BY <1>5 DEF Update, UpdateOfKernel, StorageCollectors, NetworkCollectors, HardwareCollectors, ServiceCollectors,
           KernelCollectors
    <2>2. e1.cgroups = e.cgroups
      BY <1>5 DEF Reads
    <2> QED
      BY <1>1, <2>1, <2>2, CgroupsShows DEF Shows
  <1>6. CASE c = "schedstat"
    <2>1. Update(c, e) = UpdateSchedstat(e) /\ Update(c, e1) = UpdateSchedstat(e1)
      BY <1>6 DEF Update, UpdateOfKernel, StorageCollectors, NetworkCollectors, HardwareCollectors, ServiceCollectors,
           KernelCollectors
    <2>2. e1.schedstat = e.schedstat
      BY <1>6 DEF Reads
    <2> QED
      BY <1>1, <2>1, <2>2, SchedstatShows DEF Shows
  <1>7. CASE c = "meminfo_numa"
    <2>1. Update(c, e) = UpdateMeminfoNuma(e) /\ Update(c, e1) = UpdateMeminfoNuma(e1)
      BY <1>7 DEF Update, UpdateOfKernel, StorageCollectors, NetworkCollectors, HardwareCollectors, ServiceCollectors,
           KernelCollectors
    <2>2. \A k \in DOMAIN e.items : IsSequence(e.items[k].lines)
      BY <1>7 DEF ListsAreSequences
    <2> QED
      BY <1>1, <2>1, <2>2, MeminfoNumaShows DEF Shows
  <1>8. CASE c = "time"
    <2>1. Update(c, e) = UpdateTime(e) /\ Update(c, e1) = UpdateTime(e1)
      BY <1>8 DEF Update, UpdateOfKernel, StorageCollectors, NetworkCollectors, HardwareCollectors, ServiceCollectors,
           KernelCollectors
    <2>2. e1.zone = e.zone /\ e1.clocksources = e.clocksources
      BY <1>8 DEF Reads
    <2> QED
      BY <1>1, <2>1, <2>2, TimeShows DEF Shows
  <1> QED
    BY <1>2, <1>3, <1>4, <1>5, <1>6, <1>7, <1>8 DEF HaveItems, KernelCollectors

LEMMA ServiceShows ==
    ASSUME NEW c \in HaveItems \cap ServiceCollectors, NEW e, ListsAreSequences(c, e), IsAsRead(c, e),
           NEW i \in DOMAIN e.items, NEW e1, e1.items = <<e.items[i]>>, \A f \in Reads[c] : e1[f] = e[f],
           Update(c, e).ret = "ok"
    PROVE  SamplesOf(Update(c, e), i) = SamplesOf(Update(c, e1), 1)
  <1>1. IsSequence(e.items)
    BY DEF ListsAreSequences
  <1>2. CASE c = "supervisord"
    <2>1. Update(c, e) = UpdateSupervisord(e) /\ Update(c, e1) = UpdateSupervisord(e1)
      BY <1>2 DEF Update, UpdateOfServices, StorageCollectors, NetworkCollectors, HardwareCollectors, ServiceCollectors,
           KernelCollectors
    <2>2. e1.call = e.call /\ e1.array = e.array
      BY <1>2 DEF Reads
    <2>3. \A l \in DOMAIN e.items : {"name", "group", "state", "exitstatus", "start"} \subseteq DOMAIN e.items[l]
      BY <1>2 DEF IsAsRead
    <2> QED
      BY <1>1, <2>1, <2>2, <2>3, SupervisordShows DEF Shows
  <1>3. CASE c = "runit"
    <2>1. Update(c, e) = UpdateRunit(e) /\ Update(c, e1) = UpdateRunit(e1)
      BY <1>3 DEF Update, UpdateOfServices, StorageCollectors, NetworkCollectors, HardwareCollectors, ServiceCollectors,
           KernelCollectors
    <2>2. e1.services = e.services
      BY <1>3 DEF Reads
    <2> QED
      BY <1>1, <2>1, <2>2, RunitShows DEF Shows
  <1>4. CASE c = "textfile"
    <2>1. Update(c, e) = UpdateTextfile(e) /\ Update(c, e1) = UpdateTextfile(e1)
      BY <1>4 DEF Update, UpdateOfServices, StorageCollectors, NetworkCollectors, HardwareCollectors, ServiceCollectors,
           KernelCollectors
    <2>2. \A k \in DOMAIN e.items : IsSequence(e.items[k].families)
      BY <1>4 DEF ListsAreSequences
    <2> QED
      BY <1>1, <2>1, <2>2, TextfileShows DEF Shows
  <1> QED
    BY <1>2, <1>3, <1>4 DEF HaveItems, ServiceCollectors

(* What a collector sends of a device, a file system, a process... is what *)
(* it sends when there is no other, whatever is read of it and of the      *)
(* others: nothing of one is left over in another, and none is lost        *)
(* because of another, unless it is the same.                              *)
THEOREM ItemsIndependentHolds == Spec => []ItemsIndependent
  <1>1. CollectorsInv => ItemsIndependent
    <2> SUFFICES ASSUME CollectorsInv, out.ret = "ok", collector \in HaveItems,
                        NEW i \in DOMAIN env.items, ~Repeated(i)
                 PROVE  SamplesOf(out, i) =
                          SamplesOf(Update(collector, [env EXCEPT !.items = <<env.items[i]>>]), 1)
      BY DEF ItemsIndependent
    <2>1. ListsAreSequences(collector, env) /\ IsAsRead(collector, env)
      BY EnvironmentIsOfIts DEF CollectorsInv
    <2>2. out = Update(collector, env)
      <3>1. collector \notin InSteps
        BY DEF HaveItems, InSteps
      <3>2. out \in {Unscraped, Update(collector, env)}
        BY <3>1 DEF CollectorsInv
      <3>3. Unscraped.ret # "ok"
        BY DEF Unscraped
      <3> QED
        BY <3>2, <3>3
    <2> DEFINE alone == [env EXCEPT !.items = <<env.items[i]>>]
    <2>3. Reads[collector] \cup {"items"} \subseteq DOMAIN env
      BY <2>1 DEF IsAsRead
    <2>4. alone.items = <<env.items[i]>>
      BY <2>3
    <2>5. \A f \in Reads[collector] : alone[f] = env[f]
      <3>1. "items" \notin Reads[collector]
        BY DEF HaveItems, Reads
      <3> QED
        BY <2>3, <3>1
    <2>6. collector = "filesystem" =>
            ~ \E l \in 1..(i - 1) : FilesystemLabels(env.items[l]) = FilesystemLabels(env.items[i])
      BY DEF Repeated
    <2> HIDE DEF alone
    <2>7. SamplesOf(Update(collector, env), i) = SamplesOf(Update(collector, alone), 1)
      <3>1. CASE collector \in StorageCollectors
        BY <2>1, <2>2, <2>4, <2>5, <2>6, <3>1, StorageShows
      <3>2. CASE collector \in NetworkCollectors
        BY <2>1, <2>2, <2>4, <2>5, <3>2, NetworkShows
      <3>3. CASE collector \in HardwareCollectors
        BY <2>1, <2>2, <2>4, <2>5, <3>3, HardwareShows
      <3>4. CASE collector \in KernelCollectors
        BY <2>1, <2>2, <2>4, <2>5, <3>4, KernelShows
      <3>5. CASE collector \in ServiceCollectors
        BY <2>1, <2>2, <2>4, <2>5, <3>5, ServiceShows
      <3>6. collector \in StorageCollectors \cup NetworkCollectors \cup HardwareCollectors
                            \cup KernelCollectors \cup ServiceCollectors
        BY DEF HaveItems, StorageCollectors, NetworkCollectors, HardwareCollectors, KernelCollectors,
             ServiceCollectors
      <3> QED
        BY <3>1, <3>2, <3>3, <3>4, <3>5, <3>6
    <2> QED
      BY <2>2, <2>7 DEF alone
  <1> QED
    BY <1>1, CollectorsInvHolds, PTL
=============================================================================

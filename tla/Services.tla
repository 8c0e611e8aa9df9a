------------------------------- MODULE Services --------------------------------
(***************************************************************************)
(* The collectors of service managers, sessions and files of metrics:      *)
(* logind, supervisord, runit, ntp and textfile.                           *)
(***************************************************************************)
EXTENDS Collection

-----------------------------------------------------------------------------
(* logind: sessions counted by seat and by three attributes.  Seats and    *)
(* sessions are asked for one after the other; a session that has ended    *)
(* when its attributes are asked for is passed over.                       *)

AttrRemoteValues == {"true", "false"}
AttrTypeValues == {"other", "unspecified", "tty", "x11", "wayland", "mir", "web"}
AttrClassValues == {"other", "user", "greeter", "lock-screen", "background"}

KnownStringOrOther(value, known) == IF value \in known THEN value ELSE "other"

(* The labels a session is counted under.                                  *)
GetSession(s) ==
    <<s.seat, s.remote, KnownStringOrOther(s.type, AttrTypeValues), KnownStringOrOther(s.class, AttrClassValues)>>

(* The empty seat is that of remote sessions.                              *)
ListSeats(e) == e.seats \cup {""}

UpdateLogind(e) ==
    LET sessions(labels) == {n \in DOMAIN e.sessions : e.sessions[n].read /\ GetSession(e.sessions[n]) = labels}
    IN  Need(e.dbus, {})
          \bullet Need(e.listSeats, {})
          \bullet Need(e.listSessions, {})
          \bullet Send({Sample(<<"logind", "sessions">>, l, <<0, "of", sessions(l)>>) :
                          l \in ListSeats(e) \X AttrRemoteValues \X AttrTypeValues \X AttrClassValues})

-----------------------------------------------------------------------------
(* supervisord: the processes it lists, each with the fields it gives.     *)
(* The answer is taken for an array, and an item of it for a structure     *)
(* whose fields have the types they should have ("shaped").                *)

(* STARTING, RUNNING, STOPPING.                                            *)
IsRunning(state) == state \in {10, 20, 40}

(* Mutant: the fields of the last process are sent for every one.          *)
InfoOfLast(e, i, field) == e.items[Len(e.items)][field]

(* info is one variable for all of the processes: a field that a process   *)
(* does not give has the value of the last that gave it, 0 if none has.    *)
SupervisordInfo(e, i, field) ==
    LET given == {j \in 1..i : field \in DOMAIN e.items[j]}
        last == CHOOSE j \in given : \A k \in given : k <= j
    IN  IF given = {} THEN 0 ELSE e.items[last][field]

UpdateSupervisord(e) ==
    LET info(i, field) == SupervisordInfo(e, i, field)
        labels(i) == <<info(i, "name"), info(i, "group")>>
        running(i) == IsRunning(info(i, "state"))
        process(i) ==
            {Sample(<<"supervisord", f>>, labels(i), <<i, f, info(i, f)>>) : f \in {"state", "exitstatus"}}
              \cup {Sample(<<"supervisord", "up">>, labels(i), <<i, running(i)>>)}
              \cup IF running(i)
                   THEN {Sample(<<"supervisord", "start_time_seconds">>, labels(i), <<i, "start", info(i, "start")>>)}
                   ELSE {}
    IN  Need(e.call, {})
          \bullet Check(e.array, "panic")
          \bullet Loop([i \in DOMAIN e.items |-> Check(e.items[i].shaped, "panic") \bullet Send(process(i))])

(* runit: a service whose status cannot be read is passed over.            *)
UpdateRunit(e) ==
    Need(e.services, {})
      \bullet Loop([i \in DOMAIN e.items |->
                IF e.items[i].status = "ok"
                THEN Send(Samples("service", {"state", "desired_state", "state_last_change_timestamp_seconds"},
                                  <<e.items[i].name>>, <<i>>)
                            \cup {Sample(<<"service", "normal_state">>, <<e.items[i].name>>, <<i, e.items[i].normallyUp>>)})
                ELSE Nothing])

-----------------------------------------------------------------------------
(* ntp: one question to a server.  Only one that runs on this host is      *)
(* asked, unless a flag says that another is as good.                      *)

NewNtpCollector(flags) ==
    Check(/\ flags.serverIsLocal \/ flags.loopback
          /\ flags.protocolVersion \in 2..4
          /\ flags.offsetTolerance >= 0
          /\ flags.serverPort \in 1..65535, "unbuilt")

(* e.smearing is how module Shared finds the time of the answer to a leap  *)
(* second.                                                                 *)
Sane(e) ==
    /\ e.validates
    /\ e.near
    /\ e.minError <= e.flags.offsetTolerance + (IF e.smearing THEN 1 ELSE 0)

UpdateNTP(e) ==
    NewNtpCollector(e.flags)
      \bullet Need(e.reply, {})
      \bullet Send(Samples("ntp", {"stratum", "leap", "rtt_seconds", "offset_seconds",
                                  "reference_timestamp_seconds", "root_delay_seconds",
                                  "root_dispersion_seconds"}, <<>>, <<0>>)
                     \cup {Sample(<<"ntp", "sanity">>, <<>>, <<0, Sane(e)>>)})

-----------------------------------------------------------------------------
(* textfile: every file of every directory.  A file is replaced by being   *)
(* renamed over: version is that of the file opened, newest the one its    *)
(* name stands for afterwards.                                             *)

(* Mutant: the file is looked up again by its name.                        *)
StatByName(f) == f.newest

StatOpened(f) == f.version

(* Families are lost with the file they are in, but not when only the      *)
(* modification time cannot be had.                                        *)
HasTimestamps(f) == f.stamped

Families(f) == IF f.open /\ f.parses /\ ~HasTimestamps(f) THEN f.families ELSE <<>>

ProcessFails(f) == ~f.open \/ ~f.parses \/ HasTimestamps(f) \/ ~f.stat

(* The labels of a metric, with those only others of its family have.      *)
AllLabels(metric, family) ==
    [l \in UNION {DOMAIN family.metrics[k] : k \in DOMAIN family.metrics} |->
       IF l \in DOMAIN metric THEN metric[l] ELSE ""]

(* No metric can be made with a label whose name is reserved, which the    *)
(* parser lets pass: family.reserved.                                      *)
ConvertMetricFamily(i, f, family) ==
    Check(~family.reserved, "panic")
      \bullet Send({Sample(<<family.name>>, AllLabels(family.metrics[k], family), <<i, "metric", family.name, k, f.version>>) :
                      k \in DOMAIN family.metrics})

(* The flag not given is not an error.                                     *)
TextfileErrored(e) ==
    \/ \E d \in DOMAIN e.dirs : ~e.dirs[d].read /\ ~e.dirs[d].blank
    \/ \E i \in DOMAIN e.items : e.items[i].prom /\ ProcessFails(e.items[i])

(* Only files with the right suffix are looked into.                       *)
ConvertFamilies(i, f) ==
    IF f.prom THEN Loop([k \in DOMAIN Families(f) |-> ConvertMetricFamily(i, f, Families(f)[k])]) ELSE Nothing

ExportMTime(i, f) ==
    IF ~f.prom \/ ProcessFails(f) THEN {}
    ELSE {Sample(<<"textfile", "mtime_seconds">>, <<f.dir, f.name>>, <<i, "mtime", StatOpened(f)>>)}

(* What a directory lists before it fails is processed.  The families of   *)
(* all of the files are sent before the modification times of any.         *)
UpdateTextfile(e) ==
    Loop([i \in DOMAIN e.items |-> ConvertFamilies(i, e.items[i])])
      \bullet Send(UNION {ExportMTime(i, e.items[i]) : i \in DOMAIN e.items})
      \bullet Send({Sample(<<"textfile", "scrape_error">>, <<>>, <<0, "scrape_error", TextfileErrored(e)>>)})
=============================================================================

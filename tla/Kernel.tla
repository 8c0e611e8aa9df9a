-------------------------------- MODULE Kernel ---------------------------------
(***************************************************************************)
(* The collectors of the kernel's own tables: zoneinfo, meminfo,           *)
(* meminfo_numa, vmstat, buddyinfo, slabinfo, sysctl, processes, stat,     *)
(* schedstat, interrupts, softirqs, pressure, cgroups, ksmd, timex, time,  *)
(* selinux, entropy, uname, loadavg and filefd.                            *)
(***************************************************************************)
EXTENDS Collection

-----------------------------------------------------------------------------
(* zoneinfo, buddyinfo, slabinfo, cgroups, schedstat: what the kernel      *)
(* lists, a sample of each value of each.                                  *)

ZoneGauges ==
    {"nr_free_pages", "min_pages", "low_pages", "high_pages", "scanned_pages", "spanned_pages",
     "present_pages", "managed_pages", "nr_active_anon_pages", "nr_inactive_anon_pages",
     "nr_isolated_anon_pages", "nr_anon_pages", "nr_anon_transparent_hugepages",
     "nr_active_file_pages", "nr_inactive_file_pages", "nr_isolated_file_pages", "nr_file_pages",
     "nr_slab_reclaimable_pages", "nr_slab_unreclaimable_pages", "nr_mlock_stack_pages",
     "nr_kernel_stacks", "nr_mapped_pages", "nr_dirty_pages", "nr_writeback_pages",
     "nr_unevictable_pages", "nr_shmem_pages"}

ZoneCounters ==
    {"nr_dirtied_total", "nr_written_total", "numa_hit_total", "numa_miss_total",
     "numa_foreign_total", "numa_interleave_total", "numa_local_total", "numa_other_total"}

(* The fields a zone lacks are nil.                                        *)
UpdateZoneinfo(e) ==
    Need(e.zoneinfo, {})
      \bullet Loop([i \in DOMAIN e.items |->
                LET z == e.items[i]
                IN  Send(Samples("zoneinfo", (ZoneGauges \cup ZoneCounters) \ z.missing, <<z.node, z.zone>>, <<i>>)
                           \cup {Sample(<<"zoneinfo", "protection", n>>, <<z.node, z.zone>>, <<i, n>>) :
                                   n \in 1..z.protections})])

UpdateBuddyinfo(e) ==
    Need(e.buddyinfo, {})
      \bullet Loop([i \in DOMAIN e.items |->
                LET z == e.items[i]
                IN  Send({Sample(<<"buddyinfo", "blocks">>, <<z.node, z.zone, size>>, <<i, size>>) :
                            size \in 0..(z.sizes - 1)})])

SlabFamilies == {"active_objects", "objects", "object_size_bytes", "objects_per_slab", "pages_per_slab"}

UpdateSlabinfo(e) ==
    Need(e.slabinfo, {})
      \bullet Loop([i \in DOMAIN e.items |->
                Send(Samples("slabinfo", SlabFamilies, <<e.items[i].name>>, <<i>>))])

UpdateCgroups(e) ==
    Need(e.cgroups, {})
      \bullet Loop([i \in DOMAIN e.items |->
                Send(Samples("cgroups", {"cgroups", "enabled"}, <<e.items[i].name>>, <<i>>))])

SchedstatFamilies == {"running_seconds_total", "waiting_seconds_total", "timeslices_total"}

UpdateSchedstat(e) ==
    Need(e.schedstat, {"notexist"})
      \bullet Loop([i \in DOMAIN e.items |->
                Send(Samples("schedstat", SchedstatFamilies, <<e.items[i].name>>, <<i>>))])

-----------------------------------------------------------------------------
(* meminfo and meminfo_numa: lines of a name, which a unit may follow.     *)

(* A line is looked at from its value on, whether it has one or not: one   *)
(* whose value is no number, or with too many columns, makes the whole     *)
(* table an error.                                                         *)
ParseMemInfo(lines) ==
    Loop([n \in DOMAIN lines |->
      IF lines[n].columns = 0 THEN Nothing
      ELSE Check(lines[n].columns >= 2, "panic") \bullet Check(lines[n].parses /\ lines[n].columns <= 3, "error")])

MemInfoKey(line) == line.name \o (IF line.columns = 3 THEN "_bytes" ELSE "")

(* Of two lines with one key the last is kept.                             *)
UpdateMeminfo(e) ==
    LET lines == {n \in DOMAIN e.lines : e.lines[n].columns > 0}
        kept(k) == CHOOSE n \in lines : MemInfoKey(e.lines[n]) = k
                                          /\ \A o \in lines : MemInfoKey(e.lines[o]) = k => o <= n
    IN  Need(e.open, {})
          \bullet ParseMemInfo(e.lines)
          \bullet Send({Sample(<<"memory", k>>, <<>>, <<0, kept(k)>>) : k \in {MemInfoKey(e.lines[n]) : n \in lines}})

(* "Node", a number, a name, and then the value and its unit, if any.      *)
ParseNumaLine(line) ==
    IF line.columns = 0 THEN Nothing
    ELSE Check(line.columns >= 4, "panic")
           \bullet Check(line.parses /\ (line.columns = 4 \/ (line.columns = 5 /\ line.kB)), "error")

(* The node of a sample is what its line says.                             *)
ParseMemInfoNuma(i, node) ==
    Need(node.meminfo, {})
      \bullet Loop([n \in DOMAIN node.lines |-> ParseNumaLine(node.lines[n])])
      \bullet Send({Sample(<<"memory_numa", node.lines[n].name>>, <<node.name>>, <<i, "meminfo", n>>) :
                      n \in {k \in DOMAIN node.lines : node.lines[k].columns > 0}})

ParseMemInfoNumaStat(i, node) ==
    Need(node.numastat, {})
      \bullet Send({Sample(<<"memory_numa", s \o "_total">>, <<node.name>>, <<i, "numastat", s>>) : s \in node.stats})

GetMemInfoNuma(e) ==
    Loop([i \in DOMAIN e.items |->
      ParseMemInfoNuma(i, e.items[i]) \bullet ParseMemInfoNumaStat(i, e.items[i])])

(* All of the nodes are read before anything is sent.                      *)
UpdateMeminfoNuma(e) ==
    LET metrics == GetMemInfoNuma(e)
    IN  IF metrics.ret = "ok" THEN metrics ELSE Return(metrics.ret)

(* vmstat: the lines before one that is in error are sent.  A blank line   *)
(* has no value either.                                                    *)
UpdateVmStat(e) ==
    Need(e.open, {})
      \bullet Loop([n \in DOMAIN e.lines |->
                Check(e.lines[n].columns >= 2, "panic")
                  \bullet Check(e.lines[n].parses, "error")
                  \bullet (IF e.lines[n].name \in e.fields
                           THEN Send(Samples("vmstat", {e.lines[n].name}, <<>>, <<0>>)) ELSE Nothing)])

-----------------------------------------------------------------------------
(* sysctl: a name of the flags, the keys that follow it, and the values.   *)

(* Numbers first, then strings; no keys and no colon are the same.         *)
NewSysctls(flags) ==
    [n \in DOMAIN flags.include |-> [numeric |-> TRUE, sysctl |-> flags.include[n]]]
      \o [n \in DOMAIN flags.includeInfo |-> [numeric |-> FALSE, sysctl |-> flags.includeInfo[n]]]

(* The name of the n-th value: that of the sysctl once sanitised (fq), and *)
(* its key.                                                                *)
MetricName(s, n) == IF s.keys = <<>> THEN s.fq ELSE s.fq \o "_" \o s.keys[n]

(* The n-th value of the k-th sysctl of the flags.                         *)
NewConstMetric(k, s, v) ==
    {IF s.numeric THEN Sample(<<"sysctl", MetricName(s.sysctl, 1)>>, <<>>, <<0, k, 1>>)
     ELSE Sample(<<"sysctl", "info">>, <<s.sysctl.name, v[1], 0>>, <<0, k, 1>>)}

NewIndexedMetrics(k, s, v) ==
    {IF s.numeric THEN Sample(<<"sysctl", MetricName(s.sysctl, n)>>, <<n - 1>>, <<0, k, n>>)
     ELSE Sample(<<"sysctl", "info">>, <<s.sysctl.name, v[n], n - 1>>, <<0, k, n>>) : n \in DOMAIN v}

NewMappedMetrics(k, s, v) ==
    Check(s.numeric, "error")
      \bullet Send({Sample(<<"sysctl", MetricName(s.sysctl, n)>>, <<>>, <<0, k, n>>) : n \in DOMAIN v})

SysctlMetrics(k, s, read) ==
    LET keys == s.sysctl.keys
        v == read.values
    IN  Need(read.how, {})
          \bullet Check(v # <<>>, "error")
          \bullet (IF Len(v) = 1 THEN Check(keys = <<>>, "error") \bullet Send(NewConstMetric(k, s, v))
                   ELSE IF keys = <<>> THEN Send(NewIndexedMetrics(k, s, v))
                   ELSE Check(Len(v) = Len(keys), "error") \bullet NewMappedMetrics(k, s, v))

UpdateSysctl(e) ==
    LET sysctls == NewSysctls(e.flags)
    IN  Loop([k \in DOMAIN sysctls |-> SysctlMetrics(k, sysctls[k], e.read[sysctls[k].sysctl.name])])

-----------------------------------------------------------------------------
(* processes: counted while they come and go.  A process, and each of its  *)
(* threads, is "ok", "gone" or "error" at the moment it is read; the       *)
(* process is the thread of the same number.                               *)

(* Mutant: the threads of a process that has vanished meanwhile are an     *)
(* error.                                                                  *)
NoneIgnored(outcome) == FALSE

IsIgnoredError(outcome) == outcome = "gone"

Reading(outcome) == Check(outcome = "ok" \/ IsIgnoredError(outcome), "error")

(* The thread of the process itself has the state already read.            *)
GetThreadStates(p) ==
    Reading(p.task)
      \bullet (IF p.task = "ok"
               THEN Loop([t \in DOMAIN p.threads |-> IF p.threads[t].leads THEN Nothing ELSE Reading(p.threads[t].stat)])
               ELSE Nothing)

ThreadsIn(p, state) ==
    IF p.task # "ok" THEN {}
    ELSE {t \in DOMAIN p.threads :
            IF p.threads[t].leads THEN p.state = state ELSE p.threads[t].stat = "ok" /\ p.threads[t].state = state}

GetAllocatedThreads(procs) ==
    Loop([n \in DOMAIN procs |->
      Reading(procs[n].stat) \bullet (IF procs[n].stat = "ok" THEN GetThreadStates(procs[n]) ELSE Nothing)])

UpdateProcesses(e) ==
    LET counted == {n \in DOMAIN e.procs : e.procs[n].stat = "ok"}
        threadsOf(st) == UNION {{<<n, t>> : t \in ThreadsIn(e.procs[n], st)} : n \in counted}
        states == {e.procs[n].state : n \in counted}
        threadStates == {st \in e.states : threadsOf(st) # {}}
        one(family, of) == Send({Sample(<<"processes", family>>, <<>>, <<0, of>>)})
    IN  Need(e.list, {})
          \bullet GetAllocatedThreads(e.procs)
          \bullet one("threads", counted)
          \bullet Need(e.threadsMax, {})
          \bullet one("max_threads", "limit")
          \bullet Send({Sample(<<"processes", "state">>, <<st>>, <<0, {n \in counted : e.procs[n].state = st}>>) :
                          st \in states})
          \bullet Send({Sample(<<"processes", "threads_state">>, <<st>>, <<0, threadsOf(st)>>) : st \in threadStates})
          \bullet Need(e.pidMax, {})
          \bullet one("pids", counted)
          \bullet one("max_processes", "limit")

-----------------------------------------------------------------------------
(* stat, interrupts, softirqs: counts of the CPUs' work.                   *)

StatFamilies ==
    {"intr_total", "context_switches_total", "forks_total", "boot_time_seconds", "procs_running", "procs_blocked"}

SoftirqNames == {"hi", "timer", "net_tx", "net_rx", "block", "block_iopoll", "tasklet", "sched", "hrtimer", "rcu"}

UpdateStat(e) ==
    Need(e.stat, {})
      \bullet Send(Samples("", StatFamilies, <<>>, <<0>>))
      \bullet (IF e.softirq
               THEN Send({Sample(<<"", "softirqs_total">>, <<v>>, <<0, v>>) : v \in SoftirqNames})
               ELSE Nothing)

(* A line has a column for each CPU and at least one of details, or is     *)
(* passed over; of two lines with one name the last is kept.               *)
ParseInterrupts(lines, cpus) ==
    {n \in DOMAIN lines :
       /\ lines[n].columns >= cpus + 1
       /\ \A o \in DOMAIN lines : lines[o].name = lines[n].name /\ lines[o].columns >= cpus + 1 => o <= n}

(* The lines come in e.order, which is any.  The value for the CPU bad of  *)
(* a line is no number.                                                    *)
UpdateInterrupts(e) ==
    LET kept == ParseInterrupts(e.lines, e.cpus)
        values(n) ==
            Loop([c \in 1..e.cpus |->
              Check(e.lines[n].bad # c, "error")
                \bullet Send({Sample(<<"interrupts_total">>, <<c, e.lines[n].name, e.lines[n].info>>, <<0, n, c>>)})])
    IN  Need(e.open, {})
          \bullet Check(e.header, "error")
          \bullet Loop([k \in DOMAIN e.order |->
                    IF e.order[k] \in kept THEN values(e.order[k]) ELSE Nothing])

SoftirqTypes ==
    {"HI", "TIMER", "NET_TX", "NET_RX", "BLOCK", "IRQ_POLL", "TASKLET", "SCHED", "HRTIMER", "RCU"}

UpdateSoftirqs(e) ==
    Need(e.softirqs, {})
      \bullet Send({Sample(<<"softirqs_functions_total">>, <<cpu, t>>, <<0, cpu, t>>) :
                      cpu \in 0..(e.cpus - 1), t \in SoftirqTypes})

-----------------------------------------------------------------------------
(* pressure, ksmd: one file after the other; those before the one that     *)
(* cannot be read are sent.                                                *)

PSIResources ==
    <<[name |-> "cpu", stalls |-> <<"some">>], [name |-> "io", stalls |-> <<"some", "full">>],
      [name |-> "memory", stalls |-> <<"some", "full">>]>>

PSIFamily == [some |-> "_waiting_seconds_total", full |-> "_stalled_seconds_total"]

(* e.psi is how the files are read, e.lines what is in them: a line that   *)
(* is missing is looked at all the same.  A kernel without the file, or    *)
(* one that does not support it, has no data, also when another resource   *)
(* had.                                                                    *)
UpdatePressure(e) ==
    Loop([n \in DOMAIN PSIResources |->
      LET r == PSIResources[n]
      IN  Need(e.psi[r.name], {"notexist", "notsup"})
            \bullet Loop([k \in DOMAIN r.stalls |->
                      Check(r.stalls[k] \in e.lines[r.name], "panic")
                        \bullet Send(Samples("pressure", {r.name \o PSIFamily[r.stalls[k]]}, <<>>, <<0>>))])])

KSMDFiles ==
    <<"full_scans", "merge_across_nodes", "pages_shared", "pages_sharing", "pages_to_scan",
      "pages_unshared", "pages_volatile", "run", "sleep_millisecs">>

GetCanonicalMetricName(file) ==
    CASE file = "full_scans" -> "full_scans_total"
      [] file = "sleep_millisecs" -> "sleep_seconds"
      [] OTHER -> file

(* e.unread is the file that cannot be read, if any.                       *)
UpdateKSMD(e) ==
    Loop([n \in DOMAIN KSMDFiles |->
      Check(KSMDFiles[n] # e.unread, "error")
        \bullet Send(Samples("ksmd", {GetCanonicalMetricName(KSMDFiles[n])}, <<>>, <<0>>))])

-----------------------------------------------------------------------------
(* timex, time, selinux, entropy, uname, loadavg, filefd.                  *)

TimexFamilies ==
    {"offset_seconds", "frequency_adjustment_ratio", "maxerror_seconds", "estimated_error_seconds",
     "status", "loop_time_constant", "tick_seconds", "pps_frequency_hertz", "pps_jitter_seconds",
     "pps_shift_seconds", "pps_stability_hertz", "pps_jitter_total", "pps_calibration_total",
     "pps_error_total", "pps_stability_exceeded_total", "tai_offset_seconds"}

(* A container may not be allowed to ask.                                  *)
UpdateTimex(e) ==
    Need(e.adjtimex, {"permission"})
      \bullet Send(Samples("timex", TimexFamilies, <<>>, <<0>>)
                     \cup {Sample(<<"timex", "sync_status">>, <<>>, <<0, e.status # "TIME_ERROR">>)})

(* The time is sent before the clock sources are asked for.                *)
UpdateTime(e) ==
    Send({Sample(<<"time", "seconds">>, <<>>, <<0>>), Sample(<<"time", "zone_offset_seconds">>, <<e.zone>>, <<0>>)})
      \bullet Need(e.clocksources, {})
      \bullet Loop([i \in DOMAIN e.items |->
                LET c == e.items[i]
                IN  Send({Sample(<<"time", "clocksource_available_info">>, <<c.index, a>>, <<i, "of", a>>) : a \in c.available}
                           \cup Samples("time", {"clocksource_current_info"}, <<c.index, c.current>>, <<i>>))])

UpdateSELinux(e) ==
    Send({Sample(<<"selinux", "enabled">>, <<>>, <<0, e.enabled>>)})
      \bullet (IF e.enabled THEN Send(Samples("selinux", {"config_mode", "current_mode"}, <<>>, <<0>>)) ELSE Nothing)

(* Either value may be missing; the second after the first has been sent.  *)
UpdateEntropy(e) ==
    Need(e.random, {})
      \bullet Check("available_bits" \in e.given, "error")
      \bullet Send(Samples("", {"entropy_available_bits"}, <<>>, <<0>>))
      \bullet Check("pool_size_bits" \in e.given, "error")
      \bullet Send(Samples("", {"entropy_pool_size_bits"}, <<>>, <<0>>))

UpdateUname(e) ==
    Need(e.uname, {}) \bullet Send(Samples("uname", {"info"}, <<"utsname">>, <<0>>))

ParseLoad(e) ==
    Check(Len(e.parse) >= 3, "error") \bullet Check(\A n \in 1..3 : e.parse[n], "error")

(* The three averages are parsed before the first is sent.                 *)
UpdateLoadavg(e) ==
    Need(e.read, {})
      \bullet ParseLoad(e)
      \bullet Send({Sample(<<l>>, <<>>, <<0, l>>) : l \in {"load1", "load5", "load15"}})

(* Of three values the one in the middle is passed over; the other two are *)
(* parsed, and sent, in e.order, which is any.                             *)
UpdateFileFD(e) ==
    Need(e.read, {})
      \bullet Check(Len(e.parse) >= 3, "error")
      \bullet Loop([k \in DOMAIN e.order |->
                Check(e.parse[IF e.order[k] = "allocated" THEN 1 ELSE 3], "error")
                  \bullet Send(Samples("filefd", {e.order[k]}, <<>>, <<0>>))])
=============================================================================

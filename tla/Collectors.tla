------------------------------ MODULE Collectors ------------------------------
(***************************************************************************)
(* One scrape of one of the collectors whose Update keeps no state between *)
(* scrapes.  Most Updates are one step, an operator of their environment;  *)
(* those of systemd, which starts goroutines, and of pids, which waits for *)
(* packets, are many.                                                      *)
(***************************************************************************)
EXTENDS Storage, NFS, Network, Protocols, Hardware, Kernel, Services, Systemd, Pids

CONSTANTS Environments      \* for each collector, the environments it may meet

VARIABLES collector

vars == <<collector, env, out, systemdVars, pidsVars>>

InSteps == {"systemd", "pids"}

UpdateOfStorage(c, e) ==
    CASE c = "xfs" -> UpdateXFS(e)
      [] c = "bcache" -> UpdateBcache(e)
      [] c = "btrfs" -> UpdateBtrfs(e)
      [] c = "zfs" -> UpdateZFS(e)
      [] c = "drbd" -> UpdateDRBD(e)
      [] c = "mdadm" -> UpdateMdadm(e)
      [] c = "diskstats" -> UpdateDiskstats(e)
      [] c = "nfs" -> UpdateNFS(e)
      [] c = "nfsd" -> UpdateNFSd(e)
      [] c = "mountstats" -> UpdateMountStats(e)
      [] c = "tapestats" -> UpdateTapestats(e)
      [] c = "nvme" -> UpdateNVMe(e)
      [] c = "filefd" -> UpdateFileFD(e)
      [] c = "filesystem" -> UpdateFilesystem(e)

UpdateOfNetwork(c, e) ==
    CASE c = "netdev" -> UpdateNetDev(e)
      [] c = "netclass" -> UpdateNetClass(e)
      [] c = "qdisc" -> UpdateQdisc(e)
      [] c = "ethtool" -> UpdateEthtool(e)
      [] c = "ipvs" -> UpdateIPVS(e)
      [] c = "tcpstat" -> UpdateTCPStat(e)
      [] c = "netstat" -> UpdateNetStat(e)
      [] c = "sockstat" -> UpdateSockstat(e)
      [] c = "conntrack" -> UpdateConntrack(e)
      [] c = "network_route" -> UpdateNetworkRoute(e)
      [] c = "wifi" -> UpdateWifi(e)
      [] c = "softnet" -> UpdateSoftnet(e)
      [] c = "arp" -> UpdateARP(e)
      [] c = "udp_queues" -> UpdateUDPQueues(e)
      [] c = "lnstat" -> UpdateLnstat(e)
      [] c = "bonding" -> UpdateBonding(e)
      [] c = "ntp" -> UpdateNTP(e)

UpdateOfHardware(c, e) ==
    CASE c = "hwmon" -> UpdateHwmon(e)
      [] c = "perf" -> UpdatePerf(e)
      [] c = "powersupplyclass" -> UpdatePowerSupplyClass(e)
      [] c = "dmi" -> UpdateDMI(e)
      [] c = "edac" -> UpdateEdac(e)
      [] c = "rapl" -> UpdateRapl(e)
      [] c = "drm" -> UpdateDrm(e)
      [] c = "thermal_zone" -> UpdateThermalZone(e)
      [] c = "cpufreq" -> UpdateCPUFreq(e)
      [] c = "cpu" -> UpdateCPU(e)
      [] c = "fibrechannel" -> UpdateFibreChannel(e)
      [] c = "infiniband" -> UpdateInfiniBand(e)

UpdateOfKernel(c, e) ==
    CASE c = "zoneinfo" -> UpdateZoneinfo(e)
      [] c = "buddyinfo" -> UpdateBuddyinfo(e)
      [] c = "slabinfo" -> UpdateSlabinfo(e)
      [] c = "cgroups" -> UpdateCgroups(e)
      [] c = "schedstat" -> UpdateSchedstat(e)
      [] c = "meminfo" -> UpdateMeminfo(e)
      [] c = "meminfo_numa" -> UpdateMeminfoNuma(e)
      [] c = "vmstat" -> UpdateVmStat(e)
      [] c = "sysctl" -> UpdateSysctl(e)
      [] c = "processes" -> UpdateProcesses(e)
      [] c = "stat" -> UpdateStat(e)
      [] c = "interrupts" -> UpdateInterrupts(e)
      [] c = "softirqs" -> UpdateSoftirqs(e)
      [] c = "pressure" -> UpdatePressure(e)
      [] c = "ksmd" -> UpdateKSMD(e)
      [] c = "timex" -> UpdateTimex(e)
      [] c = "time" -> UpdateTime(e)
      [] c = "selinux" -> UpdateSELinux(e)
      [] c = "entropy" -> UpdateEntropy(e)
      [] c = "uname" -> UpdateUname(e)
      [] c = "loadavg" -> UpdateLoadavg(e)

UpdateOfServices(c, e) ==
    CASE c = "logind" -> UpdateLogind(e)
      [] c = "supervisord" -> UpdateSupervisord(e)
      [] c = "runit" -> UpdateRunit(e)
      [] c = "textfile" -> UpdateTextfile(e)

StorageCollectors ==
    {"xfs", "bcache", "btrfs", "zfs", "drbd", "mdadm", "diskstats", "nfs", "nfsd", "mountstats",
     "tapestats", "nvme", "filefd", "filesystem"}

NetworkCollectors ==
    {"netdev", "netclass", "qdisc", "ethtool", "ipvs", "tcpstat", "netstat", "sockstat",
     "conntrack", "network_route", "wifi", "softnet", "arp", "udp_queues", "lnstat", "bonding", "ntp"}

HardwareCollectors ==
    {"hwmon", "perf", "powersupplyclass", "dmi", "edac", "rapl", "drm", "thermal_zone", "cpufreq", "cpu",
     "fibrechannel", "infiniband"}

ServiceCollectors == {"logind", "supervisord", "runit", "textfile"}

KernelCollectors ==
    {"zoneinfo", "buddyinfo", "slabinfo", "cgroups", "schedstat", "meminfo", "meminfo_numa", "vmstat",
     "sysctl", "processes", "stat", "interrupts", "softirqs", "pressure", "ksmd", "timex", "time",
     "selinux", "entropy", "uname", "loadavg"}

Update(c, e) ==
    CASE c \in StorageCollectors -> UpdateOfStorage(c, e)
      [] c \in NetworkCollectors -> UpdateOfNetwork(c, e)
      [] c \in HardwareCollectors -> UpdateOfHardware(c, e)
      [] c \in ServiceCollectors -> UpdateOfServices(c, e)
      [] c \in KernelCollectors -> UpdateOfKernel(c, e)

(* What of an environment is read one after the other.                     *)
HaveItems ==
    {"xfs", "bcache", "btrfs", "zfs", "mdadm", "diskstats", "tapestats", "nvme", "filesystem", "netdev",
     "netclass", "qdisc", "ethtool", "wifi", "softnet", "lnstat", "bonding", "hwmon", "perf",
     "powersupplyclass", "edac", "rapl", "drm", "thermal_zone", "cpufreq", "fibrechannel", "infiniband",
     "zoneinfo", "buddyinfo", "slabinfo", "cgroups", "schedstat", "meminfo_numa", "time", "supervisord",
     "runit", "textfile"}

(* What else of it each of these Updates looks at.                         *)
Reads ==
    [xfs |-> {"stats"}, bcache |-> {"stats", "priorityStats"}, btrfs |-> {"stats", "mountPoints", "mounts"},
     zfs |-> {"base", "files"}, mdadm |-> {"mdstat"},
     diskstats |-> {"flags", "diskstats", "df", "order", "rows", "ignoredDevices"},
     tapestats |-> {"tapes"}, nvme |-> {"class"}, filesystem |-> {"flags", "mounts"},
     netdev |-> {"flags", "stats", "netlink", "detailed", "addressInfo", "interfaces"},
     netclass |-> {"netlink", "devices", "ignoreInvalidSpeed", "linkModes", "withStats"},
     qdisc |-> {"flags", "disciplines"}, ethtool |-> {"netClass", "flags", "metrics"},
     wifi |-> {"stater", "interfaces"}, softnet |-> {"stats"}, lnstat |-> {"netstat"}, bonding |-> {"masters"},
     hwmon |-> {"dir"}, perf |-> {"tracepoints", "start", "kinds", "cacheProfilers"},
     powersupplyclass |-> {"read"}, edac |-> {}, rapl |-> {"zones", "zoneLabel"}, drm |-> {"cards"},
     thermal_zone |-> {"zones", "cooling", "devices"}, cpufreq |-> {"freqs"}, fibrechannel |-> {"class"},
     infiniband |-> {"class"}, zoneinfo |-> {"zoneinfo"}, buddyinfo |-> {"buddyinfo"},
     slabinfo |-> {"slabinfo"}, cgroups |-> {"cgroups"}, schedstat |-> {"schedstat"}, meminfo_numa |-> {},
     time |-> {"zone", "clocksources"}, supervisord |-> {"call", "array"}, runit |-> {"services"}, textfile |-> {"dirs"}]

ListsAreSequences(c, e) ==
    /\ c \in HaveItems => IsSequence(e.items)
    /\ c = "zfs" =>
         /\ IsSequence(e.files) /\ \A k \in DOMAIN e.files : IsSequence(e.files[k].lines)
         /\ \A i \in DOMAIN e.items :
              LET p == e.items[i]
              IN  /\ IsSequence(p.io.rows) /\ IsSequence(p.io.fields) /\ IsSequence(p.objsets)
                  /\ \A r \in DOMAIN p.io.rows : IsSequence(p.io.rows[r])
                  /\ \A k \in DOMAIN p.objsets : IsSequence(p.objsets[k].lines)
    /\ c = "drbd" => IsSequence(e.words)
    /\ c = "diskstats" =>
         IsSequence(e.rows) /\ IsSequence(e.order) /\ \A n \in DOMAIN e.rows : IsSequence(e.rows[n].columns)
    /\ c = "btrfs" => IsSequence(e.mounts)
    /\ c = "nfs" => IsSequence(e.procedures)
    /\ c = "mountstats" => IsSequence(e.mounts) /\ IsSequence(e.mountsInfo)
    /\ c = "filefd" => IsSequence(e.parse) /\ IsSequence(e.order)
    /\ c = "netstat" =>
         IsSequence(e.netstat.protocols) /\ IsSequence(e.snmp.protocols) /\ IsSequence(e.fields)
    /\ c = "bonding" => \A i \in DOMAIN e.items : IsSequence(e.items[i].slaves)
    /\ c = "edac" => \A i \in DOMAIN e.items : IsSequence(e.items[i].rows)
    /\ c \in {"meminfo", "vmstat"} => IsSequence(e.lines)
    /\ c = "meminfo_numa" => \A i \in DOMAIN e.items : IsSequence(e.items[i].lines)
    /\ c = "sysctl" => IsSequence(e.flags.include) /\ IsSequence(e.flags.includeInfo)
    /\ c = "processes" => IsSequence(e.procs) /\ \A n \in DOMAIN e.procs : IsSequence(e.procs[n].threads)
    /\ c = "interrupts" => IsSequence(e.lines) /\ IsSequence(e.order)
    /\ c = "systemd" => IsSequence(e.units)
    /\ c = "pids" => IsSequence(e.procs) /\ IsSequence(e.order)
    /\ c = "textfile" => \A i \in DOMAIN e.items : IsSequence(e.items[i].families)

(* What else is so whatever is read: every read has some outcome; the      *)
(* flags of filesystem are compiled, empty or not; the parser of text      *)
(* files gives a family of a file once; a device has one btrfs file        *)
(* system, which has a device; the kernel and the library for /proc have   *)
(* the states that the collectors list; supervisord gives every field of   *)
(* a process; a session is remote or not; and the order of processes is    *)
(* one of them.                                                            *)
IsAsRead(c, e) ==
    /\ c \in HaveItems => Reads[c] \cup {"items"} \subseteq DOMAIN e
    /\ c = "filesystem" =>
         \A flag \in {e.flags.points, e.flags.types} : flag.exclude.set /\ flag.default.set
    /\ c = "textfile" => \A i \in DOMAIN e.items :
         LET families == e.items[i].families
         IN  \A k, l \in DOMAIN families : families[k].name = families[l].name => k = l
    /\ c = "btrfs" => \A n \in DOMAIN e.mounts : Answers(e.mounts[n]) =>
         /\ GetIoctlDeviceStats(e.mounts[n]).devices # {}
         /\ \A k \in DOMAIN e.mounts :
              Answers(e.mounts[k]) /\ e.mounts[k].device = e.mounts[n].device => e.mounts[k].uuid = e.mounts[n].uuid
    /\ c = "mdadm" => \A i \in DOMAIN e.items : \E s \in DOMAIN MdStates : e.items[i].activity = MdStates[s]
    /\ c = "zfs" => \A i \in DOMAIN e.items : e.items[i].state.name \in ZFSPoolStates
    /\ c = "cpufreq" => \A i \in DOMAIN e.items : e.items[i].governor \in {""} \cup AvailableGovernors(e.items[i])
    /\ c = "tcpstat" => \A s \in SocketsOf(e) : s.state \notin TCPQueues
    /\ c = "supervisord" => \A i \in DOMAIN e.items :
         {"name", "group", "state", "exitstatus", "start"} \subseteq DOMAIN e.items[i]
    /\ c = "logind" => \A n \in DOMAIN e.sessions : e.sessions[n].remote \in AttrRemoteValues
    /\ c = "pids" => \A k \in DOMAIN e.order : e.order[k] \in DOMAIN e.procs

ASSUME EnvironmentsAssumption ==
    /\ DOMAIN Environments \subseteq
         StorageCollectors \cup NetworkCollectors \cup HardwareCollectors \cup ServiceCollectors
           \cup KernelCollectors \cup InSteps
    /\ \A c \in DOMAIN Environments : \A e \in Environments[c] : ListsAreSequences(c, e) /\ IsAsRead(c, e)

-----------------------------------------------------------------------------
Init ==
    /\ collector \in DOMAIN Environments
    /\ env \in Environments[collector]
    /\ SystemdInit(IF collector = "systemd" THEN "connect" ELSE "idle")
    /\ PidsInit(IF collector = "pids" THEN "top" ELSE "idle")

Scrape ==
    /\ collector \notin InSteps
    /\ out = Unscraped
    /\ out' = Update(collector, env)
    /\ UNCHANGED <<env, systemdVars, pidsVars>>

ScrapeSystemd ==
    /\ collector = "systemd"
    /\ SystemdNext
    /\ UNCHANGED pidsVars

ScrapePids ==
    /\ collector = "pids"
    /\ PidsNext
    /\ UNCHANGED systemdVars

Next == (Scrape \/ ScrapeSystemd \/ ScrapePids) /\ UNCHANGED collector

Spec == Init /\ [][Next]_vars /\ SystemdFairness /\ PidsFairness

-----------------------------------------------------------------------------
(* The comment on ErrNoData: a collector that returns it "found no data to *)
(* collect", so it has sent none.  Not so for conntrack, rapl and pressure, *)
(* which return it when a later one of their reads finds nothing.          *)
NoDataIsSilent ==
    out.ret = "nodata" /\ collector \notin {"conntrack", "rapl", "pressure"}
        => out.sent = {}

(* What is indexed, dereferenced, or asserted to have a type, without a    *)
(* check: columns of a line that is too short (a row of a pool's io file,  *)
(* a pair of drbd without its second half, the tables of memory, a name of *)
(* netstat, what top and /proc say of a process); what may not be there    *)
(* (the file info of a chip of hwmon that goes after the directory has     *)
(* been listed, the statistics of a link, a line of a pressure file); what *)
(* supervisord answers; and a label that no metric can have.               *)
Unchecked(c, e) ==
    \/ c = "hwmon" /\ \E i \in DOMAIN e.items : e.items[i].lstat # "ok"
    \/ c = "zfs" /\ \E i \in DOMAIN e.items :
         \E r \in DOMAIN e.items[i].io.rows : Len(e.items[i].io.rows[r]) < Len(e.items[i].io.fields)
    \/ c = "drbd" /\ \E n \in DOMAIN e.words :
         e.words[n].key \in DOMAIN DRBDStringPair /\ Len(e.words[n].values) < 2
    \/ c = "meminfo" /\ \E n \in DOMAIN e.lines : e.lines[n].columns # 0 /\ ~(e.lines[n].columns >= 2)
    \/ c = "meminfo_numa" /\ \E i \in DOMAIN e.items : \E n \in DOMAIN e.items[i].lines :
         e.items[i].lines[n].columns # 0 /\ ~(e.items[i].lines[n].columns >= 4)
    \/ c = "vmstat" /\ \E n \in DOMAIN e.lines : ~(e.lines[n].columns >= 2)
    \/ c = "netstat" /\ \E file \in {e.netstat, e.snmp} : \E n \in DOMAIN file.protocols : ~file.protocols[n].named
    \/ c = "pids" /\ \E n \in DOMAIN e.procs : ~(e.procs[n].words >= 12) \/ "short" \in {e.procs[n].status, e.procs[n].io}
    \/ c = "netdev" /\ e.netlink /\ \E i \in DOMAIN e.items : ~e.items[i].stats64
    \/ c = "pressure" /\ \E n \in DOMAIN PSIResources :
         \E k \in DOMAIN PSIResources[n].stalls : PSIResources[n].stalls[k] \notin e.lines[PSIResources[n].name]
    \/ c = "supervisord" /\ (~e.array \/ \E i \in DOMAIN e.items : ~e.items[i].shaped)
    \/ c = "textfile" /\ \E i \in DOMAIN e.items :
         \E k \in DOMAIN e.items[i].families : e.items[i].families[k].reserved

(* Nothing else that is read makes an Update panic, which would end the    *)
(* process and every other scrape.  (Taken as documented: the types of the *)
(* properties of systemd's units, the length of the kernel's replies on    *)
(* sockets, the states of a link, and names that are names of metrics.)    *)
NeverPanics == out.ret = "panic" => Unchecked(collector, env)

(* Processes and threads come and go while they are counted: one that has  *)
(* gone does not fail the scrape.                                          *)
VanishedIsNoFailure ==
    (collector = "processes" /\ out.ret = "error") =>
      \/ \E limit \in {env.list, env.threadsMax, env.pidMax} : limit # "ok"
      \/ \E n \in DOMAIN env.procs :
           LET p == env.procs[n]
           IN  \E o \in {p.stat, p.task} \cup {p.threads[t].stat : t \in DOMAIN p.threads} : o \notin {"ok", "gone"}

(* What an Update returns tells what has happened to it.                  *)
ReturnsTell == NoDataIsSilent /\ NeverPanics /\ VanishedIsNoFailure

(* What is known to be labelled alike.  Two hops that go the same way, of  *)
(* routes that differ in what is not shown, their table for one.           *)
HopsAlike(e, g, h) ==
    LET r == e.routes[g[1]]
        q == e.routes[h[1]]
        a == RouteHops(r)[g[2]]
        b == RouteHops(q)[h[2]]
        unnamed(hop) == hop.ifIndex \notin DOMAIN e.links
    IN  /\ a.ifIndex = b.ifIndex \/ (unnamed(a) /\ unnamed(b))
        /\ <<a.gateway, a.weight, r.src, r.dst, r.priority>> = <<b.gateway, b.weight, q.src, q.dst, q.priority>>
        /\ r.protocol = q.protocol \/ {r.protocol, q.protocol} \cap NetworkRouteProtocols = {}

(* Two metrics of one name, in one text file or in two, that give the same *)
(* labels; one that is empty is not given.                                 *)
MetricsAlike(e, x, y) ==
    LET metric(z) == (CHOOSE f \in Range(e.items[z[1]].families) : f.name = z[3]).metrics[z[4]]
        given(m) == {<<l, m[l]>> : l \in {k \in DOMAIN m : m[k] # ""}}
    IN  x[3] = y[3] /\ given(metric(x)) = given(metric(y))

(* Two metrics of one name that the flags of sysctl ask for.               *)
SysctlsAlike(e, x, y) ==
    LET sysctl(z) == NewSysctls(e.flags)[z[2]].sysctl
    IN  /\ x[2] = y[2] => sysctl(x).keys # <<>>
        /\ MetricName(sysctl(x), x[3]) = MetricName(sysctl(y), y[3])

(* A statistic of ethtool whose name is one that the collector gives       *)
(* another.                                                                *)
RenamedTo(e, x, y) ==
    /\ x[2] \in DOMAIN EthtoolEntries
    /\ \E s \in e.items[y[1]].stats : s.raw = y[2] /\ s.fq = EthtoolEntries[x[2]]

(* A mount point that is listed again with other options, two chips of one *)
(* name, and a tracepoint that the flag of perf names twice, are alike     *)
(* too.                                                                    *)
LabelledAlike(e, s, t) ==
    LET x == s.of
        y == t.of
    IN  CASE collector = "network_route" -> HopsAlike(e, x[2], y[2])
          [] collector = "textfile" -> x[2] = "metric" /\ y[2] = "metric" /\ MetricsAlike(e, x, y)
          [] collector = "sysctl" -> SysctlsAlike(e, x, y)
          [] collector = "ethtool" -> RenamedTo(e, x, y) \/ RenamedTo(e, y, x)
          [] collector = "filesystem" -> e.items[x[1]].options # e.items[y[1]].options
          [] collector = "hwmon" -> x[1] # y[1] /\ HwmonName(e.items[x[1]]) = HwmonName(e.items[y[1]])
          [] collector = "perf" ->
               x[2] = "tracepoint" /\ y[2] = "tracepoint" /\ e.tracepoints[x[3]] = e.tracepoints[y[3]]
          [] OTHER -> FALSE

(* Two samples of one name and the same labels are of the same datum, or   *)
(* of data known to be alike: otherwise the labels tell apart whatever a   *)
(* collector reports.  (The registry refuses the whole scrape when they do *)
(* not.)  The kernel lists each of its tables' names once.                 *)
SeriesAreUnique ==
    \A s, t \in out.sent :
      (s # t /\ s.family = t.family /\ s.labels = t.labels) => LabelledAlike(env, s, t)

SamplesOf(r, i) ==
    {<<s.family, s.labels, Tail(s.of)>> : s \in {t \in r.sent : t.of[1] = i}}

(* A mount that is the same in everything as an earlier one.               *)
Repeated(i) ==
    collector = "filesystem" /\ \E j \in 1..(i - 1) : FilesystemLabels(env.items[j]) = FilesystemLabels(env.items[i])

(* What is sent of a device, file system, process... depends on that alone *)
(* when the scrape succeeds: nothing of another is left over in it, and    *)
(* none is lost because of another, unless it is the same.                 *)
ItemsIndependent ==
    (out.ret = "ok" /\ collector \in HaveItems) =>
      \A i \in {j \in DOMAIN env.items : ~Repeated(j)} :
        SamplesOf(out, i) =
          SamplesOf(Update(collector, [env EXCEPT !.items = <<env.items[i]>>]), 1)

-----------------------------------------------------------------------------
(* What some of the collectors promise.                                    *)

(* The exclude and the include pattern a collector's flags come to.        *)
Excluded(c, flags) ==
    CASE c = "netdev" -> Either(flags.oldExclude, flags.exclude)
      [] c \in {"diskstats", "filesystem"} -> ExcludeOrDefault(flags)
      [] c = "ethtool" -> flags.exclude

Included(c, flags) == IF c = "netdev" THEN Either(flags.oldInclude, flags.include) ELSE flags.include

AsksFor(flags, item) ==
    IF collector = "filesystem"
    THEN /\ Wanted(Excluded(collector, flags.points), NoPattern, item.mountPoint)
         /\ Wanted(Excluded(collector, flags.types), NoPattern, item.fsType)
    ELSE Wanted(Excluded(collector, flags), Included(collector, flags), item.name)

(* A device may support nothing of what ethtool asks it.                   *)
HasToTell(item) ==
    \/ item.linkInfo
    \/ item.driverInfo
    \/ Unclashed({s \in item.stats : ~env.metrics.set \/ s.raw \in env.metrics.matches}) # {}

(* The help texts of the flags: netdev, diskstats, ethtool and filesystem  *)
(* report what the flags ask for, each one of them and no other.           *)
FiltersFollowFlags ==
    (collector \in {"netdev", "diskstats", "ethtool", "filesystem"} /\ out.ret = "ok") =>
      \A i \in DOMAIN env.items :
        (\E s \in out.sent : s.of[1] = i /\ s.family[1] # "network_address")
          <=> /\ AsksFor(env.flags, env.items[i])
              /\ collector = "ethtool" => HasToTell(env.items[i])
              /\ ~Repeated(i)

(* A btrfs file system has the space left on its devices reported when any *)
(* of its mount points answers, whichever of them have failed before.      *)
BtrfsDevicesServed ==
    (collector = "btrfs" /\ out.ret = "ok" /\ env.mountPoints = "ok") =>
      \A i \in DOMAIN env.items :
        (\E n \in DOMAIN env.mounts : env.mounts[n].uuid = env.items[i].uuid /\ Answers(env.mounts[n]))
          <=> \E s \in out.sent : s.of[1] = i /\ s.family[2] = "device_unused_bytes"

(* Of the states of an array, a pool or a governor that are listed,        *)
(* exactly one is reported as the one it is in.                            *)
OneState ==
    (collector \in {"mdadm", "zfs", "cpufreq"} /\ out.ret = "ok") =>
      \A i \in DOMAIN env.items :
        LET states == {s \in out.sent : s.of[1] = i /\ Len(s.of) >= 3 /\ s.of[2] = "state"}
        IN  states = {} \/ Cardinality({s \in states : s.of[Len(s.of)]}) = 1

(* Every counter of the kernel is in exactly one metric of its device, in  *)
(* the legacy scheme, which renames counters and adds them up, as well.    *)
LegacyKeepsCounters ==
    (collector = "netdev" /\ out.ret = "ok") =>
      \A i \in {j \in DOMAIN env.items : \E s \in out.sent : s.of[1] = j /\ s.family[1] = "network"} :
        \A counter \in DOMAIN NetDevStats(env, i) :
          Cardinality({s \in out.sent : s.family[1] = "network" /\ s.of[1] = i /\ counter \in s.of[2]}) = 1

(* What is counted, and the samples it may be counted in.                  *)
Counted ==
    CASE collector = "tcpstat" -> SocketsOf(env)
      [] collector = "ipvs" -> DOMAIN env.backends
      [] collector = "logind" -> {n \in DOMAIN env.sessions : env.sessions[n].read /\ env.sessions[n].seat \in ListSeats(env)}
      [] collector = "processes" -> {n \in DOMAIN env.procs : env.procs[n].stat = "ok"}

CountedIn(x) ==
    CASE collector = "tcpstat" ->
           {s \in out.sent : s.labels[1] \notin TCPQueues /\ x \in s.of[2]}
      [] collector = "ipvs" -> {s \in out.sent : s.family[2] = "backend_weight" /\ x \in s.of[2]}
      [] collector = "logind" -> {s \in out.sent : x \in s.of[3]}
      [] collector = "processes" -> {s \in out.sent : s.family[2] = "state" /\ x \in s.of[2]}

(* Sockets of both families, backends, sessions of any attributes on the   *)
(* seats listed and processes are each counted once.                       *)
CountedOnce ==
    (collector \in {"tcpstat", "ipvs", "logind", "processes"} /\ out.ret = "ok") =>
      \A x \in Counted : Cardinality(CountedIn(x)) = 1

(* A device mounted from several servers, or over several protocols, has   *)
(* the statistics of each.                                                 *)
EveryServerReported ==
    (collector = "mountstats" /\ out.ret = "ok") =>
      \A n \in {m \in DOMAIN env.mounts : env.mounts[m].nfs} :
        \E s \in out.sent :
          SubSeq(s.labels, 1, 3) = <<env.mounts[n].device, env.mounts[n].protocol, MountAddress(env, n)>>

(* Whatever there is to report is reported, once.                          *)
NothingLost ==
    BtrfsDevicesServed /\ OneState /\ LegacyKeepsCounters /\ CountedOnce /\ EveryServerReported

(* A textfile replaced while it is read does not look fresh with old       *)
(* metrics: the modification time is that of the content.                  *)
MtimeOfContent ==
    collector = "textfile" =>
      \A s, t \in out.sent :
        (s.of[1] = t.of[1] /\ s.of[2] = "mtime" /\ t.of[2] = "metric") => s.of[3] = t.of[5]

(* The metrics of one family have labels of the same names.                *)
LabelsConsistent ==
    collector = "textfile" =>
      \A s, t \in {u \in out.sent : u.of[2] = "metric"} :
        s.family = t.family /\ s.of[1] = t.of[1] => DOMAIN s.labels = DOMAIN t.labels

(* Whatever is lost is told: unless the error flag is up, every textfile   *)
(* in a directory that can be read has its modification time.              *)
LossIsTold ==
    (collector = "textfile" /\ out.ret = "ok") =>
      \/ \E s \in out.sent : s.of[2] = "scrape_error" /\ s.of[3]
      \/ /\ \A d \in DOMAIN env.dirs : env.dirs[d].read \/ env.dirs[d].blank
         /\ \A i \in DOMAIN env.items :
              env.items[i].prom => \E s \in out.sent : s.of[1] = i /\ s.of[2] = "mtime"

(* The textfiles' metrics, their age and what is wrong with them agree.    *)
TextfileFaithful == MtimeOfContent /\ LabelsConsistent /\ LossIsTold

(* Every Update returns: once connected to systemd, it waits for what has  *)
(* been started and no more; and the capture ends on every interface, as   *)
(* long as packets come, each later than the one before.                   *)
UpdatesReturn == SystemdReturns /\ CaptureEnds
=============================================================================

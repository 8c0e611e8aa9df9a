# Verification of the BMS node exporter

TLA+ models of the exporter in `src/`: a fork of the Prometheus node exporter
with collectors for GPUs, processes and inodes added. TLC checks each model on
small instances; TLAPS proves its main safety properties for every value of the
constants. `PROJECT.json` lists the runs, their properties, the source lines
behind each definition, the findings, the hazards and the theorems.

    tlc -config MCExporter_scrapes.cfg MCExporter.tla
    tlapm ExporterProofs.tla

## 1. The system

One process. `main` parses the command line, builds the handler of unfiltered
scrapes and listens. Prometheus requests `/metrics`; every request makes the
registry call `NodeCollector.Collect`, which starts a goroutine per collector
and waits for all of them. Each goroutine calls `Update` of its collector, which
reads `/proc`, `/sys`, a library or a daemon and sends metrics on a channel
shared by the scrape. A request with `collect[]` parameters gets a handler of
its own, with the same instances of the collectors it names.

Three facts make it hard:

* Requests are served concurrently, so **every field of a collector is shared by
  concurrent calls of `Update`**. Most collectors have no state; those that do
  keep it under a mutex, or should.
* Nothing recovers a panic of a collector: it **ends the process**, and every
  scrape with it. Two metrics with the same labels, or one sent after `Update`
  has returned, also spoil more than the collector they come from.
* What a collector reads **changes under it**: mounts hang, CPUs go offline,
  files are replaced, processes exit, devices fall off the bus.

### Components

| component | state it keeps | operations | what is hard | what makes it correct | model |
|---|---|---|---|---|---|
| scrape core (`node_exporter.go`, `collector/collector.go`) | `collectorState`, `forcedCollectors`, `initiatedCollectors`, the handlers and the in-flight semaphore of each | parse flags, build handler, serve, collect, execute | factories that fail, concurrent builds, `Update` that hangs or panics, the limit | one instance per collector; the answer has what was asked for; no goroutine outlives its scrape; slots come back | `Exporter`, `ScrapeService` |
| filesystem | `stuckMounts` | merge flags, walk the mounts, `statfs`, watcher with a timeout, send | `statfs` that hangs; timeout racing the return | a mark has a call behind it and goes with it; every mount is reported, with an error where no call has answered | `Filesystem`, `DeviceFilters`, `Storage` |
| cpu | `cpuStats`, the counters last exposed | read `/proc/stat`, merge, expose; info, throttles | readings merged out of order, hotplug, idle counters that step back | counters go back only by a reset, of a whole CPU | `CPUStats`, `Hardware` |
| os | release, version, file name and time last parsed | open, compare, parse, expose | the file changes between the steps, parsing fails, reads without the lock | an up-to-date cache is of the file there is | `OSRelease` |
| gpu | `GpuCount`; NVML's initialisation count | init, count, query each device, shut down, send | scrapes share the library, calls fail one by one | the library is up while it is called; a device has its own labels | `GPU` |
| netdev, ethtool, netclass, zoneinfo, meminfo_numa | maps of descriptors by name | look up or create, send | concurrent creation; clashing names | one descriptor per name; no concurrent write | `Shared`, `Network`, `Protocols`, `Kernel` |
| ntp | `leapMidnight` | query, update the midnight, judge | the flag is dropped at midnight; two scrapes | tolerance lasts a day either side and no longer | `Shared`, `Protocols` |
| systemd | none; goroutines and a D-Bus connection per scrape | connect, list, five goroutines over the units, wait, close | order of waiting and closing, units that vanish | the same is sent as in one goroutine; no send after return | `Systemd` |
| pids | none; a capture per interface | `top`, `/proc/<pid>`, port map, capture | processes exit; packets of two processes; quiet interfaces | each segment counted once; the capture lasts a second and ends | `Pids` |
| textfile | none | glob, read, parse, merge help, send | files replaced while they are read; one bad file of many | a loss is told; no file looks fresh with old data | `Services` |
| logind, supervisord, runit | none | one call per item | items that vanish | each item counted once, none as another | `Services` |
| device filters and their flags | the compiled patterns | merge deprecated flags, build, match | precedence of flags, exclusive flags | a device is reported iff the flags say so | `DeviceFilters` |
| file systems and block devices: xfs, bcache, btrfs, zfs, drbd, mdadm, diskstats, nfs, nfsd, mountstats, tapestats, nvme, filefd | none (btrfs: open mount points) | several reads, item by item | the second read fails after the first was sent; repeated mounts | failure is reported; nothing is lost or repeated | `Storage`, `NFS`, `Hardware`, `Kernel` |
| sensors and devices: hwmon, perf, powersupplyclass, dmi, edac, rapl, drm, thermal_zone, cpufreq, fibrechannel, infiniband | none (perf: its profilers) | walk a directory, read each file | chips that vanish, files that are no numbers | no item under another's labels; no series twice | `Hardware` |
| networking: qdisc, ipvs, tcpstat, netstat, sockstat, conntrack, network_route, wifi, softnet, arp, udp_queues, lnstat, bonding | none | one read or several, parse, send | optional sources, interfaces that fail after others were sent | as above | `Network`, `Protocols` |
| kernel: stat, meminfo, vmstat, processes, interrupts, cgroups and others | none | one read, parse, send | processes that end while they are counted | as above | `Kernel` |
| BSD, Darwin and Solaris collectors | none to speak of | sysctl or kstat | built for other systems | | no |
| NVML bindings, `nvml.h` | a library handle | C calls | third-party code | | as external steps of `GPU` |
| web server, TLS, landing page, paths; `helper.go` | none | | pure I/O and conversions | | no |
| docs, dashboards, packaging | | | configuration of other programs | | no |

All 72 collectors of a Linux build are modelled. They do not call each other:
they meet in the scrape core only, which sees of each the result of its
`Update`. This is why the models of collectors are not composed with
`Exporter`: its `UpdateReturns`, `UpdatePanics` and the constant `Hanging` allow
every result a collector's model can give, so what is shown of the core holds
for whatever the collectors do.

## 2. The models

Models of state that scrapes share have a module, an `MC…` module with values for
TLC, configurations, and a `…Proofs` module. The collectors without such state
are operators, gathered in `Collectors`, with `CollectorsProofs`. Operators and labels have the names of the source. The
operators marked *Mutant* in the modules are wrong versions of a definition, one
for each property, against which the property is known to fail.

### `Exporter` and `ScrapeService`

A process starts with a command line (`ParseFlags`, `ApplyDefaults`), builds the
unfiltered handler (`NewHandler`, or a panic when a factory fails) and serves.
A request (`Arrive`) is given the unfiltered handler or builds its own
(`BuildFiltered`, `RejectFiltered`), is admitted or turned away by the semaphore
of its handler (`Admit`, `RejectBusy`), and runs a goroutine per collector
(`UpdateReturns`, `Report`, `WgDone`) until the wait group is empty (`Finish`).
`UpdatePanics` ends the process and `Restart` starts it again; the semaphore and
`promhttp` are external and modelled from how `innerHandler` uses them.

`NewNodeCollector` runs under `initiatedCollectorsMtx` from its loop to its end
and is one action; the check of the filters before it reads only what never
changes once the process serves. A failing factory leaves any subset of the
others cached, because Go's map order is random.

`ScrapeService` is what a client sees: a request is submitted, then answered
with samples of what it asked for, refused, turned away or lost. `Service` in
`Exporter` maps one to the other.

| run | shows |
|---|---|
| `exporter_flags` | all 18 command lines of two collectors against all 8 filter sets, with a factory that may fail and an `Update` that may panic: what is served and answered is what the flags and filters say (`ServesCommandLine`, `AnswerInScope`, `BadRequestIsClients`); slots come back (`SlotsRecover`) |
| `exporter_scrapes` | two scrapes, one slot, one collector that hangs, one that panics: `OneInstance`, `NoGoroutineOutlivesCollect`, `SlotsAccounted`, `HealthyScrapeAnswered`, and that the exporter implements `ScrapeService` |

### `Filesystem`

One action per step of `GetStats` that another goroutine can fall between:
choosing what to do with a mount reads `stuckMounts` under its mutex
(`SkipExcluded`, `SkipStuck`, `CallStatfs`); the call is out (`StatfsReturns`);
the critical section after it closes `success` and removes the mark
(`CloseSuccess`). A watcher per call sees `success` or its timer
(`SeesSuccess`, `Expires`, either may win when both are ready) and marks the
mount under the mutex unless `success` is closed by then (`MarkStuck`). `Hang`
and `Recover` are the kernel's. Mount tables are readable or not, hidden, or
have a broken line.

`filesystem_walk` has two scrapes over five pairs of tables with at most two
mounts: `StuckHasCaller`, `EveryMountReported` (with `device_error` 0 exactly where
a `statfs` of the scrape has answered, which the history variable `answered`
keeps), `HungCallMarks`,
`HealthyWalkEnds`, `StuckRecovers`. Two mounts are enough for a slow mount to
come before or after a healthy one, two scrapes for one to remove the other's
mark.

### `CPUStats`

A scrape reads `/proc/stat` (`ReadStat`), merges what it has read under
`cpuStatsMutex` (`UpdateCPUStats`), and locks again to expose the cache
(`Expose`). CPUs are plugged and unplugged, counters count, and idle counters
step back by less than `jumpBackSeconds`. `cpu_cache` has two machines: two CPUs
that come and go, and one CPU with two counters; with `JumpBack = 2` a counter
bounded by 2 or 3 steps back below the limit, at it and above it. The scrapes
are interchangeable and no property names one, so they are symmetric.
`CacheHasMergedCPUs` is the interesting one: the code looks for offline CPUs only
when the *numbers* of CPUs differ, and this is enough. `cpu_stale` shows
finding 1. The comment at `cpu_linux.go:361` says "more than", the code has `>=`;
the model follows the code.

### `OSRelease`

The files are inodes named by paths, and are rewritten in place, replaced and
removed at any time. A scrape opens the first path there is and takes its time
(`OpenStat`, one step, as `Stat` goes to the open file), compares under the read
lock (`Check`), stores name and time (`Lock`), parses (`Parse`), stores the
version (`SetVersion`), and sends field by field without the lock (`SendInfo`,
`TestVersion`, `ReadValue`, `SendVersion`). A content stands for the release it
parses to, or for the call that fails on it; a plist is read by its name a
second time, as the code does.

The model assumes that **every write has a modification time of its own**. Where
two writes share a time stamp the code cannot tell them apart, and does not claim
to.

`os_cache` has two scrapes, two paths, one a plist, two writes and contents that
are good, without a version, out of range, malformed and unreadable:
`CacheFollowsFile` and `Settles`. Two writes are enough for a file to change
while one scrape parses and another waits. `os_blank` shows finding 2.

### `GPU`

`Stat` initialises the library (`NvmlInit`), asks for the number of devices
(`DeviceGetCount`, 0 when the call fails), queries each (`QueryDevice`) and shuts
down (`NvmlShutdown`); `updateStat` sends each (`SendDevice`). The library counts
its initialisations; a device may be lost, after which it has no handle, until
the driver is reloaded. A device is its labels: the readings are abstracted.
`GpuCount` is a package variable: a scrape sends whatever is in it. The history
variable `recent` has the counts made since a scrape made its own, with it.
`gpu_scrapes` has two scrapes and hosts of two GPUs of one type or two:
`InitialisedWhileUsed`, and `ReportsItsOwn`: a device has its own labels or none,
and the number sent is the scrape's own or, where another scrape has counted
since, one of those counts. That the number may be another scrape's is what the
code does; that it is none other is the property. Two GPUs are enough for one to
leave something behind for the next. `gpu_once` shows finding 3.

### `Shared`

What two scrapes of a collector share besides the state above. A scrape goes
through the names of statistics it has found, any of them, in any order: it
takes the mutex where there is one (`LookUp`), finds the descriptor (`Found`) or
does not (`NotFound`) and stores a new one (`Store`). Looking up and storing are
steps of their own, because the code without a mutex has nothing to keep them
together; only for `netdev` and `ethtool`, the set `Guarded`, does the mutex
exclude the others. For `ntp`, an answer of the server (`QueryWithOptions`) is
judged later (`CheckSanity`, the section of `leapMidnightMutex`), while the
clock ticks and answers overtake each other; the announcement may be missing
from any answer of its day.

`shared` has two scrapes, two names, and four days of two ticks with the leap
second at the end of the second: `DescsGuarded`, `ScrapesEnd`, `LeapTolerated`.
A day of two ticks has a midnight and a time that is none; two names let scrapes
meet at one and miss each other at the other.

### `Collectors`: one scrape of every other collector

`Collection` says what an `Update` is built from. A *sample* has a family, the
values of its labels, and, for the properties, the datum it is a sample of. An
`Update` is an operator of its *environment*, which holds the outcome of every
read it makes, and its value is what it has put in the channel by the time it
returns, and what it returns: `ok`, `nodata`, `error` or `panic` (`unbuilt` when
its constructor fails). `a \bullet b` goes on with `b` unless `a` has returned,
`Loop` is a loop that returns from its body; so each operator reads as its
`Update` does, early return by early return, and what was sent before a failure
stays sent. Readings are left out: a sample is told from another by where it
comes from, so that one item's reading under another's labels shows.

| module | collectors |
|---|---|
| `DeviceFilters` | what the flags of `netdev`, `diskstats`, `ethtool`, `qdisc`, `filesystem` and `systemd` come to |
| `Storage`, `NFS` | xfs, bcache, btrfs, zfs, drbd, mdadm, diskstats, filesystem (where no `statfs` hangs); nfs, nfsd, mountstats |
| `Network`, `Protocols` | netdev, netclass, qdisc and others; ethtool, ntp, wifi, netstat and others |
| `Hardware` | hwmon, perf, powersupplyclass, dmi, edac, rapl, drm, thermal_zone, cpufreq, fibrechannel, infiniband, tapestats, nvme, and cpu apart from its cache |
| `Kernel` | zoneinfo, buddyinfo, slabinfo, processes, stat, interrupts, pressure and others |
| `Services` | logind, supervisord, runit, textfile |
| `Systemd` | systemd, step by step |
| `Pids` | pids, packet by packet |

Two `Update`s are many steps. `Systemd` has a goroutine for each of its jobs
(`Work`, one unit at a time) and keeps the deferred calls as a stack
(`Deferred`): the wait, deferred last, comes first. A call on a closed
connection fails. Its shared variable `begin` serves the debug log only and is
left out. `Pids` captures on one interface after the other (`OpenLive`) and
looks at each packet (`PacketArrives`): which process it is counted for, and
whether the time stamps are a second apart by now. A packet has a segment of
TCP, one of UDP, neither or both; as in the code the two are looked at one after
the other, each by itself.

`MCCollectors` lists the environments: for each collector, every way its reads
can fail with up to two of whatever it lists, and flags that are set, unset, old
and new together. Lines that are cut short, links without statistics, entries of
`/sys` that are files, symlinks or gone, and replies of another shape are among
them. `collectors` runs them all, and every order of systemd's
goroutines and every short sequence of packets. The checks are grouped:

| property | says |
|---|---|
| `ReturnsTell` | an `Update` that says it found no data has sent none; none panics but on what `Unchecked` lists; a process that has ended fails no scrape |
| `SeriesAreUnique` | the labels tell apart whatever a collector sends under one name, apart from what is known to be labelled alike (`LabelledAlike`) |
| `ItemsIndependent` | what is sent of a device, file system or process depends on it alone: compared with the same scrape with that item alone (a mount that is the same as an earlier one is dropped) |
| `FiltersFollowFlags` | `netdev`, `diskstats`, `ethtool` and `filesystem` report what the help texts of their flags ask for, and no more (of `ethtool`, a device that supports anything it is asked) |
| `NothingLost` | a file system is served by any mount point that answers; one state is on; the legacy counters of a device are each in one metric; sockets, backends, processes and the sessions of the listed seats are counted once; every NFS server has its statistics |
| `TextfileFaithful` | a file's modification time is that of the content sent; labels of a family have the same names; a file that is lost raises the error flag |
| `SystemdAsInOneGoroutine` | whatever the order of the goroutines, the same is sent as by one |
| `EverySegmentCountedOnce` | every TCP or UDP segment of a process, for one process, in one direction, also between two processes |
| `AtLeastASecond` | the capture on an interface lasts a second |
| `UpdatesReturn` | systemd's `Update` waits for what it started and no more; every capture ends |

Exceptions that the code makes are in the properties by name.

`conntrack`, `rapl` and `pressure` return "no data" after they have sent some.

`Unchecked` is what is indexed, dereferenced, asserted to have a type or given to
the registry without a check, and so panics:

* `hwmon`, when a chip goes between the listing and the look at it
  (`hwmon_linux.go:437`);
* `netdev` from netlink, when a link has no statistics (`netdev_linux.go:60`);
* `pressure`, when a file has no line of a kind (`pressure_linux.go`, where
  `vals.Some` and `vals.Full` are pointers of the library);
* on a line that is too short: `zfs` (a row of a pool's `io` file,
  `zfs_linux.go:212`), `drbd` (a pair of states, `drbd_linux.go:248`), `meminfo`
  (`:56`), `meminfo_numa` (`:139`), `vmstat` (`:68`), `netstat` (an empty name of a
  protocol, `:148`) and `pids` (what `top` prints, `pids_linux.go:258`, and the
  files of `/proc/<pid>`, `:188` and `:229`);
* `supervisord`, when what it answers is no array of records, or a field has
  another type (`supervisord.go:143-163`);
* `textfile`, on a label whose name is reserved, which the parser lets pass and
  the registry does not (`textfile.go:155`).

`LabelledAlike` is what is known to be sent under the same labels, for which the
registry refuses the scrape:

* two hops of `network_route` that go the same way, of routes that differ in what
  is not shown (their table);
* two metrics of one name and the same labels, in one text file or in two;
* two metrics of one name that the flags of `sysctl` ask for;
* a statistic of `ethtool` whose sanitised name is one the collector has given
  another of its own accord;
* a mount point that is listed again with other options;
* two chips of one name (`hwmon_linux.go:376`);
* a tracepoint that the flag of `perf` names twice.

Each is in some environment, so the exceptions are met and not avoided.

`EnvironmentsAssumption` says what every environment is, and the proofs use
nothing else of them. `ListsAreSequences`: what is read one after the other is a
sequence, of any length. `IsAsRead`: every read has an outcome (`Reads` lists
what a collector reads beside its items). It also has what the code takes from
elsewhere for granted: flags of `filesystem` have a default, so both patterns are compiled;
`expfmt` returns the families of a file as a map, so by name once; a device
holds one btrfs file system, so mounts of it have one UUID, and it has a device
(a mount point is used when it is the first to answer of its device and of its
UUID, `Used`); the activity of an array and
the state of a pool are among those the collectors list (`procfs` and ZFS have
no others), the governor of a CPU is one of those available or could not be
read; the state of a socket is no queue; `supervisord` gives every field of
every process, as its `getAllProcessInfo` does, and the collector relies on it
(`supervisord.go` decodes all of them into one variable); `Remote` of a session
is a boolean.

Four things are taken for granted by what environments can say at all: the types
of the properties of systemd's units, which its D-Bus interface documents and
`systemd_linux.go:278-414` asserts; that the kernel's replies on sockets are
whole (`tcpstat_linux.go:128` casts them); that a link is in one of the seven
states there are (`netclass_rtnl_linux.go:116` indexes by it); and that names which become names of
metrics or values of labels are such as the registry takes (UTF-8, and no name
of a metric with a character it refuses), text files not using the names of the
exporter's own metrics.

`pids_rate` shows finding 4.

## 3. Bounds and fairness

| bound | value | why it is enough |
|---|---|---|
| `Collectors`, `Requests`, `Scrapes` | 2 | every hazard is between two; the proofs are for any number |
| `MaxRequests` | 1 | full with one scrape, so the other is at the limit |
| `MaxLines` | 2 | before and after a slow mount |
| `machine.max` | 2 or 3 | crosses `JumpBack` from both sides |
| `MaxWrites` | 2 | one before and one during a scrape |
| `NPaths` | 2 | a first path and a fallback |
| `LastTime` | 8 | two days after the leap second, when nothing may be tolerated any more |
| items of an environment | 2, or 3 for names that clash and processes that share a port | one leaves something behind for the next; the theorems are for any number |
| units of systemd | 2 | one goroutine is at the first, another past it; the proof is for any number |
| `Gaps`, `Second` | 1, 2 and 4; 3 | packets closer than a second and farther apart |

`machine.max`, `MaxLines`, `MaxWrites`, `LastTime`, the environments and `Gaps`
bound what the code does not bound; no theorem rests on a value of theirs (of
environments, on `EnvironmentsAssumption` alone).

Fairness, and the code's reason for it:

* Goroutines that can run, run: weak fairness of the steps of `Exporter.Serve`,
  of `Startup`, of `Report` and `WgDone`, of `Filesystem.Walk`, of
  `OSRelease.Scrape`, of each goroutine of `Systemd`, and of the steps of
  `Shared` that need no mutex. No fairness for clients, panics, hotplug, writes
  and failures.
* A goroutine that waits for a mutex gets it, although others take it again and
  again: strong fairness of `LookUp`, which is what the starvation mode of Go's
  `sync.Mutex` is for.
* `Update` returns, except for collectors in `Hanging`; `statfs` returns when its
  mount point answers; a timer that is not stopped fires (`Watch`).
* `StuckRecovers` alone assumes in its own statement (`Recovering`) that mount
  points do not hang for ever and that a call that can return time and again
  does: without it a dead server keeps its mark, as it should.
* `Settles` assumes that Prometheus goes on scraping.
* `CaptureEnds`, a part of `UpdatesReturn`, assumes that packets come, each later
  than the one before. **The code has nothing to replace this assumption**: the
  loop at `pids_pcap.go:214` has no timeout, and on an interface without traffic
  the scrape does not end. The property says that nothing else keeps it.

`CPUStats` and `GPU` have no liveness property: a scrape there waits for nothing
but a mutex held over straight-line code.

## 4. Findings

Four statements of the repository that the code does not keep, each the last
state of a run:

1. `cpu_stale`: a scrape delayed between reading and merging resets counters
   another has exposed, without the hotplug the comment takes for granted.
2. `os_blank`: the name and time of a file are stored before it is parsed; after
   a failure the next scrape takes a blank release for an up-to-date one.
3. `gpu_once`: `gpuCount` is sent once per *type* of GPU, with labels that have
   no type: the registry rejects the second.
4. `pids_rate`: "Bytes/s" are the bytes of the whole capture: the seconds it took
   are computed, but 1.0 is returned.

Divergences that modelling met and that need no run to see; where a model
contains them, its definition follows the code:

* `--web.max-requests` ("Maximum number of parallel scrape requests",
  `node_exporter.go:157`) limits the scrapes of one handler, and filtered scrapes
  have one each: more run in parallel.
* Duplicate mounts are dropped by a key with the mount options, which the labels
  do not have, against the comment at `filesystem_common.go:177`.
* `os` sends the fields of its cache without the mutex its writer holds: one
  scrape can send the labels of one release and the version of another
  (`CHANGELOG.md:103` has the data race as fixed).
* `netclass` (both of its sources), `zoneinfo` and `meminfo_numa` keep descriptors
  in maps without a mutex; `CHANGELOG.md:97` has the race of `netdev` as fixed.
* `conntrack`, `rapl` and `pressure` return `ErrNoData` after they have sent
  metrics: the scrape counts as failed, against the comment at
  `collector.go:195`.
* `qdisc` builds its filter from the exclude pattern twice (`qdisc_linux.go:96`):
  an include pattern has no effect, and an exclude pattern leaves nothing.
* An explicitly empty exclude flag of `filesystem` is a pattern that matches every
  mount point, where the other collectors take it for none.
* `netclass_rtnl_linux.go:127` sends the link mode under the name `dormant`.
* The name `hwmon` makes of a chip's device is said to be "always unique"
  (`hwmon_linux.go:354`); once cleaned of special characters it need not be.
* The error of a chip of `hwmon` that could not be read is overwritten by the next
  entry that is a symlink (`hwmon_linux.go:440`), as all are below
  `/sys/class/hwmon`; an entry that is none leaves it.
* What `Unchecked` lists (section 2) ends the process, where the code means to
  return an error for what it cannot read.
* A packet with a segment of TCP and one of UDP is counted twice, once for each
  (`pids_pcap.go:222` and `:259`), though what is exposed is called packages.

## 5. What is proved

Every theorem is for any values of the constants that satisfy the module's named
assumptions, which TLC evaluates in the runs. The assumptions say of what kind
the constants are, that the sets of collectors, requests, CPUs and scrapes are
finite (their cardinalities are compared), that `JumpBack`, a day, a second
and the gaps between packets are positive, and what environments are (section 2).

| module | theorems | inductive invariant, and why it is needed |
|---|---|---|
| `ExporterProofs` | `TypeCorrect`, `ServesCommandLineHolds`, `BadRequestIsClientsHolds`, `OneInstanceHolds`, `AnswerInScopeHolds`, `NoGoroutineOutlivesCollectHolds`, `SlotsAccountedHolds`, `FilteredNeverBusyHolds`, `Refinement` | Built in layers. What each phase of the process knows of its flags and cache (`ProcessCorrect`); that a wait group is the number of goroutines not done (`WgCorrect`), by adding and removing one element of a finite set; what each stage of a scrape knows of its handler and samples (`ScrapesCorrect`). Refinement follows: most steps stutter, and the others need the layers to show that the answer is the one the service promises |
| `FilesystemProofs` | `TypeCorrect`, `StuckHasCallerHolds`, `EveryMountReportedHolds` | A watcher is of the call its scrape is in or its channel is closed, channels are closed for positions already passed only, and no watcher is both waiting and expired (`WatchInv`). Without it a watcher of an earlier call could mark the mount of a later one. That a scrape has reported every mount, with an error where none of its own calls has answered, is true of the lines it is past at each step (`ReportedInv`): what it has reported then is the selection of what is due for the lines before the one it is at, it has an answer for no line it has yet to call, and a call that is back has failed exactly if it has no answer. That one of each labels is sent needs a least position, not induction |
| `CPUStatsProofs` | `TypeCorrect`, `CacheHasMergedCPUsHolds`, `CacheCoversReadingHolds`, `BackOnlyByJumpHolds` | The properties are inductive with the types. The lemma on `RemoveOffline` is the point: after the merge the new CPUs are a subset of the cached ones, so equal numbers mean equal sets |
| `OSReleaseProofs` | `TypeCorrect`, `CacheFollowsFileHolds` | `FileInv`: one writer at a time; inodes have different times; no inode but the one a scrape has open bears the time it read; the writer's name and time are stored; while nobody is between storing and parsing, the cached release is that of the file the stored name and time still describe, and with the mutex free so is the version |
| `GPUProofs` | `TypeCorrect`, `InitialisedWhileUsedHolds`, `ReportsItsOwnHolds` | `GPUInv`: `inits` is the number of scrapes between their initialisation and shutdown, how far each has got, that each queried device has its own labels or none, and that `GpuCount` is among the counts made since a scrape's own for as long as it may send it |
| `SharedProofs` | `TypeCorrect`, `DescsGuardedHolds`, `LeapToleratedHolds` | `SharedInv`: the mutex has one holder at most (`Exclusive`, with `TypeOK` saying who holds it); the name a guarded scrape is about to store has no descriptor yet, because nobody could store one since it looked (`Separate`); and, for `ntp`, the midnight kept is that of the leap second from the first announcement on, and answers with the announcement are of its day (`LeapInv`) |
| `CollectorsProofs` | `CollectorsInvHolds`, `SystemdAsInOneGoroutineHolds`, `NothingSentAfterReturnHolds`, `EverySegmentCountedOnceHolds`, `AtLeastASecondHolds`, `ReturnsTellHolds`, `FiltersFollowFlagsHolds`, `TextfileFaithfulHolds`, `NothingLostHolds`, `ItemsIndependentHolds` | `CollectorsInv`: of `systemd`, where `Update` is decides what is on the stack of deferred calls, which goroutines there are and whether the connection is open (`Control`), and the channel has exactly what `Update` has sent by then and what each goroutine has sent of the units before the one it is at (`Sent`); of `pids`, the time stamps of a capture are long past or in order, and the counts add up to the segments that matched; of any other collector, that it has done nothing or the whole of its `Update` |

The theorems `FilteredNeverBusyHolds` (only unfiltered scrapes are turned away)
and `NothingSentAfterReturnHolds` (no goroutine sends once `Update` has returned)
are of properties that the proofs alone check.

### The collectors that are one step

The invariant says little of them; the rest is what their operators do with any
environment, items in any number. It is shown bottom up.

* *Of the operators of `Collection`*: what `Send`, `Through`, `Check`, `\bullet`
  and `Loop` return and send in terms of their parts. A `Loop` that ends well
  has run each of its bodies, and none has returned; one that does not end well
  returns what a body of its own has returned. `Loop` is defined by the least
  body that returns, so this needs a least member of a set and no recursion.
* `ReturnsTell`: by which values each part of an `Update` can return. A part
  that returns neither "no data" nor panics hands this on to the whole; what is
  left are the places where the code says `ErrNoData` or uses something unchecked.
  For the first the theorem follows from what has been sent before; for the second
  the lemmas on the parts carry along that one which may panic does so only on
  what `Unchecked` lists.
* `FiltersFollowFlags`: an item sends something if and only if it is not skipped,
  and is skipped if and only if its filter says so; `DeviceFilters` relates the
  filters built to the flags, old and new.
* `TextfileFaithful`: each file's samples are of the file as it was opened, and
  an error in any file or directory ends up in the flag.
* `NothingLost`: that what is counted is in *one* sample is shown of each sum,
  selection or loop: for `btrfs` by the first mount point that answers, for the
  legacy counters of `netdev` by what each renaming leaves and removes, for
  `mountstats` by the first mount with the same identity.
* `ItemsIndependent`: compares a scrape with the scrape of one item alone. Two
  sets of samples are `Alike` when they differ in the position of their item only,
  and all of each are of that item. This goes through everything a body of a loop
  is built of, inner loops included, so a body for an item at one position is like
  the body for it at the first (`AlikeBodies`). A `Loop` that ends well has run
  the body of every item, and none has sent anything of another, so it shows of
  each what the loop over that one shows (`LoopShows`). The lemma of each
  collector (`XFSShows`, `BcacheShows`...) puts its loops together with what it
  sends besides, which is of no item. Three are not a matter of form:
  `supervisord` keeps its record from one process to the next, and is right
  because every process gives every field; `filesystem` skips a mount that
  repeats an earlier one; and `hwmon` forgets the failure of an entry over the next
  that is a symlink, so the same chip may be sent with success among others and
  with an error alone.

### Induction

`Induction` has what the other proofs need of it, for numbers, finite sets and
sequences: a set of numbers that contains 0 and, with each number, the next, is
all of them (`AllNumbers`); likewise for the subsets of a finite set
(`AllSubsets`). Both come from the fact that a set of numbers has a least member
(`LeastMember`), which is well-foundedness applied to a set: no theorem with an
operator as its parameter is used. From these: what sums over a finite set add
up to, which `EverySegmentCountedOnce` compares, and what a selection from a
sequence is, which is what `Filesystem` reports.

Only model-checked:

* because they are liveness under fairness: `SlotsRecover`,
  `HealthyScrapeAnswered`, `HungCallMarks`, `HealthyWalkEnds`, `StuckRecovers`,
  `Settles`, `UpdatesReturn`, `ScrapesEnd`;
* `SeriesAreUnique`, which beside its exceptions holds because the names that the kernel, the drivers
  and the libraries give are different wherever a collector uses them for labels.
  A theorem would have this for each of the collectors as an assumption, which is
  most of what it says; and many names of metrics are put together from parts
  (`netdev`, `rapl`, `hwmon`, `meminfo_numa`), while to the provers a string is
  a value without characters, so that they cannot tell two such names apart.

## 6. What is not modelled

Formatting, logging, TLS, the landing page and the values of readings. How `os`
parses, how `top` and the libraries for `/proc` and `/sys` do: an environment
has what they return, or their failure. A constructor that can fail because of
its flags or of a file it reads is in the model (`unbuilt`); that `/proc` or
`/sys` cannot be opened at all is left out. Of `gpu`, the driver version, which `init` reads once when the
process starts and never again. Of `pids`, whether a process number has been
given to another process between two reads: the code has no way to tell.

The collectors of other systems than Linux are not modelled: they are not in the
binary this exporter is deployed as, and most are one call without state. The
bindings of NVML are a copy of another project's; `GPU` has the calls the
collector makes of them as external steps, with their failures.

## 7. What could come next

1. `GPUDriverVersion` as a variable of `GPU`, read while another process holds
   the library.
2. `SeriesAreUnique` as a theorem for the collectors whose names come from
   directory entries or from the keys of a map, which differ by themselves.

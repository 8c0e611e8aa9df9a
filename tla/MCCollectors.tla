----------------------------- MODULE MCCollectors -----------------------------
(***************************************************************************)
(* The environments of Collectors for its runs: for each collector, every  *)
(* way its reads may end with up to two of whatever it lists.              *)
(***************************************************************************)
EXTENDS Collectors

UpTo2(S) == {<<>>} \cup {<<a>> : a \in S} \cup {<<a, b>> : a, b \in S}
UpTo1(S) == {<<>>} \cup {<<a>> : a \in S}
Pairs(S, T) == {<<a, b>> : a \in S, b \in T}

-----------------------------------------------------------------------------
XFSEnvs == [stats : {"ok", "error"}, items : {<<>>, <<[name |-> "sda"]>>, <<[name |-> "sda"], [name |-> "sdb"]>>}]

BcacheEnvs ==
    LET bdevs == {[name |-> "bdev0", readaheads |-> r] : r \in {0, 1}}
        sets(u) == {[name |-> u, bdevs |-> {b}, caches |-> c] : b \in bdevs, c \in {{}, {"cache0"}}}
    IN  [stats : {"ok", "error"}, priorityStats : BOOLEAN,
         items : Pairs(sets("u1"), sets("u2"))]

BtrfsEnvs ==
    LET fs(u, d) == [uuid |-> u, label |-> "", layouts |-> {"single", "raid1"}, devices |-> d]
        mount(u, d, open, info, ids) ==
            [fsType |-> "btrfs", device |-> d, uuid |-> u, open |-> open, info |-> info, ids |-> ids,
             numDevices |-> 2]
        devs == {[n \in 0..3 |-> IF n = 0 THEN "nodev" ELSE IF n = 1 THEN "ok" ELSE o[n]] :
                   o \in [2..3 -> {"ok", "error", "nodev"}]}
        tries == {mount("u1", d, open, info, ids) :
                    d \in {"sda", "sdb"}, open \in {"ok", "error"}, info \in {"ok", "error"}, ids \in devs}
        bad(m) == m.open # "ok" \/ m.info # "ok"
        reps == {m \in tries : bad(m) => m.ids = [n \in 0..3 |-> IF n \in 1..2 THEN "ok" ELSE "nodev"]}
    IN  [stats : {"ok"}, mountPoints : {"ok", "error"},
         mounts : Pairs(reps, reps),
         items : {<<fs("u1", {"sda", "sdb"}), fs("u2", {"sdc"})>>}]

ZFSEnvs ==
    LET header == [kind |-> "header"]
        value(n, t, p) == [kind |-> "value", name |-> n, type |-> t, parses |-> p]
        file(s, o, ls) == [subsystem |-> s, open |-> o, lines |-> ls]
        files == {<<file("zfs_arc", o, ls), file("zfs_abd", "ok", <<header, value("size", "uint64", TRUE)>>)>> :
                    o \in {"ok", "error"},
                    ls \in {<<>>, <<value("hits", "uint64", TRUE)>>,
                            <<[kind |-> "short"], header, value("hits", "int64", FALSE)>>,
                            <<header, value("hits", "string", FALSE), value("size", "uint64", TRUE)>>}}
        io(o) == [open |-> o, fields |-> <<"nread", "nwritten">>, rows |-> <<<<"num", "num">>>>]
        cut == [io("ok") EXCEPT !.rows = <<<<"num">>>>]
        objset(o, d) == [open |-> o, lines |-> <<header, [kind |-> "dataset", name |-> d],
                                                 value("reads", "uint64", TRUE)>>]
        pool(n, a, b, c) ==
            [name |-> n, io |-> io(a), objsets |-> <<objset(b, n \o "/d1"), objset("ok", n \o "/d2")>>,
             state |-> [open |-> c, name |-> "online"]]
        pools(n) == {pool(n, a, b, c) : a, b, c \in {"ok", "notexist"}}
        short == [pool("dozer", "ok", "ok", "ok") EXCEPT !.io = cut]
    IN  [base : {"ok", "notexist"}, files : files, items : Pairs(pools("tank"), pools("dozer") \cup {short})]

DRBDEnvs ==
    LET device(n) == [key |-> "device", id |-> n]
        cs == [key |-> "cs"]
        ro == [key |-> "ro", values |-> <<"Primary", "Secondary">>]
        half == [key |-> "ro", values |-> <<"Primary">>]
        num(k, p) == [key |-> k, parses |-> p]
        other == [key |-> "version"]
        one(n, p) == {<<device(n), cs, ro, num("ns", p)>>, <<device(n), cs>>, <<device(n), ro, other, num("oos", p)>>}
    IN  [file : Outcomes,
         words : {<<other>> \o a \o b : a \in one("drbd0", TRUE),
                                        b \in one("drbd1", TRUE) \cup one("drbd1", FALSE) \cup {<<device("drbd1"), half>>}}]

MdadmEnvs ==
    LET array(n) == {[name |-> n, activity |-> a] :
                       a \in {"active", "inactive", "recovering", "resyncing", "checking"}}
    IN  [mdstat : Outcomes, items : Pairs(array("md0"), array("md1"))]

-----------------------------------------------------------------------------
Patterns == {NoPattern, Pattern({"eth0"}), Pattern({"eth1"})}

NetDevEnvs ==
    LET addrs == {[ip |-> "a1", size |-> 24, kind |-> "global_unicast", parses |-> TRUE],
                  [ip |-> "a2", size |-> 8, kind |-> "loopback", parses |-> FALSE]}
        device(n, o) == [name |-> n, addrs |-> o, addresses |-> addrs, stats64 |-> TRUE]
        flags == [include : Patterns, oldInclude : {NoPattern, Pattern({"eth0"})},
                  exclude : Patterns, oldExclude : {NoPattern, Pattern({"eth1"})}]
        envOf(fl, st, nl, de, ad, ifs, it) ==
            [flags |-> fl, stats |-> st, netlink |-> nl, detailed |-> de, addressInfo |-> ad,
             interfaces |-> ifs, items |-> it]
        bare(n) == [device(n, "ok") EXCEPT !.stats64 = FALSE]
        items == {<<device("eth0", o), device("eth1", "ok")>> : o \in {"ok", "error"}}
        plain == CHOOSE f \in flags : ~f.include.set /\ ~f.oldInclude.set /\ ~f.exclude.set /\ ~f.oldExclude.set
    IN  {envOf(f, "ok", TRUE, FALSE, ad, "ok", <<device("eth0", "ok"), device("eth1", "ok")>>) :
            f \in flags, ad \in BOOLEAN}
        \cup {envOf(f, "ok", nl, FALSE, TRUE, "ok", <<device("eth0", "ok"), bare("eth1")>>) : f \in flags, nl \in BOOLEAN}
        \cup {envOf(plain, st, nl, de, ad, ifs, it) :
                st \in {"ok", "error"}, nl, de, ad \in BOOLEAN, ifs \in {"ok", "error"}, it \in items}

NetClassEnvs ==
    LET speeds == {[given |-> FALSE, value |-> 0]} \cup {[given |-> TRUE, value |-> v] : v \in {-1, 0, 10}}
        devices(n) == {[name |-> n, ignored |-> g, read |-> r, operstate |-> "up", speed |-> s,
                        flags |-> [given |-> TRUE, up |-> TRUE], missing |-> m, stats64 |-> TRUE] :
                         g \in BOOLEAN, r \in {"ok", "notexist", "error"}, s \in speeds, m \in {{}, {"carrier"}}}
        simple(n) == {d \in devices(n) : d.speed.value = -1 /\ d.missing = {}}
    IN  [netlink : BOOLEAN, ignoreInvalidSpeed : BOOLEAN, withStats : BOOLEAN,
         linkModes : {"ok", "notexist", "error"}, devices : {"ok", "notexist"},
         items : Pairs(devices("eth0"), simple("eth1"))]

QdiscEnvs ==
    LET q(n) == {[name |-> n, kind |-> "fq", parent |-> p] : p \in {0, 1}}
    IN  [flags : [include : Patterns, exclude : Patterns], disciplines : {"ok", "error"},
         items : Pairs(q("eth0"), q("eth1"))]

-----------------------------------------------------------------------------
(* The other collectors of storage.                                        *)

DiskstatsEnvs ==
    LET plain == [scsiSerial |-> "", serialShort |-> "s1", fsType |-> "ext4", dmName |-> "", ata |-> "1"]
        mapped == [plain EXCEPT !.scsiSerial = "s2", !.fsType = "", !.dmName = "vg"]
        disk(n, c, u, ps) == [name |-> n, ioStatsCount |-> c, udev |-> u, properties |-> ps,
                              ataNumbers |-> {"ata_write_cache"}]
        disks == {<<disk("sda", c, u, plain), disk("sdb", 14, "ok", mapped)>> :
                    c \in {14, 18, 20}, u \in {"ok", "error"}}
        flags == [oldExclude : {NoPattern, Pattern({"sda"})}, excludeGiven : BOOLEAN,
                  exclude : {NoPattern, Pattern({"sdb"})}, default : {Pattern({"ram0"})},
                  include : {NoPattern, Pattern({"sda"})}]
        row(d, cs) == [device |-> d, columns |-> cs]
        full == <<"num", "num", "num">>
        rows == {<<>>, <<row("/dev/sda", full), row("/dev/sda", <<"num">>), row("tmpfs", full)>>,
                 <<row("/dev/sda", <<"num", "-", "num">>), row("/dev/sdb", full)>>}
        envOf(fl, st, df, it, rs, o) ==
            [flags |-> fl, diskstats |-> st, df |-> df, items |-> it, rows |-> rs, order |-> o,
             ignoredDevices |-> {"tmpfs"}]
        order == <<"/dev/sda", "/dev/sdb", "tmpfs">>
        noFlags == CHOOSE f \in flags : ~f.oldExclude.set /\ ~f.excludeGiven /\ ~f.include.set
    IN  {envOf(f, "ok", "ok", CHOOSE d \in disks : TRUE, <<>>, order) : f \in flags}
          \cup {envOf(noFlags, st, df, it, rs, o) :
                  st \in {"ok", "error"}, df \in {"ok", "error"}, it \in disks, rs \in rows,
                  o \in {order, <<"tmpfs", "/dev/sdb", "/dev/sda">>}}

NFSEnvs ==
    [stats : Outcomes,
     procedures : {<<[version |-> "2", methods |-> {"Null", "GetAttr"}], [version |-> "3", methods |-> {"GetAttr"}]>>}]

NFSdEnvs == [stats : Outcomes]

MountStatsEnvs ==
    LET mount(nfs, d, p, m) == [nfs |-> nfs, device |-> d, protocol |-> p, mount |-> m, operations |-> {"READ"}]
        first == {mount(TRUE, "srv:/a", p, "m1") : p \in {"tcp", "udp"}}
        second == {mount(nfs, d, "tcp", "m2") : nfs \in BOOLEAN, d \in {"srv:/a", "srv:/b"}}
        addrs == [addr : {"10.0.0.1", "10.0.0.2"}]
    IN  {[self |-> s, mountStats |-> r1, mountInfo |-> r2, mounts |-> ms, mountsInfo |-> is] :
           s \in {"ok", "error"}, r1, r2 \in {"ok", "error"}, ms \in Pairs(first, second),
           is \in Pairs(addrs, addrs)}

TapestatsEnvs ==
    LET tape(n) == [name : {n}, ignored : BOOLEAN] IN [tapes : Outcomes, items : Pairs(tape("st0"), tape("st1"))]

NVMeEnvs == [class : Outcomes, items : UpTo1([name : {"nvme0"}, state : {"live", "dead"}])]

FileFDEnvs ==
    [read : {"ok", "error"}, parse : UNION {[1..n -> BOOLEAN] : n \in 2..3},
     order : {<<"allocated", "maximum">>, <<"maximum", "allocated">>}]

-----------------------------------------------------------------------------
(* The other collectors of networks.                                       *)

EthtoolEnvs ==
    LET stat(r, f) == [raw |-> r, fq |-> f]
        stats == {{}, {stat("rx_bytes", "received_bytes")},
                  {stat("rx_bytes", "received_bytes"), stat("received_bytes_total", "received_bytes_total")},
                  {stat("a.b", "a_b"), stat("a-b", "a_b"), stat("a b", "a_b"), stat("c", "c")}}
        device(n, l, d, st) == [name |-> n, linkInfo |-> l, supported |-> {"b0", "b5", "b7", "b40"},
                                advertising |-> {"b5"}, driverInfo |-> d, driver |-> "e1000", stats |-> st]
    IN  {[netClass |-> nc, flags |-> [include |-> inc, exclude |-> exc], metrics |-> me, items |-> it] :
           nc \in Outcomes, inc, exc \in Patterns, me \in {NoPattern, Pattern({"c", "rx_bytes"})},
           it \in {<<>>} \cup {<<device("eth0", l, d, st), device("eth1", TRUE, TRUE, {stat("c", "c")})>> :
                               l, d \in BOOLEAN, st \in stats}}

IPVSEnvs ==
    LET backend(a, p) == [local_address |-> a, local_port |-> p, remote_address |-> "r", remote_port |-> 1,
                          proto |-> "tcp", local_mark |-> 0]
        backends == {backend(a, p) : a \in {"a1", "a2"}, p \in {80, 443}}
    IN  [chosen : {{}, {"local_address"}, {"local_port", "local_address"}, {"local_host"}},
         stats : Outcomes, backendStatus : {"ok", "error"}, backends : UpTo2(backends)]

TCPStatEnvs ==
    LET sockets(ids) == {{[id |-> x, state |-> f[x]] : x \in S} :
                           S \in SUBSET ids, f \in [ids -> {"established", "listen"}]}
    IN  [dump : {"ok", "error"}, hasTCP6 : BOOLEAN, dump6 : {"ok", "error"},
         tcp : sockets({1, 2}), tcp6 : sockets({3})]

NetStatEnvs ==
    LET protocol(v, n) == <<[names |-> 2, values |-> v, named |-> n]>>
        file == [open : {"ok", "error"}, protocols : {protocol(2, TRUE), protocol(1, TRUE), protocol(1, FALSE)}]
        field(f, n, p) == [from |-> f, name |-> n, parses |-> p]
    IN  [netstat : file, snmp : file, snmp6 : [open : {"ok", "notexist", "error"}], listens : {"ok", "error"},
         fields : {<<field("snmp", "Tcp_ActiveOpens", TRUE), field("snmp6", "Ip6_InOctets", p)>> : p \in BOOLEAN},
         pattern : {{}, {"Tcp_ActiveOpens", "Ip6_InOctets"}}]

SockstatEnvs ==
    LET family(ps) == [read : {"ok", "notexist", "error"}, used : BOOLEAN, protocols : ps]
        protocol(n, vs) == [name |-> n, values |-> vs]
    IN  [v4 : family({{protocol("TCP", {"tw", "mem"}), protocol("UDP", {})}}),
         v6 : family({{protocol("TCP6", {})}})]

ConntrackEnvs == [count : Outcomes, max : Outcomes, stats : Outcomes]

NetworkRouteEnvs ==
    LET hop(i) == [ifIndex |-> i, gateway |-> "gw", weight |-> "1"]
        route(u, m, o, d) == [unicast |-> u, multipath |-> m, outIface |-> o, gateway |-> "", src |-> "",
                              dst |-> d, priority |-> 0, protocol |-> "kernel"]
        first == {route(u, m, o, "d1") : u \in BOOLEAN, m \in {<<>>, <<hop(1), hop(2)>>, <<hop(2), hop(3)>>}, o \in {1, 2}}
    IN  [linkList : {"ok", "error"}, routeList : {"ok", "error"}, links : {<<"eth0">>, <<"eth0", "eth1">>},
         routes : Pairs(first, first \cup {[r EXCEPT !.dst = "d2", !.protocol = "17"] : r \in first})]

WifiEnvs ==
    LET ifi(n, b, s) == [name |-> n, bssRead |-> b, bss |-> [bssid |-> "b", status |-> "associated"],
                         stationRead |-> s, stations |-> {"st1", "st2"}]
        reads == {"ok", "notexist", "error"}
    IN  [stater : Outcomes, interfaces : {"ok", "error"},
         items : Pairs({ifi(n, b, s) : n \in {"", "wlan0"}, b, s \in reads}, {ifi("wlan1", "ok", "notexist")})]

SoftnetEnvs == [stats : {"ok", "error"}, items : {<<[cpu |-> 0], [cpu |-> 1]>>}]

ARPEnvs ==
    [arp : {"ok", "error"}, entries : UpTo2([device : {"eth0", "eth1"}]), flags : [include : Patterns, exclude : Patterns]]

UDPQueuesEnvs == [v4 : {"ok", "notexist", "error"}, v6 : {"ok", "notexist", "error"}]

LnstatEnvs ==
    [netstat : {"ok", "error"},
     items : {<<[file |-> f, headers |-> {"entries", "found"}, cpus |-> {"0", "1"}], [file |-> "ndisc", headers |-> {"entries"}, cpus |-> {"0"}]>> : f \in {"arp", "nf"}}]

BondingEnvs ==
    LET slave == [lower : {"ok", "notexist"}, prefixed : {"ok", "notexist", "error"}]
        master(n, r, ss) == [name |-> n, slavesRead |-> r, slaves |-> ss]
    IN  [masters : Outcomes,
         items : Pairs({master("bond0", r, ss) : r \in {"ok", "notexist", "error"}, ss \in UpTo2(slave)},
                       {master("bond1", "ok", <<s>>) : s \in slave})]

NTPEnvs ==
    [flags : [serverIsLocal : BOOLEAN, loopback : BOOLEAN, protocolVersion : {1, 4, 5}, offsetTolerance : {-1, 0, 1},
              serverPort : {0, 123}],
     reply : {"ok", "error"}, validates : BOOLEAN, near : {TRUE}, minError : {1, 2}, smearing : BOOLEAN]
-----------------------------------------------------------------------------
(* The collectors of hardware.                                             *)

HwmonEnvs ==
    LET file(sensor, type, x, r) ==
            [sensor |-> sensor, type |-> type, element |-> x, read |-> r, parses |-> x \notin {"label", "min"}]
        temp == {file("temp1", "temp", x, TRUE) : x \in {"input", "label", "alarm", "beep", "type"}}
        files == {{}, temp, {file("in0", "in", x, TRUE) : x \in {"", "input", "min"}} \cup temp,
                  {file("power1", "power", "accuracy", FALSE), file("vrm", "vrm", "", TRUE)}}
        chip(st, rd, c, fs) ==
            [lstat |-> "ok", symlink |-> TRUE, stat |-> st, isDir |-> TRUE, readDir |-> rd, clean |-> c, files |-> fs]
        clean(d, n, x) == [device |-> d, name |-> n, dir |-> x]
        first == {chip(st, rd, clean(d, n, "hwmon0"), fs) :
                    st, rd \in {"ok", "error"}, d \in {"", "pci0"}, n \in {"", "coretemp"}, fs \in files}
        second == {chip("ok", rd, clean("pci1", "coretemp", "hwmon1"), fs) : rd \in {"ok", "error"}, fs \in files}
        others == [lstat : {"ok", "error"}, symlink : BOOLEAN, stat : {"ok", "error"}, isDir : BOOLEAN,
                   readDir : {"ok", "error"}, clean : {clean(d, "coretemp", "hwmon1") : d \in {"pci0", "pci1"}}, files : {temp}]
    IN  [dir : Outcomes, items : UpTo1(first) \cup Pairs(first, second \cup others)]

PerfEnvs ==
    LET cpu(n, fs, ms) == [cpu |-> n, fails |-> fs, missing |-> ms]
        cpus == {<<cpu(0, fs, ms), cpu(1, {}, {})>> :
                   fs \in {{}, {"cache"}, {"tracepoint"}}, ms \in {{}, {"cache_refs_total", "page_faults_total"}}}
    IN  [tracepoints : {<<>>, <<"sched_switch">>, <<"sched_switch", "sched_switch">>},
         start : [hardware : BOOLEAN, software : BOOLEAN, cache : {TRUE}, tracepoint : BOOLEAN],
         kinds : SUBSET {"hardware", "software", "cache"},
         cacheProfilers : {{}, {"cache_ll_read_hits_total"}}, items : cpus]

PowerSupplyClassEnvs ==
    LET supply(n) == [name : {n}, ignored : BOOLEAN, values : {{}, {"online", "capacity"}}, texts : {{"type"}}]
    IN  [read : Outcomes, items : Pairs(supply("AC"), supply("BAT0"))]

DMIEnvs == [class : Outcomes, texts : {{}, {"bios_date", "product_name"}}]

EdacEnvs ==
    LET row(n) == [name : {n}, ce : {"ok", "error"}, ue : {"ok"}]
        controllers(n, rs) == [name : {n}, ce : {"ok", "error"}, ceNoinfo : {"ok"}, ue : {"ok", "error"},
                               ueNoinfo : {"ok", "error"}, rows : rs]
    IN  [items : Pairs(controllers("0", Pairs(row("0"), row("1"))), controllers("1", {<<>>}))]

RaplEnvs ==
    LET zone(i, p, n) == [index : {i}, path : {p}, name : {n}, read : {"ok", "permission", "error"}]
    IN  [zones : Outcomes, zoneLabel : BOOLEAN, items : Pairs(zone(0, "p0", "package"), zone(1, "p1", "package"))]

DrmEnvs == [cards : {"ok", "error"}, items : {<<[name |-> "card0", vendor |-> "amd"], [name |-> "card1", vendor |-> "amd"]>>}]

ThermalZoneEnvs ==
    [zones : Outcomes \cup {"invalid"}, cooling : Outcomes, devices : {{}, {"0", "1"}},
     items : {<<[name |-> "0", type |-> "acpitz"], [name |-> "1", type |-> "acpitz"]>>}]

CPUFreqEnvs ==
    LET cpu(n) == [name : {n}, given : {{}, {"frequency_hertz"}, CPUFreqFamilies}, governor : {"", "powersave"},
                   governors : {{"powersave", "performance"}}]
    IN  [freqs : {"ok", "error"}, items : Pairs(cpu("0"), cpu("1"))]

FibreChannelEnvs ==
    LET host(n) == [name : {n}, missing : {{}, {"nos_total"}}]
    IN  [class : Outcomes, items : Pairs(host("host0"), host("host1"))]

InfiniBandEnvs ==
    LET port(n) == [port |-> n, missing |-> {"link_downed_total"}]
        device(n) == [name : {n}, ports : {{}, {port("1"), port("2")}}]
    IN  [class : Outcomes, items : Pairs(device("mlx0"), device("mlx1"))]

-----------------------------------------------------------------------------
(* The collectors of the kernel's tables.                                  *)

ZoneinfoEnvs ==
    LET zone(z) == [node : {"0"}, zone : {z}, missing : {{}, {"numa_hit_total"}}, protections : {0, 2}]
    IN  [zoneinfo : Outcomes, items : Pairs(zone("DMA"), zone("Normal"))]

BuddyinfoEnvs ==
    LET zone(z) == [node : {"0"}, zone : {z}, sizes : {0, 11}]
    IN  [buddyinfo : Outcomes, items : Pairs(zone("DMA"), zone("Normal"))]

SlabinfoEnvs == [slabinfo : Outcomes, items : Pairs([name : {"dentry"}], [name : {"inode"}])]
CgroupsEnvs == [cgroups : Outcomes, items : Pairs([name : {"cpu"}], [name : {"memory"}])]
SchedstatEnvs == [schedstat : Outcomes, items : Pairs([name : {"0"}], [name : {"1"}])]

MeminfoEnvs ==
    LET line(ns) == [name : ns, columns : 0..4, parses : BOOLEAN]
    IN  [open : Outcomes, lines : Pairs(line({"MemFree"}), line({"MemFree", "Pages"}))]

MeminfoNumaEnvs ==
    LET line(ns, cs) == [name : ns, columns : cs, parses : BOOLEAN, kB : BOOLEAN]
        lines == UpTo1(line({"MemFree"}, {0, 3, 4, 5, 6}))
                   \cup {<<[name |-> "MemFree", columns |-> 5, parses |-> TRUE, kB |-> TRUE], l>> : l \in line({"Pages"}, {0, 3, 4})}
        node(n) == [name : {n}, meminfo : {"ok", "error"}, numastat : {"ok", "error"}, lines : lines,
                    stats : {{"numa_hit", "numa_miss"}}]
    IN  [items : Pairs(node("0"), node("1"))]

VmStatEnvs ==
    LET line(n) == [name : {n}, columns : 0..2, parses : BOOLEAN]
    IN  [open : Outcomes, fields : {{"pgfault"}}, lines : Pairs(line("pgfault"), line("pswpin"))]

SysctlEnvs ==
    LET sysctl(n, ks) == [name |-> n, fq |-> "fs_file_nr", keys |-> ks]
        sysctls == {sysctl("fs.file-nr", ks) : ks \in {<<>>, <<"allocated", "free">>, <<"free", "free">>}}
                     \cup {sysctl("fs.file_nr", <<>>)}
        read == [how : {"ok", "error"}, values : {<<>>, <<"1">>, <<"1", "2">>}]
    IN  {[flags |-> [include |-> a, includeInfo |-> b], read |-> [n \in {"fs.file-nr", "fs.file_nr"} |-> r]] :
           a \in UpTo2(sysctls), b \in UpTo2({sysctl("fs.file-nr", <<>>), sysctl("fs.file_nr", <<>>)}), r \in read}

ProcessesEnvs ==
    LET outcomes == {"ok", "gone", "error"}
        thread(l, o, st) == [leads |-> l, stat |-> o, state |-> st]
        threads == {<<>>} \cup {<<thread(TRUE, "ok", "S"), thread(FALSE, o, st)>> : o \in outcomes, st \in {"S", "R"}}
        process(o, k, ts) == [stat |-> o, state |-> "S", task |-> k, threads |-> ts]
        first == {process(o, k, ts) : o, k \in outcomes, ts \in threads}
        second == {[process("ok", "ok", <<thread(TRUE, "ok", st)>>) EXCEPT !.state = st] : st \in {"R", "S"}}
    IN  [list : {"ok", "error"}, procs : UpTo1(first) \cup Pairs(first, second), threadsMax : {"ok", "error"},
         pidMax : {"ok", "error"}, states : {{"S", "R"}}]

StatEnvs == [stat : Outcomes, softirq : BOOLEAN]

InterruptsEnvs ==
    LET line(n, c, b) == [name : {n}, info : {"timer"}, columns : c, bad : b]
    IN  [open : Outcomes, header : BOOLEAN, cpus : {2}, lines : Pairs(line("0", {2, 3, 5}, {0, 2}), line("1", {3}, {0, 1})),
         order : {<<1, 2>>, <<2, 1>>}]

SoftirqsEnvs == [softirqs : Outcomes, cpus : {1, 2}]

PressureEnvs ==
    LET resources == {"cpu", "io", "memory"}
    IN  [psi : [resources -> {"ok", "notexist", "notsup", "error"}], lines : [resources -> SUBSET {"some", "full"}]]

KSMDEnvs == [unread : {"none"} \cup {KSMDFiles[n] : n \in DOMAIN KSMDFiles}]
TimexEnvs == [adjtimex : Outcomes, status : {"TIME_OK", "TIME_ERROR"}]

TimeEnvs ==
    [zone : {"UTC"}, clocksources : Outcomes,
     items : UpTo1([index : {"0"}, available : {{"tsc"}, {"tsc", "hpet"}}, current : {"tsc"}])]

SELinuxEnvs == [enabled : BOOLEAN]
EntropyEnvs == [random : Outcomes, given : SUBSET {"available_bits", "pool_size_bits"}]
UnameEnvs == [uname : {"ok", "error"}]
LoadavgEnvs == [read : Outcomes, parse : UNION {[1..n -> BOOLEAN] : n \in 0..3}]

-----------------------------------------------------------------------------
(* The collectors of services.                                             *)

LogindEnvs ==
    LET session == [seat : {"", "seat0"}, remote : {"true"}, type : {"tty", "unheard-of"}, class : {"user", "manager"},
                    read : BOOLEAN]
    IN  [dbus : {"ok", "error"}, listSeats : {"ok", "error"}, listSessions : {"ok", "error"}, seats : {{"seat0"}},
         sessions : UpTo1(session) \cup Pairs(session, {s \in session : s.seat = "seat0" /\ s.type = "tty" /\ s.read})]

SupervisordEnvs ==
    LET process(n, s) ==
            [name : {n}, group : {"g"}, state : {0, 10, 20, 40, 100}, exitstatus : {0, 1}, start : {1, 2}, shaped : s]
    IN  [call : {"ok", "error"}, array : BOOLEAN,
         items : UpTo1(process("a", BOOLEAN)) \cup Pairs(process("a", {TRUE}), process("b", {TRUE, FALSE}))]

RunitEnvs ==
    LET service(n) == [name : {n}, status : {"ok", "error"}, normallyUp : BOOLEAN]
    IN  [services : {"ok", "error"}, items : Pairs(service("a"), service("b"))]

TextfileEnvs ==
    LET family == [name |-> "m", reserved |-> FALSE, metrics |-> <<[host |-> "x"], [disk |-> "y"]>>]
        file(d, n, p, o, c, t, st, v, fs) ==
            [dir |-> d, name |-> n, prom |-> p, open |-> o, parses |-> c, stamped |-> t, stat |-> st,
             version |-> 1, newest |-> v, families |-> fs]
        first == {file(1, "a.prom", p, o, c, t, st, v, <<family>>) : p, o, c, t, st \in BOOLEAN, v \in {1, 2}}
        second == {file(2, "b.prom", TRUE, TRUE, c, FALSE, TRUE, v, fs) :
                     c \in BOOLEAN, v \in {1, 2},
                     fs \in {<<>>, <<[family EXCEPT !.name = "n"]>>, <<[family EXCEPT !.reserved = TRUE]>>, <<family>>,
                           <<[family EXCEPT !.metrics = <<[host |-> "x", disk |-> ""]>>]>>}}
        dir(r, b) == [read |-> r, blank |-> b]
        read1(d, f) == d[f.dir].read
    IN  {[dirs |-> <<dir(FALSE, b)>>, items |-> <<>>] : b \in BOOLEAN}
          \cup {[dirs |-> <<dir(TRUE, FALSE), dir(r, FALSE)>>, items |-> <<f>>] : r \in BOOLEAN, f \in first}
          \cup {[dirs |-> <<dir(TRUE, FALSE), dir(TRUE, FALSE)>>, items |-> fs] : fs \in Pairs(first, second)}

(* Two units, the second of which answers everything.                      *)
SystemdEnvs ==
    LET flags(i, o, r) ==
            [include |-> i, includeGiven |-> FALSE, oldInclude |-> o, exclude |-> Pattern({}), excludeGiven |-> FALSE,
             oldExclude |-> NoPattern, startTime |-> r, tasks |-> r, restarts |-> r]
        unit(n, k, ac, ld, as) ==
            [name |-> n, kind |-> k, type |-> "simple", active |-> ac, loaded |-> ld, unlimited |-> FALSE, answers |-> as]
        every == {"Type", "NRestarts", "NAccepted", "NConnections", "NRefused", "ActiveEnterTimestamp",
                  "TasksCurrent", "TasksMax", "LastTriggerUSec"}
        first == {unit("u1", "service", "reloading", TRUE, every), unit("u1", "socket", "failed", TRUE, {"NAccepted"})}
        second == {unit("u2", "socket", "active", TRUE, every), unit("u2", "timer", "inactive", FALSE, every)}
        both == Pattern({"u1", "u2"})
    IN  {[flags |-> flags(both, NoPattern, r), connect |-> "ok", version |-> v, listUnits |-> "ok",
          state |-> st, units |-> us] :
           r \in BOOLEAN, v \in {0, 230}, st \in {"ok", "error"}, us \in Pairs(first, second)}
        \cup {[flags |-> [flags(Pattern({"u1"}), o, TRUE) EXCEPT !.includeGiven = g], connect |-> c, version |-> 230,
               listUnits |-> l, state |-> "ok", units |-> <<unit("u2", "timer", "active", TRUE, every)>>] :
                o \in {NoPattern, Pattern({"u2"})}, g \in BOOLEAN, c, l \in {"ok", "error"}}

(* Two processes with a port each, and one that shares a port.             *)
PidsEnvs ==
    LET process(p, l, ps, o) ==
            [pid |-> p, cmd |-> "c", words |-> 12, ls |-> l, ports |-> ps, status |-> o, fd |-> o = "ok", io |-> o]
        alone == process(1, FALSE, {80}, "ok")
        card(u, p, o) == [up |-> u, physical |-> p, opens |-> o]
        nics == {<<card(TRUE, TRUE, TRUE)>>, <<card(TRUE, TRUE, TRUE), card(TRUE, FALSE, TRUE), card(TRUE, TRUE, FALSE)>>}
        listed == {<<>>, <<alone>>, <<[alone EXCEPT !.words = 8]>>, <<[alone EXCEPT !.io = "short"]>>,
                   <<alone, process(2, FALSE, {80}, "short")>>}
        users == <<process(1, TRUE, {80}, "ok"), process(2, TRUE, {80}, "ok"), process(3, TRUE, {90}, "error")>>
    IN  [top : {"ok", "error"}, nics : nics, procs : {users}, order : {<<3, 1, 2>>}]
          \cup UNION {[top : {"ok", "error"}, nics : nics, procs : {ps},
                       order : {[k \in DOMAIN ps |-> k], [k \in DOMAIN ps |-> Len(ps) + 1 - k]}] : ps \in listed}

(* An explicitly empty flag is a pattern that matches everything.          *)
FilesystemEnvs ==
    LET exclude(names, default) ==
            [oldExclude : {NoPattern, Pattern({})}, excludeGiven : BOOLEAN,
             exclude : {Pattern({names[1]}), Pattern({names[1], names[2]})}, default : {Pattern({default})}]
        mount(d, p, t, o) == {[device |-> d, mountPoint |-> p, fsType |-> t, options |-> "rw", statfs |-> s] : s \in o}
        again == {[m EXCEPT !.options = "ro"] : m \in mount("sda", "/", "ext4", {"ok"})}
    IN  [flags : [points : exclude(<<"/", "/nfs">>, "/nfs"), types : exclude(<<"ext4", "nfs">>, "proc")],
         mounts : {"ok", "error"},
         items : Pairs(mount("sda", "/", "ext4", {"ok"}),
                       mount("srv", "/nfs", "nfs", {"ok", "error"}) \cup mount("sda", "/", "ext4", {"ok", "error"}) \cup again)]

(* Two threads of a core, or two cores.                                    *)
CPUEnvs ==
    LET cpu(c, t, ts) == [package |-> 0, core |-> c, topology |-> t, throttles |-> ts,
                          flags |-> {"fpu", "sse"}, bugs |-> {"mds"}, isolated |-> c = 1]
    IN  [flags : [info : BOOLEAN, guest : BOOLEAN, valid : BOOLEAN, bugsInclude : {NoPattern},
                  flagsInclude : {NoPattern, Pattern({"fpu"})}],
         isolated : {"ok", "notexist", "error"}, cpuinfo : {"ok", "error"}, stat : {"ok", "error"},
         cpus : {<<>>} \cup {<<cpu(0, t, ts), cpu(c, TRUE, {"core", "package"})>> :
                               t \in BOOLEAN, ts \in {{}, {"core"}, {"core", "package"}}, c \in {0, 1}}]

-----------------------------------------------------------------------------
MCEnvironments ==
    [xfs |-> XFSEnvs, bcache |-> BcacheEnvs, btrfs |-> BtrfsEnvs, zfs |-> ZFSEnvs,
     drbd |-> DRBDEnvs, mdadm |-> MdadmEnvs, diskstats |-> DiskstatsEnvs, nfs |-> NFSEnvs,
     nfsd |-> NFSdEnvs, mountstats |-> MountStatsEnvs, tapestats |-> TapestatsEnvs,
     nvme |-> NVMeEnvs, filefd |-> FileFDEnvs, filesystem |-> FilesystemEnvs, cpu |-> CPUEnvs, netdev |-> NetDevEnvs,
     netclass |-> NetClassEnvs, qdisc |-> QdiscEnvs, ethtool |-> EthtoolEnvs,
     ipvs |-> IPVSEnvs, tcpstat |-> TCPStatEnvs, netstat |-> NetStatEnvs,
     sockstat |-> SockstatEnvs, conntrack |-> ConntrackEnvs,
     network_route |-> NetworkRouteEnvs, wifi |-> WifiEnvs, softnet |-> SoftnetEnvs,
     arp |-> ARPEnvs, udp_queues |-> UDPQueuesEnvs, lnstat |-> LnstatEnvs,
     bonding |-> BondingEnvs, ntp |-> NTPEnvs, hwmon |-> HwmonEnvs, perf |-> PerfEnvs,
     powersupplyclass |-> PowerSupplyClassEnvs, dmi |-> DMIEnvs, edac |-> EdacEnvs,
     rapl |-> RaplEnvs, drm |-> DrmEnvs, thermal_zone |-> ThermalZoneEnvs,
     cpufreq |-> CPUFreqEnvs, fibrechannel |-> FibreChannelEnvs,
     infiniband |-> InfiniBandEnvs, zoneinfo |-> ZoneinfoEnvs, buddyinfo |-> BuddyinfoEnvs,
     slabinfo |-> SlabinfoEnvs, cgroups |-> CgroupsEnvs, schedstat |-> SchedstatEnvs,
     meminfo |-> MeminfoEnvs, meminfo_numa |-> MeminfoNumaEnvs, vmstat |-> VmStatEnvs,
     sysctl |-> SysctlEnvs, processes |-> ProcessesEnvs, stat |-> StatEnvs,
     interrupts |-> InterruptsEnvs, softirqs |-> SoftirqsEnvs, pressure |-> PressureEnvs,
     ksmd |-> KSMDEnvs, timex |-> TimexEnvs, time |-> TimeEnvs, selinux |-> SELinuxEnvs,
     entropy |-> EntropyEnvs, uname |-> UnameEnvs, loadavg |-> LoadavgEnvs,
     logind |-> LogindEnvs, supervisord |-> SupervisordEnvs, runit |-> RunitEnvs,
     textfile |-> TextfileEnvs, systemd |-> SystemdEnvs, pids |-> PidsEnvs]
=============================================================================

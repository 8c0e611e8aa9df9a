------------------------------- MODULE Network --------------------------------
(***************************************************************************)
(* The collectors of network devices on Linux: netdev, netclass and qdisc. *)
(* The maps of descriptors that some keep between scrapes are modelled in  *)
(* Shared; here a descriptor is its name.                                  *)
(***************************************************************************)
EXTENDS DeviceFilters

-----------------------------------------------------------------------------
(* netdev.  The statistics of a device map names to counters; a counter    *)
(* stands for the set of the kernel's counters that are added up in it.    *)

NetlinkStats ==
    [n \in {"receive_packets", "transmit_packets", "receive_bytes", "transmit_bytes",
            "receive_errors", "transmit_errors", "receive_dropped", "transmit_dropped",
            "multicast", "collisions",
            "receive_length_errors", "receive_over_errors", "receive_crc_errors",
            "receive_frame_errors", "receive_fifo_errors", "receive_missed_errors",
            "transmit_aborted_errors", "transmit_carrier_errors", "transmit_fifo_errors",
            "transmit_heartbeat_errors", "transmit_window_errors",
            "receive_compressed", "transmit_compressed", "receive_nohandler"} |-> {n}]

ProcNetDevStats ==
    [n \in {"receive_bytes", "receive_packets", "receive_errors", "receive_dropped",
            "receive_fifo", "receive_frame", "receive_compressed", "receive_multicast",
            "transmit_bytes", "transmit_packets", "transmit_errors", "transmit_dropped",
            "transmit_fifo", "transmit_colls", "transmit_carrier", "transmit_compressed"} |-> {n}]

(* The names of /proc/net/dev, what each is renamed from, and what is      *)
(* added to it.                                                            *)
LegacyNames ==
    [receive_errs      |-> [from |-> "receive_errors",   adding |-> {}],
     receive_drop      |-> [from |-> "receive_dropped",  adding |-> {"receive_missed_errors"}],
     receive_fifo      |-> [from |-> "receive_fifo_errors", adding |-> {}],
     receive_frame     |-> [from |-> "receive_frame_errors",
                            adding |-> {"receive_length_errors", "receive_over_errors",
                                        "receive_crc_errors"}],
     receive_multicast |-> [from |-> "multicast",        adding |-> {}],
     transmit_errs     |-> [from |-> "transmit_errors",  adding |-> {}],
     transmit_drop     |-> [from |-> "transmit_dropped", adding |-> {}],
     transmit_fifo     |-> [from |-> "transmit_fifo_errors", adding |-> {}],
     transmit_colls    |-> [from |-> "collisions",       adding |-> {}],
     transmit_carrier  |-> [from |-> "transmit_carrier_errors",
                            adding |-> {"transmit_aborted_errors", "transmit_heartbeat_errors",
                                        "transmit_window_errors"}]]

(* The names that pop and popz take out.                                   *)
PoppedNames(metrics) ==
    UNION {{LegacyNames[n].from} \cup LegacyNames[n].adding :
             n \in {m \in DOMAIN LegacyNames : LegacyNames[m].from \in DOMAIN metrics}}

Legacy(metrics) ==
    LET renamed == {n \in DOMAIN LegacyNames : LegacyNames[n].from \in DOMAIN metrics}
        sources(n) == ({LegacyNames[n].from} \cup LegacyNames[n].adding) \cap DOMAIN metrics
    IN  [n \in (DOMAIN metrics \ PoppedNames(metrics)) \cup renamed |->
           IF n \in renamed THEN UNION {metrics[s] : s \in sources(n)} ELSE metrics[n]]

(* Any of dial, list and parse may fail.  Two links cannot share a name.   *)
NetDevStats(e, i) == IF e.netlink THEN NetlinkStats ELSE ProcNetDevStats

NetDevSamples(e, i) ==
    LET stats == NetDevStats(e, i)
        shown == IF e.detailed THEN stats ELSE Legacy(stats)
    IN  {Sample(<<"network", n \o "_total">>, <<e.items[i].name>>, <<i, shown[n]>>) : n \in DOMAIN shown}

(* An address is global, link-local, interface-local or of no scope.       *)
Scope(ip) ==
    CASE ip \in {"loopback", "linklocal_unicast", "linklocal_multicast"} -> "link-local"
      [] ip = "interfacelocal_multicast" -> "interface-local"
      [] ip \in {"global_unicast", "private"} -> "global"
      [] OTHER -> ""

(* The addresses of an interface whose addresses cannot be listed, and     *)
(* those that do not parse, are left out.                                  *)
AddrInfo(i, item) ==
    IF item.addrs # "ok" THEN {}
    ELSE {Sample(<<"network_address", "info">>, <<item.name, a.ip, a.size, Scope(a.kind)>>, <<i, a>>) :
            a \in {b \in item.addresses : b.parses}}

(* With netlink the statistics are an attribute, which a link may lack.    *)
GetNetDevStats(e, filter) ==
    Need(e.stats, {})
      \bullet Loop([i \in DOMAIN e.items |->
                Check(Ignored(filter, e.items[i].name) \/ e.items[i].stats64 \/ ~e.netlink, "panic")])

UpdateNetDev(e) ==
    LET filter == NewNetDevFilter(e.flags)
        shown(i) == ~Ignored(filter, e.items[i].name)
    IN  Check(filter.built, "unbuilt")
          \bullet GetNetDevStats(e, filter)
          \bullet Loop([i \in DOMAIN e.items |->
                    IF shown(i) THEN Send(NetDevSamples(e, i)) ELSE Nothing])
          \bullet IF ~e.addressInfo THEN Nothing
                  ELSE Need(e.interfaces, {})
                         \bullet Loop([i \in DOMAIN e.items |-> Send(AddrInfo(i, e.items[i]))])

-----------------------------------------------------------------------------
(* netclass.  A property the kernel does not give is left out.             *)

AdminState(flags) ==
    IF ~flags.given THEN "unknown" ELSE IF flags.up THEN "up" ELSE "down"

NetClassFields ==
    {"address_assign_type", "carrier", "carrier_changes_total", "carrier_up_changes_total",
     "carrier_down_changes_total", "device_id", "dormant", "flags", "iface_id", "iface_link",
     "iface_link_mode", "mtu_bytes", "name_assign_type", "net_dev_group",
     "transmit_queue_length", "protocol_type"}

(* A speed is not given, -1 when it is not known, or a number.             *)
SendsSpeed(e, speed) == speed.given /\ (speed.value >= 0 \/ ~e.ignoreInvalidSpeed)

NetClassSamples(e, i) ==
    LET d == e.items[i]
    IN  Samples("network", {"up"}, <<d.name>>, <<i>>)
          \cup Samples("network", {"info"}, <<d.name, d.operstate, AdminState(d.flags)>>, <<i>>)
          \cup Samples("network", NetClassFields \ d.missing, <<d.name>>, <<i>>)
          \cup IF SendsSpeed(e, d.speed) THEN Samples("network", {"speed_bytes"}, <<d.name>>, <<i>>)
                                         ELSE {}

(* One interface whose directory cannot be read fails all of them.         *)
NetClassInfo(e) ==
    Need(e.devices, {"notexist", "permission"})
      \bullet Loop([i \in DOMAIN e.items |->
                IF e.items[i].ignored THEN Nothing
                ELSE Need(e.items[i].read, {"notexist", "permission"})])

NetClassSysfsUpdate(e) ==
    NetClassInfo(e)
      \bullet Loop([i \in DOMAIN e.items |->
                IF e.items[i].ignored THEN Nothing ELSE Send(NetClassSamples(e, i))])

(* With netlink: the speeds are sent first, and then whatever fails leaves *)
(* them sent.                                                              *)
RTNLSpeeds(e) ==
    IF e.linkModes = "notexist" THEN Nothing
    ELSE Need(e.linkModes, {})
           \bullet Loop([i \in DOMAIN e.items |->
                     IF e.items[i].ignored \/ ~e.items[i].speed.given \/ e.items[i].speed.value < 0
                     THEN Nothing
                     ELSE Send(Samples("network", {"speed_bytes"}, <<e.items[i].name>>, <<i>>))])

RTNLStats == {n \o "_total" : n \in DOMAIN NetlinkStats}

RTNLSamples(e, i) ==
    LET d == e.items[i]
    IN  Samples("network", {"up"}, <<d.name>>, <<i>>)
          \cup Samples("network", {"info"}, <<d.name, d.operstate>>, <<i>>)
          \cup Samples("network", NetClassFields \ d.missing, <<d.name>>, <<i>>)
          \cup IF e.withStats /\ d.stats64 THEN Samples("network", RTNLStats, <<d.name>>, <<i>>)
                                           ELSE {}

SysfsAttributes(e) ==
    Loop([i \in DOMAIN e.items |->
            IF e.items[i].ignored THEN Nothing ELSE Need(e.items[i].read, {})])

NetClassRTNLUpdate(e) ==
    RTNLSpeeds(e)
      \bullet Need(e.devices, {})
      \bullet SysfsAttributes(e)
      \bullet Loop([i \in DOMAIN e.items |->
                IF e.items[i].ignored THEN Nothing ELSE Send(RTNLSamples(e, i))])

UpdateNetClass(e) == IF e.netlink THEN NetClassRTNLUpdate(e) ELSE NetClassSysfsUpdate(e)

-----------------------------------------------------------------------------
(* qdisc: the root discipline of each device.                              *)

QdiscFamilies ==
    {"bytes_total", "packets_total", "drops_total", "requeues_total", "overlimits_total",
     "current_queue_length", "backlog"}

UpdateQdisc(e) ==
    LET filter == NewQdiscFilter(e.flags)
        skips(q) == q.parent # 0 \/ Ignored(filter, q.name)
    IN  Check(filter.built, "unbuilt")
          \bullet Need(e.disciplines, {})
          \bullet Loop([i \in DOMAIN e.items |->
                    IF skips(e.items[i]) THEN Nothing
                    ELSE Send(Samples("qdisc", QdiscFamilies, <<e.items[i].name, e.items[i].kind>>, <<i>>))])
=============================================================================

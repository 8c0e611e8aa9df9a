------------------------------ MODULE Protocols -------------------------------
(***************************************************************************)
(* The collectors of protocols, routes, queues and links on Linux:         *)
(* ethtool, ipvs, tcpstat, netstat, sockstat, conntrack, network_route,    *)
(* wifi, softnet, arp, udp_queues, lnstat and bonding.                     *)
(***************************************************************************)
EXTENDS DeviceFilters

-----------------------------------------------------------------------------
(* ethtool.  A statistic of a driver has a raw name and the name of the    *)
(* metric it is sanitised to, which several raw names may share.           *)

(* Descriptors made by the constructor, by raw name: its metric is not     *)
(* the sanitised name.                                                     *)
EthtoolEntries ==
    [rx_bytes |-> "received_bytes_total", rx_dropped |-> "received_dropped_total",
     rx_errors |-> "received_errors_total", rx_packets |-> "received_packets_total",
     tx_bytes |-> "transmitted_bytes_total", tx_errors |-> "transmitted_errors_total",
     tx_packets |-> "transmitted_packets_total"]

EntryWithCreate(stat) ==
    IF stat.raw \in DOMAIN EthtoolEntries THEN EthtoolEntries[stat.raw] ELSE stat.fq

(* Mode bits, by their index, and the labels of each.                      *)
SpeedModes ==
    [b0 |-> <<"half", "10baseT">>, b1 |-> <<"full", "10baseT">>, b2 |-> <<"half", "100baseT">>,
     b3 |-> <<"full", "100baseT">>, b4 |-> <<"half", "1000baseT">>, b5 |-> <<"full", "1000baseT">>,
     b12 |-> <<"full", "10000baseT">>, b15 |-> <<"full", "2500baseT">>,
     b17 |-> <<"full", "1000baseKX">>, b18 |-> <<"full", "10000baseKX4">>,
     b19 |-> <<"full", "10000baseKR">>, b20 |-> <<"full", "10000baseR_FEC">>,
     b21 |-> <<"full", "20000baseMLD2">>, b22 |-> <<"full", "20000baseKR2">>,
     b23 |-> <<"full", "40000baseKR4">>, b24 |-> <<"full", "40000baseCR4">>,
     b25 |-> <<"full", "40000baseSR4">>, b26 |-> <<"full", "40000baseLR4">>,
     b27 |-> <<"full", "56000baseKR4">>, b28 |-> <<"full", "56000baseCR4">>,
     b29 |-> <<"full", "56000baseSR4">>, b30 |-> <<"full", "56000baseLR4">>,
     b31 |-> <<"full", "25000baseCR">>]

UpdateSpeeds(i, d, prefix, modes) ==
    {Sample(<<"network", prefix \o "_speed_bytes">>, <<d.name>> \o SpeedModes[b], <<i, prefix, b>>) :
       b \in DOMAIN SpeedModes \cap modes}

PortInfo == [b7 |-> "TP", b8 |-> "AUI", b9 |-> "MII", b10 |-> "FIBRE", b11 |-> "BNC", b16 |-> "Backplane"]

UpdatePortInfo(i, d, modes) ==
    {Sample(<<"network", "supported_port_info">>, <<d.name, PortInfo[b]>>, <<i, b>>) :
       b \in DOMAIN PortInfo \cap modes}

UpdatePortCapabilities(i, d, suffix) ==
    Samples("network", {c \o suffix : c \in {"autonegotiate_", "pause_", "asymmetricpause_"}}, <<d.name>>, <<i>>)

(* Names that clash are all dropped.                                       *)
Unclashed(stats) == {s \in stats : \A t \in stats : t.fq = s.fq => t = s}

EthtoolDevice(i, d, pattern) ==
    (IF ~d.linkInfo THEN {} ELSE
       UpdateSpeeds(i, d, "supported", d.supported) \cup UpdatePortInfo(i, d, d.supported)
         \cup UpdatePortCapabilities(i, d, "supported")
         \cup UpdateSpeeds(i, d, "advertised", d.advertising)
         \cup UpdatePortCapabilities(i, d, "advertised")
         \cup Samples("network", {"autonegotiate"}, <<d.name>>, <<i>>))
      \cup (IF d.driverInfo THEN Samples("ethtool", {"info"}, <<d.name, d.driver>>, <<i>>) ELSE {})
      \cup {Sample(<<"ethtool", EntryWithCreate(s)>>, <<d.name>>, <<i, s.raw>>) :
              s \in Unclashed({t \in d.stats : ~pattern.set \/ t.raw \in pattern.matches})}

(* What a device does not support is passed over; e.metrics is the flag    *)
(* for the statistics to include.                                          *)
UpdateEthtool(e) ==
    LET filter == NewEthtoolFilter(e.flags)
    IN  Need(e.netClass, {"notexist", "permission"})
          \bullet Check(e.items # <<>>, "error")
          \bullet Loop([i \in DOMAIN e.items |->
                    IF Ignored(filter, e.items[i].name) THEN Nothing
                    ELSE Send(EthtoolDevice(i, e.items[i], e.metrics))])

-----------------------------------------------------------------------------
(* ipvs: the backends that have the same values of the chosen labels are   *)
(* added up; e.chosen are those the flag names.                            *)

IPVSLabels == <<"local_address", "local_port", "remote_address", "remote_port", "proto", "local_mark">>

ParseIPVSLabels(chosen) == SelectSeq(IPVSLabels, LAMBDA l : l \in chosen)

IPVSFamilies ==
    [total   |-> {"connections_total", "incoming_packets_total", "outgoing_packets_total",
                  "incoming_bytes_total", "outgoing_bytes_total"},
     backend |-> {"backend_connections_active", "backend_connections_inactive", "backend_weight"}]

UpdateIPVS(e) ==
    LET labels == ParseIPVSLabels(e.chosen)
        values(b) == [n \in DOMAIN labels |-> b[labels[n]]]
        sum(v) == {n \in DOMAIN e.backends : values(e.backends[n]) = v}
    IN  Check(\A l \in e.chosen : \E n \in DOMAIN IPVSLabels : l = IPVSLabels[n], "unbuilt")
          \bullet Need(e.stats, {"notexist"})
          \bullet Send(Samples("ipvs", IPVSFamilies.total, <<>>, <<0>>))
          \bullet Need(e.backendStatus, {})
          \bullet Send(UNION {Samples("ipvs", IPVSFamilies.backend, v, <<0, sum(v)>>) :
                                v \in {values(e.backends[n]) : n \in DOMAIN e.backends}})

-----------------------------------------------------------------------------
(* tcpstat: sockets of both families by state, and their queues.           *)

TCPStates ==
    {"established", "syn_sent", "syn_recv", "fin_wait1", "fin_wait2", "time_wait", "close",
     "close_wait", "last_ack", "listen", "closing"}

MergedTCPStats(tcp, tcp6) ==
    [st \in DOMAIN tcp \cup DOMAIN tcp6 |->
       (IF st \in DOMAIN tcp THEN tcp[st] ELSE {}) \cup (IF st \in DOMAIN tcp6 THEN tcp6[st] ELSE {})]

TCPQueues == {"rx_queued_bytes", "tx_queued_bytes"}

SocketsOf(e) == e.tcp \cup (IF e.hasTCP6 THEN e.tcp6 ELSE {})

(* The sockets counted under each state; both queues count every socket.   *)
ParseTCPStats(sockets) ==
    LET queues == IF sockets = {} THEN {} ELSE TCPQueues
    IN  [st \in {s.state : s \in sockets} \cup queues |->
           IF st \in queues THEN sockets ELSE {s \in sockets : s.state = st}]

UpdateTCPStat(e) ==
    LET stats == MergedTCPStats(ParseTCPStats(e.tcp), IF e.hasTCP6 THEN ParseTCPStats(e.tcp6) ELSE <<>>)
    IN  Need(e.dump, {})
          \bullet (IF e.hasTCP6 THEN Need(e.dump6, {}) ELSE Nothing)
          \bullet Send({Sample(<<"tcp", "connection_states">>, <<st>>, <<0, stats[st]>>) : st \in DOMAIN stats})

-----------------------------------------------------------------------------
(* netstat: the fields of three files and of one command, by protocol.     *)

(* Names and values come in pairs of lines of as many columns; the names   *)
(* start with the protocol's, from which a colon is taken.                 *)
ParseNetStats(protocols) ==
    Loop([n \in DOMAIN protocols |->
      Check(protocols[n].named, "panic") \bullet Check(protocols[n].names = protocols[n].values, "error")])

ReadNetStats(file) == Need(file.open, {}) \bullet ParseNetStats(file.protocols)

(* Without IPv6 the file is not there.                                     *)
GetSNMP6Stats(file) == IF file.open = "notexist" THEN Nothing ELSE Need(file.open, {})

(* A field is looked at, and may be in error, before it is filtered; the   *)
(* fields of the map come in any order.                                    *)
UpdateNetStat(e) ==
    ReadNetStats(e.netstat)
      \bullet ReadNetStats(e.snmp)
      \bullet GetSNMP6Stats(e.snmp6)
      \bullet Need(e.listens, {})
      \bullet Loop([n \in DOMAIN e.fields |->
                LET f == e.fields[n] IN
                IF f.from = "snmp6" /\ e.snmp6.open # "ok" THEN Nothing
                ELSE IF ~f.parses THEN Return("error")
                ELSE IF f.name \notin e.pattern THEN Nothing
                ELSE Send({Sample(<<"netstat", f.name>>, <<>>, <<0, f.from>>)})])

-----------------------------------------------------------------------------
(* sockstat.  A protocol that has no value of some kind has none of it;    *)
(* memory in pages is sent in bytes too.                                   *)

SockstatPairs(i, p) ==
    {Sample(<<"sockstat", <<p.name, v>>>>, <<>>, <<i, v>>) :
       v \in {"inuse"} \cup p.values \cup (IF "mem" \in p.values THEN {"mem_bytes"} ELSE {})}

SockstatUpdate(stat) ==
    IF stat.read # "ok" THEN {}
    ELSE (IF stat.used THEN {Sample(<<"sockstat", <<"sockets", "used">>>>, <<>>, <<0>>)} ELSE {})
           \cup UNION {SockstatPairs(0, p) : p \in stat.protocols}

(* A family that is not there is passed over.                              *)
UpdateSockstat(e) ==
    LET read(stat) == IF stat.read = "notexist" THEN Nothing ELSE Need(stat.read, {})
    IN  read(e.v4) \bullet read(e.v6)
          \bullet Send(SockstatUpdate(e.v4))
          \bullet Send(SockstatUpdate([e.v6 EXCEPT !.used = FALSE]))

-----------------------------------------------------------------------------
(* conntrack: two numbers and then the statistics, each from its own file. *)

ConntrackStats ==
    {"nf_conntrack_stat_found", "nf_conntrack_stat_invalid", "nf_conntrack_stat_ignore",
     "nf_conntrack_stat_insert", "nf_conntrack_stat_insert_failed", "nf_conntrack_stat_drop",
     "nf_conntrack_stat_early_drop", "nf_conntrack_stat_search_restart"}

HandleErr(outcome) == Need(outcome, {"notexist"})

UpdateConntrack(e) ==
    HandleErr(e.count) \bullet Send(Samples("", {"nf_conntrack_entries"}, <<>>, <<0>>))
      \bullet HandleErr(e.max) \bullet Send(Samples("", {"nf_conntrack_entries_limit"}, <<>>, <<0>>))
      \bullet HandleErr(e.stats) \bullet Send(Samples("", ConntrackStats, <<>>, <<0>>))

-----------------------------------------------------------------------------
(* network_route.  Links are listed before routes: the device of a route   *)
(* whose link has gone, or come, in between has no name.                   *)

NetworkRouteProtocols ==
    {"unspec", "redirect", "kernel", "boot", "static", "gated", "ra", "mrt", "zebra", "bird",
     "dnrouted", "xorp", "ntk", "dhcp", "mrouted", "babel", "bgp", "isis", "ospf", "rip", "eigrp"}

NetworkRouteProtocolToString(p) == IF p \in NetworkRouteProtocols THEN p ELSE "unknown"

IfName(links, index) == IF index \in DOMAIN links THEN links[index] ELSE ""

(* A route of several hops is sent once for each, with its weight.         *)
RouteHops(route) ==
    IF route.multipath # <<>> THEN route.multipath
    ELSE <<[ifIndex |-> route.outIface, gateway |-> route.gateway, weight |-> ""]>>

UpdateNetworkRoute(e) ==
    LET hops == UNION {{<<n, k>> : k \in DOMAIN RouteHops(e.routes[n])} :
                         n \in {m \in DOMAIN e.routes : e.routes[m].unicast}}
        hop(h) == RouteHops(e.routes[h[1]])[h[2]]
        device(h) == IfName(e.links, hop(h).ifIndex)
        info(h) == LET r == e.routes[h[1]] IN
                   Sample(<<"network", "route_info">>,
                          <<device(h), r.src, r.dst, hop(h).gateway, r.priority,
                            NetworkRouteProtocolToString(r.protocol), hop(h).weight>>, <<0, h>>)
    IN  Need(e.linkList, {})
          \bullet Need(e.routeList, {})
          \bullet Send({info(h) : h \in hops})
          \bullet Send({Sample(<<"network", "routes">>, <<dev>>, <<0, {h \in hops : device(h) = dev}>>) :
                          dev \in {device(h) : h \in hops}})

-----------------------------------------------------------------------------
(* wifi.  What does not apply to an interface is passed over.              *)

WifiStationFamilies ==
    {"station_connected_seconds_total", "station_inactive_seconds",
     "station_receive_bits_per_second", "station_transmit_bits_per_second",
     "station_receive_bytes_total", "station_transmit_bytes_total", "station_signal_dbm",
     "station_transmit_retries_total", "station_transmit_failed_total", "station_beacon_loss_total"}

BSSStatusMode(status) ==
    CASE status \in {"authenticated", "associated"} -> "client"
      [] status = "ibssjoined" -> "ad-hoc"
      [] OTHER -> "unknown"

UpdateBSSStats(i, device, bss) ==
    {Sample(<<"wifi", "station_info">>, <<device, bss.bssid, BSSStatusMode(bss.status)>>, <<i>>)}

UpdateStationStats(i, device, station) ==
    Samples("wifi", WifiStationFamilies, <<device, station>>, <<i, station>>)

UpdateWifi(e) ==
    LET maybe(read, samples) ==
            IF read = "notexist" THEN Nothing ELSE Need(read, {}) \bullet Send(samples)
        interface(i, ifi) ==
            IF ifi.name = "" THEN Nothing
            ELSE Send(Samples("wifi", {"interface_frequency_hertz"}, <<ifi.name>>, <<i>>))
                   \bullet maybe(ifi.bssRead, UpdateBSSStats(i, ifi.name, ifi.bss))
                   \bullet maybe(ifi.stationRead,
                             UNION {UpdateStationStats(i, ifi.name, s) : s \in ifi.stations})
    IN  Need(e.stater, {"notexist", "permission"})
          \bullet Need(e.interfaces, {})
          \bullet Loop([i \in DOMAIN e.items |-> interface(i, e.items[i])])

-----------------------------------------------------------------------------
(* softnet, arp, udp_queues, lnstat, bonding.                              *)

SoftnetFamilies ==
    {"processed_total", "dropped_total", "times_squeezed_total", "cpu_collision_total",
     "received_rps_total", "flow_limit_count_total", "backlog_len"}

UpdateSoftnet(e) ==
    Need(e.stats, {})
      \bullet Loop([i \in DOMAIN e.items |->
                Send(Samples("softnet", SoftnetFamilies, <<e.items[i].cpu>>, <<i>>))])

(* Entries are counted by device; include and exclude may both be given.   *)
GetTotalArpEntries(entries) ==
    [dev \in {entries[n].device : n \in DOMAIN entries} |->
       {n \in DOMAIN entries : entries[n].device = dev}]

UpdateARP(e) ==
    LET totals == GetTotalArpEntries(e.entries)
        filter == NewDeviceFilter(e.flags.exclude, e.flags.include)
    IN  Need(e.arp, {})
          \bullet Send({Sample(<<"arp", "entries">>, <<dev>>, <<0, totals[dev]>>) :
                          dev \in {d \in DOMAIN totals : ~Ignored(filter, d)}})

NoDataOfBoth(e) == Check(e.v4 # "notexist" \/ e.v6 # "notexist", "nodata")

UpdateUDPQueues(e) ==
    LET queues(ip, read) ==
            IF read = "notexist" THEN Nothing
            ELSE Need(read, {})
                   \bullet Send({Sample(<<"udp", "queues">>, <<q, ip>>, <<0, q, ip>>) : q \in {"tx", "rx"}})
    IN  queues("v4", e.v4) \bullet queues("v6", e.v6) \bullet NoDataOfBoth(e)

UpdateLnstat(e) ==
    Need(e.netstat, {})
      \bullet Loop([i \in DOMAIN e.items |->
                Send({Sample(<<"lnstat", h>>, <<e.items[i].file, cpu>>, <<i, h, cpu>>) :
                        h \in e.items[i].headers, cpu \in e.items[i].cpus})])

(* Every slave of every master is read before any is sent; the state of a  *)
(* slave is looked for under two names.                                    *)
SlaveState(slave) == IF slave.lower = "notexist" THEN slave.prefixed ELSE slave.lower

ReadBondingStats(e) ==
    Need(e.masters, {"notexist"})
      \bullet Loop([i \in DOMAIN e.items |->
                Need(e.items[i].slavesRead, {"notexist"})
                  \bullet Loop([k \in DOMAIN e.items[i].slaves |->
                            Need(SlaveState(e.items[i].slaves[k]), {"notexist"})])])

UpdateBonding(e) ==
    ReadBondingStats(e)
      \bullet Loop([i \in DOMAIN e.items |->
                Send(Samples("bonding", {"slaves", "active"}, <<e.items[i].name>>, <<i>>))])
=============================================================================

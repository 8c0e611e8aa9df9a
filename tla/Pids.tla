--------------------------------- MODULE Pids ----------------------------------
(***************************************************************************)
(* The pids collector: the processes that use the CPU most, what the       *)
(* kernel says of each, and the packets of each, captured on every         *)
(* physical interface in turn while Update waits.                          *)
(***************************************************************************)
EXTENDS Scraping, FiniteSetsExt

CONSTANTS
    Second,     \* ticks of the packets' time stamps in a second
    Gaps        \* the ticks that may pass between two packets

ASSUME SecondAssumption == Second \in Nat \ {0}
ASSUME GapsAssumption == Gaps \subseteq Nat \ {0}

VARIABLES
    phase,          \* "top", "nic", "capture", "send", "done", or "idle" in other scrapes
    nic,            \* the interface, of those that are captured on
    begin, end,     \* the time stamps between which packets were counted
    clock,          \* the time stamp of the last packet
    rec, tmt,       \* packets received and transmitted, by process
    matched         \* the segments that had a port of one of the processes

pidsVars == <<phase, nic, begin, end, clock, rec, tmt, matched>>

-----------------------------------------------------------------------------
(* The ports of the sockets the processes have open; of two processes that *)
(* share a port the later has it.                                          *)
Top5LocalPort(procs) ==
    LET users(port) == {n \in DOMAIN procs : procs[n].ls /\ port \in procs[n].ports}
    IN  [port \in UNION {IF procs[n].ls THEN procs[n].ports ELSE {} : n \in DOMAIN procs} |->
           procs[CHOOSE n \in users(port) : \A o \in users(port) : o <= n].pid]

GetPhysicalNicName(nics) == SelectSeq(nics, LAMBDA n : n.up /\ n.physical)

Pids(e) == {e.procs[n].pid : n \in DOMAIN e.procs}

(* Before any packet both time stamps are a day long past.                 *)
LongPast == 0

Ports == Top5LocalPort(env.procs)
Nics == GetPhysicalNicName(env.nics)

(* A packet may have a segment of TCP and one of UDP, of which one is      *)
(* encapsulated in the other; the code looks at each by itself.            *)
Segments ==
    LET ports == (UNION {env.procs[n].ports : n \in DOMAIN env.procs}) \cup {0}
    IN  [src : ports, dst : ports]

Packets == [ip4 : BOOLEAN, layers : UNION {[L -> Segments] : L \in SUBSET {"tcp", "udp"}}]

HasPort(p, l, side, ports) == p.ip4 /\ l \in DOMAIN p.layers /\ p.layers[l][side] \in DOMAIN ports

(* Mutant: a segment between two of the processes is counted for both.     *)
ReceivedToo(p, l, ports) == HasPort(p, l, "dst", ports)

Transmitted(p, l, ports) == HasPort(p, l, "src", ports)

Received(p, l, ports) == ~HasPort(p, l, "src", ports) /\ HasPort(p, l, "dst", ports)

(* One more of pid, unless the segment is not of that kind.                *)
Count(counts, counted, pid) == IF counted THEN [counts EXCEPT ![pid] = @ + 1] ELSE counts

(* TCP is looked at first, and then UDP.                                   *)
Both(counts, counted, p, side) ==
    Count(Count(counts, counted["tcp"], Ports[p.layers["tcp"][side]]),
          counted["udp"], Ports[p.layers["udp"][side]])

Matches(p, l) == IF \E side \in {"src", "dst"} : HasPort(p, l, side, Ports) THEN 1 ELSE 0

-----------------------------------------------------------------------------
PidsInit(start) ==
    /\ out = Unscraped
    /\ phase = start
    /\ nic = 1
    /\ begin = LongPast /\ end = LongPast /\ clock = LongPast
    /\ rec = <<>> /\ tmt = <<>> /\ matched = 0

(* A process without a port has no packets to wait for.                    *)
GetCpuUtilizationTop5 ==
    /\ phase = "top"
    /\ IF env.top = "ok"
       THEN /\ phase' = IF Ports = <<>> THEN "send" ELSE "nic"
            /\ rec' = [pid \in Pids(env) |-> 0]
            /\ tmt' = [pid \in Pids(env) |-> 0]
            /\ UNCHANGED out
       ELSE /\ phase' = "done"
            /\ out' = [out EXCEPT !.ret = "error"]
            /\ UNCHANGED <<rec, tmt>>
    /\ UNCHANGED <<env, nic, begin, end, clock, matched>>

(* An interface that cannot be opened ends the capture on all.             *)
OpenLive ==
    /\ phase = "nic"
    /\ phase' = IF nic <= Len(Nics) /\ Nics[nic].opens THEN "capture" ELSE "send"
    /\ begin' = LongPast /\ end' = LongPast /\ clock' = LongPast
    /\ UNCHANGED <<env, out, nic, rec, tmt, matched>>

(* Mutant: the first packet sets the end too.                              *)
EndFirst(b, e, stamp) == <<b, stamp>>

(* The two time stamps after a packet.                                     *)
NextTimes(b, e, stamp) == IF b = e THEN <<stamp, e>> ELSE <<b, stamp>>

(* The first packet sets the beginning, every other one the end; the       *)
(* capture on an interface goes on until they are a second apart.          *)
PacketArrives ==
    /\ phase = "capture"
    /\ \E gap \in Gaps, p \in Packets :
         /\ clock' = clock + gap
         /\ begin' = NextTimes(begin, end, clock')[1]
         /\ end' = NextTimes(begin, end, clock')[2]
         /\ tmt' = Both(tmt, [l \in {"tcp", "udp"} |-> Transmitted(p, l, Ports)], p, "src")
         /\ rec' = Both(rec, [l \in {"tcp", "udp"} |-> Received(p, l, Ports)], p, "dst")
         /\ matched' = matched + Matches(p, "tcp") + Matches(p, "udp")
    /\ IF end' - begin' >= Second
       THEN nic' = nic + 1 /\ phase' = "nic"
       ELSE UNCHANGED <<nic, phase>>
    /\ UNCHANGED <<env, out>>

(* What the counts are divided by: the seconds of the capture are          *)
(* computed, but not returned.                                             *)
FlowSec == Second

(* The line of a process in what top prints has 12 words, and a line of a  *)
(* file of /proc two; each is taken to have ("short": it has not).         *)
PidSamples(n, p) ==
    LET of(families) == Send({Sample(<<"pids", f>>, <<p.pid, p.cmd>>, <<n, f>>) : f \in families})
        file(read, families) == Check(read # "short", "panic") \bullet (IF read = "ok" THEN of(families) ELSE Nothing)
        flow(f, counts) == Sample(<<"pids", f>>, <<p.pid, p.cmd>>, <<n, f, counts[p.pid]>>)
    IN  Check(p.words >= 12, "panic")
          \bullet of({"pidsCpuUtilization", "pidsMemUtilization"})
          \bullet file(p.status, {"pidsThreadNum", "voluntaryCtxtSwitches", "nonvoluntaryCtxtSwitches"})
          \bullet (IF p.fd THEN of({"pidsFdUsed"}) ELSE Nothing)
          \bullet file(p.io, {"pidsReadDiskBytes", "pidsWriteDiskBytes", "pidsReadDiskCount", "pidsWriteDiskCount"})
          \bullet Send({flow("pidsNetworkReceiveBytes", rec), flow("pidsNetworkReceivePkg", rec),
                        flow("pidsNetworkTransmitBytes", tmt), flow("pidsNetworktransmitPkg", tmt)})

(* A process that has ended meanwhile is left with what could be read.     *)
(* The processes come in env.order, which is any.                          *)
SendPids ==
    /\ phase = "send"
    /\ out' = Loop([k \in DOMAIN env.order |-> PidSamples(env.order[k], env.procs[env.order[k]])])
    /\ phase' = "done"
    /\ UNCHANGED <<env, nic, begin, end, clock, rec, tmt, matched>>

PidsNext == GetCpuUtilizationTop5 \/ OpenLive \/ PacketArrives \/ SendPids

(* Packets keep coming: the code ends its capture by their time stamps.    *)
PidsFairness == WF_<<env, out, pidsVars>>(PidsNext)

-----------------------------------------------------------------------------
(* Every segment of a process is counted once, for one process and in one  *)
(* direction, also when both of its ports are of processes.  (A packet     *)
(* with a segment of TCP and one of UDP may so be counted twice.)          *)
EverySegmentCountedOnce == MapThenSumSet(LAMBDA pid : rec[pid] + tmt[pid], DOMAIN rec) = matched

(* Packets are counted for a second at least before an interface is done   *)
(* with: the first packet does not end the capture.                        *)
AtLeastASecond == [][nic' # nic => clock' - begin' >= Second /\ begin' > LongPast]_<<nic, begin, clock>>

(* Every capture ends, as long as packets come and each is later than the  *)
(* one before.                                                             *)
CaptureEnds == (phase = "capture") ~> (phase = "done")

(* What is exposed as bytes per second was counted for the seconds it is   *)
(* divided by.                                                             *)
RatesArePerSecond == [][nic' # nic => end' - begin' = FlowSec]_<<nic, begin, end>>
=============================================================================

------------------------------ MODULE Hardware --------------------------------
(***************************************************************************)
(* The collectors of sensors, counters and devices on Linux: hwmon, perf,  *)
(* powersupplyclass, edac, rapl, drm, thermal_zone, fibrechannel,          *)
(* infiniband, dmi, cpufreq, tapestats, nvme and cpu.                      *)
(***************************************************************************)
EXTENDS Collection

-----------------------------------------------------------------------------
(* cpu, apart from its cache of the counters of /proc/stat, which is       *)
(* CPUStats: here each CPU in it is there, or the reading has failed.      *)

(* Including flags or bugs turns cpu.info on.                              *)
CPUInfoEnabled(flags) == flags.info \/ flags.flagsInclude.set \/ flags.bugsInclude.set

(* Flags and bugs are those of the first processor.                        *)
UpdateFieldInfo(field, values, include) ==
    {Sample(<<"cpu", field>>, <<v>>, <<0, field, v>>) : v \in {w \in values : include.set /\ w \in include.matches}}

UpdateCPUInfo(e) ==
    IF ~CPUInfoEnabled(e.flags) THEN Nothing
    ELSE Need(e.cpuinfo, {})
           \bullet Send({Sample(<<"cpu", "info">>, <<e.cpus[n].package, e.cpus[n].core, n>>, <<0, "info", n>>) :
                          n \in DOMAIN e.cpus})
           \bullet Send(IF e.cpus = <<>> THEN {}
                       ELSE UpdateFieldInfo("flag_info", e.cpus[1].flags, e.flags.flagsInclude)
                              \cup UpdateFieldInfo("bug_info", e.cpus[1].bugs, e.flags.bugsInclude))

CPUModes == {"user", "nice", "system", "idle", "iowait", "irq", "softirq", "steal"}

UpdateCPUStat(e) ==
    LET of(family, modes) ==
            {Sample(<<"cpu", family>>, <<n, mode>>, <<0, family, n, mode>>) : n \in DOMAIN e.cpus, mode \in modes}
    IN  Need(e.stat, {})
          \bullet Send(of("seconds_total", CPUModes)
                        \cup IF e.flags.guest THEN of("guest_seconds_total", {"user", "nice"}) ELSE {})

(* What CPUs share is read from the first of them where it can be; a CPU   *)
(* whose package or core is not known is passed over.                      *)
UpdateThermalThrottle(cpus) ==
    LET readable(count) == {n \in DOMAIN cpus : cpus[n].topology /\ count \in cpus[n].throttles}
    IN  {Sample(<<"cpu", "package_throttles_total">>, <<p>>, <<0, "package", p>>) :
           p \in {cpus[n].package : n \in readable("package")}}
          \cup {Sample(<<"cpu", "core_throttles_total">>, pc, <<0, "core">> \o pc) :
                  pc \in {<<cpus[n].package, cpus[n].core>> : n \in readable("core")}}

(* The isolated CPUs are read once, by the constructor.                    *)
UpdateCPU(e) ==
    Check(e.isolated \in {"ok", "notexist"} /\ e.flags.valid, "unbuilt")
      \bullet UpdateCPUInfo(e)
      \bullet UpdateCPUStat(e)
      \bullet Send(IF e.isolated = "notexist" THEN {}
                  ELSE {Sample(<<"cpu", "isolated">>, <<n>>, <<0, "isolated", n>>) :
                          n \in {m \in DOMAIN e.cpus : e.cpus[m].isolated}})
      \bullet Send(UpdateThermalThrottle(e.cpus))

-----------------------------------------------------------------------------
(* hwmon.  A chip is a directory of files <type><number>_<property>; each  *)
(* type and number is a sensor, each property an element of it, "" the one *)
(* without a property.                                                     *)

(* The files of a chip and of the device it belongs to, sensor by sensor;  *)
(* those that cannot be read are left out.                                 *)
CollectSensorData(files) ==
    [s \in {f.sensor : f \in {g \in files : g.read}} |->
       {f.element : f \in {g \in files : g.read /\ g.sensor = s}}]

SensorTypes(files) ==
    [s \in {f.sensor : f \in files} |-> (CHOOSE f \in files : f.sensor = s).type]

Unitless == {"fault", "alarm"}

HwmonUnit(type, element) ==
    CASE type \in {"in", "cpu"} -> "_volts"
      [] type = "temp" /\ element # "type" -> "_celsius"
      [] type = "curr" -> "_amps"
      [] type = "energy" -> "_joule_total"
      [] type = "power" /\ element \in {"average_interval", "average_interval_min", "average_interval_max"} ->
           "_seconds"
      [] type = "power" /\ element # "accuracy" -> "_watt"
      [] type = "fan" /\ element \in {"input", "min", "max", "target"} -> "_rpm"
      [] OTHER -> ""

(* Mutant: the input is named like the element without a property.         *)
InputUnnamed(element, elements) ==
    IF element \in {"", "input"} THEN "" ELSE "_" \o element

(* "input" is the value itself, unless there is an element without a       *)
(* property.                                                               *)
ElementName(element, elements) ==
    IF element = "" \/ (element = "input" /\ "" \notin elements) THEN "" ELSE "_" \o element

HwmonMetric(type, element, elements) ==
    LET name == type \o ElementName(element, elements)
    IN  IF element \in Unitless THEN name
        ELSE IF element = "beep" THEN name \o "_enabled"
        ELSE name \o HwmonUnit(type, element)

(* Three types of sensors have a single element and a metric of their own. *)
HwmonSpecial ==
    [beep_enable |-> "beep_enabled", vrm |-> "voltage_regulator_version",
     update_interval |-> "update_interval_seconds"]

(* What is no number is left out; beep_enable is compared as it is.        *)
HwmonSensor(i, chip, sensor, type, elements, numbers) ==
    (IF "label" \in elements
     THEN Samples("hwmon", {"sensor_label"}, <<chip, sensor>>, <<i, sensor>>) ELSE {})
      \cup IF type \in DOMAIN HwmonSpecial
           THEN Samples("hwmon", {n \in {HwmonSpecial[type]} : type = "beep_enable" \/ "" \in numbers},
                        <<chip, sensor>>, <<i, sensor>>)
           ELSE {Sample(<<"hwmon", HwmonMetric(type, x, elements)>>, <<chip, sensor>>, <<i, sensor, x>>) :
                   x \in (elements \cap numbers) \ {"label"}}

(* The name of a chip: its device's, what its name file says, or its own   *)
(* directory's.  d.clean is what is left of each once cleaned, "" if       *)
(* nothing is or it cannot be read.                                        *)
HwmonName(d) ==
    IF d.clean.device # "" THEN d.clean.device
    ELSE IF d.clean.name # "" THEN d.clean.name ELSE d.clean.dir

HwmonHumanReadableChipName(i, d) ==
    IF d.clean.name = "" THEN {}
    ELSE Samples("hwmon", {"chip_names"}, <<HwmonName(d), d.clean.name>>, <<i>>)

UpdateHwmonChip(i, d) ==
    LET sensors == CollectSensorData(d.files)
        numbers(s) == {f.element : f \in {g \in d.files : g.sensor = s /\ g.parses}}
    IN  Check(HwmonName(d) # "", "error")
          \bullet Need(d.readDir, {})
          \bullet Send(HwmonHumanReadableChipName(i, d))
          \bullet Send(UNION {HwmonSensor(i, HwmonName(d), s, SensorTypes(d.files)[s], sensors[s], numbers(s)) :
                                s \in DOMAIN sensors})

(* A link that dangles, and what is no directory, is passed over.          *)
IsChip(d) == (d.symlink => d.stat = "ok") /\ d.isDir

(* A chip that has gone since the directory was listed has no file info,   *)
(* which is looked at all the same.                                        *)
HwmonEntry(i, d) ==
    Check(d.lstat = "ok", "panic") \bullet (IF IsChip(d) THEN Ignoring(UpdateHwmonChip(i, d)) ELSE Nothing)

EntryFails(i, d) ==
    (d.symlink /\ d.stat # "ok") \/ (IsChip(d) /\ UpdateHwmonChip(i, d).ret # "ok")

(* What Update returns is kept in one variable, which a later link, good   *)
(* or bad, overwrites: of a failure before it nothing is left.             *)
LastFailure(e) ==
    \E i \in DOMAIN e.items :
      EntryFails(i, e.items[i]) /\ \A j \in DOMAIN e.items : j > i => ~e.items[j].symlink

UpdateHwmon(e) ==
    Need(e.dir, {"notexist"})
      \bullet Loop([i \in DOMAIN e.items |-> HwmonEntry(i, e.items[i])])
      \bullet Check(~LastFailure(e), "error")

-----------------------------------------------------------------------------
(* perf.  One profiler of each kind for each CPU, started by the           *)
(* constructor; the flags choose among the profilers.                      *)

PerfHardware ==
    {"cpucycles_total", "instructions_total", "branch_instructions_total", "branch_misses_total",
     "cache_refs_total", "cache_misses_total", "ref_cpucycles_total",
     "stalled_cycles_backend_total", "stalled_cycles_frontend_total"}

PerfSoftware ==
    {"page_faults_total", "context_switches_total", "cpu_migrations_total", "minor_faults_total",
     "major_faults_total"}

PerfCache ==
    {"cache_l1d_read_hits_total", "cache_l1d_read_misses_total", "cache_l1d_write_hits_total",
     "cache_l1_instr_read_misses_total", "cache_tlb_instr_read_hits_total",
     "cache_tlb_instr_read_misses_total", "cache_ll_read_hits_total", "cache_ll_read_misses_total",
     "cache_ll_write_hits_total", "cache_ll_write_misses_total", "cache_bpu_read_hits_total",
     "cache_bpu_read_misses_total"}

(* The CPUs of a subset a-b:s of the flag.                                 *)
Stride(a, b, s) == {a + k * s : k \in {j \in 0..b : a + j * s <= b}}

PerfCPUFlagToCPUs(subsets) == UNION {Stride(r.start, r.end, r.stride) : r \in subsets}

(* The flags of hardware and software profilers are added to all of them;  *)
(* that of cache profilers replaces the default.                           *)
ChosenProfilers(e) ==
    [hardware |-> PerfHardware, software |-> PerfSoftware,
     cache    |-> IF e.cacheProfilers = {} THEN PerfCache ELSE PerfCache \cap e.cacheProfilers]

(* A kind of profiler with none that works is an error unless it is        *)
(* switched off; e.start is the outcome for each kind.                     *)
NewPerfCollector(e) ==
    Check(e.tracepoints = <<>> \/ e.start.tracepoint, "unbuilt")
      \bullet Check(\A kind \in e.kinds : e.start[kind], "unbuilt")

(* A counter that the CPU has not, or that was not started, is not sent.   *)
PerfStats(e, kind) ==
    IF kind \notin e.kinds THEN Nothing
    ELSE Loop([i \in DOMAIN e.items |->
                 Check(kind \notin e.items[i].fails, "error")
                   \bullet Send(Samples("perf", ChosenProfilers(e)[kind] \ e.items[i].missing,
                                        <<e.items[i].cpu>>, <<i>>))])

(* A tracepoint that the flag names twice is asked for twice.               *)
TracepointStats(e) ==
    Loop([i \in DOMAIN e.items |->
            Check("tracepoint" \notin e.items[i].fails, "error")
              \bullet Send({Sample(<<"perf", e.tracepoints[n]>>, <<e.items[i].cpu>>, <<i, "tracepoint", n>>) :
                              n \in DOMAIN e.tracepoints})])

UpdatePerf(e) ==
    NewPerfCollector(e)
      \bullet PerfStats(e, "hardware") \bullet PerfStats(e, "software") \bullet PerfStats(e, "cache")
      \bullet IF e.tracepoints = <<>> THEN Nothing ELSE TracepointStats(e)

-----------------------------------------------------------------------------
(* powersupplyclass, dmi: what a device does not give is left out, of the  *)
(* labels of its info too.                                                 *)

PowerSupplyValues ==
    {"authentic", "calibrate", "capacity", "capacity_alert_max", "capacity_alert_min", "cyclecount",
     "online", "present", "time_to_empty_seconds", "time_to_full_seconds",
     "current_boot", "current_max", "current_ampere", "energy_empty", "energy_empty_design",
     "energy_full", "energy_full_design", "energy_watthour", "voltage_boot", "voltage_max",
     "voltage_max_design", "voltage_min", "voltage_min_design", "voltage_volt", "voltage_ocv",
     "charge_control_limit", "charge_control_limit_max", "charge_counter", "charge_empty",
     "charge_empty_design", "charge_full", "charge_full_design", "charge_ampere",
     "charge_term_current", "constant_charge_current", "constant_charge_current_max",
     "constant_charge_voltage", "constant_charge_voltage_max", "precharge_current",
     "input_current_limit", "power_watt",
     "temp_celsius", "temp_alert_max_celsius", "temp_alert_min_celsius", "temp_ambient_celsius",
     "temp_ambient_max_celsius", "temp_ambient_min_celsius", "temp_max_celsius", "temp_min_celsius"}

PowerSupplyInfo ==
    {"capacity_level", "charge_type", "health", "manufacturer", "model_name", "serial_number",
     "status", "technology", "type", "usb_type", "scope"}

GetPowerSupplyClassInfo(e) == {i \in DOMAIN e.items : ~e.items[i].ignored}

UpdatePowerSupplyClass(e) ==
    Need(e.read, {"notexist"})
      \bullet Send(UNION {LET p == e.items[i] IN
                          Samples("power_supply", PowerSupplyValues \cap p.values, <<p.name>>, <<i>>)
                            \cup Samples("power_supply", {"info"},
                                         <<p.name, PowerSupplyInfo \cap p.texts>>, <<i>>) :
                          i \in GetPowerSupplyClassInfo(e)})

DMILabels ==
    {"bios_date", "bios_release", "bios_vendor", "bios_version", "board_asset_tag", "board_name",
     "board_serial", "board_vendor", "board_version", "chassis_asset_tag", "chassis_serial",
     "chassis_vendor", "chassis_version", "product_family", "product_name", "product_serial",
     "product_sku", "product_uuid", "product_version", "system_vendor"}

(* Read once, by the constructor.                                          *)
NewDMICollector(e) == Check(e.class \in {"ok", "notexist"}, "unbuilt")

UpdateDMI(e) ==
    LET labels == IF e.class = "ok" THEN DMILabels \cap e.texts ELSE {}
    IN  NewDMICollector(e)
          \bullet Check(labels # {}, "nodata")
          \bullet Send(Samples("dmi", {"info"}, <<labels>>, <<0>>))

-----------------------------------------------------------------------------
(* edac: two counts of each controller and what it cannot tell the row of, *)
(* then those of each row; any that cannot be read ends the Update.        *)

EdacCount(read, family, labels, of) ==
    Need(read, {}) \bullet Send({Sample(<<"edac", family>>, labels, of)})

UpdateEdac(e) ==
    LET row(i, c, r) ==
            EdacCount(r.ce, "csrow_correctable_errors_total", <<c.name, r.name>>, <<i, r.name>>)
              \bullet EdacCount(r.ue, "csrow_uncorrectable_errors_total", <<c.name, r.name>>, <<i, r.name>>)
        controller(i, c) ==
            EdacCount(c.ce, "correctable_errors_total", <<c.name>>, <<i>>)
              \bullet EdacCount(c.ceNoinfo, "csrow_correctable_errors_total", <<c.name, "unknown">>, <<i>>)
              \bullet EdacCount(c.ue, "uncorrectable_errors_total", <<c.name>>, <<i>>)
              \bullet EdacCount(c.ueNoinfo, "csrow_uncorrectable_errors_total", <<c.name, "unknown">>, <<i>>)
              \bullet Loop([k \in DOMAIN c.rows |-> row(i, c, c.rows[k])])
    IN  Loop([i \in DOMAIN e.items |-> controller(i, e.items[i])])

-----------------------------------------------------------------------------
(* rapl: a zone that may not be read ends the Update, as if there were no  *)
(* data, the zones before it sent.                                         *)

RaplSample(e, i) ==
    LET z == e.items[i]
    IN  IF e.zoneLabel THEN Sample(<<"rapl", "joules_total">>, <<z.index, z.path, z.name>>, <<i>>)
                       ELSE Sample(<<"rapl", z.name \o "_joules_total">>, <<z.index, z.path>>, <<i>>)

UpdateRapl(e) ==
    Need(e.zones, {"notexist", "permission"})
      \bullet Loop([i \in DOMAIN e.items |->
                Need(e.items[i].read, {"permission"}) \bullet Send({RaplSample(e, i)})])

-----------------------------------------------------------------------------
(* drm, thermal_zone, cpufreq, tapestats, nvme.                            *)

DrmFamilies ==
    {"gpu_busy_percent", "memory_gtt_size_bytes", "memory_gtt_used_bytes",
     "memory_vis_vram_size_bytes", "memory_vis_vram_used_bytes", "memory_vram_size_bytes",
     "memory_vram_used_bytes"}

UpdateDrm(e) ==
    Need(e.cards, {})
      \bullet Loop([i \in DOMAIN e.items |->
                Send(Samples("drm", {"card_info"}, <<e.items[i].name, e.items[i].vendor>>, <<i>>)
                       \cup Samples("drm", DrmFamilies, <<e.items[i].name>>, <<i>>))])

(* The zones are sent before the cooling devices are read, whose absence   *)
(* is an error.                                                            *)
UpdateThermalZone(e) ==
    Need(e.zones, {"notexist", "permission", "invalid"})
      \bullet Loop([i \in DOMAIN e.items |->
                Send(Samples("thermal_zone", {"temp"}, <<e.items[i].name, e.items[i].type>>, <<i>>))])
      \bullet Need(e.cooling, {})
      \bullet Send(UNION {Samples("cooling_device", {"cur_state", "max_state"}, <<d>>, <<0, d>>) :
                            d \in e.devices})

CPUFreqFamilies ==
    {"frequency_hertz", "frequency_min_hertz", "frequency_max_hertz", "scaling_frequency_hertz",
     "scaling_frequency_min_hertz", "scaling_frequency_max_hertz"}

AvailableGovernors(c) == c.governors

CPUFreqSamples(i, c) ==
    Samples("cpu", CPUFreqFamilies \cap c.given, <<c.name>>, <<i>>)
      \cup IF c.governor = "" THEN {}
           ELSE {Sample(<<"cpu", "scaling_governor">>, <<c.name, g>>, <<i, "state", g, g = c.governor>>) :
                   g \in AvailableGovernors(c)}

UpdateCPUFreq(e) ==
    Need(e.freqs, {}) \bullet Loop([i \in DOMAIN e.items |-> Send(CPUFreqSamples(i, e.items[i]))])

TapeFamilies ==
    {"io_now", "io_time_seconds_total", "io_others_total", "read_bytes_total",
     "reads_completed_total", "read_time_seconds_total", "written_bytes_total",
     "writes_completed_total", "write_time_seconds_total", "residual_total"}

UpdateTapestats(e) ==
    Need(e.tapes, {"notexist"})
      \bullet Loop([i \in DOMAIN e.items |->
                IF e.items[i].ignored THEN Nothing
                ELSE Send(Samples("tape", TapeFamilies, <<e.items[i].name>>, <<i>>))])

UpdateNVMe(e) ==
    Need(e.class, {"notexist"})
      \bullet Loop([i \in DOMAIN e.items |->
                Send(Samples("nvme", {"info"}, <<e.items[i].name, e.items[i].state>>, <<i>>))])

-----------------------------------------------------------------------------
(* fibrechannel, infiniband.  A counter the hardware does not have is not  *)
(* sent: its value is the greatest there is, or it has none.               *)

FibreChannelCounters ==
    {"dumped_frames_total", "loss_of_signal_total", "loss_of_sync_total", "rx_frames_total",
     "error_frames_total", "invalid_tx_words_total", "seconds_since_last_reset_total",
     "tx_words_total", "invalid_crc_total", "nos_total", "fcp_packet_aborts_total",
     "rx_words_total", "tx_frames_total", "link_failure_total"}

FibreChannelSamples(i, host) ==
    Samples("fibrechannel", {"info"}, <<host.name>>, <<i>>)
      \cup Samples("fibrechannel", FibreChannelCounters \ host.missing, <<host.name>>, <<i>>)

UpdateFibreChannel(e) ==
    Need(e.class, {"notexist"})
      \bullet Loop([i \in DOMAIN e.items |-> Send(FibreChannelSamples(i, e.items[i]))])

InfiniBandCounters ==
    {"legacy_multicast_packets_received_total", "legacy_multicast_packets_transmitted_total",
     "legacy_data_received_bytes_total", "legacy_packets_received_total",
     "legacy_unicast_packets_received_total", "legacy_unicast_packets_transmitted_total",
     "legacy_data_transmitted_bytes_total", "legacy_packets_transmitted_total",
     "excessive_buffer_overrun_errors_total", "link_downed_total", "link_error_recovery_total",
     "local_link_integrity_errors_total", "multicast_packets_received_total",
     "multicast_packets_transmitted_total", "port_constraint_errors_received_total",
     "port_constraint_errors_transmitted_total", "port_data_received_bytes_total",
     "port_data_transmitted_bytes_total", "port_discards_received_total",
     "port_discards_transmitted_total", "port_errors_received_total",
     "port_packets_received_total", "port_packets_transmitted_total", "port_transmit_wait_total",
     "unicast_packets_received_total", "unicast_packets_transmitted_total",
     "port_receive_remote_physical_errors_total", "port_receive_switch_relay_errors_total",
     "symbol_error_total", "vl15_dropped_total"}

InfiniBandSamples(i, d) ==
    Samples("infiniband", {"info"}, <<d.name>>, <<i>>)
      \cup UNION {Samples("infiniband",
                          {"state_id", "physical_state_id", "rate_bytes_per_second"}
                            \cup (InfiniBandCounters \ p.missing),
                          <<d.name, p.port>>, <<i, p.port>>) : p \in d.ports}

UpdateInfiniBand(e) ==
    Need(e.class, {"notexist"})
      \bullet Loop([i \in DOMAIN e.items |-> Send(InfiniBandSamples(i, e.items[i]))])
=============================================================================

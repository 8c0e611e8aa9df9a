------------------------------- MODULE Storage --------------------------------
(***************************************************************************)
(* The collectors of file systems and block devices on Linux: xfs, bcache, *)
(* btrfs, zfs, drbd, mdadm, diskstats and filesystem.                      *)
(***************************************************************************)
EXTENDS DeviceFilters

-----------------------------------------------------------------------------
(* xfs: the counters of each file system, by category.                     *)

XFSCounters ==
    [extent_allocation   |-> {"extents_allocated", "blocks_allocated", "extents_freed", "blocks_freed"},
     allocation_btree    |-> {"lookups", "compares", "records_inserted", "records_deleted"},
     block_mapping       |-> {"reads", "writes", "unmaps", "extent_list_insertions",
                              "extent_list_deletions", "extent_list_lookups", "extent_list_compares"},
     block_map_btree     |-> {"lookups", "compares", "records_inserted", "records_deleted"},
     directory_operation |-> {"lookup", "create", "remove", "getdents"},
     inode_operation     |-> {"attempts", "found", "recycled", "missed", "duplicates", "reclaims",
                              "attribute_changes"}]

XFSCalls ==
    [read |-> {"calls"}, write |-> {"calls"},
     vnode |-> {"active", "allocate", "get", "hold", "release", "reclaim", "remove"}]

UpdateXFSStats(i, s) ==
    LET of(table) ==
            UNION {{Sample(<<"xfs", c, n>>, <<s.name>>, <<i, c, n>>) : n \in table[c]} : c \in DOMAIN table}
    IN  of(XFSCounters) \cup of(XFSCalls)

UpdateXFS(e) ==
    Need(e.stats, {})
      \bullet Loop([i \in DOMAIN e.items |-> Send(UpdateXFSStats(i, e.items[i]))])

-----------------------------------------------------------------------------
(* bcache.  The period statistics leave out a counter newer kernels do not *)
(* have; priority statistics are read and sent only with the flag.         *)

BcachePeriodStatsToMetric(uuid, bdev, of) ==
    Samples("bcache",
            {"bypassed_bytes_total", "cache_hits_total", "cache_misses_total",
             "cache_bypass_hits_total", "cache_bypass_misses_total", "cache_miss_collisions_total"}
              \cup (IF bdev.readaheads # 0 THEN {"cache_readaheads_total"} ELSE {}),
            <<uuid, bdev.name>>, of)

BcacheFamilies ==
    {"average_key_size_sectors", "btree_cache_size_bytes", "cache_available_percent", "congested",
     "root_usage_percent", "tree_depth", "active_journal_entries", "btree_nodes",
     "btree_read_average_duration_seconds", "cache_read_races_total"}

BdevFamilies ==
    {"dirty_data_bytes", "dirty_target_bytes", "writeback_rate",
     "writeback_rate_proportional_term", "writeback_rate_integral_term", "writeback_change"}

CacheFamilies(priorityStats) ==
    {"io_errors", "metadata_written_bytes_total", "written_bytes_total"}
      \cup (IF priorityStats THEN {"priority_stats_unused_percent", "priority_stats_metadata_percent"}
                             ELSE {})

UpdateBcacheStats(i, s, priorityStats) ==
    Samples("bcache", BcacheFamilies, <<s.name>>, <<i>>)
      \cup (UNION {Samples("bcache", BdevFamilies, <<s.name, b.name>>, <<i, "bdev", b.name>>)
                    \cup BcachePeriodStatsToMetric(s.name, b, <<i, "bdev", b.name>>) : b \in s.bdevs})
      \cup UNION {Samples("bcache", CacheFamilies(priorityStats), <<s.name, c>>, <<i, "cache", c>>) :
                    c \in s.caches}

UpdateBcache(e) ==
    Need(e.stats, {})
      \bullet Loop([i \in DOMAIN e.items |->
                      Send(UpdateBcacheStats(i, e.items[i], e.priorityStats))])

-----------------------------------------------------------------------------
(* btrfs.  Sizes and errors of devices come from ioctls on a mount point   *)
(* of the file system; when no mount point answers, sizes come from sysfs. *)

(* The devices with an ID up to MaxID, until NumDevices are found; an ID   *)
(* that is not used is passed over, any other failure ends the search.     *)
GetIoctlDeviceStats(m) ==
    LET found(n) == {id \in DOMAIN m.ids : id <= n /\ m.ids[id] = "ok"}
        scanned  == {n \in DOMAIN m.ids : Cardinality(found(n - 1)) # m.numDevices}
    IN  IF \E n \in scanned : m.ids[n] = "error" THEN [failed |-> TRUE]
        ELSE [failed |-> FALSE, devices |-> {n \in scanned : m.ids[n] = "ok"}]

(* Can this mount point be used?  Only btrfs is opened.                    *)
Answers(m) ==
    /\ m.fsType = "btrfs" /\ m.open = "ok" /\ m.info = "ok"
    /\ ~GetIoctlDeviceStats(m).failed

(* The mount points that are used: the first to answer of each device and  *)
(* each file system, in the order of the mounts.                           *)
Used(mounts) ==
    LET used[n \in 0..Len(mounts)] ==
            IF n = 0 THEN {}
            ELSE used[n - 1] \cup
                   {k \in {n} : /\ Answers(mounts[n])
                               /\ \A j \in used[n - 1] : /\ mounts[j].device # mounts[n].device
                                                        /\ mounts[j].uuid # mounts[n].uuid}
    IN  used[Len(mounts)]

(* The mount point each file system's devices are taken from, by its UUID. *)
GetIoctlStats(mounts) ==
    [u \in {mounts[n].uuid : n \in Used(mounts)} |-> mounts[CHOOSE n \in Used(mounts) : mounts[n].uuid = u]]

GetLayoutStats(i, s, a, layout) ==
    Samples("btrfs", {"used_bytes", "size_bytes", "allocation_ratio"}, <<s.uuid, a, layout>>,
            <<i, a, layout>>)

GetAllocationStats(i, s, a) ==
    Samples("btrfs", {"reserved_bytes"}, <<s.uuid, a>>, <<i, a>>)
      \cup UNION {GetLayoutStats(i, s, a, layout) : layout \in s.layouts}

BtrfsIoctlMetrics(i, s, dev) ==
    Samples("btrfs", {"device_size_bytes", "device_unused_bytes"}, <<s.uuid, dev>>, <<i, dev>>)
      \cup {Sample(<<"btrfs", "device_errors_total">>, <<s.uuid, t, dev>>, <<i, dev, t>>) :
              t \in {"write", "read", "flush", "corruption", "generation"}}

GetBtrfsMetrics(i, s, ioctlStats) ==
    Samples("btrfs", {"info"}, <<s.uuid, s.label>>, <<i>>)
      \cup Samples("btrfs", {"global_rsv_size_bytes"}, <<s.uuid>>, <<i>>)
      \cup (UNION {GetAllocationStats(i, s, a) : a \in {"data", "metadata", "system"}})
      \cup IF s.uuid \in DOMAIN ioctlStats
           THEN UNION {BtrfsIoctlMetrics(i, s, d) :
                         d \in GetIoctlDeviceStats(ioctlStats[s.uuid]).devices}
           ELSE UNION {Samples("btrfs", {"device_size_bytes"}, <<s.uuid, d>>, <<i, d>>) :
                         d \in s.devices}

UpdateBtrfs(e) ==
    LET ioctlStats == GetIoctlStats(IF e.mountPoints = "ok" THEN e.mounts ELSE <<>>)
    IN  Need(e.stats, {})
          \bullet Loop([i \in DOMAIN e.items |-> Send(GetBtrfsMetrics(i, e.items[i], ioctlStats))])

-----------------------------------------------------------------------------
(* zfs.  A line of a kstat file is its header, a value, the name of a      *)
(* dataset, or too short to be any.                                        *)

ZFSSubsystems ==
    {"zfs_abd", "zfs_arc", "zfs_dbuf", "zfs_dmu_tx", "zfs_dnode", "zfs_fm", "zfs_vdev_cache",
     "zfs_vdev_mirror", "zfs_xuio", "zfs_zfetch", "zfs_zil"}

(* Lines count after the first header; numbers of other types are passed   *)
(* over; without a header the file is in error.                            *)
ParseKstat(lines, types, body) ==
    LET headers == {n \in DOMAIN lines : lines[n].kind = "header"}
        counts(n) == n > FirstOf(headers) /\ lines[n].kind = "value" /\ lines[n].type \in types
    IN  IF headers = {} THEN Return("error")
        ELSE Loop([n \in DOMAIN lines |->
                     IF ~counts(n) THEN Nothing
                     ELSE IF lines[n].parses THEN Send(body[n]) ELSE Return("error")])

ParseProcfsFile(subsystem, lines) ==
    ParseKstat(lines, {"int64", "uint64"},
               [n \in DOMAIN lines |-> Samples(subsystem, {lines[n].name}, <<>>, <<0, subsystem>>)])

(* Every number of a row by the name above it: a row that is too short is  *)
(* indexed out of range.                                                   *)
ParsePoolProcfsFile(i, pool, io) ==
    LET number(row, k) ==
            IF k > Len(row) THEN Return("panic")
            ELSE IF row[k] = "num"
                 THEN Send(Samples("zfs_zpool", {io.fields[k]}, <<pool>>, <<i>>))
                 ELSE Return("error")
    IN  Loop([r \in DOMAIN io.rows |->
                Loop([k \in DOMAIN io.fields |-> number(io.rows[r], k)])])

(* The samples of a dataset are of the last name before them.              *)
ParsePoolObjsetFile(i, pool, lines) ==
    LET names(n) == {m \in 1..n : lines[m].kind = "dataset"}
        dataset(n) == IF names(n) = {} THEN "" ELSE
                        lines[CHOOSE m \in names(n) : \A k \in names(n) : k <= m].name
        labels(n) == IF names(n) = {} THEN <<"", "">> ELSE <<pool, dataset(n)>>
    IN  ParseKstat(lines, {"uint64"},
                   [n \in DOMAIN lines |->
                      Samples("zfs_zpool_dataset", {lines[n].name}, labels(n), <<i, "dataset", dataset(n)>>)])

ZFSPoolStates == {"online", "degraded", "faulted", "offline", "removed", "unavail", "suspended"}

ParsePoolStateFile(i, pool, state) ==
    Send({Sample(<<"zfs_zpool", "state">>, <<pool, s>>, <<i, "state", s, s = state>>) :
            s \in ZFSPoolStates})

OpenProcFile(outcome) == Check(outcome = "ok", "error")

(* A file that is not there is passed over: its module or feature may not  *)
(* be.  Whatever else fails in it ends the Update.                         *)
UpdateZFSStats(subsystem, file) ==
    IF file.open # "ok" THEN Nothing ELSE ParseProcfsFile(subsystem, file.lines)

(* Three passes over the pools.  A file of a pool that has gone since they *)
(* were listed ends the Update with errZFSNotAvailable.                    *)
UpdatePoolStats(pools) ==
    Loop([i \in DOMAIN pools |->
            OpenProcFile(pools[i].io.open)
              \bullet ParsePoolProcfsFile(i, pools[i].name, pools[i].io)])
      \bullet Loop([i \in DOMAIN pools |->
                Loop([k \in DOMAIN pools[i].objsets |->
                        OpenProcFile(pools[i].objsets[k].open)
                          \bullet ParsePoolObjsetFile(i, pools[i].name, pools[i].objsets[k].lines)])])
      \bullet Loop([i \in DOMAIN pools |->
                OpenProcFile(pools[i].state.open)
                  \bullet ParsePoolStateFile(i, pools[i].name, pools[i].state.name)])

(* Only a base directory that does not open is taken for no ZFS at all.    *)
UpdateZFS(e) ==
    Need(e.base, Outcomes)
      \bullet Loop([k \in DOMAIN e.files |-> UpdateZFSStats(e.files[k].subsystem, e.files[k])])
      \bullet UpdatePoolStats(e.items)

-----------------------------------------------------------------------------
(* drbd: /proc/drbd word by word.                                          *)

DRBDNumerical ==
    [ns |-> "network_sent_bytes_total", nr |-> "network_received_bytes_total",
     dw |-> "disk_written_bytes_total", dr |-> "disk_read_bytes_total",
     al |-> "activitylog_writes_total", bm |-> "bitmap_writes_total", lo |-> "local_pending",
     pe |-> "remote_pending", ua |-> "remote_unacknowledged", ap |-> "application_pending",
     ep |-> "epochs", oos |-> "out_of_sync_bytes"]

DRBDStringPair == [ro |-> "node_role_is_primary", ds |-> "disk_state_is_up_to_date"]

DeviceWords(words, n) == {m \in 1..n : words[m].key = "device"}

(* The device a word is about: that of the last device word so far.        *)
DRBDDevice(words, n) ==
    LET heads == DeviceWords(words, n)
    IN  IF heads = {} THEN "unknown"
        ELSE words[CHOOSE m \in heads : \A k \in heads : k <= m].id

(* One word.  A number that does not parse ends the Update; a pair without *)
(* its second half is indexed out of range; other words are passed over.   *)
DRBDWord(words, n) ==
    LET w == words[n]
        device == DRBDDevice(words, n)
        role(k, node) == Sample(<<"drbd", DRBDStringPair[w.key]>>, <<device, node>>, <<n, w.values[k]>>)
    IN  CASE w.key \in DOMAIN DRBDNumerical ->
               IF w.parses
               THEN Send({Sample(<<"drbd", DRBDNumerical[w.key]>>, <<device>>, <<n>>)})
               ELSE Return("error")
          [] w.key \in DOMAIN DRBDStringPair ->
               Send({role(1, "local")})
                 \bullet Check(Len(w.values) >= 2, "panic")
                 \bullet Send({role(2, "remote")})
          [] w.key = "cs" -> Send({Sample(<<"drbd", "connected">>, <<device>>, <<n>>)})
          [] OTHER -> Nothing

UpdateDRBD(e) ==
    Need(e.file, {"notexist"}) \bullet Loop([n \in DOMAIN e.words |-> DRBDWord(e.words, n)])

-----------------------------------------------------------------------------
(* mdadm: the state of an array is spread over five samples of one family. *)

MdStates ==
    [active |-> "active", inactive |-> "inactive", recovering |-> "recovering",
     resync |-> "resyncing", check |-> "checking"]

MdSamples(i, md) ==
    Samples("md", {"disks_required", "blocks", "blocks_synced"}, <<md.name>>, <<i>>)
      \cup {Sample(<<"md", "disks">>, <<md.name, s>>, <<i, s>>) : s \in {"active", "failed", "spare"}}
      \cup {Sample(<<"md", "state">>, <<md.name, s>>, <<i, "state", MdStates[s] = md.activity>>) :
              s \in DOMAIN MdStates}

UpdateMdadm(e) ==
    Need(e.mdstat, {"notexist"})
      \bullet Loop([i \in DOMAIN e.items |-> Send(MdSamples(i, e.items[i]))])

-----------------------------------------------------------------------------
(* diskstats.  /proc/diskstats has 11, 15 or 17 numbers to a line, by the  *)
(* kernel; udev's properties of a device may be missing; "df -i" is parsed *)
(* row by row.                                                             *)

DiskDescs ==
    <<"reads_completed_total", "reads_merged_total", "read_bytes_total", "read_time_seconds_total",
      "writes_completed_total", "writes_merged_total", "written_bytes_total",
      "write_time_seconds_total", "io_now", "io_time_seconds_total",
      "io_time_weighted_seconds_total", "discards_completed_total", "discards_merged_total",
      "discarded_sectors_total", "discard_time_seconds_total", "flush_requests_total",
      "flush_requests_time_seconds_total">>

DiskInfoDescs ==
    [filesystem |-> "filesystem_info", deviceMapper |-> "device_mapper_info",
     ata |-> {"ata_write_cache", "ata_write_cache_enabled", "ata_rotation_rate_rpm"},
     inode |-> <<"inodes_total", "inode_used", "inode_free">>]

(* A property that is not there reads as the empty string.                 *)
GetUdevDeviceProperties(d) ==
    IF d.udev # "ok" THEN [p \in DOMAIN d.properties |-> ""] ELSE d.properties

Serial(info) == IF info.scsiSerial # "" THEN info.scsiSerial ELSE info.serialShort

DiskSamples(i, d) ==
    LET info == GetUdevDeviceProperties(d)
        ata == {a \in DiskInfoDescs.ata : info.ata # "" /\ d.udev = "ok" /\ a \in d.ataNumbers}
    IN  {Sample(<<"disk", "info">>, <<d.name, Serial(info)>>, <<i>>)}
          \cup Samples("disk", {DiskDescs[n] : n \in 1..(d.ioStatsCount - 3)}, <<d.name>>, <<i>>)
          \cup (IF info.fsType = "" THEN {} ELSE
                 {Sample(<<"disk", DiskInfoDescs.filesystem>>, <<d.name, info.fsType>>, <<i>>)})
          \cup (IF info.dmName = "" THEN {} ELSE
                 {Sample(<<"disk", DiskInfoDescs.deviceMapper>>, <<d.name, info.dmName>>, <<i>>)})
          \cup Samples("disk", ata, <<d.name>>, <<i>>)

(* A row replaces an earlier one of the same device.                       *)
ParseDiskInode(rows) ==
    [dev \in {rows[n].device : n \in DOMAIN rows} |->
       rows[CHOOSE n \in DOMAIN rows :
              /\ rows[n].device = dev
              /\ \A k \in DOMAIN rows : rows[k].device = dev => k <= n].columns]

(* Three numbers of a row; one that does not parse ends the Update, with   *)
(* all the disks sent.  The rows, in a map, come in any order: e.order.    *)
InodeSamples(dev, columns) ==
    Loop([n \in 1..(IF Len(columns) < 3 THEN Len(columns) ELSE 3) |->
            IF columns[n] = "num"
            THEN Send({Sample(<<"disk", DiskInfoDescs.inode[n]>>, <<dev>>, <<0, dev, n>>)})
            ELSE Return("error")])

UpdateDiskstats(e) ==
    LET filter == NewDiskstatsDeviceFilter(e.flags)
        inodes == ParseDiskInode(e.rows)
        skips(dev) == dev \notin DOMAIN inodes \/ dev \in e.ignoredDevices
    IN  Check(filter.built, "unbuilt")
          \bullet Need(e.diskstats, {})
          \bullet Loop([i \in DOMAIN e.items |->
                    IF Ignored(filter, e.items[i].name) THEN Nothing
                    ELSE Send(DiskSamples(i, e.items[i]))])
          \bullet Need(e.df, {})
          \bullet Loop([n \in DOMAIN e.order |->
                    IF skips(e.order[n]) THEN Nothing
                    ELSE InodeSamples(e.order[n], inodes[e.order[n]])])

-----------------------------------------------------------------------------
(* filesystem, where every statfs returns: Filesystem has those that do    *)
(* not.  Entries that are the same in everything, options included, are    *)
(* sent once.                                                              *)

FilesystemLabels(m) == <<m.device, m.mountPoint, m.fsType, m.options>>

FilesystemSamples(i, m) ==
    Samples("filesystem",
            {"device_error"} \cup IF m.statfs # "ok" THEN {}
                                  ELSE {"size_bytes", "free_bytes", "avail_bytes", "files", "files_free", "readonly"},
            SubSeq(FilesystemLabels(m), 1, 3), <<i>>)

UpdateFilesystem(e) ==
    LET filter == NewFilesystemCollector(e.flags)
        seen(i) == \E j \in 1..(i - 1) : FilesystemLabels(e.items[j]) = FilesystemLabels(e.items[i])
    IN  Check(filter.built, "unbuilt")
          \bullet Need(e.mounts, {})
          \bullet Loop([i \in DOMAIN e.items |->
                    IF e.items[i].mountPoint \in filter.points \/ e.items[i].fsType \in filter.types \/ seen(i)
                    THEN Nothing ELSE Send(FilesystemSamples(i, e.items[i]))])
=============================================================================

--------------------------------- MODULE NFS ----------------------------------
(***************************************************************************)
(* The collectors of NFS on Linux: nfs (the client's calls), nfsd (the     *)
(* server's) and mountstats (each NFS mount).                              *)
(***************************************************************************)
EXTENDS Collection

-----------------------------------------------------------------------------
(* nfs and nfsd.  The client counts whatever procedures the library knows  *)
(* of, e.procedures, by their version; the server lists them itself.       *)

NetworkStats(subsystem) ==
    {Sample(<<subsystem, "packets_total">>, <<proto>>, <<0, proto>>) : proto \in {"udp", "tcp"}}
      \cup Samples(subsystem, {"connections_total"}, <<>>, <<0>>)

ClientRPCStats ==
    Samples("nfs", {"rpcs_total", "rpc_retransmissions_total", "rpc_authentication_refreshes_total"},
            <<>>, <<0>>)

RequestsStats(subsystem, version, methods) ==
    {Sample(<<subsystem, "requests_total">>, <<version, method>>, <<0, version, method>>) :
       method \in methods}

UpdateNFS(e) ==
    Need(e.stats, {"notexist"})
      \bullet Send(NetworkStats("nfs"))
      \bullet Send(ClientRPCStats)
      \bullet Loop([k \in DOMAIN e.procedures |->
                Send(RequestsStats("nfs", e.procedures[k].version, e.procedures[k].methods))])

ReplyCacheStats ==
    Samples("nfsd", {"reply_cache_hits_total", "reply_cache_misses_total",
                     "reply_cache_nocache_total"}, <<>>, <<0>>)

FileHandlesStats == Samples("nfsd", {"file_handles_stale_total"}, <<>>, <<0>>)

InputOutputStats ==
    Samples("nfsd", {"disk_bytes_read_total", "disk_bytes_written_total"}, <<>>, <<0>>)

ThreadsStats == Samples("nfsd", {"server_threads"}, <<>>, <<0>>)

ReadAheadCacheStats ==
    Samples("nfsd", {"read_ahead_cache_size_blocks", "read_ahead_cache_not_found_total"}, <<>>, <<0>>)

ServerRPCStats ==
    {Sample(<<"nfsd", "rpc_errors_total">>, <<error>>, <<0, error>>) : error \in {"fmt", "auth", "cInt"}}
      \cup Samples("nfsd", {"server_rpcs_total"}, <<>>, <<0>>)

V2Stats ==
    {"GetAttr", "SetAttr", "Root", "Lookup", "ReadLink", "Read", "WrCache", "Write", "Create",
     "Remove", "Rename", "Link", "SymLink", "MkDir", "RmDir", "ReadDir", "FsStat"}

V3Stats ==
    {"GetAttr", "SetAttr", "Lookup", "Access", "ReadLink", "Read", "Write", "Create", "MkDir",
     "SymLink", "MkNod", "Remove", "RmDir", "Rename", "Link", "ReadDir", "ReadDirPlus", "FsStat",
     "FsInfo", "PathConf", "Commit"}

V4Stats ==
    {"Access", "Close", "Commit", "Create", "DelegPurge", "DelegReturn", "GetAttr", "GetFH", "Link",
     "Lock", "Lockt", "Locku", "Lookup", "LookupRoot", "Nverify", "Open", "OpenAttr", "OpenConfirm",
     "OpenDgrd", "PutFH", "Read", "ReadDir", "ReadLink", "Remove", "Rename", "Renew", "RestoreFH",
     "SaveFH", "SecInfo", "SetAttr", "Verify", "Write", "RelLockOwner"}

UpdateNFSd(e) ==
    Need(e.stats, {"notexist"})
      \bullet Send(ReplyCacheStats \cup FileHandlesStats \cup InputOutputStats \cup ThreadsStats
                     \cup ReadAheadCacheStats \cup NetworkStats("nfsd") \cup ServerRPCStats
                     \cup RequestsStats("nfsd", "2", V2Stats) \cup RequestsStats("nfsd", "3", V3Stats)
                     \cup RequestsStats("nfsd", "4", V4Stats))

-----------------------------------------------------------------------------
(* mountstats.  The statistics of the mounts and their addresses come from *)
(* two files read one after the other, paired by position.  m.mount is the *)
(* mount a record is of.                                                   *)

NFSBytes ==
    {"read_bytes_total", "write_bytes_total", "direct_read_bytes_total", "direct_write_bytes_total",
     "total_read_bytes_total", "total_write_bytes_total", "read_pages_total", "write_pages_total"}

NFSTransport ==
    {"transport_bind_total", "transport_connect_total", "transport_idle_time_seconds",
     "transport_sends_total", "transport_receives_total", "transport_bad_transaction_ids_total",
     "transport_backlog_queue_total", "transport_maximum_rpc_slots",
     "transport_sending_queue_total", "transport_pending_queue_total"}

NFSOperations ==
    {"operations_requests_total", "operations_transmissions_total",
     "operations_major_timeouts_total", "operations_sent_bytes_total",
     "operations_received_bytes_total", "operations_queue_time_seconds_total",
     "operations_response_time_seconds_total", "operations_request_time_seconds_total"}

NFSEvents ==
    {"event_inode_revalidate_total", "event_dnode_revalidate_total", "event_data_invalidate_total",
     "event_attribute_invalidate_total", "event_vfs_open_total", "event_vfs_lookup_total",
     "event_vfs_access_total", "event_vfs_update_page_total", "event_vfs_read_page_total",
     "event_vfs_read_pages_total", "event_vfs_write_page_total", "event_vfs_write_pages_total",
     "event_vfs_getdents_total", "event_vfs_setattr_total", "event_vfs_flush_total",
     "event_vfs_fsync_total", "event_vfs_lock_total", "event_vfs_file_release_total",
     "event_truncation_total", "event_write_extension_total", "event_silly_rename_total",
     "event_short_read_total", "event_short_write_total", "event_jukebox_delay_total",
     "event_pnfs_read_total", "event_pnfs_write_total"}

NFSOperationStats(m, labels) ==
    UNION {Samples("mountstats_nfs", NFSOperations, Append(labels, op), <<m.mount, op>>) :
             op \in m.operations}

NFSEventStats(m, labels) == Samples("mountstats_nfs", NFSEvents, labels, <<m.mount>>)

UpdateNFSStats(m, labels) ==
    Samples("mountstats_nfs", {"age_seconds_total"} \cup NFSBytes \cup NFSTransport, labels, <<m.mount>>)
      \cup NFSOperationStats(m, labels)
      \cup NFSEventStats(m, labels)

MountAddress(e, n) == IF n \in DOMAIN e.mountsInfo THEN e.mountsInfo[n].addr ELSE ""

(* Mutant: the address does not tell mounts apart.                         *)
DeviceAndProtocol(e, n) == <<e.mounts[n].device, e.mounts[n].protocol>>

DeviceIdentifier(e, n) ==
    <<e.mounts[n].device, e.mounts[n].protocol, MountAddress(e, n)>>

(* A mount is passed over that has the identifier of an earlier one.       *)
UpdateMountStats(e) ==
    LET duplicate(n) == \E k \in 1..n - 1 :
                          e.mounts[k].nfs /\ DeviceIdentifier(e, k) = DeviceIdentifier(e, n)
        labels(n) == <<e.mounts[n].device, e.mounts[n].protocol, MountAddress(e, n)>>
    IN  Check(e.self = "ok", "unbuilt")
          \bullet Need(e.mountStats, {})
          \bullet Need(e.mountInfo, {})
          \bullet Loop([n \in DOMAIN e.mounts |->
                    IF ~e.mounts[n].nfs \/ duplicate(n) THEN Nothing
                    ELSE Send(UpdateNFSStats(e.mounts[n], labels(n)))])
=============================================================================

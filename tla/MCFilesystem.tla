---------------------------- MODULE MCFilesystem ----------------------------
(* Mount tables for TLC.                                                   *)
EXTENDS Filesystem

Mount(d, p, t, o) == [device |-> d, mountPoint |-> p, fsType |-> t, options |-> o]

Root == Mount("sda", "/", "ext4", "rw")
Nfs == Mount("srv", "/nfs", "nfs", "rw")
Proc == Mount("proc", "/proc", "proc", "rw")

MCMounts == {Root, Nfs, Proc}

OK(lines) == [status |-> "ok", lines |-> lines]
Absent == [status |-> "absent", lines |-> <<>>]
Denied == [status |-> "denied", lines |-> <<>>]

Visible(lines) == [proc1 |-> OK(lines), own |-> OK(lines)]

(* A hidden /proc/1, an unreadable one, a broken line, one mount in two    *)
(* lines, and an NFS mount after, before, or in place of, a local one.     *)
MCProcFiles ==
    {Visible(<<Proc, Nfs>>), Visible(<<Root, Root>>),
     Visible(<<Nfs, Malformed>>),
     [proc1 |-> Absent, own |-> OK(<<Nfs, Root>>)],
     [proc1 |-> Denied, own |-> OK(<<Root>>)]}
=============================================================================

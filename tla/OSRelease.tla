----------------------------- MODULE OSRelease -----------------------------
(***************************************************************************)
(* The os collector (os_release.go): a scrape opens the first os-release   *)
(* file there is and parses it again when its name or modification time is *)
(* not the cached one.  The cache is written under osMutex, but Update     *)
(* reads it without.  Meanwhile files are rewritten, replaced and removed. *)
(***************************************************************************)
EXTENDS Integers, Sequences

CONSTANTS
    NPaths,         \* length of osReleaseFilenames
    Plists,         \* those that are SystemVersion.plist files
    Names, NoName,  \* names of releases, and that of a blank one
    Contents,       \* contents a file may have
    Scrapes,
    MaxFloat,       \* the highest version number ParseFloat accepts
    MaxWrites       \* bound on the number of writes to files

(* A release has a name, which stands for all its labels, and the number   *)
(* its VERSION_ID starts with, 0 if none.  A content is the release it is  *)
(* parsed to and the call that fails on it, if any.                        *)
Release == [name : Names, number : Nat]
Blank == [name |-> NoName, number |-> 0]
Content == [release : Release, fails : {"no", "open", "parse"}]

ASSUME PathsAssumption == NPaths \in Nat \ {0}
ASSUME BoundsAssumption == MaxWrites \in Nat /\ MaxFloat \in Nat
ASSUME ContentsAssumption ==
    /\ NoName \in Names /\ Contents \subseteq Content
    /\ \A c \in Contents : c.fails # "no" => c.release = Blank

Paths == 1..NPaths

VARIABLES
    dir,            \* the inode each path names, 0 for none
    inodes,         \* modification time and content of each inode
    clock,          \* modification time of the last write
    pc, at,         \* where each scrape is, and at which path
    ino, mtime,     \* the file it has open and the mtime it read of it
    mutex,          \* the holders of the write lock
    osFilename, osMtime, os, version,       \* the cache
    out             \* what each scrape has exposed

files == <<dir, inodes, clock>>
cache == <<mutex, osFilename, osMtime, os, version>>
local == <<at, ino, mtime>>
vars == <<files, pc, local, cache, out>>

(* The labels of node_os_info, the value of node_os_version and the labels *)
(* of that; value 0 if it is not exposed.                                  *)
Exposed == [info : Release, value : 0..(MaxFloat + 1), labels : Release]
Nothing == [info |-> Blank, value |-> 0, labels |-> Blank]

Init ==
    /\ inodes \in {<<>>} \cup {<<[mtime |-> 1, content |-> c]>> : c \in Contents}
    /\ clock = Len(inodes)
    /\ dir \in [Paths -> 0..Len(inodes)]
    /\ \A p, q \in Paths : dir[p] = dir[q] => dir[p] = 0 \/ p = q
    /\ pc = [s \in Scrapes |-> "idle"]
    /\ at = [s \in Scrapes |-> 1]
    /\ ino = [s \in Scrapes |-> 0]
    /\ mtime = [s \in Scrapes |-> 0]
    /\ mutex = {}
    /\ osFilename = 0 /\ osMtime = 0 /\ os = Blank /\ version = 0
    /\ out = [s \in Scrapes |-> Nothing]

-----------------------------------------------------------------------------
(* Files change; every write has a modification time of its own.           *)

Written(c) == [mtime |-> clock + 1, content |-> c]

Rewrite(p, c) ==
    /\ clock < MaxWrites /\ dir[p] # 0
    /\ inodes' = [inodes EXCEPT ![dir[p]] = Written(c)]
    /\ clock' = clock + 1
    /\ UNCHANGED <<dir, pc, local, cache, out>>

Replace(p, c) ==
    /\ clock < MaxWrites
    /\ inodes' = Append(inodes, Written(c))
    /\ dir' = [dir EXCEPT ![p] = Len(inodes) + 1]
    /\ clock' = clock + 1
    /\ UNCHANGED <<pc, local, cache, out>>

Remove(p) ==
    /\ dir[p] # 0
    /\ dir' = [dir EXCEPT ![p] = 0]
    /\ UNCHANGED <<inodes, clock, pc, local, cache, out>>

-----------------------------------------------------------------------------
(* UpdateStruct and Update.                                                *)

Goto(s, label) == pc' = [pc EXCEPT ![s] = label]

Begin(s) ==
    /\ pc[s] \in {"idle", "done"}
    /\ Goto(s, "open")
    /\ at' = [at EXCEPT ![s] = 1]
    /\ out' = [out EXCEPT ![s] = Nothing]
    /\ UNCHANGED <<files, ino, mtime, cache>>

(* Mutant: the index is compared with the length.                          *)
AfterLast(s) == at[s] > NPaths

Last(s) == at[s] >= NPaths

(* The file does not exist: the next one is tried, or there is no data.    *)
NotExist(s) ==
    /\ pc[s] = "open" /\ dir[at[s]] = 0
    /\ IF Last(s)
       THEN Goto(s, "idle") /\ UNCHANGED at
       ELSE at' = [at EXCEPT ![s] = @ + 1] /\ UNCHANGED pc
    /\ UNCHANGED <<files, ino, mtime, cache, out>>

OpenFails(s) ==
    /\ pc[s] = "open" /\ dir[at[s]] # 0
    /\ inodes[dir[at[s]]].content.fails = "open"
    /\ Goto(s, "idle")
    /\ UNCHANGED <<files, local, cache, out>>

(* Stat goes to the open file: a write between the two calls is as one     *)
(* before both.                                                            *)
OpenStat(s) ==
    /\ pc[s] = "open" /\ dir[at[s]] # 0
    /\ inodes[dir[at[s]]].content.fails # "open"
    /\ ino' = [ino EXCEPT ![s] = dir[at[s]]]
    /\ mtime' = [mtime EXCEPT ![s] = inodes[dir[at[s]]].mtime]
    /\ Goto(s, "check")
    /\ UNCHANGED <<files, at, cache, out>>

(* Mutant: a file once parsed is not looked at again.                      *)
UpToDateByName(s) == at[s] = osFilename

UpToDate(s) == at[s] = osFilename /\ mtime[s] = osMtime

Check(s) ==
    /\ pc[s] = "check" /\ mutex = {}
    /\ Goto(s, IF UpToDate(s) THEN "info" ELSE "lock")
    /\ UNCHANGED <<files, local, cache, out>>

(* Mutant: the modification time is read by name again under the lock.     *)
StampByName(s) == IF dir[at[s]] = 0 THEN mtime[s] ELSE inodes[dir[at[s]]].mtime

Stamp(s) == mtime[s]

Lock(s) ==
    /\ pc[s] = "lock" /\ mutex = {}
    /\ mutex' = {s}
    /\ osFilename' = at[s]
    /\ osMtime' = Stamp(s)
    /\ Goto(s, "parse")
    /\ UNCHANGED <<files, local, os, version, out>>

(* An os-release file is read through the open file, a plist by its name.  *)
(* What cannot be opened or parsed makes a blank release and an error.     *)
Read(s) == IF at[s] \in Plists THEN dir[at[s]] ELSE ino[s]

Malformed(s) == Read(s) = 0 \/ inodes[Read(s)].content.fails # "no"

Parsed(s) == IF Malformed(s) THEN Blank ELSE inodes[Read(s)].content.release

(* The error return leaves the new name, time and release in the cache.    *)
Parse(s) ==
    /\ pc[s] = "parse"
    /\ os' = Parsed(s)
    /\ IF Malformed(s) THEN Goto(s, "idle") /\ mutex' = {}
                        ELSE Goto(s, "version") /\ UNCHANGED mutex
    /\ UNCHANGED <<files, local, osFilename, osMtime, version, out>>

(* A number out of range is parsed to infinity, with an error.             *)
VersionOf(r) == IF r.number > MaxFloat THEN MaxFloat + 1 ELSE r.number

SetVersion(s) ==
    /\ pc[s] = "version"
    /\ version' = VersionOf(os)
    /\ mutex' = {}
    /\ Goto(s, IF os.number > MaxFloat THEN "idle" ELSE "info")
    /\ UNCHANGED <<files, local, osFilename, osMtime, os, out>>

(* The metrics are made from the cache field by field, without the mutex.  *)
SendInfo(s) ==
    /\ pc[s] = "info"
    /\ out' = [out EXCEPT ![s].info = os]
    /\ Goto(s, "test")
    /\ UNCHANGED <<files, local, cache>>

TestVersion(s) ==
    /\ pc[s] = "test"
    /\ Goto(s, IF version > 0 THEN "value" ELSE "done")
    /\ UNCHANGED <<files, local, cache, out>>

ReadValue(s) ==
    /\ pc[s] = "value"
    /\ out' = [out EXCEPT ![s].value = version]
    /\ Goto(s, "labels")
    /\ UNCHANGED <<files, local, cache>>

SendVersion(s) ==
    /\ pc[s] = "labels"
    /\ out' = [out EXCEPT ![s].labels = os]
    /\ Goto(s, "done")
    /\ UNCHANGED <<files, local, cache>>

-----------------------------------------------------------------------------
Write == \E p \in Paths :
            \/ \E c \in Contents : Rewrite(p, c) \/ Replace(p, c)
            \/ Remove(p)

Scrape(s) ==
    \/ Begin(s) \/ NotExist(s) \/ OpenFails(s) \/ OpenStat(s) \/ Check(s)
    \/ Lock(s) \/ Parse(s) \/ SetVersion(s)
    \/ SendInfo(s) \/ TestVersion(s) \/ ReadValue(s) \/ SendVersion(s)

Next == Write \/ \E s \in Scrapes : Scrape(s)

Spec == Init /\ [][Next]_vars

(* Prometheus scrapes again and again, and no scrape stops half-way.       *)
FairSpec == Spec /\ \A s \in Scrapes : WF_vars(Scrape(s))

-----------------------------------------------------------------------------
(* Properties.                                                             *)

Labels == {"idle", "open", "check", "lock", "parse", "version",
           "info", "test", "value", "labels", "done"}

(* The types of the variables.                                             *)
TypeOK ==
    /\ clock \in Nat
    /\ inodes \in Seq([mtime : Nat, content : Contents])
    /\ \A i \in 1..Len(inodes) : inodes[i].mtime <= clock
    /\ dir \in [Paths -> 0..Len(inodes)]
    /\ pc \in [Scrapes -> Labels]
    /\ at \in [Scrapes -> Paths]
    /\ ino \in [Scrapes -> 0..Len(inodes)]
    /\ mtime \in [Scrapes -> 0..clock]
    /\ mutex \subseteq Scrapes
    /\ osFilename \in 0..NPaths
    /\ osMtime \in 0..clock
    /\ os \in Release
    /\ version \in 0..(MaxFloat + 1)
    /\ out \in [Scrapes -> Exposed]

(* A cache that has the name and modification time of the file there is    *)
(* now has its release and its version: a scrape that finds the cache up   *)
(* to date misses no write, whenever the file was written or replaced      *)
(* while other scrapes were reading it.  Files that fail are left out.     *)
CacheFollowsFile ==
    \A p \in Paths :
       LET f == inodes[dir[p]] IN
       /\ mutex = {} /\ osFilename = p
       /\ dir[p] # 0 /\ f.mtime = osMtime /\ f.content.fails = "no"
       => os = f.content.release /\ version = VersionOf(os)

(* Once the files are left alone, every scrape comes to expose the first   *)
(* of them, as a whole.                                                    *)
First == CHOOSE p \in Paths : dir[p] # 0 /\ \A q \in 1..(p - 1) : dir[q] = 0

Exposes(o, r) ==
    /\ o.info = r /\ o.value = r.number
    /\ r.number > 0 => o.labels = r

Settles ==
    <>[](\A s \in Scrapes :
           pc[s] = "done" /\ (\E p \in Paths : dir[p] # 0)
              /\ inodes[dir[First]].content.fails = "no"
              /\ inodes[dir[First]].content.release.number <= MaxFloat
           => Exposes(out[s], inodes[dir[First]].content.release))

(* "osReleaseCollector struct is already up-to-date": a scrape that does   *)
(* not fail exposes the release of a file, not a blank one.                *)
ExposesARelease == \A s \in Scrapes : pc[s] = "done" => out[s].info # Blank
=============================================================================

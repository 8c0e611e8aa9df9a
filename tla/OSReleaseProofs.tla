-------------------------- MODULE OSReleaseProofs --------------------------
(***************************************************************************)
(* Proofs about OSRelease for any list of files and any number of writes   *)
(* and scrapes.  CacheFollowsFile is not inductive: it rests on who holds  *)
(* osMutex, on modification times that tell files apart, and on a scrape's *)
(* time being that of the file it has open or of no file any more.         *)
(***************************************************************************)
EXTENDS OSRelease, TLAPS

(* The one scrape that fills the cache holds the mutex.                    *)
OneWriter ==
    \A s \in Scrapes : pc[s] \in {"parse", "version"} <=> mutex = {s}

Nodes == 1..Len(inodes)

TimesDiffer ==
    \A i, j \in Nodes : inodes[i].mtime = inodes[j].mtime => i = j

HandleIsOfTime ==
    \A s \in Scrapes : pc[s] \in {"check", "lock", "parse", "version"} =>
       /\ ino[s] \in Nodes
       /\ \A j \in Nodes : inodes[j].mtime = mtime[s] => j = ino[s]

WriterHasName ==
    \A s \in Scrapes : pc[s] \in {"parse", "version"} =>
       osFilename = at[s] /\ osMtime = mtime[s]

Current(p) ==
    /\ osFilename = p /\ dir[p] # 0
    /\ inodes[dir[p]].mtime = osMtime
    /\ inodes[dir[p]].content.fails = "no"

ReleaseFollows ==
    (\A s \in Scrapes : pc[s] # "parse") =>
       \A p \in Paths : Current(p) => os = inodes[dir[p]].content.release

VersionFollows ==
    mutex = {} => \A p \in Paths : Current(p) => version = VersionOf(os)

FileInv ==
    /\ TypeOK /\ OneWriter /\ TimesDiffer /\ HandleIsOfTime /\ WriterHasName
    /\ ReleaseFollows /\ VersionFollows

-----------------------------------------------------------------------------
USE PathsAssumption, BoundsAssumption, ContentsAssumption

Inode == [mtime : Nat, content : Contents]

LEMMA BlankType == Blank \in Release
  BY DEF Blank, Release

LEMMA ReleaseOfContent ==
    ASSUME NEW c \in Contents PROVE c.release \in Release
  BY DEF Content


LEMMA NodeType ==
    ASSUME TypeOK, NEW i \in Nodes
    PROVE  /\ inodes[i].mtime \in 0..clock /\ inodes[i].content \in Contents
           /\ Nodes = DOMAIN inodes /\ Len(inodes) \in Nat
  <1>1. inodes \in Seq(Inode) /\ clock \in Nat
    BY DEF TypeOK, Inode
  <1>2. inodes[i] \in Inode /\ inodes[i].mtime <= clock
    BY <1>1 DEF TypeOK, Nodes
  <1> QED
    BY <1>1, <1>2 DEF Inode, Nodes

LEMMA VersionType ==
    ASSUME NEW r \in Release PROVE VersionOf(r) \in 0..(MaxFloat + 1)
  BY DEF VersionOf, Release

LEMMA Start == Init => FileInv
  <1> SUFFICES ASSUME Init PROVE FileInv
    OBVIOUS
  <1>1. /\ inodes \in Seq(Inode) /\ clock \in Nat
        /\ \A i, j \in Nodes : i = j
        /\ \A i \in Nodes : inodes[i].mtime <= clock
    <2>1. CASE inodes = <<>>
      BY <2>1 DEF Init, Nodes
    <2>2. CASE \E c \in Contents : inodes = <<[mtime |-> 1, content |-> c]>>
      <3>1. PICK c \in Contents : inodes = <<[mtime |-> 1, content |-> c]>>
        BY <2>2
      <3>2. clock = 1
        BY <3>1 DEF Init
      <3>3. [mtime |-> 1, content |-> c] \in Inode
        BY DEF Inode
      <3> QED
        BY <3>1, <3>2, <3>3 DEF Nodes
    <2> QED
      BY <2>1, <2>2 DEF Init
  <1>2. /\ dir \in [Paths -> 0..Len(inodes)]
        /\ 0 \in 0..Len(inodes) /\ 1 \in Paths /\ 0 \in 0..clock
    BY <1>1 DEF Init, Paths
  <1>3. TypeOK
    BY <1>1, <1>2, BlankType DEF Init, TypeOK, Labels, Inode, Nothing, Exposed
  <1> QED
    BY <1>1, <1>3 DEF FileInv, Init, OneWriter, TimesDiffer, HandleIsOfTime,
       WriterHasName, ReleaseFollows, VersionFollows, Current, Paths

-----------------------------------------------------------------------------
(* Writes.  A written file has a new time, so the cache is not of it and   *)
(* no scrape has read its time.                                            *)

LEMMA NewTime ==
    ASSUME FileInv,
           NEW n \in 1..(Len(inodes) + 1), NEW c \in Contents,
           clock' = clock + 1,
           inodes' \in Seq(Inode),
           Len(inodes') >= Len(inodes), n <= Len(inodes'),
           \A i \in 1..Len(inodes') : i # n => i \in Nodes /\ inodes'[i] = inodes[i],
           inodes'[n] = Written(c),
           dir' \in [Paths -> 0..Len(inodes')],
           \A p \in Paths : dir'[p] \in {dir[p], n},
           UNCHANGED <<pc, local, cache, out>>
    PROVE  FileInv'
  <1>1. /\ clock \in Nat /\ Len(inodes) \in Nat /\ Len(inodes') \in Nat
        /\ UNCHANGED <<at, ino, mtime, mutex, osFilename, osMtime, os, version, out, pc>>
        /\ TypeOK
    BY DEF FileInv, TypeOK, local, cache
  <1>2. inodes'[n].mtime = clock + 1
    BY DEF Written
  <1>3. ASSUME NEW i \in 1..Len(inodes'), i # n
        PROVE  i \in Nodes /\ inodes'[i] = inodes[i] /\ inodes'[i].mtime \in 0..clock
    BY <1>1, <1>3, NodeType
  <1>4. \A i \in 1..Len(inodes') : inodes'[i].mtime <= clock + 1
    BY <1>1, <1>2, <1>3
  <1>5. TypeOK'
    BY <1>1, <1>4 DEF TypeOK, Inode
  <1>8. TimesDiffer'
    BY <1>1, <1>2, <1>3 DEF FileInv, TimesDiffer, Nodes
  <1>9. ASSUME NEW s \in Scrapes, pc[s] \in {"check", "lock", "parse", "version"}
        PROVE  /\ ino[s] \in 1..Len(inodes')
               /\ \A j \in 1..Len(inodes') : inodes'[j].mtime = mtime[s] => j = ino[s]
    <2>1. /\ ino[s] \in Nodes
          /\ \A j \in Nodes : inodes[j].mtime = mtime[s] => j = ino[s]
      BY <1>9 DEF FileInv, HandleIsOfTime
    <2>2. mtime[s] \in 0..clock
      BY <1>1 DEF TypeOK
    <2>3. mtime[s] # clock + 1
      BY <1>1, <2>2
    <2> QED
      BY <1>1, <1>2, <1>3, <2>1, <2>3 DEF Nodes
  <1>10. HandleIsOfTime'
    BY <1>1, <1>9 DEF HandleIsOfTime, Nodes
  <1> USE DEF FileInv, TypeOK
  <1>6. \A p \in Paths : Current(p)' =>
           Current(p) /\ inodes'[dir'[p]].content = inodes[dir[p]].content
    <2>1. SUFFICES ASSUME NEW p \in Paths, Current(p)'
                   PROVE  Current(p) /\ inodes'[dir'[p]].content = inodes[dir[p]].content
      OBVIOUS
    <2>2. dir'[p] # n
      BY <1>1, <1>2, <2>1 DEF Current
    <2>3. dir'[p] = dir[p] /\ inodes'[dir[p]] = inodes[dir[p]]
      BY <1>1, <1>3, <2>1, <2>2 DEF Current
    <2> QED
      BY <1>1, <2>1, <2>3 DEF Current
  <1>7. ReleaseFollows' /\ VersionFollows'
    BY <1>1, <1>6 DEF ReleaseFollows, VersionFollows, VersionOf
  <1> QED
    BY <1>1, <1>5, <1>7, <1>8, <1>10 DEF OneWriter, WriterHasName

LEMMA WriteStep == FileInv /\ Write => FileInv'
  <1> SUFFICES ASSUME FileInv, NEW p \in Paths,
                      \/ \E c \in Contents : Rewrite(p, c) \/ Replace(p, c)
                      \/ Remove(p)
               PROVE  FileInv'
    BY DEF Write
  <1> USE DEF FileInv, TypeOK
  <1>0. clock \in Nat /\ inodes \in Seq(Inode) /\ Len(inodes) \in Nat
    BY DEF Inode
  <1>1. CASE \E c \in Contents : Rewrite(p, c)
    <2>1. PICK c \in Contents : Rewrite(p, c)
      BY <1>1
    <2>2. Written(c) \in Inode
      BY <1>0 DEF Written, Inode
    <2>3. dir[p] \in 1..Len(inodes)
      BY <2>1, <1>0 DEF Rewrite
    <2>4. /\ inodes' \in Seq(Inode) /\ Len(inodes') = Len(inodes)
          /\ \A i \in 1..Len(inodes) : i # dir[p] => inodes'[i] = inodes[i]
          /\ inodes'[dir[p]] = Written(c)
      BY <2>1, <2>2, <2>3, <1>0 DEF Rewrite
    <2>5. clock' = clock + 1 /\ UNCHANGED <<dir, pc, local, cache, out>>
      BY <2>1 DEF Rewrite
    <2>6. dir[p] \in 1..(Len(inodes) + 1)
      BY <2>3, <1>0
    <2>7. /\ Len(inodes') >= Len(inodes) /\ dir[p] <= Len(inodes')
          /\ \A i \in 1..Len(inodes') : i # dir[p] => i \in Nodes /\ inodes'[i] = inodes[i]
          /\ dir' \in [Paths -> 0..Len(inodes')]
          /\ \A q \in Paths : dir'[q] \in {dir[q], dir[p]}
          /\ inodes' \in Seq(Inode)
      BY <2>3, <2>4, <2>5, <1>0 DEF Nodes
    <2> HIDE DEF FileInv, TypeOK
    <2> QED
      BY <2>4, <2>5, <2>6, <2>7, NewTime
  <1>2. CASE \E c \in Contents : Replace(p, c)
    <2>1. PICK c \in Contents : Replace(p, c)
      BY <1>2
    <2>2. Written(c) \in Inode
      BY <1>0 DEF Written, Inode
    <2>3. /\ inodes' \in Seq(Inode) /\ Len(inodes') = Len(inodes) + 1
          /\ \A i \in 1..Len(inodes) : inodes'[i] = inodes[i]
          /\ inodes'[Len(inodes) + 1] = Written(c)
      BY <2>1, <2>2, <1>0 DEF Replace
    <2>4. /\ clock' = clock + 1 /\ UNCHANGED <<pc, local, cache, out>>
          /\ dir' = [dir EXCEPT ![p] = Len(inodes) + 1]
      BY <2>1 DEF Replace
    <2>5. /\ dir' \in [Paths -> 0..Len(inodes')]
          /\ \A q \in Paths : dir'[q] \in {dir[q], Len(inodes) + 1}
      BY <2>3, <2>4, <1>0
    <2>6. /\ Len(inodes) + 1 \in 1..(Len(inodes) + 1)
          /\ Len(inodes') >= Len(inodes) /\ Len(inodes) + 1 <= Len(inodes')
          /\ \A i \in 1..Len(inodes') : i # Len(inodes) + 1 =>
                i \in Nodes /\ inodes'[i] = inodes[i]
          /\ inodes' \in Seq(Inode)
      BY <2>3, <2>4, <1>0 DEF Nodes
    <2> HIDE DEF FileInv, TypeOK
    <2> QED
      BY <2>3, <2>4, <2>5, <2>6, NewTime
  <1>3. CASE Remove(p)
    <2> USE <1>3 DEF Remove, local, cache
    <2>1. TypeOK'
      BY <1>0
    <2>2. \A q \in Paths : Current(q)' => Current(q) /\ dir'[q] = dir[q]
      BY DEF Current
    <2> QED
      BY <2>1, <2>2 DEF OneWriter, TimesDiffer, HandleIsOfTime, WriterHasName,
         ReleaseFollows, VersionFollows, VersionOf, Nodes
  <1> QED
    BY <1>1, <1>2, <1>3

-----------------------------------------------------------------------------
(* Scrapes.                                                                *)

(* A step of a scrape that leaves the files and the cache alone.           *)
Quiet(s) ==
    /\ UNCHANGED <<files, cache>>
    /\ TypeOK'
    /\ \A t \in Scrapes \ {s} :
         pc'[t] = pc[t] /\ at'[t] = at[t] /\ ino'[t] = ino[t] /\ mtime'[t] = mtime[t]
    /\ pc[s] \notin {"parse", "version"} /\ pc'[s] \notin {"parse", "version"}

LEMMA QuietStep ==
    ASSUME FileInv, NEW s \in Scrapes, Quiet(s),
           pc'[s] \in {"check", "lock"} =>
              /\ ino'[s] \in Nodes
              /\ \A j \in Nodes : inodes[j].mtime = mtime'[s] => j = ino'[s]
    PROVE  FileInv'
  <1> USE DEF FileInv, Quiet, files, cache
  <1>1. OneWriter' /\ WriterHasName'
    BY DEF OneWriter, WriterHasName
  <1>2. HandleIsOfTime' /\ TimesDiffer'
    BY DEF HandleIsOfTime, TimesDiffer, Nodes
  <1>3. \A p \in Paths : Current(p)' <=> Current(p)
    BY DEF Current
  <1>4. (\A t \in Scrapes : pc'[t] # "parse") <=> (\A t \in Scrapes : pc[t] # "parse")
    OBVIOUS
  <1>5. ReleaseFollows' /\ VersionFollows'
    BY <1>3, <1>4 DEF ReleaseFollows, VersionFollows, VersionOf
  <1> QED
    BY <1>1, <1>2, <1>5

LEMMA OpenStep ==
    ASSUME FileInv, NEW s \in Scrapes,
           Begin(s) \/ NotExist(s) \/ OpenFails(s) \/ OpenStat(s) \/ Check(s)
    PROVE  FileInv'
  <1> USE DEF FileInv
  <1>1. UNCHANGED <<files, cache>>
    BY DEF Begin, NotExist, OpenFails, OpenStat, Check
  <1>2. Quiet(s)
    <2>1. TypeOK'
      <3>0. at' \in [Scrapes -> Paths]
        <4>1. at[s] \in Paths
          BY DEF TypeOK
        <4>2. at[s] < NPaths => at[s] + 1 \in Paths
          BY <4>1 DEF Paths
        <4>3. 1 \in Paths
          BY DEF Paths
        <4>4. \E p \in Paths : at' = [at EXCEPT ![s] = p]
          <5>1. CASE NotExist(s) /\ ~Last(s)
            BY <5>1, <4>1, <4>2 DEF NotExist, Last, Paths
          <5>2. CASE Begin(s)
            BY <5>2, <4>3 DEF Begin
          <5>3. CASE at' = at
            BY <5>3, <4>1 DEF TypeOK
          <5> QED
            BY <5>1, <5>2, <5>3 DEF NotExist, OpenFails, OpenStat, Check, local
        <4> QED
          BY <4>4 DEF TypeOK
      <3>1. CASE Begin(s)
        BY <3>0, <3>1, <1>1, BlankType DEF TypeOK, Begin, Goto, Labels, files, cache, Nothing, Exposed
      <3>2. CASE NotExist(s)
        BY <3>0, <3>2, <1>1 DEF TypeOK, NotExist, Goto, Labels, files, cache
      <3>3. CASE OpenFails(s)
        BY <3>3, <1>1 DEF TypeOK, OpenFails, Goto, Labels, files, cache, local
      <3>4. CASE OpenStat(s)
        <4>1. dir[at[s]] \in 1..Len(inodes)
          BY <3>4 DEF TypeOK, OpenStat
        <4>2. inodes[dir[at[s]]].mtime \in 0..clock
          BY <4>1, NodeType DEF Nodes
        <4> QED
          BY <3>0, <3>4, <4>1, <4>2, <1>1 DEF TypeOK, OpenStat, Goto, Labels, files, cache
      <3>5. CASE Check(s)
        BY <3>5, <1>1 DEF TypeOK, Check, Goto, Labels, files, cache, local
      <3> QED
        BY <3>1, <3>2, <3>3, <3>4, <3>5
    <2> QED
      BY <1>1, <2>1 DEF TypeOK, Quiet, Begin, NotExist, OpenFails, OpenStat, Check,
         Goto, local
  <1>3. pc'[s] \in {"check", "lock"} =>
              /\ ino'[s] \in Nodes
              /\ \A j \in Nodes : inodes[j].mtime = mtime'[s] => j = ino'[s]
    <2>1. CASE OpenStat(s)
      BY <2>1 DEF TypeOK, OpenStat, TimesDiffer, Nodes
    <2>2. CASE Check(s)
      BY <2>2 DEF TypeOK, Check, Goto, HandleIsOfTime, local
    <2>3. CASE Begin(s) \/ NotExist(s) \/ OpenFails(s)
      BY <2>3 DEF TypeOK, Begin, NotExist, OpenFails, Goto
    <2> QED
      BY <2>1, <2>2, <2>3
  <1> HIDE DEF FileInv
  <1> QED
    BY <1>2, <1>3, QuietStep

LEMMA ExposeStep ==
    ASSUME FileInv, NEW s \in Scrapes,
           SendInfo(s) \/ TestVersion(s) \/ ReadValue(s) \/ SendVersion(s)
    PROVE  FileInv'
  <1> USE DEF FileInv
  <1>1. UNCHANGED <<files, cache, local>>
    BY DEF SendInfo, TestVersion, ReadValue, SendVersion
  <1>2. out' \in [Scrapes -> Exposed]
    <2>1. PICK o : o = out[s]
      OBVIOUS
    <2>2. /\ o \in Exposed /\ os \in Release /\ version \in 0..(MaxFloat + 1)
          /\ out \in [Scrapes -> Exposed]
      BY <2>1 DEF TypeOK
    <2>3. /\ [o EXCEPT !.info = os] \in Exposed
          /\ [o EXCEPT !.value = version] \in Exposed
          /\ [o EXCEPT !.labels = os] \in Exposed
      BY <2>2 DEF Exposed
    <2>4. \/ out' = [out EXCEPT ![s] = [o EXCEPT !.info = os]]
          \/ out' = out
          \/ out' = [out EXCEPT ![s] = [o EXCEPT !.value = version]]
          \/ out' = [out EXCEPT ![s] = [o EXCEPT !.labels = os]]
      BY <2>1 DEF SendInfo, TestVersion, ReadValue, SendVersion
    <2> QED
      BY <2>2, <2>3, <2>4
  <1>3. TypeOK'
    BY <1>1, <1>2 DEF TypeOK, SendInfo, TestVersion, ReadValue, SendVersion,
       Goto, Labels, files, cache, local
  <1>4. Quiet(s) /\ pc'[s] \notin {"check", "lock"}
    BY <1>1, <1>3 DEF TypeOK, Quiet, SendInfo, TestVersion, ReadValue, SendVersion,
       Goto, local
  <1> HIDE DEF FileInv
  <1> QED
    BY <1>4, QuietStep

LEMMA LockStep ==
    ASSUME FileInv, NEW s \in Scrapes, Lock(s)
    PROVE  FileInv'
  <1> USE DEF FileInv, Lock, Goto, Stamp
  <1>1. TypeOK'
    BY DEF TypeOK, Labels, files, local, Paths
  <1>2. \A t \in Scrapes : pc[t] \notin {"parse", "version"}
    BY DEF OneWriter
  <1>3. OneWriter' /\ WriterHasName'
    BY <1>2 DEF OneWriter, WriterHasName, TypeOK, local
  <1>4. HandleIsOfTime' /\ TimesDiffer'
    BY DEF HandleIsOfTime, TimesDiffer, Nodes, TypeOK, files, local
  <1>5. ReleaseFollows' /\ VersionFollows'
    BY DEF ReleaseFollows, VersionFollows, TypeOK
  <1> QED
    BY <1>1, <1>3, <1>4, <1>5

LEMMA ParseStep ==
    ASSUME FileInv, NEW s \in Scrapes, Parse(s)
    PROVE  FileInv'
  <1> USE DEF FileInv
  <1>1. /\ os' = Parsed(s)
        /\ UNCHANGED <<dir, inodes, clock, at, ino, mtime, osFilename, osMtime, version, out>>
        /\ pc[s] = "parse"
        /\ \/ Malformed(s) /\ pc' = [pc EXCEPT ![s] = "idle"] /\ mutex' = {}
           \/ ~Malformed(s) /\ pc' = [pc EXCEPT ![s] = "version"] /\ mutex' = mutex
    BY DEF Parse, Goto, files, local
  <1>2. Read(s) \in 0..Len(inodes)
    BY DEF TypeOK, Read
  <1>3. os' \in Release
    <2>1. CASE Malformed(s)
      BY <2>1, <1>1, BlankType DEF Parsed
    <2>2. CASE ~Malformed(s)
      <3>1. inodes[Read(s)].content \in Contents
        BY <2>2, <1>2, NodeType DEF Malformed, Nodes
      <3> QED
        BY <2>2, <3>1, <1>1, ReleaseOfContent DEF Parsed
    <2> QED
      BY <2>1, <2>2
  <1>4. TypeOK'
    BY <1>1, <1>3 DEF TypeOK, Labels
  <1>5. mutex = {s} /\ \A t \in Scrapes : pc[t] \in {"parse", "version"} => t = s
    BY <1>1 DEF OneWriter
  <1>6. OneWriter' /\ WriterHasName'
    BY <1>1, <1>5 DEF OneWriter, WriterHasName, TypeOK
  <1>7. HandleIsOfTime' /\ TimesDiffer'
    BY <1>1 DEF HandleIsOfTime, TimesDiffer, Nodes, TypeOK
  <1>8. ASSUME NEW p \in Paths, Current(p)'
        PROVE  ~Malformed(s) /\ os' = inodes[dir[p]].content.release
    <2>1. /\ p = at[s] /\ dir[p] # 0 /\ inodes[dir[p]].mtime = mtime[s]
          /\ inodes[dir[p]].content.fails = "no"
      BY <1>1, <1>8 DEF Current, WriterHasName
    <2>2. dir[p] \in Nodes
      BY <2>1 DEF TypeOK, Nodes
    <2>3. dir[p] = ino[s]
      BY <1>1, <2>1, <2>2 DEF HandleIsOfTime
    <2>4. Read(s) = dir[p]
      BY <2>1, <2>3 DEF Read
    <2> QED
      BY <1>1, <2>1, <2>4 DEF Malformed, Parsed
  <1>9. ReleaseFollows'
    BY <1>1, <1>8 DEF ReleaseFollows
  <1>10. VersionFollows'
    <2>1. CASE Malformed(s)
      BY <2>1, <1>8 DEF VersionFollows
    <2>2. CASE ~Malformed(s)
      BY <2>2, <1>1, <1>5 DEF VersionFollows
    <2> QED
      BY <2>1, <2>2
  <1> QED
    BY <1>4, <1>6, <1>7, <1>9, <1>10

LEMMA VersionStep ==
    ASSUME FileInv, NEW s \in Scrapes, SetVersion(s)
    PROVE  FileInv'
  <1> USE DEF FileInv
  <1>1. /\ UNCHANGED <<dir, inodes, clock, at, ino, mtime, osFilename, osMtime, os, out>>
        /\ version' = VersionOf(os) /\ mutex' = {} /\ pc[s] = "version"
        /\ \E l \in {"idle", "info"} : pc' = [pc EXCEPT ![s] = l]
    BY DEF SetVersion, Goto, files, local
  <1>2. TypeOK'
    BY <1>1, VersionType DEF TypeOK, Labels
  <1>3. \A t \in Scrapes : pc[t] \in {"parse", "version"} => t = s
    BY <1>1 DEF OneWriter
  <1>4. OneWriter' /\ WriterHasName'
    BY <1>1, <1>3 DEF OneWriter, WriterHasName, TypeOK
  <1>5. HandleIsOfTime' /\ TimesDiffer'
    BY <1>1 DEF HandleIsOfTime, TimesDiffer, Nodes, TypeOK
  <1>6. \A p \in Paths : Current(p)' <=> Current(p)
    BY <1>1 DEF Current
  <1>7. \A t \in Scrapes : pc[t] # "parse"
    BY <1>1, <1>3
  <1>8. ReleaseFollows' /\ VersionFollows'
    BY <1>1, <1>6, <1>7 DEF ReleaseFollows, VersionFollows, VersionOf
  <1> QED
    BY <1>2, <1>4, <1>5, <1>8

LEMMA StutterStep == FileInv /\ UNCHANGED vars => FileInv'
  BY DEF FileInv, TypeOK, OneWriter, TimesDiffer, HandleIsOfTime, WriterHasName,
     ReleaseFollows, VersionFollows, VersionOf, Current, Nodes, vars, files, local, cache

-----------------------------------------------------------------------------
(* The types and the parts of the cache's invariant hold of every scrape   *)
(* and write.                                                              *)
THEOREM FileInvHolds == Spec => []FileInv
  <1>1. FileInv /\ [Next]_vars => FileInv'
    BY WriteStep, OpenStep, LockStep, ParseStep, VersionStep, ExposeStep, StutterStep
    DEF Next, Scrape
  <1> QED
    BY Start, <1>1, PTL DEF Spec

(* The types of the variables.                                             *)
THEOREM TypeCorrect == Spec => []TypeOK
  BY FileInvHolds, PTL DEF FileInv

(* A cache that is up to date by name and modification time is of the file *)
(* there is, its release and its version.                                  *)
THEOREM CacheFollowsFileHolds == Spec => []CacheFollowsFile
  <1>1. FileInv => CacheFollowsFile
    <2> SUFFICES ASSUME FileInv, mutex = {}, NEW p \in Paths, Current(p)
                 PROVE  os = inodes[dir[p]].content.release /\ version = VersionOf(os)
      BY DEF CacheFollowsFile, Current
    <2>1. \A s \in Scrapes : pc[s] # "parse"
      BY DEF FileInv, OneWriter
    <2> QED
      BY <2>1 DEF FileInv, ReleaseFollows, VersionFollows
  <1> QED
    BY <1>1, FileInvHolds, PTL
=============================================================================

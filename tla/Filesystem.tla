----------------------------- MODULE Filesystem -----------------------------
(***************************************************************************)
(* The filesystem collector on Linux: filesystem_linux.go and the Update   *)
(* of filesystem_common.go.  A scrape walks the mount table; before each   *)
(* statfs it starts a watcher, which marks the mount point as stuck if the *)
(* call is not back in time.  Later scrapes skip a stuck mount point, and  *)
(* the scrape whose statfs returns removes the mark.  stuckMounts is       *)
(* shared by every scrape, under a mutex that is not held over the statfs. *)
(***************************************************************************)
EXTENDS Integers, Sequences, FiniteSets

CONSTANTS
    Scrapes,            \* scrapes that may be in GetStats at once
    Mounts,             \* filesystemLabels: device, mountPoint, fsType, options
    Malformed,          \* a mounts line of fewer than four fields
    ProcFiles,          \* what /proc/1/mounts and /proc/mounts may hold
    MaxLines,           \* bound on their length, for the fairness of watchers
    ExcludedPoints,     \* mount points that match mount-points-exclude
    ExcludedTypes,      \* types that match fs-types-exclude
    Failing,            \* mount points whose statfs may return an error
    Slow                \* mount points whose statfs may block

ASSUME MountsAssumption ==
    /\ \A m \in Mounts : DOMAIN m = {"device", "mountPoint", "fsType", "options"}
    /\ Malformed \notin Mounts

Points == {m.mountPoint : m \in Mounts}
ASSUME SlowAssumption == Slow \subseteq Points
File == [status : {"ok", "absent", "denied"}, lines : Seq(Mounts \cup {Malformed})]

ASSUME FilesAssumption ==
    /\ ProcFiles \subseteq [proc1 : File, own : File]
    /\ MaxLines \in Nat
    /\ \A f \in ProcFiles : /\ Len(f.proc1.lines) <= MaxLines
                            /\ Len(f.own.lines) <= MaxLines

VARIABLES
    hung,               \* mount points on which the kernel does not answer
    stuck,              \* stuckMounts
    pc,                 \* where each scrape is
    table,              \* mps, the mounts it walks
    idx,                \* the position it has reached
    failed,             \* did its last statfs return an error?
    answered,           \* history: the positions whose statfs returned without one
    stats,              \* the stats it has appended
    answer,             \* the positions of stats it has sent metrics of
    watching,           \* watchers, <<scrape, position>>, in their select
    expired,            \* watchers whose timer has fired, at the mutex
    closed              \* success channels that are closed

scrapeVars == <<pc, table, idx, failed, answered, stats, answer>>
watcherVars == <<watching, expired, closed>>
vars == <<hung, stuck, scrapeVars, watcherVars>>

Init ==
    /\ hung = {}
    /\ stuck = {}
    /\ pc = [s \in Scrapes |-> "idle"]
    /\ table = [s \in Scrapes |-> <<>>]
    /\ idx = [s \in Scrapes |-> 1]
    /\ failed = [s \in Scrapes |-> FALSE]
    /\ answered = [s \in Scrapes |-> {}]
    /\ stats = [s \in Scrapes |-> <<>>]
    /\ answer = [s \in Scrapes |-> {}]
    /\ watching = {}
    /\ expired = {}
    /\ closed = {}

-----------------------------------------------------------------------------
(* mountPointDetails and parseFilesystemLabels.                            *)

MountsFile(files) ==
    IF files.proc1.status = "absent" THEN files.own ELSE files.proc1

(* Mutant: a line of too few fields is let through.                        *)
ReadableAny(file) == file.status = "ok"

Readable(file) ==
    /\ file.status = "ok"
    /\ \A i \in DOMAIN file.lines : file.lines[i] # Malformed

WatchersOf(s) == {w \in watching \cup expired : w[1] = s}

(* A scrape identity is used again when its last watcher is gone; any      *)
(* watcher that lingers does so while other scrapes run.                   *)
Start(s) ==
    /\ pc[s] = "idle"
    /\ WatchersOf(s) = {}
    /\ \E files \in ProcFiles :
         \/ /\ Readable(MountsFile(files))
            /\ pc' = [pc EXCEPT ![s] = "walk"]
            /\ table' = [table EXCEPT ![s] = MountsFile(files).lines]
         \/ /\ ~Readable(MountsFile(files))
            /\ pc' = [pc EXCEPT ![s] = "error"]
            /\ table' = [table EXCEPT ![s] = <<>>]
    /\ idx' = [idx EXCEPT ![s] = 1]
    /\ answered' = [answered EXCEPT ![s] = {}]
    /\ stats' = [stats EXCEPT ![s] = <<>>]
    /\ answer' = [answer EXCEPT ![s] = {}]
    /\ closed' = {w \in closed : w[1] # s}
    /\ UNCHANGED <<hung, stuck, failed, watching, expired>>

-----------------------------------------------------------------------------
(* GetStats, one iteration of its loop.                                    *)

Current(s) == table[s][idx[s]]
Point(s) == Current(s).mountPoint
More(s) == pc[s] = "walk" /\ idx[s] <= Len(table[s])

Excluded(m) == m.mountPoint \in ExcludedPoints \/ m.fsType \in ExcludedTypes

(* Mutant: a mount whose call fails, or is not made, is reported without   *)
(* the error.                                                              *)
EntryUnflagged(m, err) == [labels |-> m, deviceError |-> 0]

Entry(m, err) == [labels |-> m, deviceError |-> IF err THEN 1 ELSE 0]

SkipExcluded(s) ==
    /\ More(s)
    /\ Excluded(Current(s))
    /\ idx' = [idx EXCEPT ![s] = @ + 1]
    /\ UNCHANGED <<hung, stuck, pc, table, failed, answered, stats, answer>>
    /\ UNCHANGED watcherVars

SkipStuck(s) ==
    /\ More(s)
    /\ ~Excluded(Current(s))
    /\ Point(s) \in stuck
    /\ stats' = [stats EXCEPT ![s] = Append(@, Entry(Current(s), TRUE))]
    /\ idx' = [idx EXCEPT ![s] = @ + 1]
    /\ UNCHANGED <<hung, stuck, pc, table, failed, answered, answer, watcherVars>>

InCall(s) == pc[s] \in {"statfs", "returned"}

(* Mutant: the mutex is held until the call is over.                       *)
CallStatfsLocked(s) ==
    /\ More(s)
    /\ ~Excluded(Current(s))
    /\ Point(s) \notin stuck
    /\ \A q \in Scrapes : ~InCall(q)
    /\ watching' = watching \cup {<<s, idx[s]>>}
    /\ pc' = [pc EXCEPT ![s] = "statfs"]
    /\ UNCHANGED <<hung, stuck, table, idx, failed, answered, stats, answer>>
    /\ UNCHANGED <<expired, closed>>

CallStatfs(s) ==
    /\ More(s)
    /\ ~Excluded(Current(s))
    /\ Point(s) \notin stuck
    /\ watching' = watching \cup {<<s, idx[s]>>}
    /\ pc' = [pc EXCEPT ![s] = "statfs"]
    /\ UNCHANGED <<hung, stuck, table, idx, failed, answered, stats, answer>>
    /\ UNCHANGED <<expired, closed>>

StatfsReturns(s) ==
    /\ pc[s] = "statfs"
    /\ Point(s) \notin hung
    /\ pc' = [pc EXCEPT ![s] = "returned"]
    /\ \E err \in IF Point(s) \in Failing THEN BOOLEAN ELSE {FALSE} :
         /\ failed' = [failed EXCEPT ![s] = err]
         /\ answered' = [answered EXCEPT ![s] = IF err THEN @ ELSE @ \cup {idx[s]}]
    /\ UNCHANGED <<hung, stuck, table, idx, stats, answer, watcherVars>>

(* Mutant: an error from statfs leaves the mark in place.                  *)
StuckAfterSuccess(s) == IF failed[s] THEN stuck ELSE stuck \ {Point(s)}

StuckAfterReturn(s) == stuck \ {Point(s)}

(* The critical section after the call, and the stats of the mount.        *)
CloseSuccess(s) ==
    /\ pc[s] = "returned"
    /\ closed' = closed \cup {<<s, idx[s]>>}
    /\ stuck' = StuckAfterReturn(s)
    /\ stats' = [stats EXCEPT ![s] = Append(@, Entry(Current(s), failed[s]))]
    /\ idx' = [idx EXCEPT ![s] = @ + 1]
    /\ pc' = [pc EXCEPT ![s] = "walk"]
    /\ UNCHANGED <<hung, table, failed, answered, answer, watching, expired>>

-----------------------------------------------------------------------------
(* Update: what is sent, once per filesystemLabels (seen).                 *)

Sent(st) == {i \in DOMAIN st : \A j \in 1..(i - 1) : st[j].labels # st[i].labels}

Update(s) ==
    /\ pc[s] = "walk"
    /\ idx[s] > Len(table[s])
    /\ answer' = [answer EXCEPT ![s] = Sent(stats[s])]
    /\ pc' = [pc EXCEPT ![s] = "done"]
    /\ UNCHANGED <<hung, stuck, table, idx, failed, answered, stats, watcherVars>>

EndScrape(s) ==
    /\ pc[s] \in {"done", "error"}
    /\ pc' = [pc EXCEPT ![s] = "idle"]
    /\ UNCHANGED <<hung, stuck, table, idx, failed, answered, stats, answer>>
    /\ UNCHANGED watcherVars

-----------------------------------------------------------------------------
(* stuckMountWatcher.                                                      *)

PointOf(w) == table[w[1]][w[2]].mountPoint

SeesSuccess(w) ==
    /\ w \in watching
    /\ w \in closed
    /\ watching' = watching \ {w}
    /\ UNCHANGED <<hung, stuck, scrapeVars, expired, closed>>

(* The timer may win the select even when success is closed by then.       *)
Expires(w) ==
    /\ w \in watching
    /\ watching' = watching \ {w}
    /\ expired' = expired \cup {w}
    /\ UNCHANGED <<hung, stuck, scrapeVars, closed>>

(* Mutants: success is not looked at again under the mutex; the timeout is *)
(* noticed but the mount is not marked.                                    *)
StuckUnchecked(w) == stuck \cup {PointOf(w)}
StuckForgotten(w) == stuck

StuckAfterTimeout(w) == IF w \in closed THEN stuck ELSE stuck \cup {PointOf(w)}

MarkStuck(w) ==
    /\ w \in expired
    /\ stuck' = StuckAfterTimeout(w)
    /\ expired' = expired \ {w}
    /\ UNCHANGED <<hung, scrapeVars, watching, closed>>

-----------------------------------------------------------------------------
(* The kernel and the servers behind it.                                   *)

Hang(p) ==
    /\ p \notin hung
    /\ hung' = hung \cup {p}
    /\ UNCHANGED <<stuck, scrapeVars, watcherVars>>

Recover(p) ==
    /\ p \in hung
    /\ hung' = hung \ {p}
    /\ UNCHANGED <<stuck, scrapeVars, watcherVars>>

-----------------------------------------------------------------------------
Walk(s) == SkipExcluded(s) \/ SkipStuck(s) \/ CallStatfs(s) \/ CloseSuccess(s)
             \/ Update(s)

Watch(w) == SeesSuccess(w) \/ Expires(w) \/ MarkStuck(w)

Next ==
    \/ \E s \in Scrapes :
         Start(s) \/ Walk(s) \/ StatfsReturns(s) \/ EndScrape(s)
    \/ \E w \in watching \cup expired : Watch(w)
    \/ \E p \in Slow : Hang(p) \/ Recover(p)

Spec == Init /\ [][Next]_vars

Positions == Scrapes \X (1..MaxLines)

(* Goroutines run; a timer that is not stopped fires; a statfs on a mount  *)
(* point that answers returns.                                             *)
Fairness ==
    /\ \A s \in Scrapes : WF_vars(Walk(s)) /\ WF_vars(StatfsReturns(s))
    /\ \A w \in Positions : WF_vars(Watch(w))

FairSpec == Spec /\ Fairness

(* Mount points do not stay hung for ever, and a call that can return time *)
(* and again returns.                                                      *)
Recovering ==
    /\ \A p \in Slow : WF_vars(Recover(p))
    /\ \A s \in Scrapes : SF_vars(StatfsReturns(s))

-----------------------------------------------------------------------------
(* Properties.                                                             *)

(* The types of the variables.                                             *)
TypeOK ==
    /\ hung \subseteq Points
    /\ stuck \subseteq Points
    /\ pc \in [Scrapes -> {"idle", "walk", "statfs", "returned", "done", "error"}]
    /\ table \in [Scrapes -> Seq(Mounts)]
    /\ idx \in [Scrapes -> Nat \ {0}]
    /\ failed \in [Scrapes -> BOOLEAN]
    /\ answered \in [Scrapes -> SUBSET Nat]
    /\ stats \in [Scrapes -> Seq([labels : Mounts, deviceError : {0, 1}])]
    /\ answer \in [Scrapes -> SUBSET Nat]
    /\ watching \subseteq Scrapes \X (Nat \ {0})
    /\ expired \subseteq Scrapes \X (Nat \ {0})
    /\ closed \subseteq Scrapes \X (Nat \ {0})

(* Every mark is owed to a statfs that is still out and whose watcher has  *)
(* given up: when the call comes back the mark goes, so a mount point that *)
(* answers is never skipped for ever.                                      *)
StuckHasCaller ==
    \A p \in stuck : \E s \in Scrapes :
        /\ InCall(s)
        /\ Point(s) = p
        /\ <<s, idx[s]>> \notin watching \cup expired

(* What is due for a table when statfs has answered for the positions in a.*)
Due(t, a) ==
    [n \in DOMAIN t |-> [labels |-> t[n], deviceError |-> IF n \in a THEN 0 ELSE 1]]

(* The entries that are not excluded, in their order.                      *)
Kept(e) ==
    LET kept[n \in 0..Len(e)] ==
          IF n = 0 THEN <<>>
          ELSE IF ~Excluded(e[n].labels) THEN Append(kept[n - 1], e[n]) ELSE kept[n - 1]
    IN  kept[Len(e)]

(* A scrape answers for every mount it does not exclude, in the order of   *)
(* the mount table, with device_error 0 where a statfs of its own has      *)
(* answered and 1 where the call failed or, the mount being stuck, was not *)
(* made; of mounts with the same labels it sends the first, and only it.   *)
EveryMountReported ==
    \A s \in Scrapes : pc[s] = "done" =>
        /\ stats[s] = Kept(Due(table[s], answered[s]))
        /\ \A i \in DOMAIN stats[s] : \E j \in answer[s] :
             j <= i /\ stats[s][j].labels = stats[s][i].labels
        /\ \A i, j \in answer[s] : stats[s][i].labels = stats[s][j].labels => i = j

(* While a call is out its watcher ends by marking the mount point.  (The  *)
(* mark may be removed again by another scrape whose call on the same      *)
(* mount point returned before it hung; the next call brings it back.)     *)
HungCallMarks ==
    \A w \in Positions, p \in Slow :
        (w \in (watching \cup expired) \ closed /\ PointOf(w) = p)
            ~> (p \in stuck \/ w \in closed)

(* A scrape with no slow mount point ends, whoever hangs elsewhere: the    *)
(* mutex is never held over a statfs.                                      *)
HealthyWalkEnds ==
    \A s \in Scrapes :
        (pc[s] = "walk" /\ \A i \in DOMAIN table[s] :
                               table[s][i].mountPoint \notin Slow)
            ~> (pc[s] = "done")

(* Where mount points recover, every mark is removed again.                *)
StuckRecovers ==
    Recovering => \A p \in Slow : (p \in stuck) ~> (p \notin stuck)
=============================================================================

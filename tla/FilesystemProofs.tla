-------------------------- MODULE FilesystemProofs --------------------------
(***************************************************************************)
(* Proofs about Filesystem for every mount table and number of scrapes.    *)
(* StuckHasCaller is not inductive: that a watcher which marks a mount     *)
(* point does so during its own call rests on where watchers and closed    *)
(* channels can be (WatchInv).  That every mount is reported holds for the *)
(* lines a scrape is past at any time (ReportedInv), not at its end only.  *)
(***************************************************************************)
EXTENDS Filesystem, Induction

(* A watcher belongs to the current call of its scrape or its channel is   *)
(* closed; channels are closed for past positions only.                    *)
WatchInv ==
    /\ \A s \in Scrapes : InCall(s) => idx[s] <= Len(table[s])
    /\ \A s \in Scrapes, i \in Nat \ {0} :
         /\ <<s, i>> \in watching \cup expired =>
              /\ i <= Len(table[s])
              /\ <<s, i>> \notin closed => InCall(s) /\ i = idx[s]
         /\ <<s, i>> \in closed => i < idx[s]
    /\ watching \cap expired = {}

-----------------------------------------------------------------------------
(* A mount of the table is a mount, and its point a mount point.           *)
LEMMA PointIsPoint ==
    ASSUME TypeOK, NEW s \in Scrapes, NEW i \in Nat \ {0}, i <= Len(table[s])
    PROVE  table[s][i] \in Mounts /\ table[s][i].mountPoint \in Points
<1>1. table[s][i] \in Mounts
  BY DEF TypeOK
<1>2. QED  BY <1>1 DEF Points

(* Moving on by one line, and appending an entry, keep the types.          *)
LEMMA NextPosition ==
    ASSUME idx \in [Scrapes -> Nat \ {0}], NEW s \in Scrapes,
           idx' = [idx EXCEPT ![s] = @ + 1]
    PROVE  idx' \in [Scrapes -> Nat \ {0}]
OBVIOUS

Stats == [labels : Mounts, deviceError : {0, 1}]

LEMMA AppendEntry ==
    ASSUME stats \in [Scrapes -> Seq(Stats)], NEW s \in Scrapes,
           NEW m \in Mounts, NEW err,
           stats' = [stats EXCEPT ![s] = Append(@, Entry(m, err))]
    PROVE  stats' \in [Scrapes -> Seq(Stats)]
<1>1. Entry(m, err) \in Stats
  BY DEF Entry, Stats
<1>2. Append(stats[s], Entry(m, err)) \in Seq(Stats)
  BY <1>1
<1>3. QED  BY <1>2

(* The lines of a readable file are mounts.                                *)
LEMMA ReadableTable ==
    ASSUME NEW files \in ProcFiles, Readable(MountsFile(files))
    PROVE  MountsFile(files).lines \in Seq(Mounts)
<1>1. MountsFile(files) \in File
  BY FilesAssumption DEF MountsFile
<1>2. MountsFile(files).lines \in Seq(Mounts \cup {Malformed})
  BY <1>1 DEF File
<1>3. \A i \in DOMAIN MountsFile(files).lines : MountsFile(files).lines[i] \in Mounts
  BY <1>2 DEF Readable
<1>4. QED  BY <1>2, <1>3

(* Types and watchers, together: that a mark is a mount point rests on the *)
(* watcher's position being in the table.                                  *)
THEOREM WatchersCorrect == Spec => [](TypeOK /\ WatchInv)
<1>1. Init => TypeOK /\ WatchInv
  BY DEF Init, TypeOK, WatchInv, InCall
<1>2. TypeOK /\ WatchInv /\ [Next]_vars => TypeOK' /\ WatchInv'
  <2> SUFFICES ASSUME TypeOK, WatchInv, [Next]_vars PROVE TypeOK' /\ WatchInv'
    OBVIOUS
  <2> USE DEF scrapeVars, watcherVars
  <2>1. ASSUME NEW s \in Scrapes, Start(s) PROVE TypeOK' /\ WatchInv'
    <3>1. table' \in [Scrapes -> Seq(Mounts)]
      <4>1. PICK t \in Seq(Mounts) : table' = [table EXCEPT ![s] = t]
        <5>1. <<>> \in Seq(Mounts)
          OBVIOUS
        <5>2. QED  BY <2>1, <5>1, ReadableTable DEF Start
      <4>2. QED  BY <4>1 DEF TypeOK
    <3>2. TypeOK'
      <4>1. /\ pc' \in [Scrapes -> {"idle", "walk", "statfs", "returned", "done", "error"}]
            /\ answered' \in [Scrapes -> SUBSET Nat]
            /\ answer' \in [Scrapes -> SUBSET Nat]
            /\ closed' \subseteq Scrapes \X (Nat \ {0})
        BY <2>1 DEF Start, TypeOK
      <4>2. idx' \in [Scrapes -> Nat \ {0}]
        <5>1. 1 \in Nat \ {0}
          OBVIOUS
        <5>2. QED  BY <2>1, <5>1 DEF Start, TypeOK
      <4>3. stats' \in [Scrapes -> Seq([labels : Mounts, deviceError : {0, 1}])]
        <5>1. <<>> \in Seq([labels : Mounts, deviceError : {0, 1}])
          OBVIOUS
        <5>2. QED  BY <2>1, <5>1 DEF Start, TypeOK
      <4>4. QED  BY <2>1, <3>1, <4>1, <4>2, <4>3 DEF Start, TypeOK
    <3>3. \A i \in Nat \ {0} : <<s, i>> \notin watching \cup expired
      BY <2>1 DEF Start, WatchersOf
    <3>4. /\ closed' = {w \in closed : w[1] # s}
          /\ UNCHANGED <<watching, expired>>
          /\ idx' = [idx EXCEPT ![s] = 1]
          /\ pc'[s] \in {"walk", "error"}
          /\ \A q \in Scrapes : q # s => pc'[q] = pc[q] /\ table'[q] = table[q]
      BY <2>1 DEF Start, TypeOK
    <3>5. WatchInv'
      BY <3>3, <3>4 DEF WatchInv, InCall, TypeOK
    <3>6. QED  BY <3>2, <3>5
  <2>2. ASSUME NEW s \in Scrapes, SkipExcluded(s) PROVE TypeOK' /\ WatchInv'
    <3>1. TypeOK'
      BY <2>2, NextPosition DEF SkipExcluded, TypeOK
    <3>2. WatchInv'
      BY <2>2 DEF SkipExcluded, More, WatchInv, InCall, TypeOK
    <3>3. QED  BY <3>1, <3>2
  <2>3. ASSUME NEW s \in Scrapes, SkipStuck(s) PROVE TypeOK' /\ WatchInv'
    <3>1. Current(s) \in Mounts
      BY <2>3, PointIsPoint DEF SkipStuck, More, Current, TypeOK
    <3>2. TypeOK'
      BY <2>3, <3>1, NextPosition, AppendEntry DEF SkipStuck, Stats, TypeOK
    <3>3. WatchInv'
      BY <2>3 DEF SkipStuck, More, WatchInv, InCall, TypeOK
    <3>4. QED  BY <3>2, <3>3
  <2>4. ASSUME NEW s \in Scrapes, CallStatfs(s) PROVE TypeOK' /\ WatchInv'
    <3>1. TypeOK'
      <4>1. watching' \subseteq Scrapes \X (Nat \ {0})
        BY <2>4 DEF CallStatfs, TypeOK
      <4>2. QED  BY <2>4, <4>1 DEF CallStatfs, TypeOK
    <3>2. WatchInv'
      <4>1. <<s, idx[s]>> \notin expired
        <5>1. idx[s] \in Nat \ {0} /\ ~InCall(s)
          BY <2>4 DEF CallStatfs, More, InCall, TypeOK
        <5>2. <<s, idx[s]>> \notin closed
          BY <5>1 DEF WatchInv
        <5>3. QED  BY <5>1, <5>2 DEF WatchInv
      <4>2. /\ watching' = watching \cup {<<s, idx[s]>>}
            /\ UNCHANGED <<table, idx, expired, closed>>
            /\ idx[s] <= Len(table[s]) /\ pc[s] = "walk" /\ pc'[s] = "statfs"
            /\ \A q \in Scrapes : q # s => pc'[q] = pc[q]
        BY <2>4 DEF CallStatfs, More, TypeOK
      <4>3. ASSUME NEW q \in Scrapes, NEW i \in Nat \ {0},
                   <<q, i>> \in (watching \cup expired)'
            PROVE  /\ i <= Len(table'[q])
                   /\ <<q, i>> \notin closed' => InCall(q)' /\ i = idx'[q]
        <5>1. CASE <<q, i>> = <<s, idx[s]>>
          BY <4>2, <5>1 DEF InCall
        <5>2. CASE <<q, i>> # <<s, idx[s]>>
          BY <4>2, <4>3, <5>2 DEF WatchInv, InCall
        <5>3. QED  BY <5>1, <5>2
      <4>4. QED  BY <4>1, <4>2, <4>3 DEF WatchInv, InCall
    <3>3. QED  BY <3>1, <3>2
  <2>5. ASSUME NEW s \in Scrapes, StatfsReturns(s) PROVE TypeOK' /\ WatchInv'
    <3>1. TypeOK'
      <4>1. PICK err \in BOOLEAN :
              /\ failed' = [failed EXCEPT ![s] = err]
              /\ answered' = [answered EXCEPT ![s] = IF err THEN @ ELSE @ \cup {idx[s]}]
        BY <2>5 DEF StatfsReturns
      <4>2. answered' \in [Scrapes -> SUBSET Nat]
        BY <4>1 DEF TypeOK
      <4>3. QED  BY <2>5, <4>1, <4>2 DEF StatfsReturns, TypeOK
    <3>2. WatchInv'
      BY <2>5 DEF StatfsReturns, WatchInv, InCall, TypeOK
    <3>3. QED  BY <3>1, <3>2
  <2>6. ASSUME NEW s \in Scrapes, CloseSuccess(s) PROVE TypeOK' /\ WatchInv'
    <3>1. Current(s) \in Mounts
      BY <2>6, PointIsPoint DEF CloseSuccess, Current, InCall, WatchInv, TypeOK
    <3>2. TypeOK'
      <4>1. stats' \in [Scrapes -> Seq(Stats)]
        BY <2>6, <3>1, AppendEntry DEF CloseSuccess, Stats, TypeOK
      <4>2. idx' \in [Scrapes -> Nat \ {0}]
        BY <2>6, NextPosition DEF CloseSuccess, TypeOK
      <4>3. closed' \subseteq Scrapes \X (Nat \ {0})
        BY <2>6 DEF CloseSuccess, TypeOK
      <4>4. QED
        BY <2>6, <4>1, <4>2, <4>3 DEF CloseSuccess, StuckAfterReturn, Stats, TypeOK
    <3>3. WatchInv'
      BY <2>6 DEF CloseSuccess, WatchInv, InCall, TypeOK
    <3>4. QED  BY <3>2, <3>3
  <2>7. ASSUME NEW s \in Scrapes, Update(s) PROVE TypeOK' /\ WatchInv'
    <3>1. stats[s] \in Seq([labels : Mounts, deviceError : {0, 1}])
      BY DEF TypeOK
    <3>2. Sent(stats[s]) \subseteq Nat
      BY <3>1 DEF Sent
    <3>3. TypeOK'
      BY <2>7, <3>2 DEF Update, TypeOK
    <3>4. WatchInv'
      BY <2>7 DEF Update, WatchInv, InCall, TypeOK
    <3>5. QED  BY <3>3, <3>4
  <2>8. ASSUME NEW s \in Scrapes, EndScrape(s) PROVE TypeOK' /\ WatchInv'
    <3>1. TypeOK'
      BY <2>8 DEF EndScrape, TypeOK
    <3>2. WatchInv'
      BY <2>8 DEF EndScrape, WatchInv, InCall, TypeOK
    <3>3. QED  BY <3>1, <3>2
  <2>9. ASSUME NEW w \in watching \cup expired, SeesSuccess(w) \/ Expires(w)
        PROVE  TypeOK' /\ WatchInv'
    <3>1. TypeOK'
      BY <2>9 DEF SeesSuccess, Expires, TypeOK
    <3>2. WatchInv'
      BY <2>9 DEF SeesSuccess, Expires, WatchInv, InCall, TypeOK
    <3>3. QED  BY <3>1, <3>2
  <2>10. ASSUME NEW w \in watching \cup expired, MarkStuck(w)
         PROVE  TypeOK' /\ WatchInv'
    <3>1. PICK s \in Scrapes, i \in Nat \ {0} : w = <<s, i>>
      BY DEF TypeOK
    <3>2. PointOf(w) \in Points
      BY <2>10, <3>1, PointIsPoint DEF WatchInv, PointOf
    <3>3. TypeOK'
      BY <2>10, <3>2 DEF MarkStuck, StuckAfterTimeout, TypeOK
    <3>4. WatchInv'
      BY <2>10 DEF MarkStuck, WatchInv, InCall
    <3>5. QED  BY <3>3, <3>4
  <2>11. ASSUME NEW p \in Slow, Hang(p) \/ Recover(p) PROVE TypeOK' /\ WatchInv'
    BY <2>11, SlowAssumption DEF Hang, Recover, TypeOK, WatchInv, InCall
  <2>12. CASE UNCHANGED vars
    BY <2>12 DEF vars, TypeOK, WatchInv, InCall
  <2>13. QED
    BY <2>1, <2>2, <2>3, <2>4, <2>5, <2>6, <2>7, <2>8, <2>9, <2>10, <2>11, <2>12
       DEF Next, Walk, Watch
<1>3. QED  BY <1>1, <1>2, PTL DEF Spec

(* The variables keep their types.                                         *)
THEOREM TypeCorrect == Spec => []TypeOK
BY WatchersCorrect, PTL

(* Every mark is owed to a call that is still out, which will remove it.   *)
THEOREM StuckHasCallerHolds == Spec => []StuckHasCaller
<1> DEFINE Owes(s, p) == /\ InCall(s)
                         /\ Point(s) = p
                         /\ <<s, idx[s]>> \notin watching \cup expired
<1>1. Init => StuckHasCaller
  BY DEF Init, StuckHasCaller
<1>2. TypeOK /\ WatchInv /\ StuckHasCaller /\ [Next]_vars => StuckHasCaller'
  <2> SUFFICES ASSUME TypeOK, WatchInv, StuckHasCaller, [Next]_vars,
                      NEW p \in stuck'
               PROVE  \E s \in Scrapes : Owes(s, p)'
    BY DEF StuckHasCaller
  <2> USE DEF scrapeVars, watcherVars
  <2>1. ASSUME p \in stuck,
               \A q \in Scrapes : Owes(q, p) => Owes(q, p)'
        PROVE  \E s \in Scrapes : Owes(s, p)'
    BY <2>1 DEF StuckHasCaller
  <2>2. ASSUME NEW s \in Scrapes, stuck' = stuck, ~InCall(s),
               \A q \in Scrapes : q # s => /\ pc'[q] = pc[q]
                                           /\ idx'[q] = idx[q]
                                           /\ table'[q] = table[q],
               \A q \in Scrapes, i \in Nat \ {0} : q # s =>
                  (<<q, i>> \in (watching \cup expired)' => <<q, i>> \in watching \cup expired)
        PROVE  \E q \in Scrapes : Owes(q, p)'
    <3>1. \A q \in Scrapes : Owes(q, p) => q # s
      BY <2>2
    <3>2. ASSUME NEW q \in Scrapes, Owes(q, p) PROVE Owes(q, p)'
      <4>1. idx[q] \in Nat \ {0}
        BY DEF TypeOK
      <4>2. QED  BY <2>2, <3>1, <3>2, <4>1 DEF InCall, Point, Current
    <3>3. QED  BY <2>1, <2>2, <3>2
  <2>3. ASSUME NEW s \in Scrapes, Start(s) PROVE \E q \in Scrapes : Owes(q, p)'
    BY <2>2, <2>3 DEF Start, InCall, TypeOK
  <2>4. ASSUME NEW s \in Scrapes,
               SkipExcluded(s) \/ SkipStuck(s) \/ Update(s) \/ EndScrape(s)
        PROVE  \E q \in Scrapes : Owes(q, p)'
    BY <2>2, <2>4 DEF SkipExcluded, SkipStuck, Update, EndScrape, More, InCall, TypeOK
  <2>5. ASSUME NEW s \in Scrapes, CallStatfs(s) PROVE \E q \in Scrapes : Owes(q, p)'
    BY <2>2, <2>5 DEF CallStatfs, More, InCall, TypeOK
  <2>6. ASSUME NEW s \in Scrapes, StatfsReturns(s)
        PROVE  \E q \in Scrapes : Owes(q, p)'
    BY <2>1, <2>6 DEF StatfsReturns, InCall, Point, Current, TypeOK
  <2>7. ASSUME NEW s \in Scrapes, CloseSuccess(s)
        PROVE  \E q \in Scrapes : Owes(q, p)'
    <3>1. p \in stuck /\ p # Point(s)
      BY <2>7 DEF CloseSuccess, StuckAfterReturn
    <3>2. \A q \in Scrapes : Owes(q, p) => Owes(q, p)'
      BY <2>7, <3>1 DEF CloseSuccess, InCall, Point, Current, TypeOK
    <3>3. QED  BY <2>1, <3>1, <3>2
  <2>8. ASSUME NEW w \in watching \cup expired, SeesSuccess(w) \/ Expires(w)
        PROVE  \E q \in Scrapes : Owes(q, p)'
    BY <2>1, <2>8 DEF SeesSuccess, Expires, InCall, Point, Current
  <2>9. ASSUME NEW w \in watching \cup expired, MarkStuck(w)
        PROVE  \E q \in Scrapes : Owes(q, p)'
    <3>1. \A q \in Scrapes : Owes(q, p) => Owes(q, p)'
      BY <2>9 DEF MarkStuck, InCall, Point, Current
    <3>2. CASE p \in stuck
      BY <2>1, <3>1, <3>2
    <3>3. CASE p \notin stuck
      <4>1. PICK s \in Scrapes, i \in Nat \ {0} : w = <<s, i>>
        BY DEF TypeOK
      <4>2. w \notin closed /\ p = table[s][i].mountPoint
        BY <2>9, <3>3, <4>1 DEF MarkStuck, StuckAfterTimeout, PointOf
      <4>3. InCall(s) /\ i = idx[s]
        BY <4>1, <4>2 DEF WatchInv
      <4>4. w \notin (watching \cup expired)'
        BY <2>9 DEF MarkStuck, WatchInv
      <4>5. QED
        BY <2>9, <4>1, <4>2, <4>3, <4>4 DEF MarkStuck, InCall, Point, Current
    <3>4. QED  BY <3>2, <3>3
  <2>10. ASSUME NEW q \in Slow, Hang(q) \/ Recover(q)
         PROVE  \E s \in Scrapes : Owes(s, p)'
    BY <2>1, <2>10 DEF Hang, Recover, InCall, Point, Current
  <2>11. CASE UNCHANGED vars
    BY <2>1, <2>11 DEF vars, InCall, Point, Current
  <2>12. QED
    BY <2>3, <2>4, <2>5, <2>6, <2>7, <2>8, <2>9, <2>10, <2>11
       DEF Next, Walk, Watch
<1>3. QED  BY <1>1, <1>2, WatchersCorrect, PTL DEF Spec

-----------------------------------------------------------------------------
(* EveryMountReported: what a scrape has reported when it is done follows  *)
(* from what it has reported at every line of the table (ReportedInv).     *)

DueUpTo(t, a, n) ==
    [i \in 1..n |-> [labels |-> t[i], deviceError |-> IF i \in a THEN 0 ELSE 1]]

DueTo(s, n) == DueUpTo(table[s], answered[s], n)

(* Up to the line it has reached a scrape has reported what is due for the *)
(* mounts it keeps; it has an answer for none it has yet to call, and when *)
(* a call is back it remembers how it ended.                               *)
Reported(s) ==
    /\ pc[s] \in {"walk", "statfs", "returned"} =>
         idx[s] <= Len(table[s]) + 1 /\ stats[s] = Kept(DueTo(s, idx[s] - 1))
    /\ pc[s] \in {"walk", "statfs"} => \A n \in answered[s] : n < idx[s]
    /\ pc[s] = "returned" => /\ \A n \in answered[s] : n <= idx[s]
                             /\ failed[s] <=> idx[s] \notin answered[s]
    /\ InCall(s) => ~Excluded(Current(s))
    /\ pc[s] = "done" => /\ stats[s] = Kept(DueTo(s, Len(table[s])))
                         /\ answer[s] = Sent(stats[s])

ReportedInv == \A s \in Scrapes : Reported(s)

(* Kept is a selection, of the entries whose mounts are not excluded.      *)
LEMMA KeptIsSelection ==
    ASSUME NEW t \in Seq(Stats)
    PROVE  \E f : /\ IsSelection(f, t, {e \in Stats : ~Excluded(e.labels)})
                  /\ Kept(t) = f[Len(t)]
<1> DEFINE W == {e \in Stats : ~Excluded(e.labels)}
           Line(f, n) == IF n = 0 THEN <<>>
                         ELSE IF ~Excluded(t[n].labels) THEN Append(f[n - 1], t[n])
                         ELSE f[n - 1]
           kept == CHOOSE f : f = [n \in 0..Len(t) |-> Line(f, n)]
<1>1. \A f : IsSelection(f, t, W) <=> f = [n \in 0..Len(t) |-> Line(f, n)]
  <2>1. Len(t) \in Nat /\ \A n \in 1..Len(t) : t[n] \in Stats
    OBVIOUS
  <2>2. ASSUME NEW f
        PROVE  [n \in 0..Len(t) |-> Line(f, n)] =
                 [n \in 0..Len(t) |->
                    IF n = 0 THEN <<>> ELSE IF t[n] \in W THEN Append(f[n - 1], t[n]) ELSE f[n - 1]]
    BY <2>1
  <2>3. QED  BY <2>2 DEF IsSelection
<1>2. \E f : f = [n \in 0..Len(t) |-> Line(f, n)]
  BY <1>1, SelectionExists
<1>3. kept = [n \in 0..Len(t) |-> Line(kept, n)]
  BY <1>2
<1>4. Kept(t) = kept[Len(t)]
  BY DEF Kept
<1>5. QED  BY <1>1, <1>3, <1>4

LEMMA KeptOfEmpty == Kept(<<>>) = <<>>
<1>1. <<>> \in Seq(Stats) /\ Len(<<>>) = 0
  OBVIOUS
<1>2. PICK f : /\ IsSelection(f, <<>>, {e \in Stats : ~Excluded(e.labels)})
               /\ Kept(<<>>) = f[0]
  BY <1>1, KeptIsSelection
<1>3. f[0] = <<>>
  BY <1>1, <1>2 DEF IsSelection
<1>4. QED  BY <1>2, <1>3

(* One more entry is kept unless its mount is excluded.                    *)
LEMMA KeptOfAppend ==
    ASSUME NEW t \in Seq(Stats), NEW e \in Stats
    PROVE  Kept(Append(t, e)) = IF Excluded(e.labels) THEN Kept(t) ELSE Append(Kept(t), e)
<1> DEFINE u == Append(t, e)
           W == {k \in Stats : ~Excluded(k.labels)}
<1>1. u \in Seq(Stats) /\ Len(u) = Len(t) + 1
  OBVIOUS
<1>2. PICK f : IsSelection(f, t, W) /\ Kept(t) = f[Len(t)]
  BY KeptIsSelection
<1>3. PICK g : IsSelection(g, u, W) /\ Kept(u) = g[Len(u)]
  <2> HIDE DEF u
  <2> QED  BY <1>1, KeptIsSelection
<1>4. g[Len(t) + 1] = IF e \in W THEN Append(f[Len(t)], e) ELSE f[Len(t)]
  <2> HIDE DEF W
  <2> QED  BY <1>2, <1>3, SelectionOfAppend
<1>5. QED  BY <1>1, <1>2, <1>3, <1>4

(* What is due up to the next line is what is due up to this one, and it.  *)
LEMMA OneLineOn ==
    ASSUME NEW t \in Seq(Mounts), NEW i \in 1..Len(t), NEW a
    PROVE  /\ DueUpTo(t, a, i - 1) \in Seq(Stats)
           /\ Entry(t[i], i \notin a) \in Stats
           /\ DueUpTo(t, a, i) = Append(DueUpTo(t, a, i - 1), Entry(t[i], i \notin a))
<1> DEFINE b == DueUpTo(t, a, i - 1)
           c == DueUpTo(t, a, i)
<1> DEFINE E(n) == [labels |-> t[n], deviceError |-> IF n \in a THEN 0 ELSE 1]
<1>1. \A n \in 1..i : E(n) \in Stats
  <2>1. \A n \in 1..i : t[n] \in Mounts
    OBVIOUS
  <2>2. QED  BY <2>1 DEF Stats
<1>2. Entry(t[i], i \notin a) = E(i)
  BY DEF Entry
<1> HIDE DEF b, c
<1>3. i \in Nat /\ i - 1 \in Nat /\ i \in 1..i /\ 1..(i - 1) \subseteq 1..i
  OBVIOUS
<1> HIDE DEF E
<1>4. b = [n \in 1..(i - 1) |-> E(n)] /\ c = [n \in 1..i |-> E(n)]
  BY DEF E, b, c, DueUpTo
<1>5. b \in Seq(Stats) /\ Len(b) = i - 1 /\ c \in Seq(Stats) /\ Len(c) = i
  BY <1>1, <1>3, <1>4
<1> DEFINE d == Append(b, E(i))
<1>6. /\ d \in Seq(Stats) /\ Len(d) = i
      /\ \A n \in 1..(i - 1) : d[n] = b[n]
      /\ d[i] = E(i)
  BY <1>1, <1>3, <1>5, AppendProperties
<1>7. c = d
  <2>1. \A n \in 1..i : c[n] = d[n]
    BY <1>3, <1>4, <1>6
  <2> HIDE DEF d
  <2>2. QED  BY <1>5, <1>6, <2>1, SeqEqual
<1>8. QED  BY <1>1, <1>2, <1>3, <1>5, <1>7 DEF b, c

(* What a step changes of a scrape's report: nothing, or the line it has   *)
(* reached, which is excluded or has been reported as is due.              *)
Reports(s) ==
    /\ pc[s] \in {"walk", "statfs", "returned"}
    /\ idx[s] <= Len(table[s])
    /\ pc'[s] = "walk"
    /\ UNCHANGED <<table[s], answered[s]>>
    /\ idx'[s] = idx[s] + 1
    /\ \/ Excluded(Current(s)) /\ UNCHANGED <<stats[s]>>
       \/ /\ ~Excluded(Current(s))
          /\ stats'[s] = Append(stats[s], Entry(Current(s), idx[s] \notin answered[s]))

LEMMA ReportsLine ==
    ASSUME TypeOK, ReportedInv, NEW s \in Scrapes, Reports(s)
    PROVE  /\ idx'[s] <= Len(table'[s]) + 1
           /\ stats'[s] = Kept(DueTo(s, idx[s] - 1)')
           /\ \A n \in answered'[s] : n < idx'[s]
<1>1. /\ table[s] \in Seq(Mounts) /\ answered[s] \subseteq Nat
      /\ idx[s] \in 1..Len(table[s]) /\ Len(table[s]) \in Nat
  <2>1. table[s] \in Seq(Mounts) /\ idx[s] \in Nat \ {0} /\ answered[s] \subseteq Nat
    BY DEF TypeOK
  <2>2. idx[s] <= Len(table[s]) /\ Len(table[s]) \in Nat
    BY <2>1 DEF Reports
  <2>3. QED  BY <2>1, <2>2
<1>2. /\ DueTo(s, idx[s] - 1)' = Append(DueTo(s, idx[s] - 1), Entry(Current(s), idx[s] \notin answered[s]))
      /\ DueTo(s, idx[s] - 1) \in Seq(Stats)
      /\ Entry(Current(s), idx[s] \notin answered[s]) \in Stats
  <2>1. table'[s] = table[s] /\ answered'[s] = answered[s] /\ idx'[s] - 1 = idx[s]
    BY <1>1 DEF Reports
  <2>2. DueTo(s, idx[s] - 1)' = DueTo(s, idx[s])
    BY <2>1 DEF DueTo, DueUpTo
  <2>3. DueTo(s, idx[s]) = Append(DueTo(s, idx[s] - 1), Entry(table[s][idx[s]], idx[s] \notin answered[s]))
    BY <1>1, OneLineOn DEF DueTo
  <2>4. QED  BY <1>1, <2>2, <2>3, OneLineOn DEF DueTo, Current
<1>3. Entry(Current(s), idx[s] \notin answered[s]).labels = Current(s)
  BY DEF Entry
<1>4. stats[s] = Kept(DueTo(s, idx[s] - 1))
  BY DEF ReportedInv, Reported, Reports
<1>5. stats'[s] = Kept(DueTo(s, idx[s] - 1)')
  BY <1>2, <1>3, <1>4, KeptOfAppend DEF Reports
<1>6. \A n \in answered'[s] : n < idx'[s]
  BY <1>1 DEF Reports, ReportedInv, Reported
<1>7. QED  BY <1>1, <1>5, <1>6 DEF Reports

(* A scrape whose report no step of another changes.                       *)
LEMMA ReportKept ==
    ASSUME ReportedInv, NEW s \in Scrapes,
           UNCHANGED <<table[s], idx[s], answered[s], failed[s], stats[s], answer[s]>>,
           \/ pc'[s] = pc[s]
           \/ pc[s] = "walk" /\ pc'[s] = "statfs" /\ ~Excluded(Current(s))
    PROVE  Reported(s)'
BY DEF ReportedInv, Reported, DueTo, DueUpTo, Current, InCall

LEMMA ReportedStep ==
    TypeOK /\ WatchInv /\ ReportedInv /\ [Next]_vars => ReportedInv'
<1> SUFFICES ASSUME TypeOK, WatchInv, ReportedInv, [Next]_vars PROVE ReportedInv'
  OBVIOUS
<1> DEFINE Still(s) == UNCHANGED <<pc[s], table[s], idx[s], answered[s], failed[s], stats[s], answer[s]>>
<1> USE DEF scrapeVars, watcherVars
<1>1. ASSUME NEW s \in Scrapes, Start(s)
      PROVE  Reported(s)' /\ \A q \in Scrapes \ {s} : Still(q)
  <2>1. /\ pc'[s] \in {"walk", "error"} /\ idx'[s] = 1 /\ stats'[s] = <<>> /\ answered'[s] = {}
        /\ \A q \in Scrapes \ {s} : Still(q)
    BY <1>1 DEF Start, TypeOK
  <2>2. table'[s] \in Seq(Mounts) /\ 1 <= Len(table'[s]) + 1
    <3>1. <<>> \in Seq(Mounts)
      OBVIOUS
    <3>2. table'[s] \in Seq(Mounts)
      BY <1>1, <3>1, ReadableTable DEF Start, TypeOK
    <3>3. QED  BY <3>2
  <2>3. DueTo(s, idx[s] - 1)' = <<>>
    <3>1. idx'[s] - 1 = 0 /\ 1..0 = {}
      BY <2>1
    <3>2. QED  BY <3>1 DEF DueTo, DueUpTo
  <2>4. QED  BY <2>1, <2>2, <2>3, KeptOfEmpty DEF Reported, InCall
<1>2. ASSUME NEW s \in Scrapes, SkipExcluded(s) \/ SkipStuck(s) \/ CloseSuccess(s)
      PROVE  Reported(s)' /\ \A q \in Scrapes \ {s} : Still(q)
  <2>1. CASE SkipExcluded(s)
    <3>1. Reports(s)
      BY <2>1 DEF SkipExcluded, More, Reports, TypeOK
    <3>2. \A q \in Scrapes \ {s} : Still(q)
      BY <2>1 DEF SkipExcluded, TypeOK
    <3>3. QED  BY <3>1, <3>2, ReportsLine DEF Reports, Reported, InCall
  <2>2. CASE SkipStuck(s)
    <3>1. /\ idx'[s] = idx[s] + 1 /\ pc[s] = "walk"
          /\ stats'[s] = Append(stats[s], Entry(Current(s), TRUE))
      BY <2>2 DEF SkipStuck, More, TypeOK
    <3>2. idx[s] \notin answered[s]
      <4>1. \A n \in answered[s] : n < idx[s]
        BY <3>1 DEF ReportedInv, Reported
      <4>2. idx[s] \in Nat
        BY DEF TypeOK
      <4>3. QED  BY <4>1, <4>2
    <3>3. Reports(s)
      BY <2>2, <3>1, <3>2 DEF SkipStuck, More, Reports
    <3>4. \A q \in Scrapes \ {s} : Still(q)
      BY <2>2 DEF SkipStuck, TypeOK
    <3>5. QED  BY <3>3, <3>4, ReportsLine DEF Reports, Reported, InCall
  <2>3. CASE CloseSuccess(s)
    <3>1. /\ idx'[s] = idx[s] + 1 /\ pc'[s] = "walk" /\ pc[s] = "returned"
          /\ stats'[s] = Append(stats[s], Entry(Current(s), failed[s]))
      BY <2>3 DEF CloseSuccess, TypeOK
    <3>2. idx[s] <= Len(table[s]) /\ ~Excluded(Current(s))
      BY <2>3 DEF CloseSuccess, InCall, WatchInv, ReportedInv, Reported
    <3>3. stats'[s] = Append(stats[s], Entry(Current(s), idx[s] \notin answered[s]))
      <4>1. failed[s] <=> idx[s] \notin answered[s]
        BY <3>1 DEF ReportedInv, Reported
      <4>2. Entry(Current(s), failed[s]) = Entry(Current(s), idx[s] \notin answered[s])
        BY <4>1 DEF Entry
      <4>3. QED  BY <3>1, <4>2
    <3>4. Reports(s)
      BY <2>3, <3>1, <3>2, <3>3 DEF CloseSuccess, Reports
    <3>5. \A q \in Scrapes \ {s} : Still(q)
      BY <2>3 DEF CloseSuccess, TypeOK
    <3>6. QED  BY <3>4, <3>5, ReportsLine DEF Reports, Reported, InCall
  <2>4. QED  BY <1>2, <2>1, <2>2, <2>3
<1>3. ASSUME NEW s \in Scrapes, CallStatfs(s)
      PROVE  Reported(s)' /\ \A q \in Scrapes \ {s} : Still(q)
  <2>1. /\ pc[s] = "walk" /\ pc'[s] = "statfs" /\ ~Excluded(Current(s))
        /\ UNCHANGED <<table, idx, answered, failed, stats, answer>>
        /\ \A q \in Scrapes \ {s} : Still(q)
    BY <1>3 DEF CallStatfs, More, TypeOK
  <2>2. QED  BY <2>1, ReportKept
<1>4. ASSUME NEW s \in Scrapes, StatfsReturns(s)
      PROVE  Reported(s)' /\ \A q \in Scrapes \ {s} : Still(q)
  <2>1. PICK err \in BOOLEAN :
          /\ failed' = [failed EXCEPT ![s] = err]
          /\ answered' = [answered EXCEPT ![s] = IF err THEN @ ELSE @ \cup {idx[s]}]
    BY <1>4 DEF StatfsReturns
  <2>2. /\ pc[s] = "statfs" /\ pc'[s] = "returned" /\ UNCHANGED <<table, idx, stats, answer>>
        /\ failed'[s] = err
        /\ answered'[s] = IF err THEN answered[s] ELSE answered[s] \cup {idx[s]}
        /\ \A q \in Scrapes \ {s} : Still(q)
    BY <1>4, <2>1 DEF StatfsReturns, TypeOK
  <2>3. /\ idx[s] \in Nat \ {0} /\ answered[s] \subseteq Nat
        /\ \A n \in answered[s] : n < idx[s]
        /\ idx[s] <= Len(table[s]) + 1 /\ stats[s] = Kept(DueTo(s, idx[s] - 1))
        /\ ~Excluded(Current(s))
    BY <2>2 DEF ReportedInv, Reported, InCall, TypeOK
  <2>4. DueTo(s, idx[s] - 1)' = DueTo(s, idx[s] - 1)
    <3>1. \A n \in 1..(idx[s] - 1) : n \in answered'[s] <=> n \in answered[s]
      BY <2>2, <2>3
    <3>2. QED  BY <2>2, <3>1 DEF DueTo, DueUpTo
  <2>5. /\ \A n \in answered'[s] : n <= idx[s]
        /\ failed'[s] <=> idx[s] \notin answered'[s]
    BY <2>2, <2>3
  <2>6. QED  BY <2>2, <2>3, <2>4, <2>5 DEF Reported, InCall, Current
<1>5. ASSUME NEW s \in Scrapes, Update(s)
      PROVE  Reported(s)' /\ \A q \in Scrapes \ {s} : Still(q)
  <2>1. /\ pc[s] = "walk" /\ pc'[s] = "done" /\ UNCHANGED <<table, idx, answered, stats>>
        /\ answer'[s] = Sent(stats[s])
        /\ idx[s] > Len(table[s])
        /\ \A q \in Scrapes \ {s} : Still(q)
    BY <1>5 DEF Update, TypeOK
  <2>2. idx[s] - 1 = Len(table[s])
    <3>1. /\ table[s] \in Seq(Mounts) /\ idx[s] \in Nat
          /\ idx[s] <= Len(table[s]) + 1
      BY <2>1 DEF ReportedInv, Reported, TypeOK
    <3>2. QED  BY <2>1, <3>1
  <2>3. stats[s] = Kept(DueTo(s, Len(table[s])))
    BY <2>1, <2>2 DEF ReportedInv, Reported
  <2>4. DueTo(s, Len(table[s]))' = DueTo(s, Len(table[s]))
    BY <2>1 DEF DueTo, DueUpTo
  <2>5. QED  BY <2>1, <2>3, <2>4 DEF Reported, InCall
<1>6. ASSUME NEW s \in Scrapes, EndScrape(s)
      PROVE  Reported(s)' /\ \A q \in Scrapes \ {s} : Still(q)
  BY <1>6 DEF EndScrape, Reported, InCall, TypeOK
<1>7. ASSUME \A q \in Scrapes : Still(q) PROVE ReportedInv'
  BY <1>7, ReportKept DEF ReportedInv
<1>8. ASSUME NEW s \in Scrapes, Reported(s)', \A q \in Scrapes \ {s} : Still(q)
      PROVE  ReportedInv'
  BY <1>8, ReportKept DEF ReportedInv
<1>9. CASE \E w \in watching \cup expired : Watch(w)
  BY <1>7, <1>9 DEF Watch, SeesSuccess, Expires, MarkStuck
<1>10. CASE \E p \in Slow : Hang(p) \/ Recover(p)
  BY <1>7, <1>10 DEF Hang, Recover
<1>11. CASE UNCHANGED vars
  BY <1>7, <1>11 DEF vars
<1>12. QED
  BY <1>1, <1>2, <1>3, <1>4, <1>5, <1>6, <1>8, <1>9, <1>10, <1>11 DEF Next, Walk

(* Of the stats that have the same labels the first is sent.               *)
LEMMA FirstIsSent ==
    ASSUME NEW st \in Seq(Stats)
    PROVE  /\ \A i \in DOMAIN st : \E j \in Sent(st) : j <= i /\ st[j].labels = st[i].labels
           /\ \A i, j \in Sent(st) : st[i].labels = st[j].labels => i = j
<1>1. Len(st) \in Nat /\ DOMAIN st = 1..Len(st)
  OBVIOUS
<1>2. ASSUME NEW i \in DOMAIN st
      PROVE  \E j \in Sent(st) : j <= i /\ st[j].labels = st[i].labels
  <2> DEFINE Same == {j \in 1..i : st[j].labels = st[i].labels}
  <2>1. i \in Nat /\ i \in 1..i /\ 1..i \subseteq DOMAIN st /\ i \in Same /\ Same \subseteq Nat
    BY <1>1
  <2>2. PICK j \in Same : \A k \in Same : j <= k
    <3> HIDE DEF Same
    <3> QED  BY <2>1, LeastMember
  <2>3. j \in 1..i /\ j \in DOMAIN st /\ st[j].labels = st[i].labels
    BY <2>1
  <2>4. \A k \in 1..(j - 1) : st[k].labels # st[j].labels
    BY <2>1, <2>2, <2>3
  <2>5. QED  BY <2>3, <2>4 DEF Sent
<1>3. ASSUME NEW i \in Sent(st), NEW j \in Sent(st), st[i].labels = st[j].labels PROVE i = j
  <2>1. /\ i \in Nat \ {0} /\ j \in Nat \ {0}
        /\ \A k \in 1..(i - 1) : st[k].labels # st[i].labels
        /\ \A k \in 1..(j - 1) : st[k].labels # st[j].labels
    BY <1>1 DEF Sent
  <2>2. ~(i < j) /\ ~(j < i)
    BY <1>3, <2>1
  <2>3. QED  BY <2>1, <2>2
<1>4. QED  BY <1>2, <1>3

(* A scrape that is done has reported every mount it does not exclude, in  *)
(* the order of the mount table, with an error exactly where no statfs of  *)
(* its own has answered, and has sent the first of the same labels: however*)
(* its watchers, its stuck mounts and the other scrapes interleave with it.*)
THEOREM EveryMountReportedHolds == Spec => []EveryMountReported
<1>1. Init => ReportedInv
  BY DEF Init, ReportedInv, Reported, InCall
<1>2. TypeOK /\ ReportedInv => EveryMountReported
  <2> SUFFICES ASSUME TypeOK, ReportedInv, NEW s \in Scrapes, pc[s] = "done"
               PROVE  /\ stats[s] = Kept(Due(table[s], answered[s]))
                      /\ \A i \in DOMAIN stats[s] : \E j \in answer[s] :
                           j <= i /\ stats[s][j].labels = stats[s][i].labels
                      /\ \A i, j \in answer[s] : stats[s][i].labels = stats[s][j].labels => i = j
    BY DEF EveryMountReported
  <2>1. stats[s] = Kept(DueTo(s, Len(table[s]))) /\ answer[s] = Sent(stats[s])
    BY DEF ReportedInv, Reported
  <2>2. DueTo(s, Len(table[s])) = Due(table[s], answered[s])
    <3>1. DOMAIN table[s] = 1..Len(table[s])
      BY DEF TypeOK
    <3>2. QED  BY <3>1 DEF DueTo, DueUpTo, Due
  <2>3. stats[s] \in Seq(Stats)
    BY DEF TypeOK, Stats
  <2>4. QED  BY <2>1, <2>2, <2>3, FirstIsSent
<1>3. QED  BY <1>1, <1>2, ReportedStep, WatchersCorrect, PTL DEF Spec
=============================================================================

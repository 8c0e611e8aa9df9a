----------------------------- MODULE GPUProofs -----------------------------
(***************************************************************************)
(* Proofs about GPU for any host and any number of scrapes: the library's  *)
(* count is the number of scrapes that use it, what a scrape has sent is   *)
(* tied to what it has queried by where it is, and the number it may send  *)
(* is among those counted since its own (Counted).                         *)
(***************************************************************************)
EXTENDS GPU, FiniteSetTheorems, TLAPS

Balanced == inits = Cardinality(Users)

Progress ==
    \A s \in Scrapes :
       /\ pc[s] \in {"idle", "count"} => result[s] = <<>>
       /\ pc[s] \in {"idle", "count", "devices"} => sent[s] = 0
       /\ pc[s] = "devices" => Queried(s) <= num[s]
       /\ pc[s] \in {"send", "done"} => Queried(s) = num[s]
       /\ pc[s] = "done" => sent[s] = Queried(s)
       /\ sent[s] <= Queried(s)
       /\ sent[s] > 0 => counts[s] # <<>>

Named ==
    \A s \in Scrapes : \A i \in 1..Queried(s) : \A l \in Labels :
       i <= Len(gpus) /\ result[s][i][l] \in {gpus[i][l], Unknown}

(* While a scrape may send GpuCount, it is its own count or a later one.   *)
Counted ==
    \A s \in Scrapes :
       /\ pc[s] \in {"devices", "send"} => GpuCount \in recent[s]
       /\ \A i \in DOMAIN counts[s] : counts[s][i] \in recent[s]
       /\ pc[s] \in {"idle", "count", "devices"} => counts[s] = <<>>

GPUInv == TypeOK /\ Balanced /\ Progress /\ Named /\ Counted

USE LabelsAssumption, ScrapesAssumption, HostsAssumption

-----------------------------------------------------------------------------
(* The users of the library.                                               *)

LEMMA UsersFinite == IsFiniteSet(Users) /\ Cardinality(Users) \in Nat
  BY FS_Subset, FS_CardinalityType DEF Users

LEMMA UserComes ==
    ASSUME NEW s \in Scrapes, s \notin Users, Users' = Users \cup {s}
    PROVE  Cardinality(Users') = Cardinality(Users) + 1
  BY UsersFinite, FS_AddElement

LEMMA UserGoes ==
    ASSUME NEW s \in Scrapes, s \in Users, Users' = Users \ {s}
    PROVE  Cardinality(Users') = Cardinality(Users) - 1
  BY UsersFinite, FS_RemoveElement

LEMMA HostIsDevices ==
    ASSUME TypeOK
    PROVE  gpus \in Seq(Device) /\ Len(gpus) \in Nat /\ DOMAIN gpus = 1..Len(gpus)
  BY DEF TypeOK

-----------------------------------------------------------------------------
LEMMA Start == Init => GPUInv
  <1> SUFFICES ASSUME Init PROVE GPUInv
    OBVIOUS
  <1>1. TypeOK
    BY DEF Init, TypeOK
  <1>2. Balanced
    <2>1. Users = {}
      BY DEF Init, Users
    <2> QED
      BY <2>1, FS_EmptySet DEF Init, Balanced
  <1>3. Progress /\ Named /\ Counted
    BY DEF Init, Progress, Named, Counted, Queried
  <1> QED
    BY <1>1, <1>2, <1>3 DEF GPUInv

LEMMA HostStep ==
    ASSUME GPUInv, Reload \/ \E i \in DOMAIN gpus : Lose(i)
    PROVE  GPUInv'
  <1>1. /\ UNCHANGED <<gpus, inits, GpuCount, recent, pc, num, result, sent, counts>>
        /\ lost' \subseteq DOMAIN gpus
    BY DEF Reload, Lose, GPUInv, TypeOK
  <1>2. TypeOK'
    BY <1>1 DEF GPUInv, TypeOK
  <1>3. Users' = Users
    BY <1>1 DEF Users
  <1> QED
    BY <1>1, <1>2, <1>3 DEF GPUInv, Balanced, Progress, Named, Counted, Queried

LEMMA InitStep ==
    ASSUME GPUInv, NEW s \in Scrapes, NvmlInit(s)
    PROVE  GPUInv'
  <1> USE DEF GPUInv, NvmlInit, Goto, host
  <1>1. TypeOK'
    <2>1. <<>> \in Seq(Device) /\ <<>> \in Seq({0, Len(gpus)})
      OBVIOUS
    <2>2. /\ inits' \in Nat /\ num' \in [Scrapes -> {0, Len(gpus)}]
          /\ pc' \in [Scrapes -> {"idle", "count", "devices", "send", "done"}]
      <3>1. num' \in [Scrapes -> {0, Len(gpus)}]
        BY DEF TypeOK
      <3>2. inits' \in Nat
        BY DEF TypeOK, AfterFailedInit
      <3>3. pc' \in [Scrapes -> {"idle", "count", "devices", "send", "done"}]
        BY DEF TypeOK
      <3> QED
        BY <3>1, <3>2, <3>3
    <2>3. result' \in [Scrapes -> Seq(Device)] /\ counts' \in [Scrapes -> Seq({0, Len(gpus)})]
      BY <2>1 DEF TypeOK
    <2>4. sent' \in [Scrapes -> Nat]
      BY DEF TypeOK
    <2> QED
      BY <2>2, <2>3, <2>4 DEF TypeOK
  <1>2. Balanced'
    <2>1. CASE inits' = inits + 1 /\ Goto(s, "count")
      <3>1. s \notin Users /\ Users' = Users \cup {s}
        BY <2>1 DEF Users, TypeOK
      <3> QED
        BY <2>1, <3>1, UserComes DEF Balanced
    <2>2. CASE inits' = AfterFailedInit /\ Goto(s, "idle")
      <3>1. Users' = Users
        BY <2>2 DEF Users, TypeOK
      <3> QED
        BY <2>2, <3>1 DEF Balanced, AfterFailedInit
    <2> QED
      BY <2>1, <2>2
  <1>3. Progress' /\ Named' /\ Counted'
    BY DEF Progress, Named, Counted, Queried, TypeOK
  <1> QED
    BY <1>1, <1>2, <1>3

LEMMA CountStep ==
    ASSUME GPUInv, NEW s \in Scrapes, DeviceGetCount(s)
    PROVE  GPUInv'
  <1> USE DEF GPUInv, DeviceGetCount, SetCount, Goto, host
  <1>1. TypeOK'
    BY HostIsDevices DEF TypeOK
  <1>2. Users' = Users
    BY DEF Users, TypeOK
  <1>3. Progress' /\ Named'
    BY HostIsDevices DEF Progress, Named, Queried, TypeOK
  <1>4. Counted'
    <2>1. GpuCount' \in recent'[s] /\ \A t \in Scrapes \ {s} : recent[t] \subseteq recent'[t]
      BY DEF TypeOK
    <2>2. \A t \in Scrapes \ {s} : GpuCount' \in recent'[t]
      BY DEF TypeOK
    <2>3. counts'[s] = <<>> /\ UNCHANGED counts /\ pc'[s] = "devices"
      BY DEF Counted, TypeOK
    <2>4. \A t \in Scrapes \ {s} : pc'[t] = pc[t]
      BY DEF TypeOK
    <2> QED
      BY <2>1, <2>2, <2>3, <2>4 DEF Counted
  <1> QED
    BY <1>1, <1>2, <1>3, <1>4 DEF Balanced

LEMMA QueryStep ==
    ASSUME GPUInv, NEW s \in Scrapes, QueryDevice(s)
    PROVE  GPUInv'
  <1> USE DEF GPUInv
  <1>1. PICK failed \in SUBSET Labels :
          result' = [result EXCEPT ![s] = Append(@,
                      [l \in Labels |-> IF l \in failed THEN Blank(s)[l]
                                        ELSE gpus[Queried(s) + 1][l]])]
    BY DEF QueryDevice
  <1>2. PICK tmp : tmp = [l \in Labels |-> IF l \in failed THEN Blank(s)[l]
                                        ELSE gpus[Queried(s) + 1][l]]
    OBVIOUS
  <1>3. PICK n : n = Queried(s)
    OBVIOUS
  <1>4. /\ result[s] \in Seq(Device) /\ n \in Nat /\ n = Len(result[s])
        /\ pc[s] = "devices" /\ n < num[s] /\ n + 1 \in 1..Len(gpus)
        /\ UNCHANGED <<gpus, lost, inits, GpuCount, recent, pc, num, sent, counts>>
    <2>1. result[s] \in Seq(Device) /\ num[s] \in {0, Len(gpus)}
      BY DEF TypeOK
    <2>2. Len(result[s]) \in Nat /\ n = Len(result[s]) /\ Len(gpus) \in Nat
      BY <2>1, <1>3, HostIsDevices DEF Queried
    <2>3. n < num[s] /\ pc[s] = "devices"
      BY <1>3 DEF QueryDevice
    <2> QED
      BY <2>1, <2>2, <2>3 DEF QueryDevice, host
  <1>5. gpus[n + 1] \in Device
    BY <1>4, HostIsDevices
  <1>6. tmp \in Device /\ \A l \in Labels : tmp[l] \in {gpus[n + 1][l], Unknown}
    BY <1>2, <1>3, <1>5 DEF Device, Blank
  <1>7. result' = [result EXCEPT ![s] = Append(result[s], tmp)]
    BY <1>1, <1>2
  <1>8. /\ Append(result[s], tmp) \in Seq(Device)
        /\ Len(Append(result[s], tmp)) = n + 1
        /\ Append(result[s], tmp)[n + 1] = tmp
        /\ \A i \in 1..n : Append(result[s], tmp)[i] = result[s][i]
    BY <1>4, <1>6
  <1>9. TypeOK'
    BY <1>4, <1>7, <1>8 DEF TypeOK
  <1>10. Users' = Users
    BY <1>4 DEF Users
  <1>11. /\ Queried(s)' = n + 1
         /\ \A t \in Scrapes \ {s} : result'[t] = result[t]
         /\ result'[s] = Append(result[s], tmp)
    BY <1>7, <1>8 DEF Queried, TypeOK
  <1>12. num[s] \in Nat /\ sent[s] = 0
    BY <1>4, HostIsDevices DEF TypeOK, Progress
  <1>13. Progress'
    <2>1. SUFFICES ASSUME NEW t \in Scrapes
                   PROVE  /\ pc[t] \in {"idle", "count"} => result'[t] = <<>>
                          /\ pc[t] \in {"idle", "count", "devices"} => sent[t] = 0
                          /\ pc[t] = "devices" => Queried(t)' <= num[t]
                          /\ pc[t] \in {"send", "done"} => Queried(t)' = num[t]
                          /\ pc[t] = "done" => sent[t] = Queried(t)'
                          /\ sent[t] <= Queried(t)'
                          /\ sent[t] > 0 => counts[t] # <<>>
      BY <1>4 DEF Progress
    <2>2. CASE t = s
      BY <2>2, <1>4, <1>11, <1>12
    <2>3. CASE t # s
      BY <2>3, <1>4, <1>11 DEF Progress, Queried
    <2> QED
      BY <2>2, <2>3
  <1>14. Named'
    <2>1. SUFFICES ASSUME NEW t \in Scrapes, NEW i \in 1..Queried(t)', NEW l \in Labels
                   PROVE  i <= Len(gpus) /\ result'[t][i][l] \in {gpus[i][l], Unknown}
      BY <1>4 DEF Named
    <2>2. CASE t = s /\ i = n + 1
      BY <2>2, <1>4, <1>6, <1>8, <1>11
    <2>3. CASE t = s /\ i # n + 1
      BY <2>3, <1>4, <1>8, <1>11 DEF Named, Queried
    <2>4. CASE t # s
      BY <2>4, <1>11 DEF Named, Queried
    <2> QED
      BY <2>2, <2>3, <2>4
  <1> QED
    BY <1>4, <1>9, <1>10, <1>13, <1>14 DEF Balanced, Counted

LEMMA ShutdownStep ==
    ASSUME GPUInv, NEW s \in Scrapes, NvmlShutdown(s)
    PROVE  GPUInv'
  <1> USE DEF GPUInv, NvmlShutdown, Goto, host
  <1>1. s \in Users /\ Users' = Users \ {s}
    BY DEF Users, TypeOK
  <1>2. Cardinality(Users') = inits - 1
    BY <1>1, UserGoes DEF Balanced
  <1>3. Balanced' /\ inits' \in Nat
    <2>1. IsFiniteSet(Users') /\ Cardinality(Users') \in Nat
      BY <1>1, UsersFinite, FS_Subset, FS_CardinalityType
    <2> QED
      BY <1>2, <2>1 DEF Balanced
  <1>4. TypeOK'
    BY <1>3 DEF TypeOK
  <1>5. Progress' /\ Named' /\ Counted'
    BY DEF Progress, Named, Counted, Queried, TypeOK
  <1> QED
    BY <1>3, <1>4, <1>5

LEMMA SendStep ==
    ASSUME GPUInv, NEW s \in Scrapes, SendDevice(s)
    PROVE  GPUInv'
  <1> USE DEF GPUInv, SendDevice, host
  <1>1. GpuCount \in {0, Len(gpus)} /\ counts[s] \in Seq({0, Len(gpus)})
    BY DEF TypeOK
  <1>2. /\ Append(counts[s], GpuCount) \in Seq({0, Len(gpus)})
        /\ Append(counts[s], GpuCount) # <<>>
    BY <1>1
  <1>3. TypeOK'
    BY <1>2 DEF TypeOK
  <1>4. Users' = Users
    BY DEF Users
  <1>5. sent[s] = 0 => NotSeen(s)
    BY DEF NotSeen
  <1>6. sent[s] \in Nat /\ Queried(s) \in Nat
    BY DEF TypeOK, Queried
  <1>7. counts'[s] # <<>>
    <2>1. CASE NotSeen(s)
      BY <2>1, <1>2 DEF TypeOK
    <2>2. CASE ~NotSeen(s)
      BY <2>2, <1>5, <1>6 DEF Progress
    <2> QED
      BY <2>1, <2>2
  <1>8. Progress' /\ Named'
    BY <1>6, <1>7 DEF Progress, Named, Queried, TypeOK
  <1>9. Counted'
    <2>1. GpuCount \in recent[s] /\ \A i \in DOMAIN counts[s] : counts[s][i] \in recent[s]
      BY DEF Counted
    <2>2. \A i \in DOMAIN counts'[s] : counts'[s][i] \in recent[s]
      <3>1. \A i \in DOMAIN Append(counts[s], GpuCount) : Append(counts[s], GpuCount)[i] \in recent[s]
        BY <1>1, <2>1
      <3> QED
        BY <2>1, <3>1 DEF TypeOK
    <2>3. \A t \in Scrapes \ {s} : counts'[t] = counts[t]
      BY DEF TypeOK
    <2> QED
      BY <2>2, <2>3 DEF Counted
  <1> QED
    BY <1>3, <1>4, <1>8, <1>9 DEF Balanced

LEMMA EndStep ==
    ASSUME GPUInv, NEW s \in Scrapes, End(s)
    PROVE  GPUInv'
  <1> USE DEF GPUInv, End, Goto, host
  <1>1. TypeOK'
    BY DEF TypeOK
  <1>2. Users' = Users
    BY DEF Users, TypeOK
  <1>3. Progress' /\ Named' /\ Counted'
    BY DEF Progress, Named, Counted, Queried, TypeOK
  <1> QED
    BY <1>1, <1>2, <1>3 DEF Balanced

LEMMA StutterStep == GPUInv /\ UNCHANGED vars => GPUInv'
  <1> SUFFICES ASSUME GPUInv, UNCHANGED vars PROVE GPUInv'
    OBVIOUS
  <1>1. Users' = Users
    BY DEF Users, vars
  <1> QED
    BY <1>1 DEF GPUInv, TypeOK, Balanced, Progress, Named, Counted, Queried, vars, host

-----------------------------------------------------------------------------
(* The inductive invariant of scrapes and host.                            *)
THEOREM GPUInvHolds == Spec => []GPUInv
  <1>1. GPUInv /\ [Next]_vars => GPUInv'
    BY HostStep, InitStep, CountStep, QueryStep, ShutdownStep, SendStep, EndStep,
       StutterStep DEF Next, Scrape
  <1> QED
    BY Start, <1>1, PTL DEF Spec

(* The types of the variables.                                             *)
THEOREM TypeCorrect == Spec => []TypeOK
  BY GPUInvHolds, PTL DEF GPUInv

(* The library is initialised exactly while some scrape uses it.           *)
THEOREM InitialisedWhileUsedHolds == Spec => []InitialisedWhileUsed
  <1>1. GPUInv => InitialisedWhileUsed
    <2> SUFFICES ASSUME GPUInv PROVE InitialisedWhileUsed
      OBVIOUS
    <2>1. inits = Cardinality(Users) /\ IsFiniteSet(Users) /\ inits \in Nat
      BY UsersFinite DEF GPUInv, Balanced
    <2> QED
      BY <2>1, FS_EmptySet DEF InitialisedWhileUsed
  <1> QED
    BY <1>1, GPUInvHolds, PTL

(* A scrape reports its devices under their own labels or none, and with   *)
(* them a number that it, or a scrape that counted after it, has counted.  *)
THEOREM ReportsItsOwnHolds == Spec => []ReportsItsOwn
  <1>1. GPUInv => OwnLabels
    BY DEF GPUInv, Progress, Named, OwnLabels
  <1>2. GPUInv => OwnCount
    <2> SUFFICES ASSUME GPUInv, NEW s \in Scrapes
                 PROVE  /\ \A i \in DOMAIN counts[s] : counts[s][i] \in recent[s]
                        /\ pc[s] = "done" /\ num[s] > 0 => counts[s] # <<>>
      BY DEF OwnCount
    <2> QED
      BY DEF GPUInv, Progress, Counted
  <1> QED
    BY <1>1, <1>2, GPUInvHolds, PTL DEF ReportsItsOwn
=============================================================================

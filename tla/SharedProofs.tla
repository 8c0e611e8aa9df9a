---------------------------- MODULE SharedProofs -----------------------------
(***************************************************************************)
(* Proofs about Shared, for any number of scrapes, any names, any length   *)
(* of the day and any day of the leap second.                              *)
(***************************************************************************)
EXTENDS Shared, TLAPS

(* One scrape at a time is inside the mutex, and what it is about to store *)
(* has not been stored since it looked.                                    *)
Exclusive ==
    /\ \A s, t \in mutex : s = t
    /\ \A s \in mutex : pc[s] = "writing" => name[s] \notin DOMAIN descs

(* The actions of the descriptors are not ntp's, and the other way round.  *)
Separate ==
    \A s \in Scrapes :
       /\ pc[s] = "answered" => collector = "ntp"
       /\ pc[s] \in {"next", "reading", "writing"} => collector # "ntp"
       /\ pc[s] \in {"reading", "writing"} => name[s] \in Names

Midnight == LeapDay * Day

(* An answer announces the leap second on its day only; the midnight kept  *)
(* is that one, or none.                                                   *)
LeapInv ==
    /\ \A s \in Scrapes :
          pc[s] = "answered" /\ response[s].leap => MidnightAfter(response[s]) = Midnight
    /\ leapMidnight = IF announced THEN Midnight ELSE Never

SharedInv == TypeOK /\ Exclusive /\ Separate /\ LeapInv

USE DayAssumption, LeapAssumption

-----------------------------------------------------------------------------
(* The day of the leap second ends at Midnight.                            *)

LEMMA DayBefore ==
    ASSUME NEW t \in Nat, t \div Day = LeapDay - 1
    PROVE  (t \div Day + 1) * Day = Midnight
  <1>1. t \div Day + 1 = LeapDay
    OBVIOUS
  <1> QED
    BY <1>1 DEF Midnight

LEMMA AroundMidnight ==
    /\ Midnight \in Int
    /\ (LeapDay - 1) * Day = Midnight - Day
    /\ (LeapDay + 1) * Day = Midnight + Day
  BY DEF Midnight

-----------------------------------------------------------------------------
LEMMA Start == Init => SharedInv
  <1> SUFFICES ASSUME Init PROVE SharedInv
    OBVIOUS
  <1>1. TypeOK
    <2>1. Never \in Int
      BY DEF Never
    <2>2. DOMAIN descs = {}
      BY DEF Init
    <2> QED
      BY <2>1, <2>2 DEF Init, TypeOK
  <1>2. Exclusive /\ Separate /\ LeapInv
    BY DEF Init, Exclusive, Separate, LeapInv
  <1> QED
    BY <1>1, <1>2 DEF SharedInv

(* The actions of a collector that keeps descriptors leave ntp's variables *)
(* alone.                                                                  *)
LEMMA DescStep ==
    ASSUME SharedInv, NEW s \in Scrapes,
           StartScrape(s) \/ EndScrape(s) \/ LookUp(s) \/ Found(s) \/ NotFound(s) \/ Store(s)
    PROVE  SharedInv'
  <1> USE DEF SharedInv, mapVars, ntpVars, DescKeepers, Guarded
  <1>1. CASE StartScrape(s)
    BY <1>1 DEF StartScrape, TypeOK, Exclusive, Separate, LeapInv, MidnightAfter, Midnight
  <1>2. CASE EndScrape(s)
    BY <1>2 DEF EndScrape, TypeOK, Exclusive, Separate, LeapInv, MidnightAfter, Midnight
  <1>3. CASE LookUp(s)
    <2>1. TypeOK'
      BY <1>3 DEF LookUp, TypeOK
    <2>2. Exclusive' /\ Separate'
      BY <1>3 DEF LookUp, TypeOK, Exclusive, Separate
    <2>3. LeapInv'
      BY <1>3 DEF LookUp, TypeOK, LeapInv, MidnightAfter, Midnight
    <2> QED
      BY <2>1, <2>2, <2>3
  <1>4. CASE Found(s)
    BY <1>4 DEF Found, TypeOK, Exclusive, Separate, LeapInv, MidnightAfter, Midnight
  <1>5. CASE NotFound(s)
    BY <1>5 DEF NotFound, TypeOK, Exclusive, Separate, LeapInv, MidnightAfter, Midnight
  <1>6. CASE Store(s)
    <2>1. TypeOK'
      BY <1>6 DEF Store, TypeOK, Separate
    <2>2. Exclusive' /\ Separate'
      BY <1>6 DEF Store, TypeOK, Exclusive, Separate
    <2>3. LeapInv'
      BY <1>6 DEF Store, TypeOK, LeapInv, MidnightAfter, Midnight
    <2> QED
      BY <2>1, <2>2, <2>3
  <1> QED
    BY <1>1, <1>2, <1>3, <1>4, <1>5, <1>6

(* Those of ntp leave the map and the mutex alone.                         *)
LEMMA NtpStep ==
    ASSUME SharedInv, Tick \/ \E s \in Scrapes : QueryWithOptions(s) \/ CheckSanity(s)
    PROVE  SharedInv'
  <1> USE DEF SharedInv, mapVars
  <1>1. CASE Tick
    BY <1>1 DEF Tick, TypeOK, Exclusive, Separate, LeapInv, MidnightAfter, Midnight
  <1>2. ASSUME NEW s \in Scrapes, QueryWithOptions(s) PROVE SharedInv'
    <2>1. PICK leap \in BOOLEAN :
             /\ leap => time \div Day = LeapDay - 1
             /\ response' = [response EXCEPT ![s] = [time |-> time, leap |-> leap]]
      BY <1>2 DEF QueryWithOptions
    <2>2. TypeOK' /\ Exclusive' /\ Separate'
      BY <1>2, <2>1 DEF QueryWithOptions, TypeOK, Exclusive, Separate
    <2>3. leap => (time \div Day + 1) * Day = Midnight
      BY <2>1, DayBefore DEF TypeOK
    <2>4. LeapInv'
      BY <1>2, <2>1, <2>3 DEF QueryWithOptions, TypeOK, LeapInv, MidnightAfter, Midnight
    <2> QED
      BY <2>2, <2>4
  <1>3. ASSUME NEW s \in Scrapes, CheckSanity(s) PROVE SharedInv'
    <2>1. leapMidnight' = IF response[s].leap THEN Midnight ELSE leapMidnight
      BY <1>3 DEF CheckSanity, KeptMidnight, LeapInv
    <2>2. leapMidnight' \in Int
      BY <2>1, AroundMidnight DEF TypeOK
    <2>3. TypeOK' /\ Exclusive' /\ Separate'
      BY <1>3, <2>2 DEF CheckSanity, TypeOK, Exclusive, Separate
    <2>4. LeapInv'
      BY <1>3, <2>1 DEF CheckSanity, TypeOK, LeapInv, MidnightAfter, Midnight
    <2> QED
      BY <2>3, <2>4
  <1> QED
    BY <1>1, <1>2, <1>3

LEMMA InvStep == SharedInv /\ [Next]_vars => SharedInv'
  <1> SUFFICES ASSUME SharedInv, [Next]_vars PROVE SharedInv'
    OBVIOUS
  <1>1. CASE UNCHANGED vars
    BY <1>1 DEF vars, SharedInv, TypeOK, Exclusive, Separate, LeapInv, MidnightAfter, Midnight
  <1>2. CASE Next
    BY <1>2, DescStep, NtpStep DEF Next
  <1> QED
    BY <1>1, <1>2

(* The inductive invariant: exclusion, freshness of what is about to be    *)
(* stored, and the only midnight there is to keep.                         *)
THEOREM SharedInvHolds == Spec => []SharedInv
  BY Start, InvStep, PTL DEF Spec

(* Types, and that the mutex is held exactly by those who use a map it     *)
(* guards.                                                                 *)
THEOREM TypeCorrect == Spec => []TypeOK
  BY SharedInvHolds, PTL DEF SharedInv

-----------------------------------------------------------------------------
LEMMA NoRace == SharedInv' => NoMapRace'
  BY DEF SharedInv, TypeOK, Exclusive, NoMapRace

LEMMA StoreIsNew ==
    ASSUME SharedInv, Next, collector \in {"netdev", "ethtool"}, NEW n \in DOMAIN descs
    PROVE  n \in DOMAIN descs' /\ descs'[n] = descs[n]
  <1>1. ASSUME NEW s \in Scrapes, Store(s) PROVE n \in DOMAIN descs' /\ descs'[n] = descs[n]
    <2>1. s \in mutex /\ name[s] # n
      BY <1>1 DEF SharedInv, TypeOK, Exclusive, Store
    <2> QED
      BY <1>1, <2>1 DEF Store
  <1>2. CASE UNCHANGED descs
    BY <1>2
  <1> QED
    BY <1>1, <1>2 DEF Next, StartScrape, EndScrape, LookUp, Found, NotFound, Tick,
                      QueryWithOptions, CheckSanity, mapVars

(* netdev and ethtool use their map without a race, and make the           *)
(* descriptor of a name once, whatever the number of scrapes.              *)
THEOREM DescsGuardedHolds == Spec => DescsGuarded
  <1>1. SharedInv /\ SharedInv' /\ [Next]_vars => [NoMapRace' /\ DescsKept]_vars
    <2> SUFFICES ASSUME SharedInv, SharedInv', Next PROVE NoMapRace' /\ DescsKept
      OBVIOUS
    <2>1. NoMapRace'
      BY NoRace
    <2>2. DescsKept
      BY StoreIsNew DEF DescsKept
    <2> QED
      BY <2>1, <2>2
  <1> QED
    BY <1>1, SharedInvHolds, PTL DEF Spec, DescsGuarded

-----------------------------------------------------------------------------
LEMMA Tolerance ==
    ASSUME SharedInv, NEW s \in Scrapes, CheckSanity(s)
    PROVE  tolerant'[s] <=> /\ announced'
                            /\ (LeapDay - 1) * Day < response[s].time
                            /\ response[s].time < (LeapDay + 1) * Day
  <1>1. leapMidnight' = IF announced' THEN Midnight ELSE Never
    BY DEF SharedInv, LeapInv, CheckSanity, KeptMidnight
  <1>2. tolerant'[s] <=> leapMidnight' - Day < response[s].time /\ response[s].time < leapMidnight' + Day
    BY DEF SharedInv, TypeOK, CheckSanity
  <1>3. response[s].time \in Nat
    BY DEF SharedInv, TypeOK
  <1>4. CASE announced'
    BY <1>1, <1>2, <1>4, AroundMidnight
  <1>5. CASE ~announced'
    BY <1>1, <1>2, <1>3, <1>5 DEF Never
  <1> QED
    BY <1>4, <1>5

(* Offsets are tolerated around the midnight of the leap second, and at no *)
(* other time, for any order of scrapes and of announcements.              *)
THEOREM LeapToleratedHolds == Spec => LeapTolerated
  <1>1. SharedInv /\ [Next]_vars =>
          [\A s \in Scrapes :
             pc[s] = "answered" /\ pc'[s] = "idle" =>
               (tolerant'[s] <=> /\ announced'
                                 /\ (LeapDay - 1) * Day < response[s].time
                                 /\ response[s].time < (LeapDay + 1) * Day)]_vars
    <2> SUFFICES ASSUME SharedInv, Next, NEW s \in Scrapes, pc[s] = "answered", pc'[s] = "idle"
                 PROVE  tolerant'[s] <=> /\ announced'
                                         /\ (LeapDay - 1) * Day < response[s].time
                                         /\ response[s].time < (LeapDay + 1) * Day
      OBVIOUS
    <2>1. CheckSanity(s)
      BY DEF SharedInv, TypeOK, Next, StartScrape, EndScrape, LookUp, Found, NotFound, Store, Tick,
             QueryWithOptions, CheckSanity
    <2> QED
      BY <2>1, Tolerance
  <1> QED
    BY <1>1, SharedInvHolds, PTL DEF Spec, LeapTolerated
=============================================================================

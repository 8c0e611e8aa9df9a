----------------------------- MODULE Collection ------------------------------
(***************************************************************************)
(* What the Update methods of the collectors are built from.  An Update is *)
(* an operator of the outcomes of its reads (any of which may fail, and    *)
(* all of which are made while what they read may change), and its value   *)
(* is what it does to the scrape: the samples it has put in the channel    *)
(* when it returns, and what it returns.                                   *)
(*                                                                         *)
(* A sample has a family (the name of its metric, the namespace left out), *)
(* the values of its variable labels, and, for the properties only, the    *)
(* datum it is a sample of: a tuple that starts with the position of the   *)
(* item (device, file system, process...) in the environment, or with 0.   *)
(***************************************************************************)
EXTENDS Integers, Sequences, FiniteSets

(* Lists, lines, devices... that are read one after the other.             *)
IsSequence(l) == Len(l) \in Nat /\ DOMAIN l = 1..Len(l)

Sample(family, labels, of) ==
    [family |-> family, labels |-> labels, of |-> of]

(* One sample of each of the families of an item.                          *)
Samples(subsystem, names, labels, of) ==
    {Sample(<<subsystem, n>>, labels, of \o <<n>>) : n \in names}

(* "unbuilt" stands for a constructor that has failed.                     *)
Returns == {"ok", "nodata", "error", "panic", "unbuilt"}

Send(samples) == [sent |-> samples, ret |-> "ok"]
Return(how) == [sent |-> {}, ret |-> how]
Nothing == Send({})

(* a, and b too unless a has returned.                                     *)
a \bullet b ==
    IF a.ret = "ok" THEN [sent |-> a.sent \cup b.sent, ret |-> b.ret] ELSE a

(* What a caller does that ignores a failure.                              *)
Ignoring(r) == Send(r.sent)

(* A guard: go on, or return.                                              *)
Check(condition, otherwise) == IF condition THEN Nothing ELSE Return(otherwise)

(* A loop over the results of its bodies, which ends with the first that   *)
(* returns.                                                                *)
Returning(bodies) == {i \in DOMAIN bodies : bodies[i].ret # "ok"}

FirstOf(S) == CHOOSE i \in S : \A j \in S : i <= j

Loop(bodies) ==
    IF Returning(bodies) = {}
    THEN Send(UNION {bodies[i].sent : i \in DOMAIN bodies})
    ELSE LET last == FirstOf(Returning(bodies))
         IN  [sent |-> UNION {bodies[i].sent : i \in {j \in DOMAIN bodies : j <= last}},
              ret  |-> bodies[last].ret]

(* How reads fail: what os.IsNotExist and os.IsPermission tell apart.      *)
Outcomes == {"ok", "notexist", "permission", "error"}

(* The usual first lines of an Update: ErrNoData for the failures in       *)
(* absent, an error for the others.                                        *)
Need(outcome, absent) ==
    IF outcome = "ok" THEN Nothing
    ELSE Return(IF outcome \in absent THEN "nodata" ELSE "error")
=============================================================================

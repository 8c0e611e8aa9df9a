--------------------------- MODULE ScrapeService ----------------------------
(***************************************************************************)
(* What the exporter promises a client, without handlers, goroutines or    *)
(* caches: a request is answered at most once, with a sample of every      *)
(* collector it asks for; it is refused when it asks for a collector that  *)
(* is not served, or when Limit unfiltered requests are already pending;   *)
(* and a crash loses every pending request.                                *)
(***************************************************************************)
EXTENDS Naturals, FiniteSets

CONSTANTS Collectors, Names, Requests, Limit

VARIABLES
    served,         \* collectors this exporter serves
    state,          \* "none", "pending", or how the request ended
    ask,            \* names it asks for, {} for all
    samples         \* what the answer says of each collector

vars == <<served, state, ask, samples>>

NoSamples == [c \in Collectors |-> "none"]

Init ==
    /\ served \in SUBSET Collectors
    /\ state = [r \in Requests |-> "none"]
    /\ ask = [r \in Requests |-> {}]
    /\ samples = [r \in Requests |-> NoSamples]

Submit(r, f) ==
    /\ state[r] = "none"
    /\ state' = [state EXCEPT ![r] = "pending"]
    /\ ask' = [ask EXCEPT ![r] = f]
    /\ UNCHANGED <<served, samples>>

End(r, how) ==
    /\ state[r] = "pending"
    /\ state' = [state EXCEPT ![r] = how]
    /\ UNCHANGED <<served, ask>>

Scope(f) == {c \in served : f = {} \/ c \in f}

Answer(r, s) ==
    /\ ask[r] \subseteq served
    /\ {c \in Collectors : s[c] # "none"} = Scope(ask[r])
    /\ samples' = [samples EXCEPT ![r] = s]
    /\ End(r, "ok")

Refuse(r) ==
    /\ ~(ask[r] \subseteq served)
    /\ End(r, "bad")
    /\ UNCHANGED samples

PendingUnfiltered == {r \in Requests : state[r] = "pending" /\ ask[r] = {}}

TurnAway(r) ==
    /\ ask[r] = {}
    /\ Limit > 0 /\ Cardinality(PendingUnfiltered \ {r}) >= Limit
    /\ End(r, "busy")
    /\ UNCHANGED samples

Crash ==
    /\ state' = [r \in Requests |-> IF state[r] = "pending" THEN "lost"
                                                            ELSE state[r]]
    /\ UNCHANGED <<served, ask, samples>>

Forget(r) ==
    /\ state[r] \notin {"none", "pending"}
    /\ state' = [state EXCEPT ![r] = "none"]
    /\ ask' = [ask EXCEPT ![r] = {}]
    /\ samples' = [samples EXCEPT ![r] = NoSamples]
    /\ UNCHANGED served

Next ==
    \/ Crash
    \/ \E r \in Requests :
         \/ \E f \in SUBSET Names : Submit(r, f)
         \/ \E s \in [Collectors -> {"none", "0", "1"}] : Answer(r, s)
         \/ Refuse(r) \/ TurnAway(r) \/ Forget(r)

Spec == Init /\ [][Next]_vars
=============================================================================

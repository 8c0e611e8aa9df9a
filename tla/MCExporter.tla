----------------------------- MODULE MCExporter -----------------------------
(* Instances of Exporter for TLC: command lines and filters to choose from. *)
EXTENDS Exporter

Unset == [c \in Collectors |-> "unset"]

NoFlags == [explicit |-> Unset, disableDefaults |-> FALSE]

OnlyCommandLine(cs) ==
    [explicit |-> [c \in Collectors |-> IF c \in cs THEN "on" ELSE "unset"],
     disableDefaults |-> TRUE]

(* The defaults, and --collector.disable-defaults with everything asked for. *)
FewCommandLines == {NoFlags, OnlyCommandLine(Collectors)}

AllFilterSets == SUBSET (Collectors \cup {UnknownName})

SingleFilters == {{}} \cup {{n} : n \in Collectors \cup {UnknownName}}
=============================================================================

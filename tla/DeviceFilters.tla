---------------------------- MODULE DeviceFilters -----------------------------
(***************************************************************************)
(* Which devices a collector reports: the flags that name devices, some of *)
(* them under an older name, and the filter each constructor makes of      *)
(* them.  A pattern stands for the set of the names it matches; that of an *)
(* empty flag is not set.                                                  *)
(***************************************************************************)
EXTENDS Collection

NoPattern == [set |-> FALSE, matches |-> {}]
Pattern(names) == [set |-> TRUE, matches |-> names]

NewDeviceFilter(ignored, accept) == [built |-> TRUE, ignore |-> ignored, accept |-> accept]
NoFilter == [built |-> FALSE]

(* Mutant: a device must match both patterns to be left out.               *)
IgnoredByBoth(f, name) ==
    /\ f.ignore.set /\ name \in f.ignore.matches
    /\ f.accept.set /\ name \notin f.accept.matches

Ignored(f, name) ==
    \/ f.ignore.set /\ name \in f.ignore.matches
    \/ f.accept.set /\ name \notin f.accept.matches

Either(old, new) == IF old.set THEN old ELSE new

(* The constructors.  netdev refuses an old flag together with its new     *)
(* name, and an include together with an exclude.                          *)
NewNetDevFilter(flags) ==
    LET include == Either(flags.oldInclude, flags.include)
        exclude == Either(flags.oldExclude, flags.exclude)
    IN  IF \/ flags.oldInclude.set /\ flags.include.set
           \/ flags.oldExclude.set /\ flags.exclude.set
           \/ include.set /\ exclude.set
        THEN NoFilter
        ELSE NewDeviceFilter(exclude, include)

(* An exclude flag with a default, and an old name.                        *)
ExcludeOrDefault(flags) ==
    IF flags.oldExclude.set THEN flags.oldExclude
    ELSE IF flags.excludeGiven THEN flags.exclude ELSE flags.default

(* The exclude flag of diskstats has a default; only one that is given     *)
(* explicitly, if only to be empty, goes against the old flag.             *)
NewDiskstatsDeviceFilter(flags) ==
    LET exclude == ExcludeOrDefault(flags)
    IN  IF \/ flags.oldExclude.set /\ flags.excludeGiven
           \/ exclude.set /\ flags.include.set
        THEN NoFilter
        ELSE NewDeviceFilter(exclude, flags.include)

(* filesystem has such a flag for mount points and one for types.  It      *)
(* compiles what they say even when that is empty, and an empty pattern    *)
(* matches everything: the flags have no NoPattern.                        *)
NewFilesystemCollector(flags) ==
    [built  |-> \A f \in {flags.points, flags.types} : ~(f.oldExclude.set /\ f.excludeGiven),
     points |-> ExcludeOrDefault(flags.points).matches,
     types  |-> ExcludeOrDefault(flags.types).matches]

(* ethtool does not look for flags that exclude each other.                *)
NewEthtoolFilter(flags) == NewDeviceFilter(flags.exclude, flags.include)

(* qdisc looks, and hands the exclude flag over twice.                     *)
NewQdiscFilter(flags) ==
    IF flags.exclude.set /\ flags.include.set THEN NoFilter
    ELSE NewDeviceFilter(flags.exclude, flags.exclude)

-----------------------------------------------------------------------------
(* What the help texts of the flags say: devices that exclude matches are  *)
(* left out, and so are those include does not.                            *)
Wanted(exclude, include, name) ==
    /\ exclude.set => name \notin exclude.matches
    /\ include.set => name \in include.matches
=============================================================================

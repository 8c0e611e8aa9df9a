CONSTANTS
    Environments <- MCEnvironments
    Second = 3
    Gaps = {1, 2, 4}
SPECIFICATION Spec
INVARIANT ReturnsTell SeriesAreUnique ItemsIndependent FiltersFollowFlags NothingLost TextfileFaithful
INVARIANT SystemdAsInOneGoroutine EverySegmentCountedOnce
PROPERTY UpdatesReturn AtLeastASecond
CHECK_DEADLOCK FALSE

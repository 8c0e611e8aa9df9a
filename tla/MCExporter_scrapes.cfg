CONSTANTS
    Collectors = {cpu, mount}
    DefaultEnabled = {cpu}
    UnknownName = unknown
    CommandLines <- FewCommandLines
    FilterSets <- SingleFilters
    Requests = {r1, r2}
    MaxRequests = 1
    Flaky = {mount}
    Hanging = {mount}
    Panicking = {cpu}
SPECIFICATION FairSpec
INVARIANT OneInstance NoGoroutineOutlivesCollect SlotsAccounted
PROPERTY HealthyScrapeAnswered ImplementsService

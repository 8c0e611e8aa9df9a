CONSTANTS
    Collectors = {cpu, gpu}
    DefaultEnabled = {cpu}
    UnknownName = unknown
    CommandLines <- AllCommandLines
    FilterSets <- AllFilterSets
    Requests = {r1}
    MaxRequests = 1
    Flaky = {gpu}
    Hanging = {}
    Panicking = {gpu}
SPECIFICATION FairSpec
INVARIANT TypeOK ServesCommandLine AnswerInScope BadRequestIsClients
PROPERTY SlotsRecover

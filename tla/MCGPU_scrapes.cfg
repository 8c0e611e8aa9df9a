CONSTANTS
    Scrapes = {s1, s2}
    Hosts <- MCHosts
    Labels = {"UUID", "Types"}
    Failing = {"Types"}
    Unknown = ""
SPECIFICATION Spec
INVARIANT TypeOK InitialisedWhileUsed ReportsItsOwn

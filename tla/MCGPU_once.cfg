CONSTANTS
    Scrapes = {s1}
    Hosts <- MCHosts
    Labels = {"UUID", "Types"}
    Failing = {}
    Unknown = ""
SPECIFICATION Spec
INVARIANT CountSentOnce

CONSTANTS
    NPaths = 1
    Plists = {}
    Names = {"A", "B", "C", "none"}
    NoName = "none"
    Contents <- Broken
    Scrapes = {s1}
    MaxFloat = 3
    MaxWrites = 1
SPECIFICATION Spec
INVARIANT ExposesARelease

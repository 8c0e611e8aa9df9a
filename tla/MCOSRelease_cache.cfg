CONSTANTS
    NPaths = 2
    Plists = {2}
    Names = {"A", "B", "C", "none"}
    NoName = "none"
    Contents <- All
    Scrapes = {s1, s2}
    MaxFloat = 3
    MaxWrites = 2
SPECIFICATION FairSpec
INVARIANT TypeOK CacheFollowsFile
PROPERTY Settles

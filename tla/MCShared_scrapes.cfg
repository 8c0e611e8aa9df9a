CONSTANTS
    Scrapes = {s1, s2}
    Names = {n1, n2}
    Day = 2
    LeapDay = 2
    LastTime = 8
SPECIFICATION Spec
INVARIANT TypeOK
PROPERTY DescsGuarded ScrapesEnd LeapTolerated
CHECK_DEADLOCK FALSE

\* Two runs that may overlap, one volume that may be attached again.
SPECIFICATION Spec
CONSTANTS
    s1 = s1
    s2 = s2
    system = system
    blank = blank
    Scrapers = {s1, s2}
    Drives = {system}
    SizedDrives = {system}
    MaxRetries = 1
    MaxClock = 3
    MaxEpoch = 2
    Transfers <- Always
SYMMETRY RunSymmetry
INVARIANTS TypeOK PublishedSane
PROPERTIES CleanScrapeIsSane

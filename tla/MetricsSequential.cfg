\* One run at a time, two volumes: one with a size, one that rounds to 0 GB.
SPECIFICATION Spec
CONSTANTS
    s1 = s1
    s2 = s2
    system = system
    blank = blank
    Scrapers = {s1}
    Drives = {system, blank}
    SizedDrives = {system}
    MaxRetries = 2
    MaxClock = 3
    MaxEpoch = 2
    Transfers <- Always
INVARIANTS PublishedSane
PROPERTIES BaselineGivesCPU BaselineEnds

\* One run at a time on a volume that is written to before it is read.
SPECIFICATION Spec
CONSTANTS
    s1 = s1
    s2 = s2
    system = system
    blank = blank
    Scrapers = {s1}
    Drives = {system}
    SizedDrives = {system}
    MaxRetries = 1
    MaxClock = 3
    MaxEpoch = 1
    Transfers <- AnyTransfer
PROPERTIES WriteRateReported

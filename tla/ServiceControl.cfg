\* Three requests about one service, one that is refused, a check of two services,
\* and two changes of state the agent did not ask for.
SPECIFICATION Spec
CONSTANTS
    spooler = spooler
    ghost = ghost
    restart1 = restart1
    stop1 = stop1
    start1 = start1
    other1 = other1
    None = None
    Services = {spooler, ghost}
    Installed = {spooler}
    Allowed = {spooler}
    Checked <- CheckList
    Requests = {restart1, stop1, start1, other1}
    Target <- TargetOf
    Action <- ActionOf
    MaxPolls = 2
    MaxEvents = 2
INVARIANTS TypeOK SuccessIsTrue DownIsReported ReportComplete
PROPERTIES EveryCallReturns

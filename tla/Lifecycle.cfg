\* Two commands and two runs in flight when the agent is stopped.
SPECIFICATION Spec
CONSTANTS
    ping = ping
    exec = exec
    r1 = r1
    r2 = r2
    inventory = inventory
    Startup = inventory
    Kind <- Kinds
    Subjects = {ping, exec}
    Runs = {r1, r2}
INVARIANTS TypeOK QuietAtDrain FailedStartIsClosed CountedWasDelivered
PROPERTIES StopEnds

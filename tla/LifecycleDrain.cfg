\* One command being handled when the agent is stopped.
SPECIFICATION Spec
CONSTANTS
    ping = ping
    exec = exec
    r1 = r1
    r2 = r2
    inventory = inventory
    Startup = inventory
    Kind <- OneKind
    Subjects = {exec}
    Runs = {r1}
INVARIANTS DrainWaitsForHandlers

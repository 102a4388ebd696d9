\* One health check after scrapes of which most failed.
SPECIFICATION Spec
CONSTANTS
    ping = ping
    health1 = health1
    exec1 = exec1
    exec2 = exec2
    None = None
    Requests = {health1}
    Subject <- HealthOnly
    ReconnectLimit = 10
    MaxEvents = 3
INVARIANTS FailingMetricsDegrade

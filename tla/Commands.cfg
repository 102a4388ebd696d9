\* Two commands in line on one subject, a ping and a health check, while a scrape
\* is counted or the connection is lost.
SPECIFICATION Spec
CONSTANTS
    ping = ping
    health1 = health1
    exec1 = exec1
    exec2 = exec2
    None = None
    Requests = {ping, health1, exec1, exec2}
    Subject <- SubjectOf
    ReconnectLimit = 0
    MaxEvents = 1
INVARIANTS TypeOK StatsMatchAnswers HealthCoversAnswered
PROPERTIES ImplementsRequestReply PromptlyAnswered

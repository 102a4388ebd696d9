\* Two hosts, their files and the files these name changed once.
SPECIFICATION Spec
CONSTANTS
    h1 = h1
    h2 = h2
    Hosts = {h1, h2}
    Files <- AllFiles
    TokenChars = {"a", "cmd"}
    OtherChars = {"*"}
    DefaultPrefix <- a
    MaxPrefix = 3
    Unset = Unset
    Off = Off
    Garbled = Garbled
    NoConfig = NoConfig
    MaxEdits = 1
INVARIANTS TypeOK OneAddressee TelemetryIsNoCommand ConnectsAsConfigured LateRefusalIsUnchecked

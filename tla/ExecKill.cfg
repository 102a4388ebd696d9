\* One call is enough to time out while its process is being created.
SPECIFICATION Spec
CONSTANTS Calls = 1
INVARIANTS TimedOutIsKilled

\* Two calls: what the first leaves behind meets the second.
SPECIFICATION Spec
CONSTANTS Calls = 2
INVARIANTS TypeOK ResultIsFinal OverlapOnlyWhileStarting
PROPERTIES EveryCallReturns RunnerFinishes

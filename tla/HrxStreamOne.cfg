CONSTANTS
    Streams = {s1}
    s1 = s1
    MaxOps = 3
    MaxTimepoint = 2
    MaxFaults = 2
    MaxRefs = 2
SPECIFICATION Spec
INVARIANTS TypeOK WorkConserved SubmittedOnce CompletionMeansRetired TimepointPromised
CHECK_DEADLOCK FALSE
PROPERTIES ExecutesInOrder

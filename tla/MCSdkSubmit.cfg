SPECIFICATION MCSpec
CONSTANTS
    a = a
    b = b
    Ops = {a, b}
    MaxRetries = 1
    MaxPolls = 1
    MaxRequests = 3
    FirstSeq = 2
    FirstCached <- MCFirstCached
INVARIANTS RepeatsOnlyWhatItLost SequencesDistinct SoleCallerHealed
PROPERTIES EveryCallEnds

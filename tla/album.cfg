CONSTANTS
    Albums = {a1, a2}
    Photos = {p1, p2}
    Workers = {w1, w2}
    QueueSize = 1
    MaxFaults = 1
    NoPhoto = NoPhoto
    NoAlbum = NoAlbum
SPECIFICATION FairSpec
INVARIANTS SeqsDense CompletedHasFile DeletedLeavesNothing
PROPERTIES OutcomesAreFinal EveryUploadSettled
CHECK_DEADLOCK FALSE

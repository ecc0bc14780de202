SPECIFICATION RemindersSpec
CONSTANTS
    u1 = u1  l1 = l1
    Records <- TwoRecords
    Plans <- SoonOrOverdue
    Users = {u1}
    Requests = {l1}
    BatchSize = 1
    MaxFaults = 1
INVARIANTS RemindersTypeOK RemindedOnce OneChain
PROPERTIES DueIsReminded JobGoesOn CacheCatchesUp

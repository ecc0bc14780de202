SPECIFICATION TSpec
CONSTANTS
    w1 = w1  w2 = w2  w3 = w3
    t1 = t1  t2 = t2
    i1 = i1  i2 = i2
    o1 = o1  o2 = o2
    Items <- TwoItems
    Offices <- TwoOffices
    Store = store
    Workers = {w1}
    Transfers <- TwoTransfers
    Keep = Keep
    NewStates <- AsNew
    StatusEdits = {Keep}
    FunctionalEdits = {Keep}
    AssignmentEdits = {Keep}
    ActiveEdits = {Keep}
    Retirements <- TwoItems
    LineSets <- AllLineSets
SYMMETRY Serial
INVARIANTS TransferTypeOK TransitIsCovered

SPECIFICATION TSpec
CONSTANTS
    w1 = w1  w2 = w2  w3 = w3
    t1 = t1  t2 = t2
    i1 = i1  i2 = i2
    o1 = o1  o2 = o2
    Items = {i1}
    Offices <- TwoOffices
    Store = store
    Workers <- ThreeWorkers
    Transfers = {t1}
    Keep = Keep
    NewStates <- AsNew
    StatusEdits = {}
    FunctionalEdits = {}
    AssignmentEdits = {}
    ActiveEdits = {}
    Retirements = {i1}
    LineSets <- Single
SYMMETRY Overlapping
INVARIANTS NoLegSkipped

SPECIFICATION ASpec
CONSTANTS
    w1 = w1  w2 = w2
    a1 = a1  a2 = a2  a3 = a3
    i1 = i1  i2 = i2
    Items <- TwoItems
    Offices = {o1}
    Store = store
    Workers <- TwoWorkers
    Assignments <- TwoAssignments
    Employees = {e1}
    SubLocation = subloc
    Targets = {e1}
    Keep = Keep
    NoItem = NoItem
    NewStates <- AsNew
    StatusEdits = {}
    FunctionalEdits = {}
    AssignmentEdits = {}
    ActiveEdits = {}
    Retirements <- TwoItems
    ItemEdits <- AnyItemEdit
    EmployeeEdits = {Keep}
    ReturnedEdits = {Keep}
    IsActiveEdits = {Keep, TRUE}
SYMMETRY Overlapping
INVARIANTS AssignmentTypeOK OneTenant
PROPERTIES FollowsLifecycle KeepsTenancy

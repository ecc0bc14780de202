SPECIFICATION MSpec
CONSTANTS
    w1 = w1  w2 = w2
    i1 = i1  i2 = i2
    m1 = m1  m2 = m2
    Items <- TwoItems
    Offices = {o1}
    Store = store
    Workers = {w1}
    Assignments = {a1}
    Employees = {e1}
    SubLocation = subloc
    Targets = {e1}
    Records <- TwoRecords
    MaintenanceItems <- AnyItem
    MaintenanceOpens = {Keep, TRUE, FALSE}
    Removals <- TwoRecords
    Keep = Keep
    NoItem = NoItem
    NewStates <- AsNew
    StatusEdits = {Keep}
    FunctionalEdits = {"Needs Repair"}
    AssignmentEdits = {Keep}
    ActiveEdits = {Keep}
    Retirements <- TwoItems
    ItemEdits = {Keep}
    EmployeeEdits = {Keep}
    ReturnedEdits = {Keep}
    IsActiveEdits = {Keep}
SYMMETRY Serial
INVARIANTS MaintenanceTypeOK RepairKeepsOut

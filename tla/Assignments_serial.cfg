SPECIFICATION ASpec
CONSTANTS
    w1 = w1  w2 = w2
    a1 = a1  a2 = a2  a3 = a3
    i1 = i1  i2 = i2
    Items <- TwoItems
    Offices = {o1}
    Store = store
    Workers = {w1}
    Assignments <- ThreeAssignments
    Employees = {e1}
    SubLocation = subloc
    Targets = {e1}
    Keep = Keep
    NoItem = NoItem
    NewStates <- NewOrBroken
    StatusEdits = {Keep, "Available", "Assigned", "Maintenance", "Retired"}
    FunctionalEdits = {Keep, "Functional", "Needs Repair"}
    AssignmentEdits = {Keep}
    ActiveEdits = {Keep, TRUE}
    Retirements <- TwoItems
    ItemEdits <- AnyItemEdit
    EmployeeEdits = {Keep}
    ReturnedEdits = {Keep}
    IsActiveEdits = {Keep, FALSE}
SYMMETRY Serial
INVARIANTS BrokenStaysOut

SPECIFICATION RSpec
CONSTANTS
    w1 = w1  w2 = w2
    a1 = a1  a2 = a2
    i1 = i1  i2 = i2
    e1 = e1
    r1 = r1  r2 = r2
    Items <- TwoItems
    Offices = {o1}
    Store = store
    Workers <- TwoWorkers
    Assignments <- TwoAssignments
    Employees = {e1}
    SubLocation = subloc
    Targets = {e1, subloc}
    Requests <- TwoRequests
    ReturnLines <- PartAndAll
    Keep = Keep
    NoItem = NoItem
    NewStates <- AsNew
    StatusEdits = {}
    FunctionalEdits = {}
    AssignmentEdits = {}
    ActiveEdits = {}
    Retirements = {i1}
    ItemEdits = {Keep}
    EmployeeEdits = {e1}
    ReturnedEdits = {Keep}
    IsActiveEdits = {TRUE}
SYMMETRY Overlapping
INVARIANTS ReturnTypeOK EachReturnOnce
PROPERTIES FreedByItsReturn

SPECIFICATION RSpec
CONSTANTS
    w1 = w1  w2 = w2
    a1 = a1  a2 = a2
    l1 = l1  l2 = l2
    Items = {i1}
    Offices = {o1}
    Store = store
    Workers <- TwoWorkers
    Assignments <- TwoAssignments
    Employees = {e1}
    SubLocation = subloc
    Targets = {e1}
    Target = e1
    Keep = Keep
    NoItem = NoItem
    NewStates <- AsNew
    StatusEdits = {}
    FunctionalEdits = {}
    AssignmentEdits = {}
    ActiveEdits = {}
    Retirements = {}
    ItemEdits = {}
    EmployeeEdits = {}
    ReturnedEdits = {}
    IsActiveEdits = {}
    Lines <- TwoLines
    AnyApproved = {2}
    NewLines <- OneOfEach
    Mappings = {"CONSUMABLE"}
    MaxAsk = 2
    MaxStock = 2
SYMMETRY Alike
INVARIANTS RequisitionTypeOK OneTenant RecordedIsHandedOut Accounted WholeOrGone
CHECK_DEADLOCK FALSE

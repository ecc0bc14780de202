SPECIFICATION LSpec
CONSTANTS
    l1 = l1  l2 = l2
    k1 = k1  k2 = k2  o1 = o1  c1 = c1
    Consumables = {c1}
    Offices = {o1}
    Store = store
    Persons = {}
    Labs = {o1, u1}
    Users = {u1}
    Issuing = {"Chemical"}
    Moving = {"Plain", "Lot", "Container"}
    Boxed = {}
    Lots <- TwoLots
    NoLot = NoLot
    Containers <- TwoContainers
    Kinds = {"Plain", "Lot", "Chemical", "Container"}
    Expiries <- TwoDates
    MaxQty = 2
    MaxStock = 2
    MaxDebt = 1
    MaxOpening = 1
    Overriding = {o1}
    Openings <- OfficeOpenings
    Outside = Outside
SYMMETRY Alike
INVARIANTS LotIssuesTypeOK NothingLost NegativeOnlyByOverride StockIsInContainers
PROPERTIES EarliestFirst KeepsStockBook
CHECK_DEADLOCK FALSE

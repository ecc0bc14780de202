SPECIFICATION RegisterSpec
CONSTANTS
    w1 = w1  w2 = w2
    Records = {r1}
    Approvals = {a1}
    Documents = {d1}
    Workers <- TwoWorkers
    Types = {"DISPOSAL", "MAINTENANCE", "TRANSFER"}
    Entries = {"Draft", "Completed"}
    DocTypes = {"DisposalApproval", "Invoice", "TransferChallan"}
    MaxVersions = 2
SYMMETRY Alike
INVARIANTS RegisterTypeOK CompletedHasDocuments SignedOff VersionsInOrder
PROPERTIES FollowsTransitions
CHECK_DEADLOCK FALSE

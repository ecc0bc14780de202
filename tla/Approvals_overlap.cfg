SPECIFICATION Spec
CONSTANTS
    w1 = w1  w2 = w2  w3 = w3
    u1 = u1  u2 = u2  u3 = u3
    Users <- Staff
    OrgAdmins = {u1}
    Approvers <- Staff
    Makers = {u1}
    Payloads = {p}
    RequiredCounts = {1, 2, 3}
    Workflows = {1}
    Workers <- ThreeWorkers
    SpendLimit = 2
SYMMETRY Overlapping
INVARIANTS ApprovalTypeOK Quorum NoLoneApprover

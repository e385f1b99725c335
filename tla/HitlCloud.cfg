SPECIFICATION Spec
CONSTANTS
    Requests = {r1, r2}
    NoRow = NoRow
    AcceptSets <- AnyAccepted
    NoRequest = NoRequest
    Timeouts = {1}
    RecoverLimit = 1
    MaxTime = 2
    MaxForwards = 1
    MaxCrashes = 1
SYMMETRY Symmetry
INVARIANT TypeOK
INVARIANT ApprovalsAreBacked
PROPERTY ForwardsOnlyAuthorised
PROPERTY ImplementsApprovalGate
PROPERTY ApprovedNeverExpires
PROPERTY DenialHonoured

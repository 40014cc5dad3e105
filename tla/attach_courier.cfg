SPECIFICATION Spec
CONSTANTS
    None = None
    Wrong = Wrong
    Ref = ref
    PolicyFields <- MCPolicyFields
    OptionalFields <- MCOptionalFields
    NormalStep <- MCNormalStep
    CasHandles <- MCCasHandles
    MaxReceiptTTL = 2
    Jobs = {j1, j2}
    Digests = {d1, d2}
    Plans <- MCPlans
    Handles <- MCHandles
    Keys <- MCKeys
    Trusted <- MCTrusted
    Policies <- MCPolicies
    Constraints <- MCConstraints
    FieldValues = {"a", "b"}
    Commit = "commit"
    MaxNow = 2
SYMMETRY MCSymmetry
INVARIANTS TypeOK AcceptsExactlyTheOwed
CHECK_DEADLOCK FALSE

SPECIFICATION Spec
CONSTANTS
    None = None
    j1 = j1
    j2 = j2
    k1 = k1
    k2 = k2
    k3 = k3
    k4 = k4
    r1 = r1
    r2 = r2
    r3 = r3
    PolicyFields <- MCPolicyFields
    OptionalFields <- MCOptionalFields
    NormalStep <- MCNormalStep
    CasHandles <- MCCasHandles
    MaxReceiptTTL = 2
    Jobs = {j1}
    Keys = {k1, k2, k3}
    PrepareKeys = {k4}
    Digests <- MCDigests
    Generations = {1, 2}
    PrepareRequests <- MCPrepareRequests
    AttachRequests <- ReplayRequests
    ExecuteRequests <- MCExecuteRequests
    ControlRequests <- MCControlRequests
    VerifierKind = "hmac"
    Issuers <- MCIssuers
    InitialDirectory <- MCNoDirectory
    MaxNow = 2
SYMMETRY KeySymmetry
PROPERTY ReplayedReceiptIsAnswered
CHECK_DEADLOCK FALSE

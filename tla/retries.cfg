SPECIFICATION ApiSpec
CONSTANTS
    None = None
    j1 = j1
    j2 = j2
    k1 = k1
    k2 = k2
    k3 = k3
    k4 = k4
    r1 = r1
    r2 = r2
    r3 = r3
    PolicyFields <- MCPolicyFields
    OptionalFields <- MCOptionalFields
    NormalStep <- MCNormalStep
    CasHandles <- MCCasHandles
    MaxReceiptTTL = 2
    Jobs = {j1}
    Watched <- WatchedContents
    Keys = {k1, k2}
    PrepareKeys = {k4}
    Digests <- MCDigests
    Generations = {1, 2}
    PrepareRequests <- MCPrepareRequests
    AttachRequests <- ApiRequests
    ExecuteRequests <- ApiExecuteRequests
    ControlRequests <- OneControlRequest
    VerifierKind = "opaque"
    Issuers <- MCIssuers
    InitialDirectory <- OneReceipt
    MaxNow = 0
SYMMETRY OtherKeys
INVARIANTS AnswersStand ContentsBindTheirKey ErrorsAreConclusive
CHECK_DEADLOCK FALSE

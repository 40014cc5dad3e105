SPECIFICATION FollowFairSpec
CONSTANTS
    None = None
    j1 = j1
    j2 = j2
    k1 = k1
    k2 = k2
    k3 = k3
    k4 = k4
    r1 = r1
    r2 = r2
    r3 = r3
    PolicyFields <- MCPolicyFields
    OptionalFields <- MCOptionalFields
    NormalStep <- MCNormalStep
    CasHandles <- MCCasHandles
    MaxReceiptTTL = 2
    Jobs = {j1, j2}
    Followed = {j1}
    Keys = {k1}
    PrepareKeys = {k3, k4}
    Digests <- MCDigests
    Generations = {1}
    PrepareRequests <- MCPrepareRequests
    AttachRequests <- TwoJobRequests
    ExecuteRequests <- OneExecuteRequest
    ControlRequests <- OneControlRequest
    VerifierKind = "hmac"
    Issuers <- MCIssuers
    InitialDirectory <- MCNoDirectory
    MaxNow = 0
INVARIANTS EventsTellTheJob OneJobPerPrepare HearsTheLog SnapshotsFitTheEvents ResultIsTheLastWord
PROPERTIES ChangesAreRecorded EverythingIsHeard
CHECK_DEADLOCK FALSE

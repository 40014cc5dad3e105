SPECIFICATION FairSpec
CONSTANTS
    Mark = "mark"
    AskWords = {"delegate", "run"}
    PlainWords = {"thanks"}
    Spoken <- MCSpoken
    Typed <- TypedRequest
    Elsewhere <- MCElsewhere
    MaxTexts = 2
    MaxOutput = 1
    MaxComposed = 2
    MaxLives = 2
INVARIANTS TypeOK SubmittedOncePerLife SeenIsDealtWith DryRunOnlyWatches
PROPERTIES RequestsAreHeard
CHECK_DEADLOCK FALSE

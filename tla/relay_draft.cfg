SPECIFICATION Spec
CONSTANTS
    Mark = "mark"
    AskWords = {"delegate", "run"}
    PlainWords = {"thanks"}
    Spoken <- MCSpoken
    Typed <- TypedRemark
    Elsewhere <- MCElsewhere
    MaxTexts = 2
    MaxOutput = 1
    MaxComposed = 4
    MaxLives = 2
INVARIANTS IgnoresItsResults
CHECK_DEADLOCK FALSE

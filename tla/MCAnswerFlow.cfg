SPECIFICATION FairSpec
CONSTANTS
    a = a
    b = b
    NoAnswer = NoAnswer
    Attribute <- MCAttribute
    Topic <- MCTopic
    MaxCrashes = 2
INVARIANTS
    TypeOK
    PassedIsStored
    RepeatsFromCrashesOnly
    LastAnswerWins
PROPERTIES
    EveryMessagePassed
    DeliversAnswers
CHECK_DEADLOCK FALSE

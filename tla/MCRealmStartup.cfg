SPECIFICATION FairSpec
CONSTANTS
    r1 = r1
    r2 = r2
    r3 = r3
    PRI_NAME = PRI_NAME
    PER_USER = PER_USER
    QUE_NAME = QUE_NAME
    PER_SERVICE = PER_SERVICE
    None = None
    Attributes <- MCAttributes
    Entities <- MCEntities
    Questions <- MCQuestions
    FirstSheet <- MCFirstSheet
    Realm <- MCTwoRealms
    Units <- MCTwoUnits
    MainRealm = r2
    UpsertWrites = TRUE
    MaxVersion = 2
    MaxEdits = 1
    MaxFailures = 1
    MaxRequests = 1
INVARIANT
    TypeOK
PROPERTIES
    ReadyWhenAnnounced
    BootHealsCache
    DisabledRealmsUntouched
    StartupCompletes
CHECK_DEADLOCK FALSE

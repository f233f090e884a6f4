SPECIFICATION Spec
CONSTANTS
    genny = genny
    other = other
    localhost = localhost
    t1 = t1
    t2 = t2
    None = None
    Realm <- MCRealm
    Genny = genny
    MainRealm = other
    Localhost = localhost
    Directory <- MCDirectory
    Thread <- MCThread
    DevMode = TRUE
SYMMETRY Symmetry
INVARIANTS
    TypeOK
    DeploymentOfOwnRealm
    ReloadLosesNoFile
    RegisteredRealmsResolve

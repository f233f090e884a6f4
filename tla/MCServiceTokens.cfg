SPECIFICATION Spec
CONSTANTS
    genny = genny
    main = main
    other = other
    c1 = c1
    c2 = c2
    NoToken = NoToken
    Realm <- MCRealm
    Genny = genny
    MainRealm = main
    Caller <- MCCaller
    Limit = 2
    Lifetime <- MCLifetime
    MaxNow = 2
SYMMETRY Threads
INVARIANTS
    TypeOK
    TokensStayInTheirRealm
    ReturnedTokenHadLife

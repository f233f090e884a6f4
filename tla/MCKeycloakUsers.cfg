SPECIFICATION Spec
CONSTANTS
    p1 = p1
    p2 = p2
    n1 = n1
    n2 = n2
    t1 = t1
    t2 = t2
    None = None
    NoRow = NoRow
    Person <- MCPerson
    Username <- MCUsername
    Thread <- MCThread
    MaxUsers = 2
SYMMETRY Symmetry
INVARIANTS
    TypeOK
    NoUserLeftBehind
    NoIdDangles

SPECIFICATION Spec
CONSTANTS
    c1 = c1
    c2 = c2
    t1 = t1
    t2 = t2
    Nothing = Nothing
    Code <- MCCode
    Thread <- MCThread
SYMMETRY Symmetry
INVARIANTS
    TypeOK
    RowsOfOthersStay
    SheetRowsShown
PROPERTIES
    DeletionsHidden

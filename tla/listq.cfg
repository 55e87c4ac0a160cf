CONSTANTS
    Items = {i1, i2, i3, i4}
    Data = {d1, d2}
    Nil = Nil
    End = End
SPECIFICATION FairSpec
INVARIANTS
    TypeOK
    LinksMatchOrder
    NothingLost
PROPERTIES
    ImplementsOrderedList
    RemovalReturns

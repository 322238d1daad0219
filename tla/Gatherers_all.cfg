SPECIFICATION FairSpec
CONSTANT MaxItems = 3
INVARIANTS
    TypeOK
    NothingLeftBehind
    
    ItemsWhole
    FailureSaysWhy
    RecordWhole
    SwapSumsAll
PROPERTY Terminates

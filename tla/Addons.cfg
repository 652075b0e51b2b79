SPECIFICATION Spec
CONSTANTS
    Workers = {"w1", "w2"}
    FlagSets = {{"create"}, {"create", "read"}}
    MaxChain = 3
    MaxRollbacks = 1
    Fields = {"a", "c"}
    Computed = {"c"}
    Source = "a"
    FieldsToExclude = {}
    Values = {0, 1}
    Falsy = 0
    LogType = {"full", "fast"}
    Days = 1
    MaxDay = 2
    MaxOps = 2
    MaxWork = 3
    Moves <- MCMoves
    Finds <- MCFinds
    Companies <- MCCompanies
    Ranges <- MCRanges
    Parts = {"top", "sub", "low", "nut", "bolt"}
    Structures <- MCStructures
    Root = "top"
    Quantity = 4
    Owners = {"c1", "c2"}
    Prices = {4, 8}
    MaxEdits = 2
    OrderLines = {"a", "b"}
    Ordered <- MCOrdered
    OnHand <- MCOnHand
    Policies <- MCPolicies
    Settings <- MCSettings
    Forms = {"none", "k1"}
    MaxPickings = 3
    MaxInvoices = 3
    MaxTouches = 1
    Partners = {"p", "q"}
    Nobody = "nobody"
    ItemsToPost <- MCItems
    MaxItems = 3
    DateFrom = 2
    DateTo = 2
    LoadMoreLimit = 1
    Uoms = {1, 3}
    Groups = {"o1", "o2"}
    NoGroup = "none"
    Calls <- MCCalls
    Stock = 4
    MaxMoves = 4
CHECK_DEADLOCK FALSE
INVARIANTS
    TypeOK
    LoggedOnce
    BillIsRight
    
    
    
PROPERTIES
    
    SheetIsRight

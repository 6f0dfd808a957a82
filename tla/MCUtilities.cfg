SPECIFICATION UtilitiesSpec
CONSTANTS
    N = 4
    SizeLimit = 32
    BitAnd <- MachineAnd
    BitXor <- MachineXor
    Elems = {a, b}
    VariantNames = {v1, v2, v3}
    Types = {int, string}
    Values = {x, y}
    Void = Void
    Raw = Raw
    Husk = Husk
    Gone = Gone
    VersionNames = {u, v}
    Texts <- VersionTexts
    MaxRank = 1
    MaxRounds = 2
    Threads = {t1, t2}
    Handlers = {h1, h2}
    Attributes = {id}
    None = None
    MaxArgument = 2
    MaxSize = 5
    Users = {u1, u2, u3}
    MaxObjects = 4
    Nothing = Nothing
INVARIANTS OnlyTwoRaces DestructorFits OrderIsPrecedence FormatRoundTrips OnWithASink
    OperationsKeepTheirLogger PacksKeepOrder OneGlobal
PROPERTY ImplementsCells
CHECK_DEADLOCK FALSE

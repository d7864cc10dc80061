SPECIFICATION MCSpec
CONSTANTS
    IntBits = 17
    LongBits = 20
    FloatMax = 50
    Infinity = 1000
    Exponent = 4
    Keys <- MCKeys
    Leaves <- MCLeaves
    MaxEdits = 3
    Ids <- MCIds
    Methods <- MCMethods
    Contents <- MCContents
    Metadata <- MCMetadata
    Config <- MCConfig
    MaxHops = 2
    Octets = {0, 1, 77, 170, 255}
    MaxBytes = 4
    Bindable <- MCBindable
    NParams = 2
    MaxCalls = 6
INVARIANTS TextRoundTrip RpcMeaning Base64Inverse ExecutionSeesItsBinds
CHECK_DEADLOCK FALSE

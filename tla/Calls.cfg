SPECIFICATION Spec
CONSTANTS
    Names <- MCNames
    UnencodableNames <- MCUnencodable
    Cities <- MCCities
    Coins <- MCCoins
    Files <- MCFiles
    NullJson = NullJson
    None = None
    Failed = Failed
    Unreadable = Unreadable
    Wild = Wild
    Clients = {c1, c2, c3}
    Requests <- CallRequests
    Faults <- NoFaults
    MaxPending = 1
SYMMETRY ClientSymmetry
INVARIANTS TypeOK AnswerIntegrity
PROPERTIES AcknowledgedIsKept UpdatesAreConfined ImplementsAtomic

SPECIFICATION Spec
CONSTANTS
    Names <- MCNames
    UnencodableNames <- MCUnencodable
    Cities <- MCCities
    Coins <- MCCoins
    Files <- MCFiles
    NullJson = NullJson
    None = None
    Failed = Failed
    Unreadable = Unreadable
    Wild = Wild
    Clients = {c1}
    Requests <- Posts
    Faults <- NoFaults
    MaxPending = 1
PROPERTY PostUpdates

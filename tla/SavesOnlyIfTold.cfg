SPECIFICATION Spec
CONSTANTS
    Names <- MCNames
    UnencodableNames <- MCUnencodable
    Cities <- MCCities
    Coins <- MCCoins
    Files <- MCFiles
    NullJson = NullJson
    None = None
    Failed = Failed
    Unreadable = Unreadable
    Wild = Wild
    Clients = {c1}
    Requests <- OneService
    Faults <- AcceptFaults
    MaxPending = 1
CHECK_DEADLOCK FALSE
PROPERTY SavesOnlyIfTold

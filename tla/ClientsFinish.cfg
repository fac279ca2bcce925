SPECIFICATION FairSpec
CONSTANTS
    Names <- MCNames
    UnencodableNames <- MCUnencodable
    Cities <- MCCities
    Coins <- MCCoins
    Files <- MCFiles
    NullJson = NullJson
    None = None
    Failed = Failed
    Unreadable = Unreadable
    Wild = Wild
    Clients = {c1, c2}
    Requests <- TwoServices
    Faults <- ServiceFaults
    MaxPending = 1
INVARIANTS IInv ConnInv ExitIsSaved
PROPERTIES ClientsFinish ExecutesOnceInTime ImplementsAtomic

SPECIFICATION DifferentSpec
CONSTANTS
    Names <- MCNames
    UnencodableNames <- MCUnencodable
    Cities <- MCCities
    Coins <- MCCoins
    Files <- MCFiles
    NullJson = NullJson
    None = None
    Failed = Failed
    Unreadable = Unreadable
    Wild = Wild
    Clients = {c1, c2}
    Requests <- TwoPosts
    Faults <- ShutdownFaults
    MaxPending = 1
CHECK_DEADLOCK FALSE
INVARIANTS IInv ConnectionsAreHeld StoreInv
PROPERTIES AcknowledgedIsKept ShutdownCompletes ExecutesOnceInTime ImplementsAtomic

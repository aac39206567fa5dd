SPECIFICATION Spec
CONSTANTS
    held = held
    wanted = wanted
    Series <- MCSeries
    AtFirst <- MCAtFirst
    Wanted <- MCWanted
    MaxRelease = 3
    Month <- MCMonth
    Lettered <- MCLettered
    Listed <- MCListed
    Unhashed <- MCUnhashed
    Size = 2
    MaxFaults = 1
INVARIANTS HashedFilesGood
PROPERTIES LastReleaseStays NothingDeleted Converges

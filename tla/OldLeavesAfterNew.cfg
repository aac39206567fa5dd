SPECIFICATION Spec
CONSTANTS
    held = held
    wanted = wanted
    Series <- MCAtFirst
    AtFirst <- MCAtFirst
    Wanted = {}
    MaxRelease = 3
    Month <- MonthOfItsOwn
    Lettered = {}
    Listed <- ExactlyListed
    Unhashed = {}
    Size = 2
    MaxFaults = 2
PROPERTIES OldLeavesAfterNew

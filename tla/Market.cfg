SPECIFICATION FairSpec
CONSTANTS
    Devices = {"a", "b"}
    Seller = "a"
    Schedule = {1, 2}
    Lowered <- MCLowered
    Worlds <- MCWorlds
INVARIANT TypeOK
INVARIANT SomeoneKeeps
PROPERTY WarnedOnlyOfOthers
PROPERTY MarketFollows
PROPERTY EndReported
CHECK_DEADLOCK FALSE

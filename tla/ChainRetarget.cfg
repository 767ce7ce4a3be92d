SPECIFICATION StartedSpec
CONSTANTS
    g = g
    a1 = a1
    a2 = a2
    b1 = b1
    b2 = b2
    b3 = b3
    c2 = c2
    c3 = c3
    x2 = x2
    y2 = y2
    NoBlock = NoBlock
    Genesis = g
    Blocks <- MCBlocks
    Prev <- MCPrev
    Height <- MCHeight
    Bits <- MCBitsRetarget
    Time <- MCTimeRetarget
    ChainWork <- MCWorkRetarget
    MaxTarget = 7
    Outpoints <- MCOutpoints
    Amount <- MCAmount
    Body <- MCBody
    Bip30Exceptions = {b3}
    Flaw <- MCFlaw
    MedianSpan = 2
    MaxFuture = 6
    RetargetInterval = 2
    TwoWeeks = 4
    HalvingInterval = 2
    InitialSubsidy = 4
    Maturity = 1
    StorageModes = {"archival"}
    KeepBlocks = 2
    MaxOrphans = 2
    MaxOrphanBytes = 3
    Size <- MCSize
    DbFaults = TRUE
    Announced = {b1, b2}
    MaxClock = 1
INVARIANT BitsFollowBranch

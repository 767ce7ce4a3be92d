SPECIFICATION StartedSpec
CONSTANTS
    g = g
    a1 = a1
    a2 = a2
    b1 = b1
    b2 = b2
    b3 = b3
    c2 = c2
    c3 = c3
    x2 = x2
    y2 = y2
    NoBlock = NoBlock
    Genesis = g
    Blocks <- MCBlocks
    Prev <- MCPrev
    Height <- MCHeight
    Bits <- MCBits
    Time <- MCTime
    ChainWork <- MCWork
    MaxTarget = 7
    Outpoints <- MCOutpoints
    Amount <- MCAmount
    Body <- MCBody
    Bip30Exceptions = {b3}
    Flaw <- MCFlaw
    MedianSpan = 2
    MaxFuture = 4
    RetargetInterval = 3
    TwoWeeks = 4
    HalvingInterval = 2
    InitialSubsidy = 4
    Maturity = 1
    StorageModes = {"pruned"}
    KeepBlocks = 2
    MaxOrphans = 2
    MaxOrphanBytes = 3
    Size <- MCSize
    DbFaults = TRUE
    Announced = {b1, b2}
    MaxClock = 1
INVARIANT OnlyInvalidMarked

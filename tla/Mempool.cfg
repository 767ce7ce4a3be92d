SPECIFICATION FairSpec
CONSTANTS
    a = a
    b = b
    c = c
    d = d
    e = e
    f = f
    Coinbase = Coinbase
    Txs <- MCTxs
    Ins <- MCIns
    Outs <- MCOuts
    Fee <- MCFee
    Weight <- MCWeight
    Signals <- MCSignals
    Flaw <- MCFlaw
    Rank <- MCRank
    MinFee = 1
    MaxSize = 6
    MaxTime = 0
    MaxBlockWeight = 20
    MaxAncestors = 4
    MaxAncestorSize = 6
    MaxDescendants = 4
    MaxDescendantSize = 5
    MaxEvictions = 4
    MaxOrphans = 2
    MaxOrphanSize = 3
    MaxOrphanTime = 0
    MaxForks = 1
    MaxBlock = 2
    MaxForkBlock = 1
    MaxClock = 1
INVARIANTS
    TypeOK
    SpendIndexExact
    GraphExact
    PackagesBounded
    SizeBounded
    OrphansBounded
    TemplateInOrder
PROPERTIES
    ReplacementPays
    OnlyReplaceableReplaced
    CallsReturn

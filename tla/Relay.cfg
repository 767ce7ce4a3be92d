SPECIFICATION FairSpec
CONSTANTS
    Peers = {h, f}
    Honest = {h}
    Callers = {c}
    Items = {i}
    Top = 2
    Starts <- MCStarts
    None = None
INVARIANTS
    AskedOnce
PROPERTIES
    Delivered
    SyncEnds

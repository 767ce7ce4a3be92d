SPECIFICATION Spec
CONSTANTS
    s1 = s1
    s2 = s2
    s3 = s3
    big = big
    Blocks <- MCBlocks
    Size <- MCSize
    MaxFileSize = 3
    Modes = {"archival", "pruned"}
    ShortWrites = {"pruned"}
    MaxNumber = 4
INVARIANTS
    TypeOK
    RowsReadBack
    FilesTracked
PROPERTY ReopenLeavesNoGarbage

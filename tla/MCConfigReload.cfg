CONSTANTS
    p1 = p1
    p2 = p2
    p3 = p3
    Puts <- MCPuts
    Documents <- MCDocuments
    Size <- MCSize
SPECIFICATION Spec
INVARIANTS
    TypeOK
    FileIsLastPublished
    LiveIsOnDisk
CHECK_DEADLOCK FALSE

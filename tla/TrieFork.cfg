CONSTANTS
    small = small
    large = large
    Nibbles = {0, 1}
    ValueLen <- InstanceValueLen
    InsertBelow <- InsertCall
    TryDeleteBelow <- TryDeleteCall
    GetBelow <- GetCall
    GetNodeBelow <- GetNodeCall
    EncodedLenBelow <- EncodedLenCall
    HashBelow <- HashCall
    DoCommitBelow <- DoCommitCall
    ShapeBelow <- ShapeCall
    CanonicalBelow <- CanonicalCall
    ReferenceBelow <- ReferenceCall
    NodesBelow <- NodesCall
    ValueBelow <- ValueCall
    Keys <- ForkKeys
    Values = {small, large}
    Absent = Absent
    ProbePaths <- ForkPaths
    Bannable <- ForkBans
    CommitAfterFailedDelete = FALSE
SPECIFICATION NodesSpec
INVARIANTS
    TypeOK
    CanonicalForm
    CachesAreFresh
    ReadsAreExact
    NodesReadAreStored
    StoreIsExact
    PendingIsExact
    TracerIsExact
PROPERTIES
    ImplementsMap
    ImplementsNodeStore

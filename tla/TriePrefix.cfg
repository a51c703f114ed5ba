CONSTANTS
    small = small
    large = large
    Nibbles = {0, 1}
    ValueLen <- InstanceValueLen
    InsertBelow <- InsertCall
    TryDeleteBelow <- TryDeleteCall
    GetBelow <- GetCall
    GetNodeBelow <- GetNodeCall
    EncodedLenBelow <- EncodedLenCall
    HashBelow <- HashCall
    DoCommitBelow <- DoCommitCall
    ShapeBelow <- ShapeCall
    CanonicalBelow <- CanonicalCall
    ReferenceBelow <- ReferenceCall
    NodesBelow <- NodesCall
    ValueBelow <- ValueCall
    Keys <- PrefixKeys
    Values = {small, large}
    Absent = Absent
    ProbePaths <- PrefixPaths
    Bannable <- PrefixBans
    CommitAfterFailedDelete = FALSE
SPECIFICATION NodesSpec
INVARIANTS
    CanonicalForm
    CachesAreFresh
    ReadsAreExact
    NodesReadAreStored
    StoreIsExact
PROPERTIES
    ImplementsMap
    ImplementsNodeStore

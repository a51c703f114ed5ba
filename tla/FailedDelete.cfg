CONSTANTS
    small = small
    large = large
    Nibbles = {0, 1}
    ValueLen <- InstanceValueLen
    InsertBelow <- InsertCall
    TryDeleteBelow <- TryDeleteCall
    GetBelow <- GetCall
    GetNodeBelow <- GetNodeCall
    EncodedLenBelow <- EncodedLenCall
    HashBelow <- HashCall
    DoCommitBelow <- DoCommitCall
    ShapeBelow <- ShapeCall
    CanonicalBelow <- CanonicalCall
    ReferenceBelow <- ReferenceCall
    NodesBelow <- NodesCall
    ValueBelow <- ValueCall
    Keys <- ForkKeys
    Values = {large}
    Absent = Absent
    ProbePaths = {}
    Bannable <- ForkPaths
    CommitAfterFailedDelete = TRUE
SPECIFICATION Spec
INVARIANT DeletionsAreReal

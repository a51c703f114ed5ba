CONSTANTS
    small = small
    large = large
    Nibbles = {0, 15}
    ValueLen <- InstanceValueLen
    InsertBelow <- InsertCall
    TryDeleteBelow <- TryDeleteCall
    GetBelow <- GetCall
    GetNodeBelow <- GetNodeCall
    EncodedLenBelow <- EncodedLenCall
    HashBelow <- HashCall
    DoCommitBelow <- DoCommitCall
    ShapeBelow <- ShapeCall
    CanonicalBelow <- CanonicalCall
    ReferenceBelow <- ReferenceCall
    NodesBelow <- NodesCall
    Keys <- WalkKeys
    Values = {small, large}
    Starts <- WalkStarts
    Bannable <- WalkBans
    NoItem = NoItem
    NoValue = NoValue
SPECIFICATION Spec
INVARIANT LeafKeysAreKeys

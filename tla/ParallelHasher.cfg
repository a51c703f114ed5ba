CONSTANTS
    small = small
    large = large
    Nibbles = {0, 1}
    ValueLen <- InstanceValueLen
    InsertBelow <- InsertCall
    TryDeleteBelow <- TryDeleteCall
    GetBelow <- GetCall
    GetNodeBelow <- GetNodeCall
    EncodedLenBelow <- EncodedLenCall
    HashBelow <- HashCall
    DoCommitBelow <- DoCommitCall
    ShapeBelow <- ShapeCall
    CanonicalBelow <- CanonicalCall
    ReferenceBelow <- ReferenceCall
    NodesBelow <- NodesCall
    Jobs = {j1, j2}
    Roots <- HashedRoots
    Hashers = {1, 2, 3, 4, 5, 6}
    Nodes <- NodesToHash
    Unhashed <- UnhashedNodes
    ToHash <- NodeToHash
    Alone <- HashedAlone
SPECIFICATION Spec
INVARIANTS
    HashersAreApart
    HashIsSequential
PROPERTY HashingEnds

CONSTANTS
    small = small
    large = large
    Nibbles = {0, 1}
    ValueLen <- InstanceValueLen
    InsertBelow <- InsertCall
    TryDeleteBelow <- TryDeleteCall
    GetBelow <- GetCall
    GetNodeBelow <- GetNodeCall
    EncodedLenBelow <- EncodedLenCall
    HashBelow <- HashCall
    DoCommitBelow <- DoCommitCall
    ShapeBelow <- ShapeCall
    CanonicalBelow <- CanonicalCall
    ReferenceBelow <- ReferenceCall
    NodesBelow <- NodesCall
    Builds = {b1, b2}
    Tries <- GraphTries
    Nodes <- GraphNodes
    Contents <- TrieContents
SPECIFICATION Spec
INVARIANTS
    GraphSpellsTheTrie
    GraphIsConnected
    MetadataIsExact
    NumbersAscend

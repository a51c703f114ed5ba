CONSTANTS
    top = top
    kid = kid
    big = big
    big2 = big2
    small = small
    Path = {top, kid}
    Blob = {big, big2, small}
    None = None
    Keep = Keep
    IsStored <- MCIsStored
SPECIFICATION Spec
INVARIANTS
    TypeOK
    StoreIsExact
    TracerIsExact
    PendingIsExact
    OpenTrie
    CommittedTrie

CONSTANTS
    Bytes = {0, 1, 16, 32, 239, 255}
    MaxLen = 3
SPECIFICATION Spec
INVARIANTS
    PackedIsExact
    NibblesAreExact

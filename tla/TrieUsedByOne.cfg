CONSTANTS
    Requests = {r1, r2, r3}
    Sessions = {s1}
    Keys = {a, b}
    Values = {v}
    Absent = Absent
    Nobody = Nobody
SPECIFICATION Spec
SYMMETRY Symmetry
INVARIANTS
    TrieUsedByOne

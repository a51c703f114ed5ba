CONSTANTS
    Requests = {r1, r2, r3, r4}
    Sessions = {s1, s2}
    Keys = {a, b}
    Values = {v}
    Absent = Absent
    Nobody = Nobody
SPECIFICATION HistorySpec
SYMMETRY Symmetry
INVARIANTS
    TypeOK
    ResponsesAgree
    NothingIsInvented
PROPERTIES
    ImplementsLog

SPECIFICATION FairSpec
CONSTANTS
    Names = {n1, n2}
    Runs = {r1}
    Absent = Absent
    Calls = {c1}
INVARIANTS
    ResponseRight
PROPERTIES
    RunEndsWithContext

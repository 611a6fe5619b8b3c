\* Two servers, a check after two overlapping calls.
SPECIFICATION Spec
CONSTANTS
    Calls = {c1, c2, c3}
    Available = {a1, a2}
    Others = {o}
    N = 2
SYMMETRY ServerSymmetry
INVARIANTS
    RefusedOnlyIfUnavailable

\* Three servers, two calls at a time.
SPECIFICATION Spec
CONSTANTS
    Calls = {c1, c2}
    Available = {a1, a2, a3}
    Others = {o}
    N = 3
SYMMETRY ServerSymmetry
INVARIANTS
    TypeOK
    OthersRefused
    RightUnlessCrowded

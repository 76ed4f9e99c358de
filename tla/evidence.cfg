SPECIFICATION Spec
CONSTANTS
    Runs = {r1, r2}
    Deployments = {d1, d2}
    MaxLag = 2
    Flaws <- MCFlaws
SYMMETRY Symmetry
INVARIANTS
    VerifiedIsTrue
    UndisturbedRunVerifies
CHECK_DEADLOCK FALSE

CONSTANTS
    d1 = d1  d2 = d2  p1 = p1  p2 = p2
    Doc = {d1}
    Piece = {p1, p2}
    Corpora <- TwoVersions
    Run = {1, 2}
    Threshold = 2
    BatchSize = 1
    NoBok = NoBok
SPECIFICATION Spec
INVARIANT SuccessIsExact

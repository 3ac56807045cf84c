CONSTANTS
    base = base  a = a  b = b  c = c  d = d  ext = ext  pdf = pdf
    Url = {base, a, b, c, d, ext, pdf}
    Base = base
    OnSite = {base, a, b, c, d, pdf}
    Skipped = {pdf}
    PageLimit = 4
    Sites <- SmallSites
SPECIFICATION FairSpec
INVARIANTS
    TypeOK
    NoDuplicatePages
    StaysInBounds
    FindsEveryPage
PROPERTY Terminates
CHECK_DEADLOCK FALSE

SPECIFICATION Spec
CONSTANTS
    Collections <- Sites
    Passage <- Passages
    Routes <- Table
    Unrouted <- Default
    Weights <- BothWeights
    RrfK = 60
    CandidateN = 3
    TopK = 2
    QuestionLength = 2
    ExpansionRatio = 2
    MinAllowance = 3
    RewriteLengths = {0, 4, 5}
INVARIANTS
    TypeOK
    EvidenceSound
    OnlyTheModelFails

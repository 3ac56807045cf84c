SPECIFICATION Spec
CONSTANTS
    Text = {t1, t2, huge}
    Oversized = {huge}
    Caller = {"primary", "lexical"}
    MaxAttempts = 3
    StoreAttempts = 3
    MaxRetrievals = 2
    NoText = NoText
PROPERTY
    EmbeddingFailureNeverFallsBack

SPECIFICATION FairSpec
CONSTANTS
    Url <- Urls
    Address = {"public", "inner"}
    Denied = {"inner"}
    Literal <- Literals
    Deployment <- HomeUrl
    RedirectPolicy <- Urls
    MaxRedirectHops = 2
    MaxBytes = 4
    SniffWindow = 3
    SignatureLength = 2
    NoBody = NoBody
    Trees <- Samples
    MaxRetries = 3
INVARIANTS
    TypeOK
    PinnedToChecked
    CredentialsStayHome
    WholeTreeRead
PROPERTIES
    BodyIsWhole
    ReadEnds

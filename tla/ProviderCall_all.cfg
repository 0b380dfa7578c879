SPECIFICATION Spec
CONSTANTS
    OpenAI = OpenAI
    Unsupported = Unsupported
    NoProvider = NoProvider
    Blank = Blank
    NoConnection = NoConnection
    Subparameter = Subparameter
    azure = azure
    gpt4 = gpt4
    gpt5 = gpt5
    gpt51 = gpt51
    own = own
    other = other
    Supported <- SupportedAll
    Models <- ModelsAll
    Gpt5 <- Gpt5All
    Gpt51 <- Gpt51All
    Connections <- ConnectionsAll
    ProviderOf <- ProviderOfAll
    Versions <- VersionsAll
CHECK_DEADLOCK FALSE
INVARIANTS
    TypeOK
    FallbacksComeLast
    ResultIsTheLastRoutes
    DroppedWereRefused
PROPERTY
    JobEnds

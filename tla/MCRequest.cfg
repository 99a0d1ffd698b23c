SPECIFICATION RequestSpec
CONSTANTS
    w1 = w1
    pager = pager
    core = core
    graphql = graphql
    Callers = {w1, pager}
    Resources = {core, graphql}
    GraphQLResource = graphql
    Pager = pager
    Answers <- SmallAnswers
    Waits = {1, 2}
    Horizon = 2
    MaxWaits = 100
    MaxAttempts = 2
    MaxRequests = 1
CHECK_DEADLOCK FALSE
INVARIANTS
    RequestTypeOK
    OneSendPerCooldown
    ErrorsTellTheCause
    WaitTimeAccounted
    NoOversleep
PROPERTIES
    NobodyComesBackEarly
    HitOpensWindow
    ExtensionProlongs
    StopEndsWaiting
    RequestEnds
    UsesLimiter

SPECIFICATION FairRouterSpec
CONSTANTS
    Providers <- MCProviders
    Threshold = 2
    Backoff <- MCBackoff
    RetryAfter <- MCRetryAfter
    Callers <- MCCallers
    Local <- MCLocal
    Rankings <- MCRankings
    Retries <- MCRetries
CONSTRAINT FewRowsBehind
INVARIANTS
    OpenTakesOnlyEarlyCalls
PROPERTIES
    ProbedBeforeWork
    CooldownKept
    BackInThePool

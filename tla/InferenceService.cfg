SPECIFICATION FairSpec
CONSTANTS
    h1 = h1
    h2 = h2
    Handlers <- MCHandlers
    Requests <- MCRequests
    Tokens <- MCTokens
    StopTokens <- MCStopTokens
    ChunkTokens = 2
    CacheGroups <- MCCacheGroups
    PoolIds <- MCPoolIds
INVARIANTS PositionsMatchCaches SessionOwnsDevice LostByFailureOnly AnswerFollowsResult OneLateRun
PROPERTIES EveryRequestAnswered

CONSTANTS
    Queries = {q1, q2}
    Ids = {"a", "b"}
    Egress = {"openai", "gemini"}
    V1Family = {"openai"}
    ModelLists <- MCLists
    None = None
    Walks <- MCWalks
    TTL = 2
    Backoff = 1
    FetchTimeout = 1
SPECIFICATION CacheSpec
PROPERTIES RefreshesWhenDue AnswersAreTheLatest QueriesEnd

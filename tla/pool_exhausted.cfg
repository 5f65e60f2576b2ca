SPECIFICATION PoolSpec
CONSTANTS
    post1 = post1
    post2 = post2
    cancel1 = cancel1
    get1 = get1
    Ops <- MCPosts
    Kind <- MCPostKind
    TxInContext = FALSE
    MaxOpenConns = 2
PROPERTIES
    PostsAreAnswered
CHECK_DEADLOCK FALSE

SPECIFICATION MCSpec
CONSTANTS
    add1 = add1
    add2 = add2
    list = list
    delete = delete
    chain = chain
    u1 = u1
    u2 = u2
    u3 = u3
    nick = nick
    other = other
    None = None
    Queries = {add1, add2, delete, list, chain}
    Threads = {s1}
    Kind <- MCKind
    Chain <- MCChain
    User <- MCUser
    Nick <- MCNick
    Authors = {u1}
    Requests = {r1, r2}
    Author <- MCAuthor
    Nothing = Nothing
    EnableRoleAdd = TRUE
    MaxFields = 2
    PageAt = 1
INVARIANTS
    BotTypeOK
    NothingLost
    

    
    
CHECK_DEADLOCK FALSE

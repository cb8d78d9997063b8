SPECIFICATION BuildSpec
CONSTANTS
    user = user
    definer = definer
    h1 = h1
    b1 = b1
    b2 = b2
    Sources = {user, definer}
    Headers = {h1}
    MayContain <- MCMayContain
    NoBlock = NoBlock
    MaxTime = 3
    MaxEdits = 2
CHECK_DEADLOCK FALSE
INVARIANTS MiddleLinked

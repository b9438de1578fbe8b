SPECIFICATION FairSpec
CONSTANTS
    Producers = {p1, p2}
    Consumers = {c1, c2}
    Pollers = {}
    Copiers = {}
    Observers = {}
    p1 = p1
    p2 = p2
    c1 = c1
    c2 = c2
    Nothing = Nothing
    NoThread = NoThread
    MaxPush = 2
PROPERTY EventuallyTaken
CHECK_DEADLOCK FALSE

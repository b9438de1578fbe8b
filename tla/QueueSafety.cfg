SPECIFICATION Spec
CONSTANTS
    Producers = {p1, p2}
    Consumers = {c1, c2}
    Pollers = {t1}
    Copiers = {y1}
    Observers = {o1}
    p1 = p1
    p2 = p2
    c1 = c1
    c2 = c2
    t1 = t1
    y1 = y1
    o1 = o1
    Nothing = Nothing
    NoThread = NoThread
    MaxPush = 2
INVARIANT TypeOK
INVARIANT NoDataRace
INVARIANT NoLostWakeup
PROPERTY ImplementsFifo
CHECK_DEADLOCK FALSE

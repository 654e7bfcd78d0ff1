SPECIFICATION Spec
CONSTANTS
    c1 = c1
    c2 = c2
    o1 = o1
    o2 = o2
    t1 = t1
    t2 = t2
    a1 = a1
    w1 = w1
    k1 = k1
    tk1 = tk1
    h1 = h1
    f1 = f1
    j1 = j1
    j2 = j2
    l1 = l1
    n1 = n1
    n2 = n2
    nj = nj
    m1 = m1
    m2 = m2
    mj = mj
    None = None
    Clients = {c1, c2}
    BatchSize = 1
    MaxFaults = 1
    Ids <- MCIds
    InitRows <- MCInitRows
    Ops <- MCOps
    Kinds <- MCKinds
    Statuses <- MCStatuses
PROPERTY JobMoves

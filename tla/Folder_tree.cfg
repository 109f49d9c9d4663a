SPECIFICATION FairSpec
CONSTANTS
    a = a  b = b  n1 = n1  m1 = m1  m2 = m2  d1 = d1  p1 = p1  t1 = t1
    Home = Home
    Seed = {a, b}
    SeedParent <- Nested
    SeedFile = {}
    SeedFolder <- NoSeedFile
    Create = {n1}
    Move = {m1, m2}
    Drop = {d1}
    Arrive = {t1}
    Put = {p1}
    MaxDepth = 9
    Disciplines <- Disciplined
CHECK_DEADLOCK FALSE
INVARIANTS TypeOK MovesKeepTree NothingOrphaned
PROPERTIES EveryCallAnswered FollowsFileSystem

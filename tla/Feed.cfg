SPECIFICATION FairSpec
CONSTANTS
    s1 = s1  s2 = s2  m1 = m1 
    None = None
    Socket = {s1, s2}
    Mark = {m1}
    MaxStored = 2
    Limit = 1
    Budget <- EachOnce
    Mix = 2
    Disciplines <- EachDiscipline
CHECK_DEADLOCK FALSE
INVARIANTS TypeOK OneLiveSocket ReadIsTrue FeedInOrder
PROPERTIES FreshSocket Converges

SPECIFICATION FairSpec
CONSTANTS
    q1 = q1  q2 = q2 
    Loading = Loading
    Request = {q1, q2}
    Budget <- Everything
    Mix = 3
CHECK_DEADLOCK FALSE
INVARIANTS TypeOK Agreement NoUndeservedSignOut SilentRefresh
PROPERTY EveryRequestSettles

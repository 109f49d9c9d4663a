SPECIFICATION FairSpec
CONSTANTS
    f0 = f0  f1 = f1  f2 = f2  n1 = n1  d1 = d1  d2 = d2
    None = None  Root = Root
    File = {f0, f1, f2, n1}
    Folder = {d1, d2}
    NewFile = n1
    NewVersion = f2
    OldVersion = f0
    NewFolder = d2
    Budget <- Once
    Together <- Combined
    Opened = {d1}
CHECK_DEADLOCK FALSE
INVARIANTS TypeOK ShownIsStored
PROPERTY StatusCatchesUp

SPECIFICATION Spec
CONSTANTS
    f = f  g = g  u1 = u1  u2 = u2  s1 = s1  s2 = s2  w1 = w1  d1 = d1
    NoFile = NoFile
    Root = {f, g}
    Upload = {u1, u2}
    Restore = {s1, s2}
    Rewrite = {w1}
    Delete = {d1}
    Disciplines <- EveryDiscipline
SYMMETRY Twins
CHECK_DEADLOCK FALSE
INVARIANTS TypeOK OneCurrent NeverHidden ParentsAreRoots
PROPERTY FollowsHistory

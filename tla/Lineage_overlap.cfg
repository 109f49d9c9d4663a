SPECIFICATION Spec
CONSTANTS
    f = f  g = g  u1 = u1  u2 = u2  s1 = s1  s2 = s2  w1 = w1  d1 = d1
    NoFile = NoFile
    Root = {f}
    Upload = {u1, u2}
    Restore = {}
    Rewrite = {}
    Delete = {}
    Disciplines <- Careless
CHECK_DEADLOCK FALSE
INVARIANT ExactlyOneCurrent

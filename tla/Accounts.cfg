SPECIFICATION Spec
CONSTANTS
    t1 = t1  t2 = t2  p1 = p1  p2 = p2  n1 = n1  n2 = n2
    None = None
    Tab = {t1, t2}
    Password = {p1, p2}
    Name = {n1, n2}
    MaxTokens = 1
    Budget <- EachOnce
    Mix = 1
SYMMETRY Alike
CHECK_DEADLOCK FALSE
INVARIANTS TypeOK ResetStands LateResetRefused OwnNameShown

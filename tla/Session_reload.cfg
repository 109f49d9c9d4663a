SPECIFICATION Spec
CONSTANTS
    q1 = q1  q2 = q2
    Loading = Loading
    Request = {q1}
    Budget <- Nothing
    Mix = 0
CHECK_DEADLOCK FALSE
INVARIANT StaysSignedIn

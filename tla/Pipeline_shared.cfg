SPECIFICATION Spec
CONSTANTS
    a = a  b = b  c = c  r1 = r1  r2 = r2  r3 = r3  u1 = u1
    NoTask = NoTask
    Image = {a}
    Video = {b}
    Other = {}
    Corrupt = {}
    Request = {r1, r2}
    Rename = {u1}
    FileOf <- FileEach
    Deletable = {a}
    ImageSlot = {i1}
    VideoSlot = {v1}
    MaxRetry <- RetryOnce
    Budgets <- DeploymentFaults
CHECK_DEADLOCK FALSE
INVARIANTS ReadyIsServable KeysAreBacked

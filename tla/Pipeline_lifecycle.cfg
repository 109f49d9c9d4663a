SPECIFICATION FairSpec
CONSTANTS
    a = a  b = b  c = c  r1 = r1  r2 = r2  r3 = r3  u1 = u1
    NoTask = NoTask
    Image = {}
    Video = {a, b}
    Other = {c}
    Corrupt = {b}
    Request = {r1, r2, r3}
    Rename = {}
    FileOf <- FileEach
    Deletable = {}
    ImageSlot = {}
    VideoSlot = {v1, v2}
    MaxRetry <- RetryOnce
    Budgets <- FailuresCrashOrTimeout
CHECK_DEADLOCK FALSE
INVARIANTS TypeOK ProcessingIsQueued FailedMeansSpent
PROPERTIES ImplementsLifecycle Settles

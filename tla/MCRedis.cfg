\* Every interleaving of two readers and two updates of one cached key, and of three requests
\* with one idempotency key, of two kinds; two executions of one video, of three attempts, with
\* one forgiven stall and four faults; two requests at a time that notify one recipient, a limit
\* of one and three notifications.
CONSTANTS
    c1 = c1
    c2 = c2
    u1 = u1
    u2 = u2
    Readers = {c1, c2}
    Updaters = {u1, u2}
    NoReader = NoReader
    Empty = Empty
    MaxWaitAttempts = 1
    MaxVersion = 2
    MaxDisturbances = 2
    r1 = r1
    r2 = r2
    r3 = r3
    b1 = b1
    b2 = b2
    Requests = {r1, r2, r3}
    Odd = r3
    Bodies = {b1, b2}
    NoRequest = NoRequest
    s1 = s1
    s2 = s2
    w1 = w1
    w2 = w2
    Slots = {s1, s2}
    NoSlot = NoSlot
    Attempts = 3
    MaxStalls = 1
    MaxVideoFaults = 4
    Writers = {w1, w2}
    TrimWorker = worker
    Limit = 1
    TrimAttempts = 2
    MaxNotifications = 3
    MaxNotificationFaults = 2
SPECIFICATION RedisSpec
INVARIANT RedisTypeOK
INVARIANT OneLoaderUnlessExpired
INVARIANT StaleOnlyIfOvertaken
INVARIANT OneRunsUnlessTimedOut
INVARIANT AnsweredOnceUnlessLate
INVARIANT StatusIsTrue
INVARIANT SurplusIsTrimmed
PROPERTY ReadEnds
PROPERTY SettledStays
PROPERTY TrimsOnlySurplus
PROPERTY SettlesUnlessLost
\* Three requests end, a video is settled, and all notifications have been made.
CHECK_DEADLOCK FALSE

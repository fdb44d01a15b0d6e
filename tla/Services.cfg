SPECIFICATION ServicesSpec
CONSTANTS
    Transfers = {t1, t2}
    Size <- MCSize
    ChunkSize = 2
    Timeout = 2
    MaxChunkArrivals = 6
    Rate = 2
    Cost = 3
    Burst = 7
    MaxIdle = 4
    MaxChallenges = 3
    Minute = 4
    Ticket = {1, 2, 3, 4, 5, 6}
    Threads = {h1, h2, h3}
    Limit = 2
    HookMinute = 2
    HookMaxTime = 4
    MaxRequests = 4
    Peer = {p1, p2, p3}
    Capable = {p1, p2}
    Sends = {s1, s2}
    MaxChurn = 3
    Command = {c1, c2, c3}
    Drainer = {d}
    MaxQueue = 2
    Registers = 2
    MaxPolls = 2
    MaxLinks = 2
    MaxSessions = 3
    MaxFrames = 4
    JoinSuffices = TRUE
    Subscribe = {u1, u2, u3}
    WriteCall = {w1}
    NoClient = none
    Listener = {l1, l2}
    MaxEvents = 2
    MaxFaults = 2
    Value <- MCValue
    MaxTime = 3
    MaxLosses = 2
INVARIANTS ChunksExact InTimeIsDelivered BooksAgree
INVARIANTS Throughput ChallengesPerMinute RefusedOnlyWhenDue FanOutExact
INVARIANTS RetriesKept PollsOn OneReader NoConnectionLeak LatestShown
PROPERTY StopsListening
CHECK_DEADLOCK FALSE

SPECIFICATION Spec
CONSTANTS
    p = p
    q = q
    m = m
    Idle = Idle
    Peer = {p, q}
    Known = {p}
    Conn = {c1, c2}
    Call = {m}
    Env <- MCEnv
    Policed = {"Task_Request"}
    DefaultAllow = TRUE
    AutoAck = TRUE
    Window = 2
    AckTimeout = 1
    MaxArrivals = 3
    MaxChurn = 1
INVARIANT Acknowledged

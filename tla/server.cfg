SPECIFICATION ServerSpec
CONSTANTS
    URL = {u1, u2}
    BootTransport = {"slack-bot"}
    Malformed = Malformed
    NoURL = NoURL
    MaxAttempts = 2
    Caller = {"poller", "page"}
    Width = 1024
    MaxJiffies = 2
    MaxBytes = 2
    MaxClock = 2
    PID = {p1, p2}
    TopN = 1
    MaxRun = 2
    MaxTotal = 3
    MaxIdle = 1
    Request = {r1, r2}
    EC2Field = {"public_ip", "instance_type"}
    Peer = {1, 2}
    Client = {1}
    Manifest = {1}
    ServiceLimit = 1
    Retention = 2
    Ranges = {1, 2}
    MaxTime = 4
    OnlineThreshold = 1
    GapThreshold = 1
    EventsLimit = 1
    Quiet = {2}
    MaxCarried = 2
    MinRange = 1
    MaxRange = 1
INVARIANTS Accounted OneTarget BytesReportedOnce CPUShareEarned CreditEarned OneVerdict ConfigTruthful NobodyStranded HandshakesKept ViewsAgree SessionsFaithful RatesEarned ChartComplete

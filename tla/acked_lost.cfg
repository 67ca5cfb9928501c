SPECIFICATION MCSpec
CONSTANTS
    admin = admin
    bob = bob
    ka = ka
    kb = kb
    Name = {admin, bob}
    Key = {ka, kb}
    Network = 0
    Broadcast = 3
    ServerIP = 1
    Cloud = TRUE
    Faults = {"outage", "crash"}
    Seed <- AdminSeed
    MaxMutations = 3
    MaxEvents = 4
INVARIANTS AckedSurvives

SPECIFICATION MCFairSpec
CONSTANTS
    admin = admin
    bob = bob
    ka = ka
    kb = kb
    Name = {admin, bob}
    Key = {ka, kb}
    Network = 0
    Broadcast = 3
    ServerIP = 1
    Cloud = TRUE
    Faults = {"apply", "cancel", "db", "outage", "lost", "crash", "reboot", "rebuild"}
    Seed <- AdminSeed
    MaxMutations = 2
    MaxEvents = 3
INVARIANTS LiveMatchesTable
PROPERTIES WrittenOnlyAfterRead StoreHeals

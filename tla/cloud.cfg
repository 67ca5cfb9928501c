SPECIFICATION MCSpec
CONSTANTS
    admin = admin
    bob = bob
    ka = ka
    kb = kb
    Name = {admin, bob}
    Key = {ka, kb}
    Network = 0
    Broadcast = 3
    ServerIP = 1
    Cloud = TRUE
    Faults = {"apply", "crash", "rebuild"}
    Seed <- AdminSeed
    MaxMutations = 4
    MaxEvents = 2
INVARIANTS LiveMatchesTable AckedSurvives RevokedStaysOut
PROPERTIES BackupKeepsPeers

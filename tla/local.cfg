SPECIFICATION MCSpec
CONSTANTS
    admin = admin
    bob = bob
    ka = ka
    kb = kb
    Name = {admin, bob}
    Key = {ka, kb}
    Network = 0
    Broadcast = 3
    ServerIP = 1
    Cloud = FALSE
    Faults = {"apply", "cancel", "db", "crash", "reboot"}
    Seed <- AdminSeed
    MaxMutations = 4
    MaxEvents = 2
INVARIANTS TypeOK AddressSafety LiveMatchesTable AckedSurvives RevokedStaysOut DisabledStaysOut

SPECIFICATION Spec
CONSTANTS
    alice = alice
    None = None
    Client = {alice}
    KeyOrder <- Order
    Cooldown = 2
    Sustain = 2
    Cap = 1
    MaxBytes = 1
    RingCap = 2
    MaxGap = 1
    Reads = {"proc", "disk"}
    Changes = {"cpu", "disk"}
PROPERTIES RecoveryIsReal

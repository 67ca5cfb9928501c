SPECIFICATION DispatchFairSpec
CONSTANTS
    alice = alice
    None = None
    Client = {alice}
    KeyOrder <- Order
    Cooldown = 2
    Sustain = 1
    Cap = 1
    MaxBytes = 1
    RingCap = 0
    MaxGap = 1
    Reads = {}
    Changes = {"service", "cpu", "restart"}
    QueueCap = 2
    NotifierFails = TRUE
PROPERTIES LastingAlertTold

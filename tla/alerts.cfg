SPECIFICATION Spec
CONSTANTS
    alice = alice
    None = None
    Client = {alice}
    KeyOrder <- Order
    Cooldown = 2
    Sustain = 2
    Cap = 1
    MaxBytes = 2
    RingCap = 2
    MaxGap = 2
    Reads = {"systemd", "proc", "wg"}
    Changes = {"cpu", "disk", "traffic", "reset", "peers", "restart"}
INVARIANTS TypeOK LogAgrees TransferAlertEarned
PROPERTIES CPUSustained

SPECIFICATION Spec
CONSTANTS
    Name = {n1, n2, n3}
    Key = {k1, k2, k3}
    Network = 0
    Broadcast = 2
    ServerIP = 3
INVARIANTS TypeOK AllOrNothing InsertsFit OutcomeAgrees
PROPERTIES ReplacesAtomically

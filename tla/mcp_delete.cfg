SPECIFICATION Spec
SYMMETRY Symmetry
CONSTANTS
    Name = {alice, bob}
    Key = {k1, k2}
    Token = {t1, t2}
    Call = {c1, c2}
    TTL = 1
    MaxTime = 2
    None = None
INVARIANTS ConsentedRemoval OneRemovalPerPreview ShownPeerRemoved LatestPreviewWins

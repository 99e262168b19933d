\* Two concurrent writers publish an entry that never loads.
CONSTANTS
    p1 = p1
    p2 = p2
    Proc = {p1, p2}
    NoDir = NoDir
    NumItems = 2
    MaxBuilds = 2
    MaxDamage = 0
SPECIFICATION Spec
INVARIANT RacingWritersPublishWhole

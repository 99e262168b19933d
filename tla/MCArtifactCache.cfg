\* Two processes use one key at once; crashes anywhere and one damaged file.
CONSTANTS
    p1 = p1
    p2 = p2
    Proc = {p1, p2}
    NoDir = NoDir
    NumItems = 2
    MaxBuilds = 3
    MaxDamage = 1
SPECIFICATION Spec
INVARIANTS PublishedEntryLoads StoreNeverFails HitIsOneBuild
PROPERTY FirstWriterWins

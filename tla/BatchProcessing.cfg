SPECIFICATION FairSpec
INVARIANT ProcessesAllOnce
PROPERTY Ends
CONSTANTS
    Rows = {r1, r2, r3, r4}
    BatchSizes = {1, 2, 3}
    Uses <- SoundUses

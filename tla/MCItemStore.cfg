\* Seven pool slots for at most four items of two slots each: the fourth
\* item_make gets a struct slot but no buffer when three items are alive,
\* and the searches wrap below current after frees.
CONSTANTS
    FS_MAX_NUM = 7
    MaxMake = 4
    Q1 = Q1
    Q2 = Q2
    MoveFromEmpty = FALSE
SPECIFICATION Spec
INVARIANTS
    TypeOK
    FlagsMatchLive
PROPERTIES
    FifoSpec

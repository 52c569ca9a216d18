\* An int of 5 bits and a long of 9; base 3, so that a product may not be an int.
CONSTANTS
    baseSleepTimeMs = 3
    maxSleepTimeMs = 14
    maxElapsedTimeMs = 40
    Shift = 3
    IntMax = 15
    LongMax = 255
    Work = 2
SPECIFICATION FairSpec
INVARIANTS
    TypeOK
    SleepBounded
PROPERTIES
    SleepsBeforeDeadline
    RetriesEnd

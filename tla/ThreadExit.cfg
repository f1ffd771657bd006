CONSTANTS
    Threads = {t1}
    Blocks = {b1, b2}
    Sizes = {3, 9}
    SizeBits = 6
    MayDropCleaner = TRUE
    ALIGNMENT = 2
    kSmallLinearLimit = 4
    kStepShift = 1
    kSmallSizeThreshold = 4
    MAX_TC_SIZE = 8
    kMaxBatchSize = 4
    PAGE_SIZE = 16
    MAX_PAGE_NUM = 4
    BITMAP_BITS = 8
SPECIFICATION Spec
INVARIANT ExitDrains
CHECK_DEADLOCK FALSE

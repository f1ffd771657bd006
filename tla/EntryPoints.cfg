\* size_t of six bits, pages of 16 bytes and classes 2, 4, 6, 8: 9 is the
\* first large request, 48 the last one that can be rounded up, 49 wraps to 0.
CONSTANTS
    Threads = {t1, t2}
    Blocks = {b1, b2, b3}
    Sizes = {3, 5, 9, 48, 49}
    SizeBits = 6
    MayDropCleaner = TRUE
    ALIGNMENT = 2
    kSmallLinearLimit = 4
    kStepShift = 1
    kSmallSizeThreshold = 4
    MAX_TC_SIZE = 8
    kMaxBatchSize = 4
    PAGE_SIZE = 16
    MAX_PAGE_NUM = 4
    BITMAP_BITS = 8
SYMMETRY Symmetry
SPECIFICATION Spec
INVARIANTS ServedInFull CleanerDrains StartedOnce
CHECK_DEADLOCK FALSE

\* Small enough for liveness; no symmetry.
CONSTANTS
    Threads = {t1, t2}
    NoThread = NoThread
    NumSpans = 2
    Capacity = 1
    WordBits = 1
    kMaxBatchSize = 1
    TransferCap = 1
SPECIFICATION LiveSpec
PROPERTY CallsReturn

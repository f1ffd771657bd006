CONSTANTS
    Threads = {t1, t2}
    NoThread = NoThread
    NumSpans = 2
    Capacity = 2
    WordBits = 1
    kMaxBatchSize = 2
    TransferCap = 2
SYMMETRY Symmetry
SPECIFICATION Spec
INVARIANTS ObjectsConserved SpansConserved ListOrdered

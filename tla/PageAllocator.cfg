\* Huge pages of two pages: an over-allocation needs four or all of the five.
CONSTANTS
    Threads = {t1, t2}
    NumPages = 5
    HugePages = 2
    HugeThreshold = 2
    ReqPages = {1, 2, 3}
    kMaxRetries = 2
    kCapacity = 1
    MaxRefused = 2
SPECIFICATION LiveSpec
INVARIANTS PagesAccounted ZeroFilled
PROPERTY CallsEnd

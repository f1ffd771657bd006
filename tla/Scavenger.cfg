\* Two pages, so that a detached span and a released one are neighbours; a
\* span is idle after one tick and a pass follows after one.
CONSTANTS
    NumPages = 2
    MaxPageNum = 2
    ReqSizes = {1, 2}
    NumDescriptors = 2
    MaxTime = 2
    kScavengeInterval = 1
    kIdleThreshold = 1
    TimeMod = 16
SPECIFICATION LiveSpec
INVARIANTS OneOwner HonestCommitted QuiescentWhenStopped
PROPERTIES ClientDataKept DetachedComeBack StopReturns

CONSTANTS
    NumPages = 6
    MaxPageNum = 3
    ReqSizes = {1, 2, 3, 4}
    NumDescriptors = 4
    MaxTime = 0
SPECIFICATION Spec
INVARIANTS MapExact BucketsExact NoPageLost
PROPERTY HandsOutRanges

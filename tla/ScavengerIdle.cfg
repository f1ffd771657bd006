CONSTANTS
    NumPages = 2
    MaxPageNum = 1
    ReqSizes = {1}
    NumDescriptors = 2
    MaxTime = 3
    kScavengeInterval = 1
    kIdleThreshold = 2
    TimeMod = 16
SPECIFICATION ScavSpec
PROPERTIES IdleBeforeReclaim

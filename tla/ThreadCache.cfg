CONSTANTS
    user = user
    controller = controller
    Threads = {user, controller}
    NumClasses = 2
    ClassSize <- MCClassSize
    Batch <- MCBatch
    kMaxQuotaBatches = 3
    kMaxOverages = 2
    GivenBudget = 9
    TrimTarget = 4
    OwnerTargets = {0, 3}
    MaxEpoch = 2
SPECIFICATION MCSpec
INVARIANTS QuotaAccounting OccupancyBound TrimMeetsTarget NewestHonoured

SPECIFICATION FairSpec
CONSTANTS
    Ids = {m1, m2}
    ReplyCacheSize = 1
    ReplyCacheTTL = 2
    Burst = 2
    Rate = 1
    BucketIdle = 2
    Categories = {food, history}
    FreeCategories = {food}
    Sold = {history, monthly}
    PremiumMonthly = monthly
    PremiumLifetime = lifetime
    Period = 1
    None = None
    SessionTTL = 3
    UnusedSessionTTL = 2
    EmptyRoomTTL = 2
    RewardedCooldown = 2
    Requests = {q1, q2}
    Habits = {"commands", "room", "purchases", "rewards"}
INVARIANTS CacheKnowsWhatRan SweepGrantsNothing SyncTakesEffect RewardOpensOneMatch
PROPERTY IdleGoes
CHECK_DEADLOCK FALSE

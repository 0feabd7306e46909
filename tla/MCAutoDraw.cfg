SPECIFICATION FairSpec
CONSTANTS
    Day = 3
    Hour = 1
    UTCShift = 1
    Entries = {"d", "k", "c", "b"}
    Task <- MCTask
    Kind <- MCKind
    StartAt <- MCStart
    EndAt <- MCEnd
    RetentionDays = 1
    Horizon = 4
    MaxTick = 1
    MaxEvents = 1
INVARIANTS
    PlanInv
    OneKeyPerPlan
    CompletedTasksWereDone
    OneClaimPlanADay
PROPERTIES
    FinishedStaysFinished
    DuePlansSettle

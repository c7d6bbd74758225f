SPECIFICATION FairSpec
CONSTANTS
    Updateables = {u1, u2}
    NoUpdateable = NoUpdateable
    Modulus = 5
    Periods <- MCLivePeriods
    InitialTicks <- MCOneTick
    MinWait = 1
    MaxIdle = 1
    MaxBusy = 1
    MaxAge = 4
    RestartInCallback = FALSE
INVARIANTS ScheduleConsistent FrontAssertions NeverLate
PROPERTIES NoUpdateAfterStop ImplementsTimers EventuallyCalled

SPECIFICATION Spec
CONSTANTS
    Updateables = {u1, u2}
    NoUpdateable = NoUpdateable
    Modulus = 8
    Periods <- MCLivePeriods
    InitialTicks <- MCLowTicks
    MinWait = 2
    MaxIdle = 2
    MaxBusy = 1
    MaxAge = 9
    RestartInCallback = TRUE
SYMMETRY Symmetry
PROPERTIES NoUpdateAfterStop

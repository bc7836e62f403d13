SPECIFICATION Spec
CONSTANTS
    Entities = {e1}
    Features = {f1, f2}
    Seconds = {1}
    Default = 2
    HasRegistry = TRUE
    Lags <- MCLags
    Interval = 0
    CycleTime = 1
    Absent = Absent
    MaxTime = 4
    MaxWrites = 2
    MaxUpsets = 1
SYMMETRY Symmetry
INVARIANT TypeOK
INVARIANT ReportedInTime
PROPERTY CountsExplained
PROPERTY NoFalseAlarm
 
CHECK_DEADLOCK FALSE

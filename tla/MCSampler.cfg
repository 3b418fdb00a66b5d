SPECIFICATION Spec
CHECK_DEADLOCK FALSE
SYMMETRY Symmetry
CONSTANTS
    Threads = {t1, t2}
    BaseTypes = {"probability", "adaptive"}
    BaseRate = 1
    OverrideRate = 2
    Asked = {"base", "override"}
    Full = 3
    StartRate = 1
    TargetTps = 1
    WindowSec = 2
    MaxCalls = 2
    MaxSec = 3
INVARIANTS
    TypeOK
    CountersAgree
    OneAdjustmentPerSecond
PROPERTIES
    RateFollowsWindow

CONSTANTS
    None = none
    ParamMod = 4
    Tasks = {t1, t2}
    Statuses <- AllStatuses
    Unsolicited = TRUE
    Removable = TRUE
SPECIFICATION Spec
PROPERTIES
    UnitCheckIsError
CHECK_DEADLOCK FALSE

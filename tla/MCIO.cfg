\* Two tasks that submit, every status, unsolicited interruptions and a lost device;
\* the operation identifiers wrap around.
CONSTANTS
    None = none
    ParamMod = 4
    Tasks = {t1, t2}
    Statuses <- AllStatuses
    Unsolicited = TRUE
    Removable = TRUE
SPECIFICATION FairSpec
INVARIANTS
    OneHome
    InterruptsMatch
PROPERTIES
    CompletionIsOwn
    ImplementsOpQueue
    SubmitterReturns
\* A processor that hangs ends the behaviour.
CHECK_DEADLOCK FALSE

SPECIFICATION Spec
CONSTANTS
    PAGE = 16
    NPX = 2
    NSX = 2
    NFrames = 20
    Users <- MCUsers
    Directory <- MCDirectory
    RealDevs = {8, 9}
    MaxDev = 9
    RecMax = 6
    MaxCcws = 4
    Regs = {13, 14}
    Images <- MCImages
    Logons <- MCLogons
    StoreOps <- MCStoreOps
    DisplayOps <- MCDisplayOps
    PswOps <- MCPswOps
    Programs <- MCPrograms
    MaxOps = 2
    IplOps = {"tiny", "long", "bad"}
    RegOps <- MCRegOps
INVARIANTS
    PagesPrivate
    LoadedSystemIntact
    StorageIsOwn
    DisplayAgreesWithStore
    RecordsAreGuestData
    ResidualIsExact
    DevicesDistinct
PROPERTIES
    Isolation
CHECK_DEADLOCK FALSE

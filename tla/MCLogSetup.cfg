SPECIFICATION MCSpec
CONSTANTS
    Caller = {c1, c2}
    Spurious = FALSE
    Shutdowns = 1
    MaxMail = 3
    Null = null
    Asked = {0, 2, 3}
    Level = {300, 600}
    Trigger = 300
    SinkThreshold = {800}
    MaxEvent = 7
    Fd = {0, 3, 4}
    RecordPriority = {0, 300, 800}
    Facility <- MCFacilities
    MaxPacket = 7
    MaxRecord = 9
    Message = {m1, m2}
    MaxDepth = 2
    AppName = {"A", "B", "D"}
    CatName = {"root", "sub"}
    Root = "root"
    File <- MCFiles
    MaxConfig = 3
    Setting = {0, 1, 3}
    Default = 2
    ShortModulus = 4
    ArgCount = {2, 3}
CHECK_DEADLOCK FALSE
INVARIANTS  RecordsWhole SettingsRead Configured MainTells
PROPERTIES MailEnds BufferTells

SPECIFICATION MCSpec
CONSTANTS
    Thread = {t1}
    Serial = TRUE
    Fd = {3, 4}
    Inode = {i1, i2, i3, i4, i5}
    Absent = absent
    NoFd = none
    Sizes = {2}
    Backups = {1, 2}
    Raises = TRUE
    Appends = {TRUE}
    Base = 10
    MaxRecord = 7
    MaxSlack = 2
    DayLength = 2
    MaxDays = 1
    Modulus = 1000
    MaxClock = 7
    MaxPause = 1
    DailyRecords = 3
    DailyCrashes = 1
CHECK_DEADLOCK FALSE
 
PROPERTIES OldGoFirst 

SPECIFICATION Spec
CONSTANTS
    t1 = t1  t2 = t2  adm = adm adm2 = adm2  a1 = a1  a2 = a2
    Logger = {t1, t2}
    Admin = {adm}
    Nobody = none
    Category = {"", "shop"}
    Root = ""
    Parent <- MCParent2
    Appender = {a1, a2}
    NoAppender = NULL
    NULL = NULL none = none
    NameOf <- MCNames
    Threshold <- MCThreshold
    Level = {600}
    Given = {300, 800}
    Fixed = {600, 800}
    OwnedOnce = TRUE
INVARIANTS SnapshotDelivered  NoDeadlock
SYMMETRY Sym

SPECIFICATION MCSpec
CONSTANTS
    PoolSize = 80
    PageSize = 4096
    PoolHeader = 56
    DataHeader = 32
    NodeSize = 16
    Align = 8
    SizeModulus = 65536
    Size = {3, 20}
    Object = {o1, o2, o3}
    NoObject = null
    MaxBlocks = 2
SYMMETRY Symmetry
INVARIANTS
    Separate
    LargeOwned
    LongSearchIsShort

SPECIFICATION FairSpec
CONSTANTS
    Fd = {4, 5}
    Listen = 3
    MaxInbox = 2
    MaxBacklog = 2
PROPERTIES
    ClientsHeard

SPECIFICATION FairSpec

CONSTANTS
    Port = {0, 8787, 9000, 65536}
    DefaultPort = 8787
    MaxShots = 2
    MaxNested = 2

INVARIANTS
    TypeOK
    

PROPERTY SetupCompletes

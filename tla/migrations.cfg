\* Three servers over one database, of either kind; two failures or crashes.
SPECIFICATION FairMigrations
CONSTANTS
    x = x  y = y  z = z
    Server = {x, y, z}
    Migrations <- MCMigrations
    MaxFaults = 2
INVARIANTS
    BoardRunsOnce
PROPERTIES
    AllComeUp
CHECK_DEADLOCK FALSE

SPECIFICATION SeedSpec
CONSTANTS
    Production = FALSE
    MaxCommands = 2
    MaxFaults = 1
CHECK_DEADLOCK FALSE
INVARIANTS
    SeedTypeOK
    SeededSound
PROPERTIES
    CascadesHitEmptyTables

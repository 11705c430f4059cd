\* Two releases' migrations, two failures or kills, a GitHub whose clock is
\* off by a minute and whose tokens live for three.
SPECIFICATION Spec
CONSTANTS
    r1 = r1
    r2 = r2
    Files = {1, 2, 3}
    Configured = {r1, r2}
    MaxFaults = 2
    Drifts <- OffByOne
    MaxDelay = 1
    TokenLife = 3
    MaxClock = 4
INVARIANTS
    TypeOK
    MigrationsAtomic
    ServesMigrated
    CredentialsAccepted
    CleanExit
PROPERTIES
    ServerEnds

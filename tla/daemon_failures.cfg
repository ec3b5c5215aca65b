\* Installation, minting and the CLI may fail, and the daemon may die.
SPECIFICATION FairSpec
CONSTANTS
    None = None
    u1 = u1  u2 = u2  c1 = c1  c2 = c2  c3 = c3  k1 = k1
    Users = {u1}
    Slots = {c1, c2}
    PollSlots = {k1}
    MaxInstalls = 1
    MaxBegun = 1
    CliMayFail = TRUE
    Hasty = FALSE
    AutoStart = TRUE
INVARIANTS SetupFailedMeansNoCli
PROPERTIES ShowsRunning PendingRestartIsTried

\* Users follow one another on one machine, by code and by link.
SPECIFICATION Spec
CONSTANTS
    u1 = u1
    u2 = u2
    w1 = w1
    w2 = w2
    t1 = t1
    t2 = t2
    t3 = t3
    None = None
    Users = {u1, u2}
    Workspaces = {w1, w2}
    Tokens = {t1, t2, t3}
    Members <- Belongs
    MaxRequests = 2
    Races = {}
SYMMETRY TokensAlike
INVARIANTS NoEndlessSplash SessionIsWhole CacheIsPrivate DraftsArePrivate HearsTheWorkspace

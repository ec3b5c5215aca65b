\* Two workspaces, three tabs, one pushed entry.
SPECIFICATION Spec
CONSTANTS
    None = None
    sA = sA  sB = sB  issues = issues inbox = inbox  t1 = t1  t2 = t2  t3 = t3 t4 = t4
    Slugs = {sA, sB}
    Pages = {issues}
    Home = issues
    Ids = {t1, t2, t3}
    MaxBehind = 1
    ForeignLinks = FALSE
SYMMETRY Symmetry
INVARIANTS GroupsAreSound 
PROPERTIES TabsAreKept

\* Two issues, a comment and a reply, and two changes, by this client or others.
SPECIFICATION Spec
CONSTANTS
    None = None  Gone = Gone
    i1 = i1  i2 = i2  c1 = c1  c2 = c2  m1 = m1  m2 = m2
    Issues = {i1, i2}
    Born = {i1}
    Focus = i1
    PAGINATED_STATUSES <- Columns
    Comments = {c1, c2}
    Reply = c2
    ReplyTo = c1
    Pages = {"list", "issue"}
    Slots = {m1, m2}
    MaxChanges = 2
    MaxDrops = 1
    Races = {}
SYMMETRY Symmetry
INVARIANTS  NoDuplicates
CHECK_DEADLOCK FALSE

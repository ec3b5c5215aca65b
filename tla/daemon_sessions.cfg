\* Sessions that change when nothing is in flight.
SPECIFICATION Spec
CONSTANTS
    None = None
    u1 = u1  u2 = u2  c1 = c1  c2 = c2  c3 = c3  k1 = k1
    Users = {u1, u2}
    Slots = {c1, c2, c3}
    PollSlots = {k1}
    MaxInstalls = 1
    MaxBegun = 1
    CliMayFail = FALSE
    Hasty = FALSE
    AutoStart = TRUE
SYMMETRY Symmetry
INVARIANTS GuardHasItsHolder  SidecarVouches

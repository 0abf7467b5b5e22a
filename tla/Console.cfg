SPECIFICATION Spec
CONSTANTS
    Users = {u1, u2, u3}
    Sessions = {s1, s2, s3}
    Zones = {z1, z2}
    RecordIds = {d1, d2}
    StreamIds = {t1, t2}
    Listeners = {l1, l2}
    Requests = {r1, r2}
    None = None
    Gone = Gone
    MaxWork = 4
    MaxEvents = 1
SYMMETRY Symmetry
CHECK_DEADLOCK FALSE
INVARIANTS OwnerRemains SessionsMatchPassword ConfigurationValid BundleRestores

SPECIFICATION Spec
CONSTANTS
    u1 = u1
    r1 = r1
    q1 = q1
    q2 = q2
    None = None
    Users = {u1}
    Logins = {r1}
    AccessTTL = 2
    RefreshTTL = 3
    LoginTime = 1
    Changes = {q1, q2}
    Horizon = 6
    Inactive = {"SUSPENDED"}
SYMMETRY Symmetry
INVARIANTS
    OnlyLateLoginsRemain
PROPERTIES
    RejectedStaysRejected
CHECK_DEADLOCK FALSE

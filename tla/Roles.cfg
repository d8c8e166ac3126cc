SPECIFICATION Spec
CONSTANTS
    t2 = t2
    x2 = x2
    Tenant = {t1, t2}
    RoleId = {x1, x2}
    User = {u1}
    Name = {"member"}
    Perm = {"roles:create", "roles:read", "roles:update", "users:create", "users:read"}
    Existing <- MCExisting
    Caller = {t1, u1}
    Offered = {"roles:update", "users:read"}
    Slot = {k1, k2}
    Request = {r1, r2}
    None = None
    TokenTTL = 1
    CacheTTL = 1
    Prefix = {{}}
    Faults = TRUE
INVARIANTS
    IInv
    PrincipalsWithinRoles
    ReadsStayInTenant
PROPERTIES
    ActsAreAllowed
    GrantsArrive
SYMMETRY Symmetry

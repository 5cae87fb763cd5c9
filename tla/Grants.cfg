\* Two calls, one username with two rows in its life, of the two roles one with two rows.
SPECIFICATION Spec
CHECK_DEADLOCK FALSE
CONSTANTS
    Admin = {p, q}
    RoleName = {"reader", "writer"}
    Key = {"tenant", "team"}
    Value = {"a"}
    Patches <- MCPatches
    Lists <- MCLists
    None = None
    MaxUser = 2
    MaxRole <- MCMaxRole
    MaxCalls = 2
INVARIANTS TypeOK RowsExist
PROPERTIES ReplacementsHold GrantsHeld AuditTellsKeys
SYMMETRY MCSymmetry

\* One handler is enough.
SPECIFICATION Spec
CONSTANTS
    Handler = {h1}
    MaxVersion = 4
    Requests <- MCRequests
    Columns <- MCColumns
    Unbound = Unbound
    Scalar = Scalar
    User = "user"
    AdminRole = "admin"
    NoRequest = NoRequest
    Unlocked = Unlocked
    NotRead = NotRead
    NoKey = NoKey
INVARIANTS MarkedFieldsExist
CHECK_DEADLOCK FALSE

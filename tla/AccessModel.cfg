\* Two handlers and room for five writes: fields, an attribute key and a role
\* that needs both take three, which leaves two to race over the result.
\* Once the room is used up no request arrives, so the system stops.
SPECIFICATION Spec
CONSTANTS
    Handler = {h1, h2}
    MaxVersion = 6
    Requests <- MCRequests
    Columns <- MCColumns
    Unbound = Unbound
    Scalar = Scalar
    User = "user"
    AdminRole = "admin"
    NoRequest = NoRequest
    Unlocked = Unlocked
    NotRead = NotRead
    NoKey = NoKey
INVARIANTS TypeOK StoredModelCompiles VersionTellsModel
PROPERTIES ImplementsSerial AdminRoleKept
CHECK_DEADLOCK FALSE

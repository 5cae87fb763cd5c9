\* Three handlers, so that one can starve while two contend; requests that wait for
\* the row lock and, with two keys each, for one another in a cycle.
SPECIFICATION FairSpec
CONSTANTS
    Handler = {h1, h2, h3}
    MaxVersion = 4
    Requests <- MCContenders
    Columns <- MCColumns
    Unbound = Unbound
    Scalar = Scalar
    User = "user"
    AdminRole = "admin"
    NoRequest = NoRequest
    Unlocked = Unlocked
    NotRead = NotRead
    NoKey = NoKey
PROPERTIES EveryRequestAnswered
CHECK_DEADLOCK FALSE

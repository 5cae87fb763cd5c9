\* Two handlers over one username, created twice, and three requests: two that
\* overlap and one before or after them.  Two tokens, so that a change can spare
\* one session and end another.  When no request is left the system stops.
SPECIFICATION Spec
CONSTANTS
    Handler = {h1, h2}
    Password = {p1, p2}
    Token = {t1, t2}
    Calls <- MCCalls
    MaxAccounts = 2
    MaxCalls = 3
    NoPassword = NoPassword
    NoToken = NoToken
    NoCall = NoCall
    Unlocked = Unlocked
SYMMETRY Symmetry
INVARIANTS TypeOK SessionsOwned AdmittedInForce
PROPERTIES ProvedInForce PasswordEndsSessions
CHECK_DEADLOCK FALSE

\* A change and a reset that overlap are enough.
SPECIFICATION Spec
CONSTANTS
    Handler = {h1, h2}
    Password = {p1, p2}
    Token = {t1}
    Calls <- MCCalls
    MaxAccounts = 1
    MaxCalls = 3
    NoPassword = NoPassword
    NoToken = NoToken
    NoCall = NoCall
    Unlocked = Unlocked
PROPERTIES CurrentPasswordKnown
CHECK_DEADLOCK FALSE

\* Two processes that start at once, or one of which starts again after it was
\* killed; two files; the environment variable set or not; two requests at a time,
\* two sessions. When no start is left the system stops.
SPECIFICATION FairSpec
CONSTANTS
    Replica = {r1, r2}
    Handler = {h1, h2}
    EnvHash = {e1}
    Chosen = {c1}
    Migrations = 2
    Connections = 2
    MaxBoots = 2
    MaxLogins = 2
    NoHash = NoHash
    Nobody = Nobody
INVARIANTS TypeOK MigrationsInOrder OnePassword ShownOnce FirstLoginOnce
PROPERTIES ChosenSurvives BootsEnd
CHECK_DEADLOCK FALSE

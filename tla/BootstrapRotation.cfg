\* One login between two boots with different values is enough.
SPECIFICATION Spec
CONSTANTS
    Replica = {r1, r2}
    Handler = {h1}
    EnvHash = {e1, e2}
    Chosen = {c1}
    Migrations = 2
    Connections = 2
    MaxBoots = 2
    MaxLogins = 1
    NoHash = NoHash
    Nobody = Nobody
PROPERTIES RotationRevokes
CHECK_DEADLOCK FALSE

SPECIFICATION Spec
CONSTANTS
    Addr = {a, b}
    Admins = {a}
    NotSet = NotSet
    Uris = {u}
    BadUri = BadUri
    Permissions = {"transfer"}
    Ttls = {0, 1}
    MaxAgents = 2
    MaxTime = 2
INVARIANTS TypeOK IndexMirrorsAgents CountIsLive
PROPERTIES AuthorityIsGranted
CHECK_DEADLOCK FALSE

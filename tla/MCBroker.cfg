SPECIFICATION MCSpec
CONSTANTS
    Leases = {l1}
    Accounts = {a1, a2, a3}
    Roles = {test, production}
    NoRole = NoRole
    NoAccount = NoAccount
INVARIANTS
    OneAccountPerLease
    LiveAccountsAreRecorded
    RevokedKeysAreRejected
    KeysStayInProject
PROPERTIES
    StoredAccountsAreCleanedUp

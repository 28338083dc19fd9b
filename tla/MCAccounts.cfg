SPECIFICATION AccountsSpec
CONSTANTS
    Requests = {r1, r2}
    ann = ann
    p1 = p1
    cn = cn
    Registrations <- MCRegistrations
    Updates <- MCUpdates
    Usernames = {}
    Emails = {ann}
    Phones = {p1}
    Countries = {cn}
    Passwords = {strong}
    WeakPasswords = {}
    Ips = {a1}
    None = None
    SeedUsers <- MCSeedUsers
    MaxLoginAttempts = 1
    MaxArrivals = 3
    MaxCodes = 1
    MaxFaults = 1
CHECK_DEADLOCK FALSE
SYMMETRY RequestSymmetry
INVARIANTS
    AccountsTypeOK
    FailuresBounded
    EffectsSpendCodes
PROPERTIES
    OnlyResetsSetPasswords

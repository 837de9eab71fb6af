SPECIFICATION AFairSpec
CONSTANTS
    r1 = r1
    r2 = r2
    c1 = c1
    c2 = c2
    Relays = {r1, r2}
    Communities = {c1, c2}
    Capacity = 1
    MaxEntries = 2
    MaxFaults = 2
INVARIANTS
    AuditTypeOK
    VerifyAccepts
    HeadIsCurrent
    LoggedOnce
    OrderKept
    NeverSilentlyDropped
PROPERTY
    EntriesSettle

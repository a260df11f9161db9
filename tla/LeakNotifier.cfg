SPECIFICATION FairSpec
CONSTANTS
    Devices = {d1}
    Kinds = {k1, k2}
    Checks = {c1, c2}
    Monitors = {m1}
    Window = 2
    Recheck = 2
    MaxRestarts = 1
INVARIANTS MailsPerWindow ClaimsAreTried
PROPERTIES LeakIsReported

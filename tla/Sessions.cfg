CONSTANTS
    phone = phone
    laptop = laptop
    alice = alice
    r1 = r1
    r2 = r2
    r3 = r3
    Browsers = {phone, laptop}
    Users = {alice}
    Requests = {r1, r2}
    TtlDays = 2
    MaxDay = 2
    MaxSessions = 2

SPECIFICATION Spec
SYMMETRY Symmetry
INVARIANTS TypeOK CookieDiesFirst
PROPERTY LeavesOthersAlone

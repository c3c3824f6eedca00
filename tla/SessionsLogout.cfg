CONSTANTS
    phone = phone
    laptop = laptop
    alice = alice
    r1 = r1
    r2 = r2
    r3 = r3
    Browsers = {phone}
    Users = {alice}
    Requests = {r1, r2}
    TtlDays = 3
    MaxDay = 1
    MaxSessions = 1

SPECIFICATION Spec
INVARIANT LogoutIsFinal

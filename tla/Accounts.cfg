CONSTANTS
    phone = phone
    laptop = laptop
    r1 = r1
    r2 = r2
    r3 = r3
    anna = anna
    anna2 = anna2
    bea = bea
    nobody = nobody
    Browsers = {phone, laptop}
    Requests = {r1, r2}
    Identities <- MCIdentities
    Seed <- MCSeed
    NoSub = nobody
    MaxTrips = 2
    MaxUsers = 3

SPECIFICATION Spec
SYMMETRY Symmetry
INVARIANTS TypeOK OneAccountEach OwnAccount
PROPERTIES AdoptionIsVouchedFor ClosedStaysClosed

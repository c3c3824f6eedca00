CONSTANTS
    tab1 = tab1
    tab2 = tab2
    Tabs = {tab1, tab2}
    MaxSignIns = 2
    MaxVisits = 2

SPECIFICATION FairSpec
INVARIANTS TypeOK LiesAreShort
PROPERTIES OnlyUsersLeave TabsComeToRest

CHECK_DEADLOCK FALSE

CONSTANTS
    tab = tab
    window = window
    js1 = js1
    js2 = js2
    Windows = {tab, window}
    Assets = {js1, js2}
    Uses <- MCUses
    Generation <- MCGeneration

SPECIFICATION Spec
SYMMETRY Symmetry
INVARIANTS TypeOK FreshPagesAreSound OpenedOpensOffline
PROPERTY CachesOutlivePages

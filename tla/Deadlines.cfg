CONSTANTS
    URGENT_DAYS = 1
    UPCOMING_DAYS = 3
    Days <- MCDays
    Offset <- MCOffset
    Garages <- MCGarages

SPECIFICATION Spec
INVARIANTS DaysAreCalendarDays NoneLost DashboardAgrees NextIsMostUrgent
PROPERTY StatusOnlyAdvances

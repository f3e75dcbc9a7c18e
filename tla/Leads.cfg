SPECIFICATION Spec
CONSTANTS
    Requests = {1, 2, 3}
    CrmAccounts = {1, 2}
    Calendars = {1, 2}
    Plans <- FourPlans
    MaxFaults = 2
INVARIANTS ConnectionUsable CalendarAgrees Announced
CHECK_DEADLOCK FALSE

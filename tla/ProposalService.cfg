\* The proposal as the service makes it: two queries, separate objects.
SPECIFICATION Spec
CONSTANTS
    Teams = {t1, t2}
    NSlots = 4
    Slots <- NumberedSlots
    Stored = {101}
    Day <- NumberedDay
    Orders <- AllOrders
    MaxWishes = 2
    NoTeam = NoTeam
INVARIANTS OnceADay LeftIsBlocked LeftForWishes
PROPERTIES OverQuotaForced
CHECK_DEADLOCK FALSE

\* Two teams and the two slots of one day, with wishes, as the service loads them.
SPECIFICATION Spec
CONSTANTS
    Teams = {t1, t2}
    NSlots = 2
    Slots <- NumberedSlots
    Stored = {}
    Day <- NumberedDay
    Orders <- AllOrders
    MaxWishes = 1
    NoTeam = NoTeam
INVARIANTS NoneLeft
CHECK_DEADLOCK FALSE

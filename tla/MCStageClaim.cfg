SPECIFICATION Spec
CONSTANTS
    None  = None
    Bad   = Bad
    small = small
    roomy = roomy
    Property   = {roomy}
    Capacity  <- MCCapacity
    Day        = {1, 2}
    GuestCount = {2}
    Contact    = {c1}
    BookingId  = {b1}
    Today     <- MCToday
    Unread     = Unread
    Told       = {}
PROPERTY ConfirmedByTheGuest

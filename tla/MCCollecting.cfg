SPECIFICATION Spec
CONSTANTS
    None  = None
    Bad   = Bad
    small = small
    roomy = roomy
    Property   = {small, roomy}
    Capacity  <- MCCapacity
    Day        = {1, 2}
    GuestCount = {1, 2}
    Contact    = {c1}
    BookingId  = {b1}
    Today     <- MCToday
    Unread     = Unread
    Told      <- PlainMessages
CONSTRAINT OneBookingCollected
INVARIANTS TypeOK DraftOK ReviewReady AmendmentCanComplete DetailsAsSaid
PROPERTY ValidDetailsSurvive

SPECIFICATION Spec
CONSTANTS
    None  = None
    Bad   = Bad
    small = small
    roomy = roomy
    Property   = {roomy}
    Capacity  <- MCCapacity
    Day        = {1, 2}
    GuestCount = {1, 2}
    Contact    = {c1}
    BookingId  = {b1, b2}
    Today     <- MCToday
    Unread     = Unread
    Told       = {}
SYMMETRY IdSymmetry
CONSTRAINT OneBookingCollected
INVARIANT AmendmentCoherent
PROPERTIES WritesAreConfirmed ReceiptFollowsRow CancellationPreservesFlow ImplementsLedger

SPECIFICATION Spec
CONSTANTS
    None = None
    b1 = b1
    BookingId = {b1}
    Latest = b1
    Reply <- MCReply
    Bare <- MCBare
PROPERTY RefusalKeepsBooking

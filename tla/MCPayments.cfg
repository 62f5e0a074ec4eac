SPECIFICATION Spec
CONSTANTS
    None = None
    one = one
    two = two
    Call = {one, two}
    MaxRetries = 2
    MaxFaults = 2
INVARIANTS TypeOK StraysBounded ToldIsStored RefundedNotConfirmed
PROPERTIES CancelledStays PaymentConfirms
CHECK_DEADLOCK FALSE

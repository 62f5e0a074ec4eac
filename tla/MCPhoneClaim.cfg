SPECIFICATION Spec
CONSTANTS
    Today    <- MCToday
    Unread    = Unread
    Told     <- MCTold
    MaxGuests = 2
PROPERTY InvalidCheckOutKeepsDetails
CHECK_DEADLOCK FALSE

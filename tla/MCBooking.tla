------------------------------- MODULE MCBooking ------------------------------
(* Instances of BookingFlow for TLC: a small and a roomy property.           *)
EXTENDS BookingReading, PlainTexts

CONSTANTS small, roomy

MCCapacity == [p \in Property |-> IF p = small THEN 1 ELSE 2]

IdSymmetry == Permutations(BookingId)

\* Bound on the exploration: once a booking is registered, states in which the
\* details of another one are being collected are checked and not left.
OneBookingCollected ==
    issued # {} => soft.booking_stage \in {"none", "confirmed", "awaiting_confirmation"}
                                          \cup AmendmentStage
=============================================================================

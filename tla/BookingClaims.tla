----------------------------- MODULE BookingClaims ----------------------------
(***************************************************************************)
(* What the repository says of the booking workflow and the code does not  *)
(* do.  Each formula is checked by a run of its own that finds a violating *)
(* conversation.                                                           *)
(***************************************************************************)
EXTENDS BookingFlow

\* "guests must be validated against the selected property's capacity before
\* confirmation" (specs/booking_workflow.md:77).  The results on display were
\* formatted without occupancy_max, and without it validation.py:66 skips the check.
RegisteredGuestsFit ==
    \A id \in BookingId :
        rows[id] # None /\ rows[id].property_title # None =>
            rows[id].guests <= Capacity[rows[id].property_title]

\* "check_out must be after check_in" (specs/booking_workflow.md:76).  An amendment
\* revised at its confirmation writes the columns of the last fields only
\* (amendment.py:140), beside a column that still holds the value before the first.
StoredStayIsOrdered ==
    \A id \in BookingId : rows[id] # None => Ordered(rows[id])

\* "awaiting_confirmation -> confirmed: When the user explicitly confirms the booking"
\* (specs/booking_workflow.md:33).  A question about the status of an earlier booking
\* stores that booking's receipt and leaves the review for the confirmed stage.
ConfirmedByTheGuest ==
    [][ soft.booking_stage = "awaiting_confirmation" /\ soft'.booking_stage = "confirmed"
            => issued' # issued ]_vars
=============================================================================

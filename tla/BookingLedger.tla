----------------------------- MODULE BookingLedger ----------------------------
(***************************************************************************)
(* What the booking workflow promises about the table successful_bookings, *)
(* whatever the conversation that led to a write: a registration id gets   *)
(* one complete row with an ordered stay, the row keeps its property for   *)
(* ever, a cancellation is final, and no row disappears.                   *)
(***************************************************************************)
EXTENDS BookingDetails

VARIABLE rows

Complete(row) == \A f \in Field : row[f] # None

\* one row is written, and it is still filed under its own id
Write(id) ==
    /\ rows'[id] \in Receipt /\ rows'[id].booking_id = id
    /\ rows' = [rows EXCEPT ![id] = rows'[id]]

\* a new registration: complete, confirmed, for a stay that ends after it begins
Register(id) ==
    /\ rows[id] = None
    /\ Write(id)
    /\ Complete(rows'[id]) /\ rows'[id].check_in < rows'[id].check_out
    /\ rows'[id].status = "confirmed"

\* an amendment rewrites details and leaves the rest of the row alone
Amend(id) ==
    /\ rows[id] # None
    /\ Write(id)
    /\ Complete(rows'[id])
    /\ rows'[id].status = rows[id].status
    /\ rows'[id].property_title = rows[id].property_title

Cancel(id) ==
    /\ rows[id] # None
    /\ rows' = [rows EXCEPT ![id].status = "cancelled"]

LedgerInit == rows = [id \in BookingId |-> None]

LedgerNext == \E id \in BookingId : Register(id) \/ Amend(id) \/ Cancel(id)

LedgerSpec == LedgerInit /\ [][LedgerNext]_rows
=============================================================================

---------------------------- MODULE BookingReading --------------------------
(* BookingFlow composed with the reading of messages: at every question the  *)
(* workflow can have open, a plain message is read as what it says.          *)
(* BookingFlow's Message is any reading at all; here it is the reading of a  *)
(* text, with the question that is open as the code's fallback.              *)
EXTENDS BookingClaims, DetailReading

CONSTANT Told    \* plain messages: [text, says, asked], as below

\* says: the detail each plain message gives; asked: the questions it is a plain
\* answer to, Unread standing for none
ASSUME ToldAssumption ==
    \A m \in Told : DOMAIN m.says \subseteq Detail /\ m.asked \subseteq Detail \cup {Unread}

DetailsOf == [contact |-> {"guest_name", "guest_email", "guest_phone"}]
             @@ [f \in Field \ {"contact"} |-> {f}]

\* the details the open question may be about
Questions == IF soft.awaiting_field \in Field THEN DetailsOf[soft.awaiting_field] ELSE {Unread}

Gives(m, f) == IF f \in DOMAIN m.says THEN m.says[f] ELSE Unread

\* the plain messages that are read as something else when f is asked for
Misread ==
    [f \in Detail \cup {Unread} |->
        {m \in Told : /\ f \in m.asked
                      /\ ReadingOf(m.text, f) # [updates |-> [g \in Detail |-> Gives(m, g)],
                                                errors  |-> {}]}]

\* and those about f, or about the stay, that an amendment of f does not read
Unamended ==
    [f \in Detail |-> {m \in Told : /\ f \in DOMAIN m.says /\ DOMAIN m.says \subseteq {f} \cup StayDate
                                    /\ f = "guest_name" => Of(m.text, {"nameIs"}) # {}
                                    /\ AmendmentValue(m.text, f, ReadingOf(m.text, f).updates) # m.says[f]}]

(* Whatever the form asks for, a message that says its values plainly gives     *)
(* those values and no others: the dates stay with their labels in either       *)
(* order, a stay said without its year is in one year unless it goes over the   *)
(* new year, a check-out before the check-in is not moved a year ahead, and     *)
(* parts between commas find their fields (date_parser.py, extraction.py).      *)
DetailsAsSaid ==
    /\ soft.booking_stage \in {"collecting_details", "modifying_details"} =>
           \A f \in Questions : Misread[f] = {}
    /\ soft.booking_stage = "awaiting_amendment_values" =>
           \A f \in soft.pending_booking_amendment.fields :
               \A g \in DetailsOf[f] : Unamended[g] = {}
=============================================================================

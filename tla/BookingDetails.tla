---------------------------- MODULE BookingDetails ----------------------------
(***************************************************************************)
(* The details of a stay and the rules that validate them: what            *)
(* app/services/booking/validation.py and state.py compute from the        *)
(* session's booking state and the values read from one message.           *)
(*                                                                         *)
(* The guest's name, e-mail and phone number are one field, "contact":     *)
(* each of them is validated on its own, and nothing relates them to       *)
(* another field.  A title stands for the property it belongs to and for   *)
(* that property's price per night, which are always copied together.      *)
(* Days are counted from the reference date: a day of Day is one a         *)
(* check-in may fall on.                                                   *)
(***************************************************************************)
EXTENDS Integers

CONSTANTS Property,     \* the properties that can be booked
          Capacity,     \* the number of guests each property takes
          Day,          \* the days on or after the reference date
          GuestCount,   \* the guest counts the field validator accepts
          Contact,      \* the contact data the field validators accept
          BookingId,    \* the registration ids that may be issued
          None,         \* an absent key of soft_state
          Bad           \* a value that the validator of its own field refuses

ASSUME DetailsAssumption ==
    /\ Day \subseteq Nat
    /\ GuestCount \subseteq Nat
    /\ Capacity \in [Property -> Nat]
    /\ None \notin Nat /\ Bad \notin Nat /\ None # Bad
    /\ None \notin Property /\ None \notin Contact /\ Bad \notin Contact
    /\ None \notin BookingId

Field == {"contact", "check_in", "check_out", "guests"}

ASSUME FieldAssumption == None \notin Field \cup {"property_title"}

\* get_ask_order, and the order in which _validate_and_commit_state reports errors
AskRank   == [contact |-> 1, check_in |-> 2, check_out |-> 3, guests |-> 4]
ErrorRank == [contact |-> 3, check_in |-> 1, check_out |-> 2, guests |-> 4]

FirstBy(rank, S) == CHOOSE f \in S : \A g \in S : rank[f] <= rank[g]

-----------------------------------------------------------------------------
(* booking_state, the details being collected.  awaiting_field may also name *)
(* the property's title, which no question of the ask order covers.          *)

Draft == [ property_id    : Property \cup {None},
           property_title : Property \cup {None},
           contact        : Contact \cup {None},
           check_in       : Day \cup {None},
           check_out      : Day \cup {None},
           guests         : GuestCount \cup {None} ]

NoDraft == [ property_id |-> None, property_title |-> None, contact |-> None,
             check_in |-> None, check_out |-> None, guests |-> None ]

(* What the extraction step reads from a message for each field: nothing, a    *)
(* value, or Bad when its validator refuses the value (a check-in in the past, *)
(* a malformed e-mail) or a date was announced and could not be parsed.        *)
(* outFirst: check_out comes before check_in in the dictionary of updates, as  *)
(* in a compact message that lists them in that order.                         *)
Message ==
    {m \in [ contact   : Contact \cup {None, Bad},
             check_in  : Day \cup {None, Bad},
             check_out : Day \cup {None, Bad},
             guests    : GuestCount \cup {None, Bad},
             outFirst  : BOOLEAN ] :
        m.outFirst => m.check_in \in Day /\ m.check_out \in Day}

NoMessage == [ contact |-> None, check_in |-> None, check_out |-> None,
               guests |-> None, outFirst |-> FALSE ]

\* the messages that give values for some of the given fields, and for no other
MessageAbout ==
    [fields \in SUBSET Field |->
        {m \in Message : /\ ~m.outFirst
                         /\ \A f \in Field : m[f] = None \/ (f \in fields /\ m[f] # Bad)}]

\* the property the session books: booking_selected_property, with the
\* occupancy_max that the result it was resolved from carried, or None
Selected == [property : Property, occupancy_max : Nat \cup {None}]

Given(value, old) == IF value \in {None, Bad} THEN old ELSE value

MissingFields(d) == {f \in Field : d[f] = None}

\* both dates known and in the order a stay needs
Ordered(d) == d.check_in # None /\ d.check_out # None => d.check_in < d.check_out

OverCapacity(guests, selected) ==
    /\ selected # None /\ guests # None
    /\ selected.occupancy_max # None
    /\ guests > selected.occupancy_max

\* _next_missing_field
NextMissing(d) ==
    IF MissingFields(d) # {} THEN FirstBy(AskRank, MissingFields(d))
    ELSE IF d.property_title = None THEN "property_title"
    ELSE None

\* _seed_property_fields: the id of the property being booked, and the title and
\* price of whatever booking_selected_property holds
Seed(d, bookingProperty, selected) ==
    [d EXCEPT !.property_id = IF bookingProperty # None THEN bookingProperty ELSE @,
              !.property_title = IF selected # None THEN selected.property ELSE @]

-----------------------------------------------------------------------------
(* _validate_and_commit_state: apply the values of a message to the draft.     *)

\* check_out is validated against the check-in known at that moment: the new one,
\* unless check_out was processed first
CheckOutRefused(d, msg) ==
    LET checkIn == IF msg.outFirst THEN d.check_in ELSE Given(msg.check_in, d.check_in)
    IN  msg.check_out \in Day /\ checkIn # None /\ msg.check_out <= checkIn

NewCheckOut(d, msg) ==
    IF CheckOutRefused(d, msg) THEN d.check_out ELSE Given(msg.check_out, d.check_out)

\* mutant: contact data are stored before their validator is asked
UpdatedWithBadContact(d, msg) ==
    [d EXCEPT !.contact   = IF msg.contact = None THEN @ ELSE msg.contact,
              !.check_in  = Given(msg.check_in, @),
              !.check_out = NewCheckOut(d, msg),
              !.guests    = Given(msg.guests, @)]

Updated(d, msg) ==
    [d EXCEPT !.contact   = Given(msg.contact, @),
              !.check_in  = Given(msg.check_in, @),
              !.check_out = NewCheckOut(d, msg),
              !.guests    = Given(msg.guests, @)]

\* mutant: the updates of a message replace the guests without looking at the property
GuestsAsGiven(guests, selected) == guests

FittingGuests(guests, selected) ==
    IF OverCapacity(guests, selected) THEN None ELSE guests

\* mutant: a stay in the wrong order loses its check-in too
UnlessOutOfOrder(u, msg) == IF msg.check_in = Bad \/ ~Ordered(u) THEN None ELSE u.check_in

\* a bad check-in takes the check-out with it, and is the only date asked for
ValidCheckIn(u, msg) == IF msg.check_in = Bad THEN None ELSE u.check_in

ValidCheckOut(u, msg) == IF msg.check_in = Bad \/ ~Ordered(u) THEN None ELSE u.check_out

Committed(d, msg, selected) ==
    LET u == Updated(d, msg)
    IN  [u EXCEPT !.guests    = FittingGuests(@, selected),
                  !.check_in  = ValidCheckIn(u, msg),
                  !.check_out = ValidCheckOut(u, msg)]

CommitErrors(d, msg, selected) ==
    LET u == Updated(d, msg)
        refused == {f \in Field : msg[f] = Bad}
                   \cup {f \in {"guests"} : OverCapacity(u.guests, selected)}
                   \cup {f \in {"check_out"} : CheckOutRefused(d, msg) \/ ~Ordered(u)}
    IN  IF msg.check_in = Bad THEN refused \ {"check_out"} ELSE refused

\* the field to ask for next, None when the details are complete
NextField(d, msg, selected) ==
    IF CommitErrors(d, msg, selected) # {}
    THEN FirstBy(ErrorRank, CommitErrors(d, msg, selected))
    ELSE NextMissing(Committed(d, msg, selected))

-----------------------------------------------------------------------------
(* Receipts and the amendment of a receipt (_validate_amendment_candidate).    *)
(* A row of successful_bookings holds the same data as a receipt.              *)

Status == {"confirmed", "cancelled"}

Receipt == [ booking_id     : BookingId,
             status         : Status,
             property_title : Property \cup {None},
             contact        : Contact \cup {None},
             check_in       : Day \cup {None},
             check_out      : Day \cup {None},
             guests         : GuestCount \cup {None} ]

\* an absent key is no record
ASSUME RecordAssumption == None \notin Draft \cup Selected \cup Receipt

\* the receipt that confirm_booking_review builds from the review summary
ReceiptOf(review, id) ==
    [ booking_id |-> id, status |-> "confirmed",
      property_title |-> review.property_title, contact |-> review.contact,
      check_in |-> review.check_in, check_out |-> review.check_out,
      guests |-> review.guests ]

\* only the values of the fields under amendment are read from the message
Amended(receipt, fields, msg) ==
    LET value(f) == IF f \in fields THEN Given(msg[f], receipt[f]) ELSE receipt[f]
    IN  [receipt EXCEPT !.contact = value("contact"),   !.check_in = value("check_in"),
                        !.check_out = value("check_out"), !.guests = value("guests")]

\* mutant: every detail is asked for, not only those under amendment
UnusableOfAll(fields, msg) == {f \in Field : msg[f] \in {None, Bad}}

\* fields for which the message gives no value, or none that can be used; an
\* amendment treats both alike
Unusable(fields, msg) == {f \in fields : msg[f] \in {None, Bad}}

\* what is wrong with a candidate made of usable values: too many guests for the
\* session's selected property, or a stay that ends before it begins
AmendErrors(candidate, fields, selected) ==
    {f \in {"guests"} : OverCapacity(candidate.guests, selected)}
    \cup {f \in {IF "check_out" \in fields THEN "check_out" ELSE "check_in"} :
             ~Ordered(candidate)}

\* mutant: the row becomes what the guest was shown
WholeReceipt(row, fields, receipt) == receipt

\* mutant: every detail column is written, whatever was amended
WithAllColumns(row, fields, receipt) ==
    [row EXCEPT !.contact = receipt.contact, !.check_in = receipt.check_in,
                !.check_out = receipt.check_out, !.guests = receipt.guests]

\* receipt_updates_to_successful_booking_columns: the columns of the changed
\* fields, and no other, are written to the row
WithColumns(row, fields, receipt) ==
    LET column(f) == IF f \in fields THEN receipt[f] ELSE row[f]
    IN  [row EXCEPT !.contact = column("contact"),   !.check_in = column("check_in"),
                    !.check_out = column("check_out"), !.guests = column("guests")]
=============================================================================

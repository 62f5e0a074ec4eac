---------------------------- MODULE DetailDialogue --------------------------
(* The details form of a booking, field by field: the guest answers, the     *)
(* answer is read, validated and stored, and the next question is asked      *)
(* (services/booking/creation.py, validation.py, booking_schema_loader.py).  *)
(* BookingFlow has the form among the other dialogues and takes what is read *)
(* of a message as given; here the name, the e-mail and the phone number are *)
(* fields of their own and the answers are texts.                            *)
EXTENDS DetailReading

CONSTANTS Told,         \* the messages of the guest: [text, says, asked], where asked is
                        \* the set of the fields they are an answer to
          MaxGuests     \* what the selected property takes

VARIABLES booking_state,     \* the details stored so far
          awaiting_field,    \* the field asked for, Unread when none is
          told               \* the last message, for the properties only

vars == <<booking_state, awaiting_field, told>>

\* what the schema's validator of a field accepts, given the other details.  The
\* pattern of a phone number is figures, spaces and hyphens.
Valid(f, value, details) ==
    CASE f = "guests"    -> value \in 1..20
      [] f = "check_in"  -> ~Before(value, Today)
      [] f = "check_out" -> details.check_in = Unread \/ Before(details.check_in, value)
      [] OTHER           -> TRUE

\* the values a message gives, and the draft once the valid ones are stored.  The
\* check-in comes first, as whole texts are read; a message whose part about the
\* check-out comes before the one about the check-in is not among Told, and
\* BookingDetails has both orders.
Stored(details, updates) ==
    LET given(f)    == updates[f] # Unread
        stayFrom    == IF given("check_in") /\ Valid("check_in", updates.check_in, details)
                       THEN [details EXCEPT !.check_in = updates.check_in] ELSE details
        accepted(f) == given(f) /\ Valid(f, updates[f], stayFrom)
    IN  [details |-> [f \in Detail |-> IF accepted(f) THEN updates[f] ELSE details[f]],
         refused |-> {f \in Detail : given(f) /\ ~accepted(f)}]

FirstAsked(S) == AskOrder[First({Rank(f) : f \in S})]

\* _validate_and_commit_state
Commit(details, reading) ==
    LET stored  == Stored(details, reading.updates)
        d       == stored.details
        refused == stored.refused \cup reading.errors
        crowded == d.guests # Unread /\ d.guests > MaxGuests
        badIn   == "check_in" \in refused
        badOut  == /\ d.check_in # Unread /\ d.check_out # Unread
                   /\ ~Before(d.check_in, d.check_out)
        kept    == [d EXCEPT !.guests    = IF crowded THEN Unread ELSE @,
                             !.check_in  = IF badIn THEN Unread ELSE @,
                             !.check_out = IF badIn \/ badOut THEN Unread ELSE @]
        wrong   == (IF badIn THEN refused \ {"check_out"}
                    ELSE IF badOut THEN refused \cup {"check_out"} ELSE refused)
                   \cup {f \in {"guests"} : crowded}
        missing == {f \in Detail : kept[f] = Unread}
    IN  [details |-> kept,
         asked   |-> IF wrong \cap StayDate # {} THEN FirstAsked(wrong \cap StayDate)
                     ELSE IF wrong # {} THEN FirstAsked(wrong)
                     ELSE IF missing # {} THEN FirstAsked(missing)
                     ELSE Unread]

Nothing == [f \in Detail |-> Unread]

Init == /\ booking_state = Nothing
        /\ awaiting_field = FirstAsked(Detail)
        /\ told = [text |-> <<>>, says |-> <<>>, asked |-> {}]

\* handle_active_booking_turn, up to the review
Answer(m) ==
    /\ awaiting_field \in m.asked
    /\ \E next \in {Commit(booking_state, ReadingOf(m.text, awaiting_field))} :
           /\ booking_state' = next.details
           /\ awaiting_field' = next.asked
    /\ told' = m

Next == \E m \in Told : Answer(m)

Spec == Init /\ [][Next]_vars

-----------------------------------------------------------------------------
\* the guest gives a check-out that is not after the check-in, and nothing else
RefusedCheckOut ==
    /\ DOMAIN told'.says = {"check_out"}
    /\ booking_state.check_in # Unread
    /\ ~Before(booking_state.check_in, told'.says.check_out)

\* "An invalid check_out preserves valid collected fields and asks only for
\* check_out" (specs/booking_workflow.md:93).  A check-out in figures is read as the
\* guest's phone number too, and is one the field validator accepts.
InvalidCheckOutKeepsDetails ==
    [][ RefusedCheckOut =>
            \A f \in Detail \ {"check_out"} :
                booking_state[f] # Unread => booking_state'[f] = booking_state[f] ]_vars
=============================================================================

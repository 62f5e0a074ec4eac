------------------------- MODULE CancellationDialogue -----------------------
(* The cancellation of a booking, reply by reply: what a reply is read as    *)
(* and what it does (services/booking/cancellation.py).  BookingFlow has the *)
(* dialogue among the other ones and takes what is read as given.            *)
(*                                                                          *)
(* A reply is a sequence of words in small letters, with the punctuation    *)
(* that is written to them: the patterns find a word beside it, as a token  *)
(* "no," is another word than "no".                                         *)
EXTENDS Naturals, SequencesExt

CONSTANTS None,
          BookingId,
          Latest,    \* the booking of the session's receipt, or None
          Reply,     \* [words, id, refuses]: with the id it names, or None, and whether
                     \* the guest means to keep the booking
          Bare       \* Bare[w]: word w without its punctuation

VARIABLES booking_cancellation_stage,
          booking_cancellation_id,
          rows,      \* the status of each booking, None where there is none
          told       \* the last reply, for the property only

pending == <<booking_cancellation_stage, booking_cancellation_id>>
vars == <<pending, rows, told>>

TypeOK ==
    /\ booking_cancellation_stage \in {"none", "awaiting_id", "awaiting_confirmation"}
    /\ booking_cancellation_id \in BookingId \cup {None}
    /\ rows \in [BookingId -> {None, "confirmed", "cancelled"}]
    /\ told \in Reply \cup {None}

Init ==
    /\ booking_cancellation_stage = "none" /\ booking_cancellation_id = None /\ told = None
    /\ rows \in [BookingId -> {None, "confirmed"}]
-----------------------------------------------------------------------------
(* Reading *)

\* Phrase p stands in m, between word boundaries.
Says(m, p) ==
    LET bare == [i \in DOMAIN m |-> IF m[i] \in DOMAIN Bare THEN Bare[m[i]] ELSE m[i]]
    IN  \E i \in DOMAIN m : i + Len(p) - 1 <= Len(m) /\ SubSeq(bare, i, i + Len(p) - 1) = p

SaysOne(m, words) == \E w \in words : Says(m, <<w>>)

Verbs     == {"cancel", "delete", "remove"}
Mine      == {<< >>, <<"this">>, <<"my">>, <<"the">>}
Negations == {<<"do", "not">>, <<"don't">>, <<"dont">>}

\* _detect_booking_cancellation_intent
RequestsCancellation(r) ==
    \/ \E v \in Verbs, mine \in Mine, what \in {"booking", "registration"} :
          Says(r.words, <<v>> \o mine \o <<what>>)
    \/ r.id # None /\ SaysOne(r.words, Verbs)

\* negated_cancellation_patterns
Negated(m) ==
    \/ \E not \in Negations, v \in Verbs : Says(m, not \o <<v>>)
    \/ \E p \in {<<"keep", "it">>, <<"never", "mind">>, <<"nevermind">>,
                 <<"change", "my", "mind">>} : Says(m, p)

\* _is_negated_cancellation_request
NegatesCancellation(m) ==
    \/ Negated(m)
    \/ \E not \in Negations, v \in Verbs : Says(m, not \o <<"want", "to", v>>)
    \/ \E mine \in Mine : Says(m, <<"keep">> \o mine \o <<"booking">>)

\* The first token of either list stands in booking_schema.yaml without quotes: YAML reads
\* yes and no as truth values, which become the tokens "true" and "false".
YesTokens == {"true", "yeah", "sure", "confirm", "proceed", "correct", "ok", "okay"}
NoTokens  == {"false", "nope", "nah", "reject"}

\* _is_yes, _is_no
SaysYes(m) == Range(m) \cap YesTokens # {} \/ SaysOne(m, Verbs)
SaysNo(m)  == Range(m) \cap NoTokens # {} \/ Negated(m) \/ SaysOne(m, {"don't", "dont", "keep"})

\* Whole replies, which come before these
Confirms(m) ==
    \/ m \in {<<"yes">>, <<"y">>, <<"confirm">>, <<"yes", "cancel">>, <<"yes", "delete">>}
    \/ /\ m # << >> /\ Says(<<m[1]>>, <<"yes">>)
       /\ SaysOne(m, {"cancel", "delete", "booking"})

Rejects(m) ==
    \/ m \in {<<"no">>, <<"n">>, <<"nope">>, <<"keep", "it">>, <<"nevermind">>, <<"never", "mind">>}
    \/ m \in {not \o <<v>> : not \in Negations, v \in {"cancel", "delete"}}

ReadAs(m) ==
    IF Rejects(m) THEN "no" ELSE IF Confirms(m) THEN "yes"
    ELSE IF SaysNo(m) THEN "no" ELSE IF SaysYes(m) THEN "yes" ELSE "neither"
-----------------------------------------------------------------------------
(* Turns *)

Asks(stage, id) == booking_cancellation_stage' = stage /\ booking_cancellation_id' = id
Drops == Asks("none", None)

\* A refusal before there was anything to confirm
Decline(r) ==
    /\ booking_cancellation_stage # "awaiting_confirmation" /\ NegatesCancellation(r.words)
    /\ Drops /\ UNCHANGED rows

\* get_booking_status and its like: a booking that cannot be read is not found.
Lookups(id) == IF id = None THEN {FALSE} ELSE IF rows[id] = None THEN {FALSE} ELSE BOOLEAN

Named(r) == IF r.id # None THEN r.id
            ELSE IF booking_cancellation_id # None THEN booking_cancellation_id ELSE Latest

Request(r) ==
    /\ booking_cancellation_stage # "awaiting_confirmation" /\ ~NegatesCancellation(r.words)
    /\ RequestsCancellation(r) \/ booking_cancellation_stage = "awaiting_id"
    /\ \E found \in Lookups(Named(r)) :
          IF found THEN Asks("awaiting_confirmation", Named(r))
          ELSE Asks("awaiting_id", booking_cancellation_id)
    /\ UNCHANGED rows

Keep(r) ==
    /\ booking_cancellation_stage = "awaiting_confirmation" /\ ReadAs(r.words) = "no"
    /\ Drops /\ UNCHANGED rows

\* An update that fails, or whose answer is lost, leaves the question open.
Cancel(r) ==
    /\ booking_cancellation_stage = "awaiting_confirmation" /\ ReadAs(r.words) = "yes"
    /\ \E outcome \in {"ok", "failed", "reply_lost"} :
          /\ rows' = IF outcome = "failed" THEN rows
                     ELSE [rows EXCEPT ![booking_cancellation_id] = "cancelled"]
          /\ IF outcome = "ok" THEN Drops ELSE UNCHANGED pending

AskAgain(r) ==
    /\ booking_cancellation_stage = "awaiting_confirmation" /\ ReadAs(r.words) = "neither"
    /\ UNCHANGED <<pending, rows>>

\* _maybe_handle_booking_cancellation_turn
Next == \E r \in Reply : /\ Decline(r) \/ Request(r) \/ Keep(r) \/ Cancel(r) \/ AskAgain(r)
                         /\ told' = r

Spec == Init /\ [][Next]_vars
-----------------------------------------------------------------------------
\* "Please confirm if you want to cancel the booking. Say 'yes' to cancel or 'no' to keep
\* it." (cancellation.py:159): a reply that refuses keeps every booking.  "I do not want to
\* cancel my booking" is no negation for _is_no, and _is_yes finds "cancel" in it.
RefusalKeepsBooking == [][told'.refuses => rows' = rows]_vars
=============================================================================

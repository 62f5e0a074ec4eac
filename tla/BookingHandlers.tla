---------------------------- MODULE BookingHandlers ---------------------------
(***************************************************************************)
(* The deterministic booking handlers as functions from one soft_state to  *)
(* the next (app/services/booking/creation.py, amendment.py,               *)
(* cancellation.py, receipt.py).  A handler of the code mutates the        *)
(* soft_state of the snapshot it loaded; what it stores, when, and beside  *)
(* which database call, is said by the modules that use these functions.   *)
(***************************************************************************)
EXTENDS BookingDetails

AmendmentStage == {"awaiting_amendment_choice", "awaiting_amendment_values",
                   "awaiting_amendment_confirmation"}

Stage == {"none", "collecting_details", "awaiting_confirmation",
          "awaiting_modification_choice", "modifying_details",
          "awaiting_property_reselection", "confirmed"} \cup AmendmentStage

Amendment == [base_receipt      : Receipt,
              candidate_receipt : Receipt \cup {None},
              fields            : SUBSET Field]

Cancellation == [stage : {"none", "awaiting_id", "awaiting_confirmation"},
                 id    : BookingId \cup {None}]

ASSUME AmendmentAssumption == None \notin Amendment

NoCancellation == [stage |-> "none", id |-> None]

(* The keys of soft_state the booking workflow reads.  details_shown says    *)
(* whether last_presented_view is "property_details".  booking_review stands *)
(* for pending_booking too, and booking_receipt for booking_registration_id  *)
(* and booking_status: these handlers write them together.                   *)
SoftState == [ booking_stage             : Stage,
               details_shown             : BOOLEAN,
               last_selected_property_id : Property \cup {None},
               booking_property_id       : Property \cup {None},
               booking_selected_property : Selected \cup {None},
               booking_state             : Draft,
               booking_review            : Draft \cup {None},
               awaiting_field            : Field \cup {"property_title", None},
               booking_receipt           : Receipt \cup {None},
               pending_booking_amendment : Amendment \cup {None},
               booking_cancellation      : Cancellation ]

EmptySoftState ==
    [ booking_stage |-> "none", details_shown |-> FALSE,
      last_selected_property_id |-> None, booking_property_id |-> None,
      booking_selected_property |-> None, booking_state |-> NoDraft,
      booking_review |-> None, awaiting_field |-> None, booking_receipt |-> None,
      pending_booking_amendment |-> None, booking_cancellation |-> NoCancellation ]

\* handlers.py _has_active_booking_session
ActiveSession(s) == s.booking_stage \notin {"none", "confirmed"}

\* a turn that neither the cancellation nor the amendment handler claims first
Unclaimed(s) ==
    /\ s.booking_cancellation.stage = "none"
    /\ s.booking_stage \notin AmendmentStage

-----------------------------------------------------------------------------
(* Selecting a property, collecting details, reviewing them (creation.py).   *)

\* get_property_details, for an option of the results on display
ShowDetails(s, p) == [s EXCEPT !.last_selected_property_id = p, !.details_shown = TRUE]

Seeded(s) ==
    Seed(s.booking_state,
         IF s.booking_property_id # None THEN s.booking_property_id
                                         ELSE s.last_selected_property_id,
         s.booking_selected_property)

\* _review_payload_from_state
PresentReview(s, d) ==
    [s EXCEPT !.booking_stage = "awaiting_confirmation", !.details_shown = FALSE,
              !.booking_state = d, !.booking_review = d, !.awaiting_field = None]

\* commit the values of a message; ask for the next field, or present the review
Collect(s, msg, stage) ==
    LET d    == Committed(Seeded(s), msg, s.booking_selected_property)
        next == NextField(Seeded(s), msg, s.booking_selected_property)
    IN  IF next = None
        THEN PresentReview(s, d)
        ELSE [s EXCEPT !.booking_stage = stage, !.details_shown = FALSE,
                       !.booking_state = d, !.awaiting_field = next]

\* start_booking_for_selected_property; found is what the results hold about the
\* selected property, None when they no longer list it
StartBooking(s, found) ==
    LET p    == s.last_selected_property_id
        kept == s.booking_selected_property
        selected == IF found = None \/ (kept # None /\ kept.property = p)
                    THEN kept ELSE found
    IN  Collect([s EXCEPT !.booking_property_id = p,
                          !.booking_selected_property = selected],
                NoMessage, "collecting_details")

\* mutant: an open question does not hold the review back
ResumeDespiteQuestion(s) ==
    LET t == [s EXCEPT !.booking_state = Seeded(s)]
    IN  IF \/ s.booking_stage = "awaiting_confirmation" /\ s.booking_review # None
           \/ MissingFields(t.booking_state) # {}
        THEN t
        ELSE [t EXCEPT !.booking_stage = "awaiting_confirmation",
                       !.booking_review = t.booking_state]

\* mutant: the review is presented whenever no question is open
ResumeUnchecked(s) ==
    LET t == [s EXCEPT !.booking_state = Seeded(s)]
    IN  IF \/ s.booking_stage = "awaiting_confirmation" /\ s.booking_review # None
           \/ s.awaiting_field # None
        THEN t
        ELSE [t EXCEPT !.booking_stage = "awaiting_confirmation",
                       !.booking_review = t.booking_state]

\* resume_booking_flow
Resume(s) ==
    LET t == [s EXCEPT !.booking_state = Seeded(s)]
    IN  IF \/ s.booking_stage = "awaiting_confirmation" /\ s.booking_review # None
           \/ s.awaiting_field # None
           \/ MissingFields(t.booking_state) # {}
        THEN t
        ELSE [t EXCEPT !.booking_stage = "awaiting_confirmation",
                       !.booking_review = t.booking_state]

\* the review is refused without naming a field: the shortcut shows it again, the active
\* booking turn leaves the view alone and drops the question that was open
RefuseReview(s, viewKept) ==
    [s EXCEPT !.booking_stage = "awaiting_modification_choice",
              !.details_shown = @ /\ viewKept,
              !.awaiting_field = IF viewKept THEN None ELSE @]

Reselect(s) ==
    [s EXCEPT !.booking_stage = "awaiting_property_reselection", !.details_shown = FALSE]

\* a field is named without a new value
AskForChange(s, field) ==
    [s EXCEPT !.booking_stage = "modifying_details", !.awaiting_field = field]

\* confirm_booking_review, once the row has been offered to the database
StoreConfirmation(s, id) ==
    [s EXCEPT !.booking_stage = "confirmed", !.details_shown = FALSE,
              !.booking_receipt = ReceiptOf(s.booking_review, id),
              !.awaiting_field = None]

\* _store_current_receipt
StoreReceipt(s, receipt) ==
    [s EXCEPT !.booking_stage = "confirmed", !.details_shown = FALSE,
              !.booking_receipt = receipt]

\* the receipts a status question may find in the session: _latest_session_receipt
\* and _lookup_booking_in_session; nothing writes booking_receipts, and a review
\* carries no id
SessionReceipts(s) == {s.booking_receipt} \ {None}

-----------------------------------------------------------------------------
(* Amending a confirmed booking (amendment.py).                              *)

\* the receipt a turn amends: _current_amendment_receipt, or the pending base
AmendmentReceipt(s) ==
    LET pending == s.pending_booking_amendment
    IN  IF pending = None THEN s.booking_receipt
        ELSE IF s.booking_stage = "awaiting_amendment_values" THEN pending.base_receipt
        ELSE IF pending.candidate_receipt # None THEN pending.candidate_receipt
        ELSE s.booking_receipt

AskForAmendmentChoice(s, receipt) ==
    [s EXCEPT !.booking_stage = "awaiting_amendment_choice", !.awaiting_field = None,
              !.pending_booking_amendment = [base_receipt |-> receipt,
                                             candidate_receipt |-> None, fields |-> {}]]

AskForAmendmentValues(s, receipt, fields, asked) ==
    [s EXCEPT !.booking_stage = "awaiting_amendment_values",
              !.awaiting_field = FirstBy(AskRank, asked),
              !.pending_booking_amendment = [base_receipt |-> receipt,
                                             candidate_receipt |-> None, fields |-> fields]]

\* mutant: the question that was answered stays open
OfferAmendmentWithQuestion(s, receipt, fields, candidate) ==
    [s EXCEPT !.booking_stage = "awaiting_amendment_confirmation", !.details_shown = FALSE,
              !.pending_booking_amendment = [base_receipt |-> receipt,
                                             candidate_receipt |-> candidate,
                                             fields |-> fields]]

OfferAmendment(s, receipt, fields, candidate) ==
    [s EXCEPT !.booking_stage = "awaiting_amendment_confirmation", !.details_shown = FALSE,
              !.awaiting_field = None,
              !.pending_booking_amendment = [base_receipt |-> receipt,
                                             candidate_receipt |-> candidate,
                                             fields |-> fields]]

\* handle_booking_amendment_turn outside awaiting_amendment_confirmation; named is
\* the set of fields the message names, which counts until values are asked for
AmendmentTurn(s, named, msg) ==
    LET receipt   == AmendmentReceipt(s)
        fields    == IF s.booking_stage = "awaiting_amendment_values"
                     THEN s.pending_booking_amendment.fields ELSE named
        candidate == Amended(receipt, fields, msg)
        asked     == IF Unusable(fields, msg) # {} THEN Unusable(fields, msg)
                     ELSE AmendErrors(candidate, fields, s.booking_selected_property)
    IN  IF fields = {}     THEN AskForAmendmentChoice(s, receipt)
        ELSE IF asked # {} THEN AskForAmendmentValues(s, receipt, fields, asked)
        ELSE OfferAmendment(s, receipt, fields, candidate)

\* "no, change the dates" to the candidate: the candidate becomes the base
ReviseAmendment(s, named) ==
    LET pending == s.pending_booking_amendment
        fields  == IF named # {} THEN named ELSE pending.fields
    IN  AskForAmendmentValues(s, pending.candidate_receipt, fields, fields)

\* mutant: the saved amendment stays pending
StoreAmendmentStillPending(s) ==
    [StoreReceipt(s, s.pending_booking_amendment.candidate_receipt)
        EXCEPT !.awaiting_field = None]

\* _confirm_amendment, when the update is reported as saved
StoreAmendment(s) ==
    [StoreReceipt(s, s.pending_booking_amendment.candidate_receipt)
        EXCEPT !.pending_booking_amendment = None, !.awaiting_field = None]

-----------------------------------------------------------------------------
(* Cancelling a booking (cancellation.py).                                   *)

AskForCancellationId(s) ==
    [s EXCEPT !.booking_cancellation = [@ EXCEPT !.stage = "awaiting_id"]]

AskToConfirmCancellation(s, id) ==
    [s EXCEPT !.booking_cancellation = [stage |-> "awaiting_confirmation", id |-> id]]

\* mutant: keeping the booking also ends whatever the dialogue interrupted
DropCancellationAndFlow(s) ==
    [s EXCEPT !.booking_cancellation = NoCancellation,
              !.booking_stage = IF s.booking_receipt = None THEN "none" ELSE "confirmed"]

DropCancellation(s) == [s EXCEPT !.booking_cancellation = NoCancellation]

\* the receipt after a cancellation: the reply that the first version of the
\* handler treats as a yes ("sure") marks the session's receipt; the exact
\* replies do not
MarkedReceipt(s, marked) ==
    LET receipt == s.booking_receipt
    IN  IF marked /\ receipt # None /\ receipt.booking_id = s.booking_cancellation.id
        THEN [receipt EXCEPT !.status = "cancelled"] ELSE receipt

StoreCancellation(s, marked) ==
    [s EXCEPT !.booking_cancellation = NoCancellation,
              !.booking_receipt = MarkedReceipt(s, marked)]
=============================================================================

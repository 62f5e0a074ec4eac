------------------------------ MODULE BookingFlow -----------------------------
(***************************************************************************)
(* One session of the booking concierge, turn by turn: every message is    *)
(* handled by the first handler of run_adk_turn that claims it             *)
(* (cancellation, amendment, shortcuts, active booking turn, status        *)
(* check), which loads the session's soft_state, changes it, reads and     *)
(* writes successful_bookings, and stores the soft_state again.  Turns do  *)
(* not overlap here.  The session may expire between two turns; the rows   *)
(* stay.                                                                   *)
(***************************************************************************)
EXTENDS BookingHandlers

VARIABLES soft,     \* the session's soft_state
          rows,     \* public.successful_bookings
          issued    \* the registration ids handed out so far

vars == <<soft, rows, issued>>

(* A write: it is saved and reported, it fails, or it is saved and the reply *)
(* is lost, which the caller sees as a failure (db_client.execute commits     *)
(* before it answers).                                                       *)
Outcome == {"ok", "failed", "reply_lost"}

Init == /\ soft = EmptySoftState
        /\ rows = [id \in BookingId |-> None]
        /\ issued = {}

-----------------------------------------------------------------------------
(* Search results and the start of a booking.                                *)

\* "option 2": blocked while a booking is active, except to reselect a property
SelectProperty(p) ==
    /\ Unclaimed(soft)
    /\ ~ActiveSession(soft) \/ soft.booking_stage = "awaiting_property_reselection"
    /\ soft' = ShowDetails(soft, p)
    /\ UNCHANGED <<rows, issued>>

\* a search, or back to the results on display
ShowResults ==
    /\ Unclaimed(soft) /\ ~ActiveSession(soft) /\ soft.details_shown
    /\ soft' = [soft EXCEPT !.details_shown = FALSE]
    /\ UNCHANGED <<rows, issued>>

\* "book it": the results list the property without its occupancy_max when it is
\* on the page on display, with it when only all_search_results holds it
BookSelected ==
    /\ Unclaimed(soft) /\ soft.details_shown /\ soft.last_selected_property_id # None
    /\ \E found \in {None} \cup [ property : {soft.last_selected_property_id},
                                  occupancy_max : {None, Capacity[soft.last_selected_property_id]} ] :
          soft' = StartBooking(soft, found)
    /\ UNCHANGED <<rows, issued>>

-----------------------------------------------------------------------------
(* Collecting and reviewing.                                                 *)

\* any message while details are collected: the handler reads what it can from it
ProvideDetails ==
    /\ Unclaimed(soft)
    /\ soft.booking_stage \in {"collecting_details", "modifying_details"}
    /\ \E msg \in Message : soft' = Collect(soft, msg, soft.booking_stage)
    /\ UNCHANGED <<rows, issued>>

\* "yes" to the review; the result of the insert is not looked at
ConfirmReview(id, outcome) ==
    /\ Unclaimed(soft)
    /\ soft.booking_stage = "awaiting_confirmation" /\ soft.booking_review # None
    /\ id \notin issued
    /\ issued' = issued \cup {id}
    /\ rows' = IF outcome = "failed" THEN rows
               ELSE [rows EXCEPT ![id] = ReceiptOf(soft.booking_review, id)]
    /\ soft' = StoreConfirmation(soft, id)

\* an amendment verb ("change ...") is taken by the amendment handler once the
\* session holds a receipt; without a verb a review can be refused, not modified
MayModify ==
    \/ soft.booking_stage = "awaiting_modification_choice"
    \/ soft.booking_stage = "awaiting_confirmation" /\ soft.booking_receipt = None

DeclineReview ==
    /\ Unclaimed(soft) /\ soft.booking_stage = "awaiting_confirmation"
    /\ \E viewKept \in BOOLEAN : /\ viewKept => soft.booking_receipt = None
                                 /\ soft' = RefuseReview(soft, viewKept)
    /\ UNCHANGED <<rows, issued>>

ChangeProperty ==
    /\ Unclaimed(soft)
    /\ soft.booking_stage \in {"awaiting_confirmation", "awaiting_modification_choice"}
    /\ soft' = Reselect(soft)
    /\ UNCHANGED <<rows, issued>>

NameChange ==
    /\ Unclaimed(soft) /\ MayModify
    /\ \E field \in Field : soft' = AskForChange(soft, field)
    /\ UNCHANGED <<rows, issued>>

\* "change guests to 3"
ChangeInline ==
    /\ Unclaimed(soft) /\ MayModify
    /\ \E msg \in Message :
          /\ \E f \in Field : msg[f] \notin {None, Bad}
          /\ soft' = Collect(soft, msg, "modifying_details")
    /\ UNCHANGED <<rows, issued>>

\* "continue booking", or the resume cue after a policy question
ResumeBooking ==
    /\ Unclaimed(soft) /\ soft.booking_stage # "none"
    /\ soft' = Resume(soft)
    /\ UNCHANGED <<rows, issued>>

-----------------------------------------------------------------------------
(* After confirmation.                                                       *)

NoCancellationPending == soft.booking_cancellation.stage = "none"

\* what an amendment can be of: the session's receipt; in a session without one the
\* message must carry the id of a booking that is found
AmendableReceipts == IF soft.booking_receipt # None THEN {soft.booking_receipt}
                     ELSE {rows[id] : id \in BookingId} \ {None}

\* a message with an amendment verb, at any stage of the next booking too
RequestAmendment ==
    /\ Unclaimed(soft)
    /\ \E receipt \in AmendableReceipts :
       \E fields \in SUBSET Field : \E msg \in MessageAbout[fields] :
          soft' = AmendmentTurn([soft EXCEPT !.booking_receipt = receipt], fields, msg)
    /\ UNCHANGED <<rows, issued>>

\* every message is an answer to the question which details to change ...
ChooseAmendment ==
    /\ NoCancellationPending /\ soft.booking_stage = "awaiting_amendment_choice"
    /\ \E fields \in SUBSET Field : \E msg \in MessageAbout[fields] :
          soft' = AmendmentTurn(soft, fields, msg)
    /\ UNCHANGED <<rows, issued>>

\* ... and to the question for their values
GiveAmendmentValues ==
    /\ NoCancellationPending /\ soft.booking_stage = "awaiting_amendment_values"
    /\ \E msg \in MessageAbout[soft.pending_booking_amendment.fields] :
          soft' = AmendmentTurn(soft, {}, msg)
    /\ UNCHANGED <<rows, issued>>

\* mutant: the result of the update is not looked at
ConfirmAmendmentUnchecked(outcome) ==
    LET pending == soft.pending_booking_amendment
        receipt == pending.candidate_receipt
        stored  == rows[receipt.booking_id]
    IN  /\ NoCancellationPending
        /\ soft.booking_stage = "awaiting_amendment_confirmation"
        /\ rows' = IF stored = None \/ outcome = "failed" THEN rows
                   ELSE [rows EXCEPT ![receipt.booking_id] =
                            WithColumns(stored, pending.fields, receipt)]
        /\ soft' = StoreAmendment(soft)
        /\ UNCHANGED issued

ConfirmAmendment(outcome) ==
    LET pending == soft.pending_booking_amendment
        receipt == pending.candidate_receipt
        stored  == rows[receipt.booking_id]
    IN  /\ NoCancellationPending
        /\ soft.booking_stage = "awaiting_amendment_confirmation"
        /\ rows' = IF stored = None \/ outcome = "failed" THEN rows
                   ELSE [rows EXCEPT ![receipt.booking_id] =
                            WithColumns(stored, pending.fields, receipt)]
        /\ soft' = IF stored # None /\ outcome = "ok" THEN StoreAmendment(soft) ELSE soft
        /\ UNCHANGED issued

ReopenAmendment ==
    /\ NoCancellationPending
    /\ soft.booking_stage = "awaiting_amendment_confirmation"
    /\ \E fields \in SUBSET Field : soft' = ReviseAmendment(soft, fields)
    /\ UNCHANGED <<rows, issued>>

\* a request to cancel, or any message while the id is awaited; a booking that
\* cannot be found, or read, is asked for again
RequestCancellation ==
    /\ soft.booking_cancellation.stage # "awaiting_confirmation"
    /\ \/ soft' = AskForCancellationId(soft)
       \/ \E id \in BookingId : /\ rows[id] # None
                                /\ soft' = AskToConfirmCancellation(soft, id)
    /\ UNCHANGED <<rows, issued>>

ConfirmCancellation(outcome, marked) ==
    LET id == soft.booking_cancellation.id
    IN  /\ soft.booking_cancellation.stage = "awaiting_confirmation"
        /\ rows' = IF rows[id] = None \/ outcome = "failed" THEN rows
                   ELSE [rows EXCEPT ![id].status = "cancelled"]
        /\ soft' = IF rows[id] # None /\ outcome = "ok"
                   THEN StoreCancellation(soft, marked) ELSE soft
        /\ UNCHANGED issued

KeepBooking ==
    /\ soft.booking_cancellation.stage # "none"
    /\ soft' = DropCancellation(soft)
    /\ UNCHANGED <<rows, issued>>

IdsInSession == {receipt.booking_id : receipt \in SessionReceipts(soft)}

\* what a status question finds: a receipt of the session first, then the row of the
\* id in the message
StatusReceipts == SessionReceipts(soft) \cup ({rows[id] : id \in BookingId \ IdsInSession} \ {None})

\* a status question that no earlier handler takes
CheckStatus ==
    /\ Unclaimed(soft) /\ soft.pending_booking_amendment = None
    /\ soft.booking_stage \in {"none", "awaiting_confirmation", "confirmed"}
    /\ \E receipt \in StatusReceipts : soft' = StoreReceipt(soft, receipt)
    /\ UNCHANGED <<rows, issued>>

\* the session's time to live runs out
ExpireSession ==
    /\ soft # EmptySoftState
    /\ soft' = EmptySoftState
    /\ UNCHANGED <<rows, issued>>

Next ==
    \/ \E p \in Property : SelectProperty(p)
    \/ ShowResults \/ BookSelected
    \/ ProvideDetails \/ NameChange \/ ChangeInline
    \/ \E id \in BookingId, outcome \in Outcome : ConfirmReview(id, outcome)
    \/ DeclineReview \/ ChangeProperty \/ ResumeBooking
    \/ RequestAmendment \/ ChooseAmendment \/ GiveAmendmentValues
    \/ \E outcome \in Outcome : ConfirmAmendment(outcome)
    \/ ReopenAmendment \/ RequestCancellation \/ KeepBooking
    \/ \E outcome \in Outcome, marked \in BOOLEAN : ConfirmCancellation(outcome, marked)
    \/ CheckStatus \/ ExpireSession

Spec == Init /\ [][Next]_vars

-----------------------------------------------------------------------------
(* What must hold of every session.                                          *)

\* The state has the shape the handlers read and write.
TypeOK == /\ soft \in SoftState
          /\ rows \in [BookingId -> Receipt \cup {None}]
          /\ issued \subseteq BookingId

\* The details collected so far never contradict each other: the dates are in
\* order and the guests fit the selected property as far as its capacity is known.
DraftOK ==
    /\ Ordered(soft.booking_state)
    /\ ~OverCapacity(soft.booking_state.guests, soft.booking_selected_property)

\* Whatever path leads to the review (answers, corrections, another property,
\* "continue booking" after a policy question or after a confirmation), the review
\* the guest is asked to confirm shows the current details, complete and valid, and
\* no question is left open (creation.py:207 takes a "yes" at its word).
ReviewReady ==
    soft.booking_stage = "awaiting_confirmation" =>
        /\ soft.booking_review = soft.booking_state
        /\ MissingFields(soft.booking_state) = {}
        /\ Ordered(soft.booking_state)
        /\ ~OverCapacity(soft.booking_state.guests, soft.booking_selected_property)
        /\ soft.awaiting_field = None

\* awaiting_field is set exactly while an answer to a question about one field is
\* expected, however amendments, cancellations, status checks and resumptions are
\* interleaved with the collection (specs/session_state_contract.md:89).
AwaitingMeaning ==
    soft.awaiting_field # None <=>
        soft.booking_stage \in {"collecting_details", "modifying_details",
                               "awaiting_amendment_values"}

\* The stage and the pending amendment are stored by different handlers; they must
\* agree, and an amendment offered for confirmation must be one of the booking the
\* session holds, complete, ordered, and within the selected property's known
\* capacity (amendment.py:182-302).
AmendmentCoherent ==
    LET pending   == soft.pending_booking_amendment
        candidate == pending.candidate_receipt
    IN  /\ soft.booking_stage \in AmendmentStage <=> pending # None
        /\ pending # None =>
               /\ soft.booking_receipt # None
               /\ pending.base_receipt.booking_id = soft.booking_receipt.booking_id
               /\ soft.booking_stage = "awaiting_amendment_choice" <=> pending.fields = {}
               /\ soft.booking_stage = "awaiting_amendment_confirmation" <=> candidate # None
        /\ pending # None /\ candidate # None =>
               /\ candidate.booking_id = soft.booking_receipt.booking_id
               /\ MissingFields(candidate) = {} /\ Ordered(candidate)
               /\ "guests" \in pending.fields =>
                      ~OverCapacity(candidate.guests, soft.booking_selected_property)

\* A guest who is asked for new values is never in a loop of questions: as long as
\* the booking under amendment is itself acceptable, some answer leads to the
\* confirmation (every message is an answer while the values are awaited).
AmendmentCanComplete ==
    LET pending == soft.pending_booking_amendment
    IN  /\ soft.booking_stage = "awaiting_amendment_values"
        /\ Ordered(pending.base_receipt)
        /\ ~OverCapacity(pending.base_receipt.guests, soft.booking_selected_property)
        => \E msg \in MessageAbout[pending.fields] :
              AmendmentTurn(soft, {}, msg).booking_stage = "awaiting_amendment_confirmation"

-----------------------------------------------------------------------------
(* What a turn may never do.                                                 *)

\* No turn loses a detail the guest gave unless it was found invalid, and then the
\* guest is asked again: contact data are never dropped, a check-in only together
\* with the check-out that depends on it (specs/booking_workflow.md:93).
ValidDetailsSurvive ==
    [][ LET lost == MissingFields(soft'.booking_state) \ MissingFields(soft.booking_state)
        IN  soft' # EmptySoftState =>
                /\ "contact" \notin lost
                /\ "check_in" \in lost => /\ soft'.booking_state.check_out = None
                                          /\ soft'.awaiting_field = "check_in"
                /\ "check_out" \in lost => soft'.awaiting_field \in {"check_in", "check_out"}
                /\ "guests" \in lost => /\ soft'.awaiting_field # None
                                        /\ soft'.booking_selected_property.occupancy_max # None
      ]_vars

\* what the guest said yes to in the turn that writes the row of id
ConfirmedWrite(id) ==
    \/ /\ rows[id] = None /\ id \notin issued
       /\ soft.booking_stage = "awaiting_confirmation"
       /\ rows'[id] = ReceiptOf(soft.booking_state, id)
    \/ /\ rows[id] # None
       /\ soft.booking_stage = "awaiting_amendment_confirmation"
       /\ soft.booking_cancellation.stage = "none"
       /\ soft.booking_receipt.booking_id = id
       /\ \A f \in Field : rows'[id][f] # rows[id][f] =>
             /\ f \in soft.pending_booking_amendment.fields
             /\ rows'[id][f] = soft.pending_booking_amendment.candidate_receipt[f]
    \/ /\ rows[id] # None
       /\ soft.booking_cancellation = [stage |-> "awaiting_confirmation", id |-> id]
       /\ rows'[id] = [rows[id] EXCEPT !.status = "cancelled"]

\* A row of successful_bookings changes only in the turn in which the guest says yes
\* to exactly that change: a registration to the review, an amendment to its
\* candidate, a cancellation to its id (specs/booking_workflow.md:74).
WritesAreConfirmed ==
    [][ \A id \in BookingId : rows'[id] # rows[id] => ConfirmedWrite(id) ]_vars

\* The session's receipt of a booking changes only when the database holds the
\* change: neither a failed write nor a vanished row tells the guest of a success
\* (tests/tests/test_booking_amendment_flow.py:257).
ReceiptFollowsRow ==
    [][ LET old     == soft.booking_receipt
            new     == soft'.booking_receipt
            pending == soft.pending_booking_amendment
            row     == rows'[new.booking_id]
        IN  old # None /\ new # None /\ new # old /\ new.booking_id = old.booking_id =>
                /\ row # None
                /\ new.status = "cancelled" => row.status = "cancelled"
                /\ \A f \in Field : new[f] # old[f] =>
                      /\ soft.booking_stage = "awaiting_amendment_confirmation"
                      /\ f \in pending.fields => row[f] = new[f]
      ]_vars

\* A turn of the cancellation dialogue leaves the booking or the amendment it
\* interrupts exactly where it was (specs/booking_workflow.md:136).
CancellationPreservesFlow ==
    [][ soft'.booking_cancellation # soft.booking_cancellation /\ soft' # EmptySoftState =>
            soft' = [soft EXCEPT !.booking_receipt = soft'.booking_receipt,
                                 !.booking_cancellation = soft'.booking_cancellation] ]_vars

\* Whatever the conversation, the table sees registrations, amendments and
\* cancellations as BookingLedger describes them.
Ledger == INSTANCE BookingLedger

ImplementsLedger == Ledger!LedgerSpec
=============================================================================

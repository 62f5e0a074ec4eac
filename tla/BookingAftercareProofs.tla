------------------------- MODULE BookingAftercareProofs -----------------------
(***************************************************************************)
(* Proofs about confirmed bookings, for every value of the constants: the  *)
(* pending amendment, the session's receipt and the rows of                *)
(* successful_bookings always belong together, rows change only as the     *)
(* guest confirmed, and the table keeps the promises of BookingLedger.     *)
(***************************************************************************)
EXTENDS BookingFlowProofs

(* What an amendment and the receipt it starts from have to do with each     *)
(* other, beyond AmendmentCoherent: both are complete.                       *)
PendingLinked(s) ==
    LET pending   == s.pending_booking_amendment
        candidate == pending.candidate_receipt
    IN  pending # None =>
          /\ pending.base_receipt.booking_id = s.booking_receipt.booking_id
          /\ MissingFields(pending.base_receipt) = {}
          /\ s.booking_stage = "awaiting_amendment_choice" <=> pending.fields = {}
          /\ s.booking_stage = "awaiting_amendment_confirmation" <=> candidate # None
          /\ candidate # None =>
                /\ candidate.booking_id = s.booking_receipt.booking_id
                /\ MissingFields(candidate) = {} /\ Ordered(candidate)
                /\ ~OverCapacity(candidate.guests, s.booking_selected_property)

Linked(s) == /\ s.booking_receipt # None => MissingFields(s.booking_receipt) = {}
             /\ PendingLinked(s)

\* a row is complete, filed under its own id, and that id was handed out
RowsLinked == \A id \in BookingId :
                rows[id] # None => /\ id \in issued /\ rows[id].booking_id = id
                                   /\ MissingFields(rows[id]) = {}

LInv == IInv /\ Linked(soft) /\ RowsLinked

-----------------------------------------------------------------------------
(* Booking another stay does not touch what is confirmed.                    *)

\* A turn that leaves the receipt alone and no amendment pending keeps Linked.
LEMMA LinkedAtRest ==
    ASSUME NEW t, t.pending_booking_amendment = None,
           t.booking_receipt # None => MissingFields(t.booking_receipt) = {}
    PROVE  Linked(t)
  BY DEF Linked, PendingLinked

Untouched(t, s) == /\ t.pending_booking_amendment = s.pending_booking_amendment
                   /\ t.booking_receipt = s.booking_receipt
                   /\ t.booking_cancellation = s.booking_cancellation

\* Committing the values of a message touches neither receipt nor amendment, nor a
\* cancellation.
LEMMA CollectUntouched ==
    ASSUME NEW s \in SoftState, NEW msg, NEW stage
    PROVE  Untouched(Collect(s, msg, stage), s)
<1>. DEFINE d    == Committed(Seeded(s), msg, s.booking_selected_property)
            next == NextField(Seeded(s), msg, s.booking_selected_property)
<1>. HIDE DEF d, next
<1>1. Untouched(PresentReview(s, d), s)
  BY Zenon DEF Untouched, PresentReview, SoftState
<1>2. Untouched([s EXCEPT !.booking_stage = stage, !.details_shown = FALSE,
                          !.booking_state = d, !.awaiting_field = next], s)
  BY Zenon DEF Untouched, SoftState
<1>. QED
  BY <1>1, <1>2, Zenon DEF Collect, d, next

\* Neither does starting a booking ...
LEMMA StartBookingUntouched ==
    ASSUME NEW s \in SoftState, NEW found \in Selected \cup {None}
    PROVE  Untouched(StartBooking(s, found), s)
<1>. DEFINE p    == s.last_selected_property_id
            kept == s.booking_selected_property
            selected == IF found = None \/ (kept # None /\ kept.property = p)
                        THEN kept ELSE found
            t == [s EXCEPT !.booking_property_id = p,
                           !.booking_selected_property = selected]
<1>1. p \in Property \cup {None} /\ selected \in Selected \cup {None}
  BY DEF SoftState
<1>. HIDE DEF p, selected
<1>2. t \in SoftState /\ Untouched(t, s)
  BY <1>1 DEF SoftState, Untouched
<1>. HIDE DEF t
<1>3. Untouched(Collect(t, NoMessage, "collecting_details"), t)
  BY <1>2, CollectUntouched
<1>4. Untouched(Collect(t, NoMessage, "collecting_details"), s)
  BY <1>2, <1>3 DEF Untouched
<1>. QED
  BY <1>4, Zenon DEF StartBooking, p, selected, t

\* ... nor resuming one ...
LEMMA ResumeUntouched ==
    ASSUME NEW s \in SoftState
    PROVE  Untouched(Resume(s), s)
<1>. DEFINE d == Seeded(s)
            t == [s EXCEPT !.booking_state = d]
<1>1. d \in Draft
  BY SeededType
<1>. HIDE DEF d
<1>2. t \in SoftState /\ Untouched(t, s)
  BY <1>1 DEF SoftState, Untouched
<1>. HIDE DEF t
<1>3. Untouched([t EXCEPT !.booking_stage = "awaiting_confirmation",
                          !.booking_review = t.booking_state], t)
  BY <1>2, Zenon DEF Untouched, SoftState
<1>4. Untouched([t EXCEPT !.booking_stage = "awaiting_confirmation",
                          !.booking_review = t.booking_state], s)
  BY <1>2, <1>3 DEF Untouched
<1>. QED
  BY <1>2, <1>4, Zenon DEF Resume, t, d

\* ... nor an answer to a review that asks for something else.
LEMMA ReviewHandlersUntouched ==
    ASSUME NEW s \in SoftState
    PROVE  /\ \A p \in Property : Untouched(ShowDetails(s, p), s)
           /\ Untouched([s EXCEPT !.details_shown = FALSE], s)
           /\ \A viewKept \in BOOLEAN : Untouched(RefuseReview(s, viewKept), s)
           /\ Untouched(Reselect(s), s)
           /\ \A field \in Field : Untouched(AskForChange(s, field), s)
  BY Zenon DEF ShowDetails, RefuseReview, Reselect, AskForChange, Untouched, SoftState

-----------------------------------------------------------------------------
(* An amendment stays the amendment of one complete booking.                 *)

\* The candidate of an amendment is of the booking it amends, and complete when
\* that booking is: a value that cannot be used leaves the old one in place.
LEMMA AmendedComplete ==
    ASSUME NEW receipt \in Receipt, MissingFields(receipt) = {},
           NEW fields \in SUBSET Field, NEW msg \in Message
    PROVE  /\ Amended(receipt, fields, msg).booking_id = receipt.booking_id
           /\ MissingFields(Amended(receipt, fields, msg)) = {}
<1>. DEFINE value(f) == IF f \in fields THEN Given(msg[f], receipt[f]) ELSE receipt[f]
            c == [receipt EXCEPT !.contact = value("contact"),
                                 !.check_in = value("check_in"),
                                 !.check_out = value("check_out"),
                                 !.guests = value("guests")]
<1>1. \A f \in Field : receipt[f] # None
  BY DEF MissingFields
<1>2. \A f \in Field : value(f) # None
  BY <1>1 DEF Given
<1>. HIDE DEF value
<1>3. /\ c.booking_id = receipt.booking_id
      /\ c.contact = value("contact") /\ c.check_in = value("check_in")
      /\ c.check_out = value("check_out") /\ c.guests = value("guests")
  BY Zenon DEF Receipt
<1>. HIDE DEF c
<1>4. MissingFields(c) = {}
  BY <1>2, <1>3 DEF MissingFields, Field
<1>. QED
  BY <1>3, <1>4, Zenon DEF Amended, c, value

\* The questions and the offer of the amendment dialogue keep Linked.
LEMMA AmendmentAskersLinked ==
    ASSUME NEW s \in SoftState, s.booking_receipt # None,
           MissingFields(s.booking_receipt) = {},
           NEW receipt \in Receipt, MissingFields(receipt) = {},
           receipt.booking_id = s.booking_receipt.booking_id
    PROVE  /\ Linked(AskForAmendmentChoice(s, receipt))
           /\ \A fields \in SUBSET Field : \A asked :
                 fields # {} => Linked(AskForAmendmentValues(s, receipt, fields, asked))
           /\ \A fields \in SUBSET Field : \A candidate \in Receipt :
                 /\ fields # {}
                 /\ candidate.booking_id = receipt.booking_id
                 /\ MissingFields(candidate) = {} /\ Ordered(candidate)
                 /\ ~OverCapacity(candidate.guests, s.booking_selected_property)
                 => Linked(OfferAmendment(s, receipt, fields, candidate))
<1>1. Linked(AskForAmendmentChoice(s, receipt))
  <2>. DEFINE t == AskForAmendmentChoice(s, receipt)
  <2>1. /\ t.booking_stage = "awaiting_amendment_choice"
        /\ t.booking_receipt = s.booking_receipt
        /\ t.pending_booking_amendment =
              [base_receipt |-> receipt, candidate_receipt |-> None, fields |-> {}]
    BY Zenon DEF AskForAmendmentChoice, SoftState
  <2>. HIDE DEF t
  <2>2. Linked(t)
    BY <2>1 DEF Linked, PendingLinked
  <2>. QED
    BY <2>2 DEF t
<1>2. ASSUME NEW fields \in SUBSET Field, NEW asked, fields # {}
      PROVE  Linked(AskForAmendmentValues(s, receipt, fields, asked))
  <2>. DEFINE t == AskForAmendmentValues(s, receipt, fields, asked)
  <2>1. /\ t.booking_stage = "awaiting_amendment_values"
        /\ t.booking_receipt = s.booking_receipt
        /\ t.pending_booking_amendment =
              [base_receipt |-> receipt, candidate_receipt |-> None, fields |-> fields]
    BY Zenon DEF AskForAmendmentValues, SoftState
  <2>. HIDE DEF t
  <2>2. Linked(t)
    BY <1>2, <2>1 DEF Linked, PendingLinked
  <2>. QED
    BY <2>2 DEF t
<1>3. ASSUME NEW fields \in SUBSET Field, NEW candidate \in Receipt, fields # {},
             candidate.booking_id = receipt.booking_id,
             MissingFields(candidate) = {}, Ordered(candidate),
             ~OverCapacity(candidate.guests, s.booking_selected_property)
      PROVE  Linked(OfferAmendment(s, receipt, fields, candidate))
  <2>. DEFINE t == OfferAmendment(s, receipt, fields, candidate)
  <2>1. /\ t.booking_stage = "awaiting_amendment_confirmation"
        /\ t.booking_receipt = s.booking_receipt
        /\ t.booking_selected_property = s.booking_selected_property
        /\ t.pending_booking_amendment =
              [base_receipt |-> receipt, candidate_receipt |-> candidate, fields |-> fields]
    BY Zenon DEF OfferAmendment, SoftState
  <2>2. candidate # None
    BY RecordAssumption
  <2>. HIDE DEF t
  <2>3. Linked(t)
    BY <1>3, <2>1, <2>2 DEF Linked, PendingLinked
  <2>. QED
    BY <2>3 DEF t
<1>. QED
  BY <1>1, <1>2, <1>3

\* Any turn of the amendment dialogue before its confirmation keeps Linked: what is
\* offered is complete, ordered and within the known capacity, whatever the guest
\* named and gave.
LEMMA AmendmentTurnLinked ==
    ASSUME NEW s \in SoftState, Linked(s), s.booking_receipt # None,
           s.booking_stage = "awaiting_amendment_values"
              => s.pending_booking_amendment # None,
           NEW named \in SUBSET Field, NEW msg \in Message
    PROVE  Linked(AmendmentTurn(s, named, msg))
<1>. DEFINE pending   == s.pending_booking_amendment
            receipt   == AmendmentReceipt(s)
            fields    == IF s.booking_stage = "awaiting_amendment_values"
                         THEN pending.fields ELSE named
            candidate == Amended(receipt, fields, msg)
            selected  == s.booking_selected_property
            asked     == IF Unusable(fields, msg) # {} THEN Unusable(fields, msg)
                         ELSE AmendErrors(candidate, fields, selected)
<1>1. /\ s.booking_receipt \in Receipt /\ MissingFields(s.booking_receipt) = {}
      /\ pending # None => pending \in Amendment
  BY DEF SoftState, Linked
<1>2. pending # None =>
         /\ pending.base_receipt \in Receipt /\ pending.fields \in SUBSET Field
         /\ pending.base_receipt.booking_id = s.booking_receipt.booking_id
         /\ MissingFields(pending.base_receipt) = {}
         /\ pending.candidate_receipt # None =>
               /\ pending.candidate_receipt \in Receipt
               /\ pending.candidate_receipt.booking_id = s.booking_receipt.booking_id
               /\ MissingFields(pending.candidate_receipt) = {}
  BY <1>1 DEF Linked, PendingLinked, Amendment
<1>3. /\ receipt \in Receipt /\ MissingFields(receipt) = {}
      /\ receipt.booking_id = s.booking_receipt.booking_id
  BY <1>1, <1>2 DEF AmendmentReceipt
<1>4. fields \in SUBSET Field
  BY <1>2
<1>. HIDE DEF receipt, fields
<1>5. /\ candidate \in Receipt /\ candidate.booking_id = receipt.booking_id
      /\ MissingFields(candidate) = {}
  BY <1>3, <1>4, AmendedType, AmendedComplete
<1>. HIDE DEF candidate
<1>6. asked = {} => Ordered(candidate) /\ ~OverCapacity(candidate.guests, selected)
  BY DEF AmendErrors
<1>. HIDE DEF asked
<1>7. /\ Linked(AskForAmendmentChoice(s, receipt))
      /\ fields # {} => Linked(AskForAmendmentValues(s, receipt, fields, asked))
      /\ fields # {} /\ asked = {} => Linked(OfferAmendment(s, receipt, fields, candidate))
  BY <1>1, <1>3, <1>4, <1>5, <1>6, AmendmentAskersLinked
<1>. QED
  BY <1>7, Zenon DEF AmendmentTurn, pending, receipt, fields, candidate, asked, selected

\* So does reopening the amendment at its confirmation ...
LEMMA ReviseAmendmentLinked ==
    ASSUME NEW s, Sound(s), Linked(s),
           s.booking_stage = "awaiting_amendment_confirmation",
           NEW named \in SUBSET Field
    PROVE  Linked(ReviseAmendment(s, named))
<1>. DEFINE pending == s.pending_booking_amendment
            fields  == IF named # {} THEN named ELSE pending.fields
<1>1. /\ s \in SoftState /\ s.booking_receipt # None
      /\ pending # None /\ pending.candidate_receipt # None /\ pending.fields # {}
  BY DEF Sound, PendingSound, AmendmentStage
<1>2. pending \in Amendment
  BY <1>1 DEF SoftState
<1>3. /\ pending.candidate_receipt \in Receipt /\ fields \in SUBSET Field /\ fields # {}
      /\ MissingFields(pending.candidate_receipt) = {}
      /\ pending.candidate_receipt.booking_id = s.booking_receipt.booking_id
      /\ MissingFields(s.booking_receipt) = {}
  BY <1>1, <1>2 DEF Amendment, Linked, PendingLinked
<1>. HIDE DEF pending, fields
<1>4. Linked(AskForAmendmentValues(s, pending.candidate_receipt, fields, fields))
  BY <1>1, <1>3, AmendmentAskersLinked
<1>. QED
  BY <1>4, Zenon DEF ReviseAmendment, pending, fields

\* ... and storing it, which makes the candidate the receipt.
LEMMA StoreAmendmentLinked ==
    ASSUME NEW s, Sound(s), Linked(s), s.booking_stage = "awaiting_amendment_confirmation"
    PROVE  Linked(StoreAmendment(s))
<1>. DEFINE candidate == s.pending_booking_amendment.candidate_receipt
            r == StoreReceipt(s, candidate)
            t == [r EXCEPT !.pending_booking_amendment = None, !.awaiting_field = None]
<1>1. /\ s \in SoftState /\ s.pending_booking_amendment # None /\ candidate # None
  BY DEF Sound, PendingSound, AmendmentStage
<1>2. candidate \in Receipt /\ MissingFields(candidate) = {}
  BY <1>1 DEF SoftState, Amendment, Linked, PendingLinked
<1>. HIDE DEF candidate
<1>3. r \in SoftState
  BY <1>1, <1>2, StoreReceiptType
<1>4. r.booking_receipt = candidate
  BY <1>1, Zenon DEF StoreReceipt, SoftState
<1>. HIDE DEF r
<1>5. t.booking_receipt = candidate /\ t.pending_booking_amendment = None
  BY <1>3, <1>4, Zenon DEF SoftState
<1>. HIDE DEF t
<1>6. Linked(t)
  BY <1>2, <1>5, LinkedAtRest
<1>. QED
  BY <1>6, Zenon DEF StoreAmendment, t, r, candidate

\* A cancellation changes at most the status of the receipt.
LEMMA CancellationHandlersLinked ==
    ASSUME NEW s \in SoftState, Linked(s),
           s.pending_booking_amendment # None => s.booking_receipt # None
    PROVE  /\ Linked(AskForCancellationId(s))
           /\ \A id \in BookingId : Linked(AskToConfirmCancellation(s, id))
           /\ Linked(DropCancellation(s))
           /\ \A marked \in BOOLEAN : Linked(StoreCancellation(s, marked))
<1>1. ASSUME NEW t, NEW receipt,
             t.booking_stage = s.booking_stage,
             t.booking_selected_property = s.booking_selected_property,
             t.pending_booking_amendment = s.pending_booking_amendment,
             t.booking_receipt = receipt,
             receipt = s.booking_receipt
                \/ /\ s.booking_receipt # None
                   /\ receipt.booking_id = s.booking_receipt.booking_id
                   /\ MissingFields(receipt) = {}
      PROVE  Linked(t)
  BY <1>1 DEF Linked, PendingLinked
<1>2. \A marked \in BOOLEAN :
         \/ MarkedReceipt(s, marked) = s.booking_receipt
         \/ /\ s.booking_receipt # None
            /\ MarkedReceipt(s, marked).booking_id = s.booking_receipt.booking_id
            /\ MissingFields(MarkedReceipt(s, marked)) = {}
  <2>. DEFINE receipt == s.booking_receipt
              cancelled == [receipt EXCEPT !.status = "cancelled"]
  <2>1. receipt # None => receipt \in Receipt /\ MissingFields(receipt) = {}
    BY DEF SoftState, Linked
  <2>. HIDE DEF receipt
  <2>2. receipt # None => /\ cancelled.booking_id = receipt.booking_id
                          /\ \A f \in Field : cancelled[f] = receipt[f]
    BY <2>1 DEF Receipt, Field
  <2>3. receipt # None => MissingFields(cancelled) = {}
    BY <2>1, <2>2 DEF MissingFields
  <2>. QED
    BY <2>2, <2>3, Zenon DEF MarkedReceipt, receipt
<1>3. /\ AskForCancellationId(s).pending_booking_amendment
            = s.pending_booking_amendment
      /\ AskForCancellationId(s).booking_receipt = s.booking_receipt
      /\ AskForCancellationId(s).booking_stage = s.booking_stage
      /\ AskForCancellationId(s).booking_selected_property = s.booking_selected_property
      /\ DropCancellation(s).pending_booking_amendment
            = s.pending_booking_amendment
      /\ DropCancellation(s).booking_receipt = s.booking_receipt
      /\ DropCancellation(s).booking_stage = s.booking_stage
      /\ DropCancellation(s).booking_selected_property = s.booking_selected_property
  BY Zenon DEF AskForCancellationId, DropCancellation, SoftState
<1>4. \A id \in BookingId :
         /\ AskToConfirmCancellation(s, id).pending_booking_amendment
               = s.pending_booking_amendment
         /\ AskToConfirmCancellation(s, id).booking_receipt = s.booking_receipt
         /\ AskToConfirmCancellation(s, id).booking_stage = s.booking_stage
         /\ AskToConfirmCancellation(s, id).booking_selected_property
               = s.booking_selected_property
  BY Zenon DEF AskToConfirmCancellation, SoftState
<1>5. \A marked \in BOOLEAN :
         /\ StoreCancellation(s, marked).booking_stage = s.booking_stage
         /\ StoreCancellation(s, marked).booking_selected_property
               = s.booking_selected_property
         /\ StoreCancellation(s, marked).pending_booking_amendment
               = s.pending_booking_amendment
         /\ StoreCancellation(s, marked).booking_receipt = MarkedReceipt(s, marked)
  BY Zenon DEF StoreCancellation, SoftState
<1>6. Linked(AskForCancellationId(s)) /\ Linked(DropCancellation(s))
  BY <1>1, <1>3
<1>7. \A id \in BookingId : Linked(AskToConfirmCancellation(s, id))
  BY <1>1, <1>4
<1>8. \A marked \in BOOLEAN : Linked(StoreCancellation(s, marked))
  BY <1>1, <1>2, <1>5
<1>. QED
  BY <1>6, <1>7, <1>8

-----------------------------------------------------------------------------
(* What each kind of write does to the table.                                *)

\* A step writes only as the guest confirmed, and as the ledger allows.
Writes == /\ \A id \in BookingId : rows'[id] # rows[id] => ConfirmedWrite(id)
          /\ [Ledger!LedgerNext]_rows

\* The ledger speaks of the same receipts and fields.
LEMMA LedgerTerms ==
    /\ Ledger!Receipt = Receipt
    /\ \A row : Ledger!Complete(row) <=> MissingFields(row) = {}
<1>1. Ledger!Status = Status /\ Ledger!Field = Field
  BY DEF Ledger!Status, Status, Ledger!Field, Field
<1>2. Ledger!Receipt = Receipt
  BY <1>1, Zenon DEF Ledger!Receipt, Receipt
<1>3. \A row : Ledger!Complete(row) <=> MissingFields(row) = {}
  BY <1>1 DEF Ledger!Complete, MissingFields
<1>. QED
  BY <1>2, <1>3

\* A step that writes nothing is no write.
LEMMA NoWrite ==
    ASSUME RowsLinked, UNCHANGED rows, issued \subseteq issued'
    PROVE  RowsLinked' /\ Writes
  BY DEF RowsLinked, Writes

\* The yes to a review registers a complete, ordered stay under a fresh id.
LEMMA ConfirmReviewWrites ==
    ASSUME LInv, NEW id \in BookingId, NEW outcome \in Outcome,
           ConfirmReview(id, outcome)
    PROVE  Linked(soft') /\ RowsLinked' /\ Writes
<1>. DEFINE d == soft.booking_state
            receipt == ReceiptOf(soft.booking_review, id)
<1>1. /\ soft \in SoftState /\ d \in Draft /\ MissingFields(d) = {} /\ Ordered(d)
      /\ soft.booking_review = d /\ soft.booking_review # None
      /\ soft.pending_booking_amendment = None
      /\ soft.booking_stage = "awaiting_confirmation"
      /\ id \notin issued /\ rows \in [BookingId -> Receipt \cup {None}]
  BY DEF LInv, IInv, Sound, PendingSound, ReviewSound, DraftSound, ConfirmReview,
         AmendmentStage, SoftState
<1>2. /\ receipt \in Receipt /\ receipt.booking_id = id /\ receipt.status = "confirmed"
      /\ MissingFields(receipt) = {} /\ receipt.check_in < receipt.check_out
  <2>1. receipt \in Receipt
    BY <1>1, ReceiptOfType
  <2>2. d.check_in # None /\ d.check_out # None
    BY <1>1 DEF MissingFields, Field
  <2>3. MissingFields(receipt) = {}
    BY <1>1 DEF MissingFields, Field, ReceiptOf
  <2>. QED
    BY <1>1, <2>1, <2>2, <2>3 DEF Ordered, ReceiptOf
<1>3. /\ rows[id] = None /\ issued' = issued \cup {id}
      /\ rows' = rows \/ rows' = [rows EXCEPT ![id] = receipt]
  BY <1>1 DEF LInv, RowsLinked, ConfirmReview
<1>4. receipt = ReceiptOf(d, id)
  BY <1>1
<1>5. Linked(soft')
  <2>1. /\ soft'.pending_booking_amendment = None
        /\ soft'.booking_receipt = receipt
    BY <1>1, Zenon DEF ConfirmReview, StoreConfirmation, SoftState
  <2>. QED
    BY <1>2, <2>1, LinkedAtRest
<1>. HIDE DEF receipt
<1>6. CASE rows' = rows
  BY <1>3, <1>5, <1>6, NoWrite DEF LInv
<1>7. CASE rows' = [rows EXCEPT ![id] = receipt]
  <2>1. /\ rows'[id] = receipt
        /\ \A i \in BookingId : i # id => rows'[i] = rows[i]
    BY <1>1, <1>7
  <2>2. RowsLinked'
    BY <1>2, <1>3, <2>1 DEF LInv, RowsLinked
  <2>3. Ledger!Register(id)
    <3>1. rows' = [rows EXCEPT ![id] = rows'[id]]
      BY <1>7, <2>1, Zenon
    <3>2. rows'[id] \in Ledger!Receipt /\ rows'[id].booking_id = id
      BY <1>2, <2>1, LedgerTerms
    <3>3. Ledger!Write(id)
      BY <3>1, <3>2, Zenon DEF Ledger!Write
    <3>. QED
      BY <1>2, <1>3, <2>1, <3>3, LedgerTerms DEF Ledger!Register
  <2>4. \A i \in BookingId : rows'[i] # rows[i] => ConfirmedWrite(i)
    BY <1>1, <1>3, <1>4, <2>1 DEF ConfirmedWrite
  <2>. QED
    BY <1>5, <2>2, <2>3, <2>4 DEF Writes, Ledger!LedgerNext
<1>. QED
  BY <1>3, <1>6, <1>7

\* The columns of an amendment change nothing but the fields under amendment, and
\* give these the values of the candidate.
LEMMA WithColumnsWrites ==
    ASSUME NEW row \in Receipt, MissingFields(row) = {},
           NEW receipt \in Receipt, MissingFields(receipt) = {},
           NEW fields \in SUBSET Field
    PROVE  LET new == WithColumns(row, fields, receipt)
           IN  /\ new \in Receipt /\ MissingFields(new) = {}
               /\ new.booking_id = row.booking_id /\ new.status = row.status
               /\ new.property_title = row.property_title
               /\ \A f \in Field : new[f] # row[f] => f \in fields /\ new[f] = receipt[f]
<1>. DEFINE column(f) == IF f \in fields THEN receipt[f] ELSE row[f]
            new == [row EXCEPT !.contact = column("contact"),
                               !.check_in = column("check_in"),
                               !.check_out = column("check_out"),
                               !.guests = column("guests")]
<1>1. \A f \in Field : /\ column(f) # None
                       /\ column(f) # row[f] => f \in fields /\ column(f) = receipt[f]
  BY DEF MissingFields
<1>. HIDE DEF column
<1>2. /\ new.booking_id = row.booking_id /\ new.status = row.status
      /\ new.property_title = row.property_title
      /\ new.contact = column("contact") /\ new.check_in = column("check_in")
      /\ new.check_out = column("check_out") /\ new.guests = column("guests")
  BY Zenon DEF Receipt
<1>3. new = WithColumns(row, fields, receipt)
  BY Zenon DEF WithColumns, column
<1>. HIDE DEF new
<1>4. \A f \in Field : new[f] = column(f)
  BY <1>2 DEF Field
<1>5. MissingFields(new) = {}
  BY <1>1, <1>4 DEF MissingFields
<1>6. new \in Receipt
  BY <1>3, WithColumnsType
<1>. QED
  BY <1>1, <1>2, <1>3, <1>4, <1>5, <1>6

\* The yes to an amendment writes the fields under amendment to the session's row.
LEMMA ConfirmAmendmentWrites ==
    ASSUME LInv, NEW outcome \in Outcome, ConfirmAmendment(outcome)
    PROVE  Linked(soft') /\ RowsLinked' /\ Writes
<1>. DEFINE pending == soft.pending_booking_amendment
            receipt == pending.candidate_receipt
            id      == receipt.booking_id
            new     == WithColumns(rows[id], pending.fields, receipt)
<1>1. /\ Sound(soft) /\ Linked(soft) /\ soft \in SoftState
      /\ rows \in [BookingId -> Receipt \cup {None}] /\ RowsLinked
      /\ soft.booking_stage = "awaiting_amendment_confirmation"
      /\ soft.booking_cancellation.stage = "none"
  BY DEF LInv, IInv, Sound, ConfirmAmendment, NoCancellationPending
<1>2. pending # None /\ receipt # None
  BY <1>1 DEF Sound, PendingSound, AmendmentStage
<1>3. /\ receipt \in Receipt /\ pending.fields \in SUBSET Field
      /\ MissingFields(receipt) = {} /\ id = soft.booking_receipt.booking_id
  BY <1>1, <1>2 DEF SoftState, Amendment, Linked, PendingLinked
<1>4. id \in BookingId
  BY <1>3 DEF Receipt
<1>5. Linked(soft')
  BY <1>1, StoreAmendmentLinked DEF ConfirmAmendment
<1>6. /\ issued' = issued
      /\ rows' = rows \/ (rows[id] # None /\ rows' = [rows EXCEPT ![id] = new])
  BY DEF ConfirmAmendment
<1>7. CASE rows' = rows
  BY <1>1, <1>5, <1>6, <1>7, NoWrite
<1>8. CASE rows[id] # None /\ rows' = [rows EXCEPT ![id] = new]
  <2>1. /\ rows[id] \in Receipt /\ rows[id].booking_id = id
        /\ MissingFields(rows[id]) = {} /\ id \in issued
    BY <1>1, <1>4, <1>8 DEF RowsLinked
  <2>2. /\ new \in Receipt /\ MissingFields(new) = {}
        /\ new.booking_id = id /\ new.status = rows[id].status
        /\ new.property_title = rows[id].property_title
        /\ \A f \in Field : new[f] # rows[id][f] => f \in pending.fields /\ new[f] = receipt[f]
    BY <1>3, <2>1, WithColumnsWrites
  <2>. HIDE DEF new
  <2>3. /\ rows'[id] = new
        /\ \A i \in BookingId : i # id => rows'[i] = rows[i]
    BY <1>1, <1>4, <1>8
  <2>4. RowsLinked'
    BY <1>1, <1>6, <2>1, <2>2, <2>3 DEF RowsLinked
  <2>5. Ledger!Amend(id)
    <3>1. rows' = [rows EXCEPT ![id] = rows'[id]]
      BY <1>8, <2>3, Zenon
    <3>2. rows'[id] \in Ledger!Receipt /\ rows'[id].booking_id = id
      BY <2>2, <2>3, LedgerTerms
    <3>3. Ledger!Write(id)
      BY <3>1, <3>2, Zenon DEF Ledger!Write
    <3>. QED
      BY <1>8, <2>2, <2>3, <3>3, LedgerTerms DEF Ledger!Amend
  <2>6. ConfirmedWrite(id)
    BY <1>1, <1>3, <1>8, <2>2, <2>3 DEF ConfirmedWrite
  <2>. QED
    BY <1>4, <1>5, <2>3, <2>4, <2>5, <2>6 DEF Writes, Ledger!LedgerNext
<1>. QED
  BY <1>6, <1>7, <1>8

\* The yes to a cancellation changes the status of that row and nothing else.
LEMMA ConfirmCancellationWrites ==
    ASSUME LInv, NEW outcome \in Outcome, NEW marked \in BOOLEAN,
           ConfirmCancellation(outcome, marked)
    PROVE  Linked(soft') /\ RowsLinked' /\ Writes
<1>. DEFINE c   == soft.booking_cancellation
            id  == c.id
            new == [rows[id] EXCEPT !.status = "cancelled"]
<1>1. /\ soft \in SoftState /\ Linked(soft) /\ RowsLinked
      /\ rows \in [BookingId -> Receipt \cup {None}]
      /\ soft.pending_booking_amendment # None => soft.booking_receipt # None
      /\ c \in Cancellation /\ c.stage = "awaiting_confirmation"
  BY DEF LInv, IInv, Sound, PendingSound, ConfirmCancellation, SoftState
<1>2. Linked(soft')
  BY <1>1, CancellationHandlersLinked DEF ConfirmCancellation
<1>3. /\ issued' = issued
      /\ rows' = rows \/ (rows[id] # None /\ rows' = [rows EXCEPT ![id] = new])
  BY Zenon DEF ConfirmCancellation
<1>4. CASE rows' = rows
  BY <1>1, <1>2, <1>3, <1>4, NoWrite
<1>5. CASE id \notin BookingId /\ rows' = [rows EXCEPT ![id] = new]
  <2>1. rows' = rows
    BY <1>1, <1>5, Zenon
  <2>. QED
    BY <1>4, <2>1
<1>6. CASE id \in BookingId /\ rows[id] # None /\ rows' = [rows EXCEPT ![id] = new]
  <2>1. /\ rows[id] \in Receipt /\ rows[id].booking_id = id
        /\ MissingFields(rows[id]) = {} /\ id \in issued
    BY <1>1, <1>6 DEF RowsLinked
  <2>2. /\ new.booking_id = id
        /\ \A f \in Field : new[f] = rows[id][f]
    BY <2>1 DEF Receipt, Field
  <2>3. MissingFields(new) = {}
    BY <2>1, <2>2 DEF MissingFields
  <2>4. Ledger!Cancel(id)
    BY <1>6, Zenon DEF Ledger!Cancel
  <2>5. new = [rows[id] EXCEPT !.status = "cancelled"]
    OBVIOUS
  <2>. HIDE DEF new
  <2>6. /\ rows'[id] = new
        /\ \A i \in BookingId : i # id => rows'[i] = rows[i]
    BY <1>1, <1>6
  <2>7. RowsLinked'
    BY <1>1, <1>3, <2>1, <2>2, <2>3, <2>6 DEF RowsLinked
  <2>8. c = [stage |-> "awaiting_confirmation", id |-> id]
    BY <1>1, Zenon DEF Cancellation
  <2>9. ConfirmedWrite(id)
    BY <1>6, <2>5, <2>6, <2>8, Zenon DEF ConfirmedWrite
  <2>. QED
    BY <1>2, <1>6, <2>4, <2>6, <2>7, <2>9 DEF Writes, Ledger!LedgerNext
<1>. QED
  BY <1>3, <1>4, <1>5, <1>6

-----------------------------------------------------------------------------
(* The theorems.                                                             *)

\* A new session and an empty table satisfy the invariant.
LEMMA LInvInit == Init => LInv
<1>. SUFFICES ASSUME Init PROVE LInv
  OBVIOUS
<1>1. Linked(soft)
  <2>1. soft.pending_booking_amendment = None /\ soft.booking_receipt = None
    BY DEF Init, EmptySoftState
  <2>. QED
    BY <2>1, LinkedAtRest
<1>2. RowsLinked
  BY DEF Init, RowsLinked
<1>. QED
  BY <1>1, <1>2, IInvInit DEF LInv

\* Every turn keeps amendment, receipt and rows linked, and writes only what the
\* guest confirmed and the ledger allows.
LEMMA LInvNext == LInv /\ [Next]_vars => LInv' /\ Writes
<1>. SUFFICES ASSUME LInv, [Next]_vars
              PROVE  Linked(soft') /\ RowsLinked' /\ Writes
  BY IInvNext DEF LInv
<1>1. /\ soft \in SoftState /\ Sound(soft) /\ Linked(soft) /\ RowsLinked
      /\ rows \in [BookingId -> Receipt \cup {None}]
      /\ soft.booking_stage \in AmendmentStage <=> soft.pending_booking_amendment # None
      /\ soft.pending_booking_amendment # None => soft.booking_receipt # None
      /\ soft.booking_receipt # None => MissingFields(soft.booking_receipt) = {}
  BY DEF LInv, IInv, Sound, PendingSound, Linked
<1>2. ASSUME Unclaimed(soft), NEW t, Untouched(t, soft)
      PROVE  Linked(t)
  <2>1. soft.pending_booking_amendment = None
    BY <1>1, <1>2 DEF Unclaimed
  <2>. QED
    BY <1>1, <1>2, <2>1, LinkedAtRest DEF Untouched
<1>3. ASSUME UNCHANGED <<rows, issued>>
      PROVE  RowsLinked' /\ Writes
  BY <1>1, <1>3, NoWrite
<1>4. ASSUME NEW p \in Property, SelectProperty(p)
      PROVE  Linked(soft') /\ UNCHANGED <<rows, issued>>
  BY <1>1, <1>2, <1>4, ReviewHandlersUntouched DEF SelectProperty
<1>5. ASSUME ShowResults
      PROVE  Linked(soft') /\ UNCHANGED <<rows, issued>>
  BY <1>1, <1>2, <1>5, ReviewHandlersUntouched DEF ShowResults
<1>6. ASSUME BookSelected
      PROVE  Linked(soft') /\ UNCHANGED <<rows, issued>>
  <2>1. soft.last_selected_property_id \in Property
    BY <1>1, <1>6 DEF BookSelected, SoftState
  <2>2. PICK found \in {None} \cup [ property : {soft.last_selected_property_id},
                     occupancy_max : {None, Capacity[soft.last_selected_property_id]} ] :
          soft' = StartBooking(soft, found)
    BY <1>6 DEF BookSelected
  <2>3. found \in Selected \cup {None}
    BY <2>1, <2>2, DetailsAssumption DEF Selected
  <2>4. Untouched(soft', soft)
    BY <1>1, <2>2, <2>3, StartBookingUntouched
  <2>. QED
    BY <1>2, <1>6, <2>4 DEF BookSelected
<1>7. ASSUME ProvideDetails
      PROVE  Linked(soft') /\ UNCHANGED <<rows, issued>>
  BY <1>1, <1>2, <1>7, CollectUntouched DEF ProvideDetails
<1>8. ASSUME NEW id \in BookingId, NEW outcome \in Outcome, ConfirmReview(id, outcome)
      PROVE  Linked(soft') /\ RowsLinked' /\ Writes
  BY <1>8, ConfirmReviewWrites
<1>9. ASSUME DeclineReview
      PROVE  Linked(soft') /\ UNCHANGED <<rows, issued>>
  BY <1>1, <1>2, <1>9, ReviewHandlersUntouched DEF DeclineReview
<1>10. ASSUME ChangeProperty
       PROVE  Linked(soft') /\ UNCHANGED <<rows, issued>>
  BY <1>1, <1>2, <1>10, ReviewHandlersUntouched DEF ChangeProperty
<1>11. ASSUME NameChange
       PROVE  Linked(soft') /\ UNCHANGED <<rows, issued>>
  BY <1>1, <1>2, <1>11, ReviewHandlersUntouched DEF NameChange
<1>12. ASSUME ChangeInline
       PROVE  Linked(soft') /\ UNCHANGED <<rows, issued>>
  BY <1>1, <1>2, <1>12, CollectUntouched DEF ChangeInline
<1>13. ASSUME ResumeBooking
       PROVE  Linked(soft') /\ UNCHANGED <<rows, issued>>
  BY <1>1, <1>2, <1>13, ResumeUntouched DEF ResumeBooking
<1>14. \A fields \in SUBSET Field : MessageAbout[fields] \subseteq Message
  BY DEF MessageAbout
<1>15. ASSUME RequestAmendment
       PROVE  Linked(soft') /\ UNCHANGED <<rows, issued>>
  <2>1. PICK receipt \in IF soft.booking_receipt # None THEN {soft.booking_receipt}
                         ELSE {rows[id] : id \in BookingId} \ {None} :
        \E fields \in SUBSET Field : \E msg \in MessageAbout[fields] :
          soft' = AmendmentTurn([soft EXCEPT !.booking_receipt = receipt], fields, msg)
    BY <1>15 DEF RequestAmendment, AmendableReceipts
  <2>2. receipt \in Receipt /\ receipt # None /\ MissingFields(receipt) = {}
    BY <1>1, <2>1, RecordAssumption DEF SoftState, RowsLinked
  <2>. DEFINE s == [soft EXCEPT !.booking_receipt = receipt]
  <2>3. /\ s \in SoftState /\ s.booking_receipt = receipt
        /\ s.pending_booking_amendment = soft.pending_booking_amendment
        /\ s.booking_stage = soft.booking_stage
    BY <1>1, <2>2 DEF SoftState
  <2>4. /\ s.booking_stage # "awaiting_amendment_values"
        /\ s.pending_booking_amendment = None
    BY <1>1, <1>15, <2>3 DEF RequestAmendment, AmendableReceipts, Unclaimed, AmendmentStage
  <2>5. PICK fields \in SUBSET Field :
          \E msg \in MessageAbout[fields] : soft' = AmendmentTurn(s, fields, msg)
    BY <2>1
  <2>. HIDE DEF s
  <2>6. Linked(s)
    BY <2>2, <2>3, <2>4, LinkedAtRest
  <2>7. \A msg \in MessageAbout[fields] : Linked(AmendmentTurn(s, fields, msg))
    BY <1>14, <2>2, <2>3, <2>4, <2>6, AmendmentTurnLinked
  <2>. QED
    BY <1>15, <2>5, <2>7 DEF RequestAmendment, AmendableReceipts
<1>16. ASSUME ChooseAmendment
       PROVE  Linked(soft') /\ UNCHANGED <<rows, issued>>
  <2>1. soft.booking_stage \in AmendmentStage
        /\ soft.booking_stage # "awaiting_amendment_values"
    BY <1>16 DEF ChooseAmendment, AmendmentStage
  <2>. QED
    BY <1>1, <1>14, <1>16, <2>1, AmendmentTurnLinked DEF ChooseAmendment
<1>17. ASSUME GiveAmendmentValues
       PROVE  Linked(soft') /\ UNCHANGED <<rows, issued>>
  <2>1. soft.booking_stage \in AmendmentStage
    BY <1>17 DEF GiveAmendmentValues, AmendmentStage
  <2>2. soft.pending_booking_amendment.fields \in SUBSET Field
    BY <1>1, <2>1 DEF SoftState, Amendment
  <2>. QED
    BY <1>1, <1>14, <1>17, <2>1, <2>2, AmendmentTurnLinked DEF GiveAmendmentValues
<1>18. ASSUME NEW outcome \in Outcome, ConfirmAmendment(outcome)
       PROVE  Linked(soft') /\ RowsLinked' /\ Writes
  BY <1>18, ConfirmAmendmentWrites
<1>19. ASSUME ReopenAmendment
       PROVE  Linked(soft') /\ UNCHANGED <<rows, issued>>
  BY <1>1, <1>19, ReviseAmendmentLinked DEF ReopenAmendment
<1>20. ASSUME RequestCancellation
       PROVE  Linked(soft') /\ UNCHANGED <<rows, issued>>
  BY <1>1, <1>20, CancellationHandlersLinked DEF RequestCancellation
<1>21. ASSUME KeepBooking
       PROVE  Linked(soft') /\ UNCHANGED <<rows, issued>>
  BY <1>1, <1>21, CancellationHandlersLinked DEF KeepBooking
<1>22. ASSUME NEW outcome \in Outcome, NEW marked \in BOOLEAN,
              ConfirmCancellation(outcome, marked)
       PROVE  Linked(soft') /\ RowsLinked' /\ Writes
  BY <1>22, ConfirmCancellationWrites
<1>23. ASSUME CheckStatus
       PROVE  Linked(soft') /\ UNCHANGED <<rows, issued>>
  <2>1. PICK receipt \in Receipt : /\ soft' = StoreReceipt(soft, receipt)
                                   /\ MissingFields(receipt) = {}
    BY <1>1, <1>23 DEF CheckStatus, StatusReceipts, SessionReceipts, SoftState, RowsLinked
  <2>2. soft.pending_booking_amendment = None
    BY <1>23 DEF CheckStatus, StatusReceipts
  <2>3. soft'.booking_receipt = receipt /\ soft'.pending_booking_amendment = None
    BY <1>1, <2>1, <2>2, Zenon DEF StoreReceipt, SoftState
  <2>. QED
    BY <1>23, <2>1, <2>3, LinkedAtRest DEF CheckStatus, StatusReceipts
<1>24. ASSUME ExpireSession
       PROVE  Linked(soft') /\ UNCHANGED <<rows, issued>>
  <2>1. soft'.pending_booking_amendment = None /\ soft'.booking_receipt = None
    BY <1>24 DEF ExpireSession, EmptySoftState
  <2>. QED
    BY <1>24, <2>1, LinkedAtRest DEF ExpireSession
<1>25. ASSUME UNCHANGED vars
       PROVE  Linked(soft') /\ UNCHANGED <<rows, issued>>
  BY <1>1, <1>25 DEF vars
<1>. QED
  BY <1>3, <1>4, <1>5, <1>6, <1>7, <1>8, <1>9, <1>10, <1>11, <1>12, <1>13, <1>15, <1>16,
     <1>17, <1>18, <1>19, <1>20, <1>21, <1>22, <1>23, <1>24, <1>25, Zenon DEF Next

\* Every reachable state satisfies the strengthened invariant.
THEOREM LinkedInvariance == Spec => []LInv
  BY LInvInit, LInvNext, PTL DEF Spec

\* For every value of the constants, stage, pending amendment and receipt agree, and
\* what is offered for confirmation is valid (AmendmentCoherent).
THEOREM AmendmentCorrect == Spec => []AmendmentCoherent
<1>1. LInv => AmendmentCoherent
  BY DEF LInv, IInv, Sound, PendingSound, Linked, PendingLinked, AmendmentCoherent
<1>. QED
  BY <1>1, LinkedInvariance, PTL

\* ... a row changes only in the turn in which the guest says yes to that change
\* (WritesAreConfirmed) ...
THEOREM WritesCorrect == Spec => WritesAreConfirmed
<1>1. LInv /\ [Next]_vars
        => [\A id \in BookingId : rows'[id] # rows[id] => ConfirmedWrite(id)]_vars
  BY LInvNext DEF Writes
<1>. QED
  BY <1>1, LinkedInvariance, PTL DEF Spec, WritesAreConfirmed

\* A registration is within the capacity of the property, where the session knows it: more
\* guests than that are only registered for a property listed without its capacity.
RegisteredFits ==
    [][ \A id \in BookingId :
            rows[id] = None /\ rows'[id] # None =>
                ~OverCapacity(rows'[id].guests, soft.booking_selected_property) ]_vars

\* A stay that is not stored out of order gets there only by an amendment, and one that
\* leaves a date in the row that is not the one the guest said yes to.
DisorderIsPartial ==
    [][ \A id \in BookingId :
            /\ rows[id] = None \/ Ordered(rows[id])
            /\ rows'[id] # None /\ ~Ordered(rows'[id])
            => /\ soft.booking_stage = "awaiting_amendment_confirmation"
               /\ \E f \in {"check_in", "check_out"} :
                     /\ rows'[id][f] = rows[id][f]
                     /\ rows'[id][f] # soft.pending_booking_amendment.candidate_receipt[f] ]_vars

LEMMA DisorderStep ==
    ASSUME LInv, NEW id \in BookingId, ConfirmedWrite(id),
           rows[id] = None \/ Ordered(rows[id]), ~Ordered(rows'[id])
    PROVE  /\ soft.booking_stage = "awaiting_amendment_confirmation"
           /\ \E f \in {"check_in", "check_out"} :
                 /\ rows'[id][f] = rows[id][f]
                 /\ rows'[id][f] # soft.pending_booking_amendment.candidate_receipt[f]
<1>. DEFINE candidate == soft.pending_booking_amendment.candidate_receipt
            row == rows[id]
            new == rows'[id]
<1>1. CASE row = None
  <2>1. soft.booking_stage = "awaiting_confirmation" /\ new = ReceiptOf(soft.booking_state, id)
    BY <1>1 DEF ConfirmedWrite
  <2>2. Ordered(soft.booking_state)
    BY DEF LInv, IInv, Sound, DraftSound
  <2>. QED
    BY <2>1, <2>2 DEF Ordered, ReceiptOf
<1>2. CASE row # None /\ new = [row EXCEPT !.status = "cancelled"]
  <2>1. row \in Receipt
    BY <1>2 DEF LInv, IInv
  <2>2. new.check_in = row.check_in /\ new.check_out = row.check_out
    BY <1>2, <2>1 DEF Receipt
  <2>. QED
    BY <1>2, <2>2 DEF Ordered
<1>3. CASE /\ row # None
           /\ soft.booking_stage = "awaiting_amendment_confirmation"
           /\ \A f \in Field : new[f] # row[f] => new[f] = candidate[f]
  <2>1. Ordered(candidate)
    BY <1>3 DEF LInv, IInv, Sound, PendingSound, AmendmentStage, Linked, PendingLinked
  <2>2. ~(new["check_in"] = candidate["check_in"] /\ new["check_out"] = candidate["check_out"])
    BY <2>1 DEF Ordered
  <2>. QED
    BY <1>3, <2>2 DEF Field
<1>. QED
  BY <1>1, <1>2, <1>3 DEF ConfirmedWrite

\* The capacity check that was made for the review still holds when the guest says yes.
THEOREM RegistrationFits == Spec => RegisteredFits
<1>1. LInv /\ [Next]_vars
      => [\A id \in BookingId :
             rows[id] = None /\ rows'[id] # None =>
                 ~OverCapacity(rows'[id].guests, soft.booking_selected_property)]_vars
  <2>. SUFFICES ASSUME LInv, [Next]_vars, NEW id \in BookingId,
                       rows[id] = None, rows'[id] # None
                PROVE  ~OverCapacity(rows'[id].guests, soft.booking_selected_property)
    OBVIOUS
  <2>1. rows'[id] = ReceiptOf(soft.booking_state, id)
    BY LInvNext DEF Writes, ConfirmedWrite
  <2>2. ~OverCapacity(soft.booking_state.guests, soft.booking_selected_property)
    BY DEF LInv, IInv, Sound, DraftSound
  <2>. QED
    BY <2>1, <2>2 DEF ReceiptOf
<1>. QED
  BY <1>1, LinkedInvariance, PTL DEF Spec, RegisteredFits

\* The one way in which a stored stay loses its order: StoredStayIsOrdered fails by the
\* amendments that write one date beside another that was never reviewed with it.
THEOREM OnlyPartialAmendmentsDisorder == Spec => DisorderIsPartial
<1>1. LInv /\ [Next]_vars
      => [\A id \in BookingId :
             /\ rows[id] = None \/ Ordered(rows[id])
             /\ rows'[id] # None /\ ~Ordered(rows'[id])
             => /\ soft.booking_stage = "awaiting_amendment_confirmation"
                /\ \E f \in {"check_in", "check_out"} :
                      /\ rows'[id][f] = rows[id][f]
                      /\ rows'[id][f] # soft.pending_booking_amendment.candidate_receipt[f]]_vars
  <2>. SUFFICES ASSUME LInv, [Next]_vars, NEW id \in BookingId,
                       rows[id] = None \/ Ordered(rows[id]),
                       rows'[id] # None, ~Ordered(rows'[id])
                PROVE  /\ soft.booking_stage = "awaiting_amendment_confirmation"
                       /\ \E f \in {"check_in", "check_out"} :
                             /\ rows'[id][f] = rows[id][f]
                             /\ rows'[id][f] # soft.pending_booking_amendment.candidate_receipt[f]
    OBVIOUS
  <2>1. rows'[id] # rows[id]
    OBVIOUS
  <2>2. ConfirmedWrite(id)
    BY <2>1, LInvNext DEF Writes
  <2>. QED
    BY <2>2, DisorderStep
<1>. QED
  BY <1>1, LinkedInvariance, PTL DEF Spec, DisorderIsPartial

\* ... and the workflow implements the ledger: whatever the conversation, the table
\* sees registrations, amendments and cancellations only (ImplementsLedger).
THEOREM LedgerCorrect == Spec => ImplementsLedger
<1>1. Init => Ledger!LedgerInit
  BY DEF Init, Ledger!LedgerInit
<1>2. LInv /\ [Next]_vars => [Ledger!LedgerNext]_rows
  BY LInvNext DEF Writes
<1>. QED
  BY <1>1, <1>2, LinkedInvariance, PTL DEF Spec, ImplementsLedger, Ledger!LedgerSpec
=============================================================================

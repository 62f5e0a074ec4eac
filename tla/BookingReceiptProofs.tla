-------------------------- MODULE BookingReceiptProofs ------------------------
(***************************************************************************)
(* Proofs about what a session is told of its booking, for every value of  *)
(* the constants: a receipt runs ahead of no row, and a cancellation       *)
(* dialogue leaves alone what it interrupts.  And about what it is not     *)
(* told: no detail is lost that was not found invalid.                     *)
(***************************************************************************)
EXTENDS BookingAftercareProofs

(* The receipt of a session, and those of the amendment that is pending      *)
Told(s) ==
    LET pending == s.pending_booking_amendment
    IN  ({s.booking_receipt}
         \cup IF pending = None THEN {}
              ELSE {pending.base_receipt, pending.candidate_receipt}) \ {None}

(* None of them is of an id that was not handed out, or cancelled before its *)
(* row: what makes an amendment of a cancelled booking stay cancelled.       *)
Backed(s, table, ids) ==
    \A r \in Told(s) :
        /\ r.booking_id \in ids
        /\ r.status = "cancelled" => /\ table[r.booking_id] # None
                                     /\ table[r.booking_id].status = "cancelled"

ReceiptInv == Backed(soft, rows, issued)

\* What is told in t is told in s, but for details of the stay.
Derived(t, s) ==
    \A r \in Told(t) : \E q \in Told(s) : r.booking_id = q.booking_id /\ r.status = q.status

Talks(t, s) == /\ Derived(t, s)
               /\ t.booking_receipt = s.booking_receipt
               /\ t.booking_cancellation = s.booking_cancellation

LEMMA BackedDerived ==
    ASSUME NEW table, NEW ids, NEW s, NEW t, Backed(s, table, ids), Derived(t, s)
    PROVE  Backed(t, table, ids)
<1>. SUFFICES ASSUME NEW r \in Told(t)
              PROVE  /\ r.booking_id \in ids
                     /\ r.status = "cancelled" => /\ table[r.booking_id] # None
                                                  /\ table[r.booking_id].status = "cancelled"
  BY Zenon DEF Backed
<1>1. PICK q \in Told(s) : r.booking_id = q.booking_id /\ r.status = q.status
  BY Zenon DEF Derived
<1>. QED
  BY <1>1 DEF Backed

LEMMA UntouchedTalks ==
    ASSUME NEW s, NEW t, Untouched(t, s)
    PROVE  Talks(t, s)
<1>1. Told(t) = Told(s)
  BY Zenon DEF Told, Untouched
<1>. QED
  BY <1>1, Zenon DEF Untouched, Talks, Derived

-----------------------------------------------------------------------------
(* Handlers of amendments                                                    *)

LEMMA AskersTalk ==
    ASSUME NEW s \in SoftState, NEW receipt \in Told(s), NEW candidate,
           candidate.booking_id = receipt.booking_id, candidate.status = receipt.status,
           NEW fields, NEW asked
    PROVE  /\ Talks(AskForAmendmentChoice(s, receipt), s)
           /\ Talks(AskForAmendmentValues(s, receipt, fields, asked), s)
           /\ Talks(OfferAmendment(s, receipt, fields, candidate), s)
<1>1. ASSUME NEW t, NEW c \in {None, candidate}, NEW changed,
             t.booking_receipt = s.booking_receipt,
             t.booking_cancellation = s.booking_cancellation,
             t.pending_booking_amendment
                = [base_receipt |-> receipt, candidate_receipt |-> c, fields |-> changed]
      PROVE  Talks(t, s)
  <2>1. Told(t) \subseteq {s.booking_receipt, receipt, c} \ {None}
    BY <1>1 DEF Told
  <2>2. s.booking_receipt # None => s.booking_receipt \in Told(s)
    BY DEF Told
  <2>. QED
    BY <1>1, <2>1, <2>2 DEF Talks, Derived
<1>2. Talks(AskForAmendmentChoice(s, receipt), s)
  <2>. DEFINE t == AskForAmendmentChoice(s, receipt)
  <2>1. /\ t.booking_receipt = s.booking_receipt
        /\ t.booking_cancellation = s.booking_cancellation
        /\ t.pending_booking_amendment
              = [base_receipt |-> receipt, candidate_receipt |-> None, fields |-> {}]
    BY Zenon DEF AskForAmendmentChoice, SoftState
  <2>. HIDE DEF t
  <2>2. Talks(t, s)
    BY <1>1, <2>1
  <2>. QED
    BY <2>2 DEF t
<1>3. Talks(AskForAmendmentValues(s, receipt, fields, asked), s)
  <2>. DEFINE t == AskForAmendmentValues(s, receipt, fields, asked)
  <2>1. /\ t.booking_receipt = s.booking_receipt
        /\ t.booking_cancellation = s.booking_cancellation
        /\ t.pending_booking_amendment
              = [base_receipt |-> receipt, candidate_receipt |-> None, fields |-> fields]
    BY Zenon DEF AskForAmendmentValues, SoftState
  <2>. HIDE DEF t
  <2>2. Talks(t, s)
    BY <1>1, <2>1
  <2>. QED
    BY <2>2 DEF t
<1>4. Talks(OfferAmendment(s, receipt, fields, candidate), s)
  <2>. DEFINE t == OfferAmendment(s, receipt, fields, candidate)
  <2>1. /\ t.booking_receipt = s.booking_receipt
        /\ t.booking_cancellation = s.booking_cancellation
        /\ t.pending_booking_amendment
              = [base_receipt |-> receipt, candidate_receipt |-> candidate, fields |-> fields]
    BY Zenon DEF OfferAmendment, SoftState
  <2>. HIDE DEF t
  <2>2. Talks(t, s)
    BY <1>1, <2>1
  <2>. QED
    BY <2>2 DEF t
<1>. QED
  BY <1>2, <1>3, <1>4

\* An amendment keeps the id and the status of what it amends.
LEMMA AmendmentTurnTalks ==
    ASSUME NEW s \in SoftState, s.booking_receipt # None,
           s.booking_stage = "awaiting_amendment_values"
              => s.pending_booking_amendment # None,
           NEW named, NEW msg
    PROVE  Talks(AmendmentTurn(s, named, msg), s)
<1>. DEFINE pending   == s.pending_booking_amendment
            receipt   == AmendmentReceipt(s)
            fields    == IF s.booking_stage = "awaiting_amendment_values"
                         THEN pending.fields ELSE named
            candidate == Amended(receipt, fields, msg)
            asked     == IF Unusable(fields, msg) # {} THEN Unusable(fields, msg)
                         ELSE AmendErrors(candidate, fields, s.booking_selected_property)
<1>1. receipt \in Receipt /\ receipt \in Told(s)
  <2>1. pending # None => pending \in Amendment
    BY DEF SoftState
  <2>2. pending # None => pending.base_receipt # None
    BY <2>1, RecordAssumption DEF Amendment
  <2>. QED
    BY <2>1, <2>2 DEF AmendmentReceipt, Told, SoftState, Amendment
<1>. HIDE DEF receipt, fields
<1>2. candidate.booking_id = receipt.booking_id /\ candidate.status = receipt.status
  BY <1>1, Zenon DEF Amended, Receipt
<1>. HIDE DEF candidate, asked
<1>3. /\ Talks(AskForAmendmentChoice(s, receipt), s)
      /\ Talks(AskForAmendmentValues(s, receipt, fields, asked), s)
      /\ Talks(OfferAmendment(s, receipt, fields, candidate), s)
  BY <1>1, <1>2, AskersTalk
<1>. QED
  BY <1>3, Zenon DEF AmendmentTurn, pending, receipt, fields, candidate, asked

LEMMA ReviseAmendmentTalks ==
    ASSUME NEW s, Sound(s), s.booking_stage = "awaiting_amendment_confirmation", NEW named
    PROVE  Talks(ReviseAmendment(s, named), s)
<1>. DEFINE candidate == s.pending_booking_amendment.candidate_receipt
            fields == IF named # {} THEN named ELSE s.pending_booking_amendment.fields
<1>1. s \in SoftState /\ candidate \in Told(s)
  BY DEF Sound, PendingSound, AmendmentStage, Told
<1>. HIDE DEF candidate, fields
<1>2. Talks(AskForAmendmentValues(s, candidate, fields, fields), s)
  BY <1>1, AskersTalk
<1>. QED
  BY <1>2, Zenon DEF ReviseAmendment, candidate, fields

-----------------------------------------------------------------------------
(* What one step does to the receipt of the session, and to what a           *)
(* cancellation dialogue interrupts                                          *)
ReceiptStep ==
    LET old     == soft.booking_receipt
        new     == soft'.booking_receipt
        pending == soft.pending_booking_amendment
        row     == rows'[new.booking_id]
    IN  old # None /\ new # None /\ new # old /\ new.booking_id = old.booking_id =>
            /\ row # None
            /\ new.status = "cancelled" => row.status = "cancelled"
            /\ \A f \in Field : new[f] # old[f] =>
                  /\ soft.booking_stage = "awaiting_amendment_confirmation"
                  /\ f \in pending.fields => row[f] = new[f]

CancellationStep ==
    soft'.booking_cancellation # soft.booking_cancellation /\ soft' # EmptySoftState =>
        soft' = [soft EXCEPT !.booking_receipt = soft'.booking_receipt,
                             !.booking_cancellation = soft'.booking_cancellation]

Honest == ReceiptInv' /\ ReceiptStep /\ CancellationStep

\* A step that only talks is honest.
LEMMA TalkHonest ==
    ASSUME ReceiptInv, Talks(soft', soft), UNCHANGED <<rows, issued>>
    PROVE  Honest
<1>1. Backed(soft', rows, issued)
  BY BackedDerived DEF ReceiptInv, Talks
<1>. QED
  BY <1>1 DEF Honest, ReceiptInv, ReceiptStep, CancellationStep, Talks

\* So is one that makes of a row, or of the receipt it held, the receipt, while no
\* amendment is pending.
LEMMA LookupHonest ==
    ASSUME ReceiptInv, RowsLinked, issued \subseteq BookingId, UNCHANGED <<rows, issued>>,
           Told(soft') \subseteq Told(soft) \cup {rows[id] : id \in BookingId},
           \/ soft.booking_receipt = None \/ soft'.booking_receipt = soft.booking_receipt
           \/ soft'.booking_receipt.booking_id # soft.booking_receipt.booking_id,
           soft'.booking_cancellation = soft.booking_cancellation
    PROVE  Honest
<1>1. ASSUME NEW r \in Told(soft')
      PROVE  /\ r.booking_id \in issued
             /\ r.status = "cancelled" => /\ rows[r.booking_id] # None
                                          /\ rows[r.booking_id].status = "cancelled"
  <2>1. r # None
    BY DEF Told
  <2>2. CASE r \in Told(soft)
    BY <2>2 DEF ReceiptInv, Backed
  <2>3. CASE r \in {rows[id] : id \in BookingId}
    BY <2>1, <2>3 DEF RowsLinked
  <2>. QED
    BY <2>2, <2>3
<1>2. ReceiptInv'
  BY <1>1 DEF ReceiptInv, Backed
<1>. QED
  BY <1>2 DEF Honest, ReceiptStep, CancellationStep

\* Rows are never uncancelled, so what was backed stays so.
LEMMA BackedKept ==
    ASSUME NEW s, Backed(s, rows, issued), issued \subseteq issued', issued \subseteq BookingId,
           \A id \in issued : rows[id] # None /\ rows[id].status = "cancelled" =>
                                  rows'[id] # None /\ rows'[id].status = "cancelled"
    PROVE  Backed(s, rows', issued')
  BY DEF Backed

LEMMA RegistrationHonest ==
    ASSUME LInv, ReceiptInv, NEW id \in BookingId, NEW outcome \in Outcome,
           ConfirmReview(id, outcome)
    PROVE  Honest
<1>. DEFINE receipt == ReceiptOf(soft.booking_review, id)
<1>1. soft \in SoftState /\ soft.pending_booking_amendment = None
  BY DEF LInv, IInv, Sound, PendingSound, ConfirmReview, AmendmentStage
<1>2. /\ soft'.booking_receipt = receipt /\ soft'.pending_booking_amendment = None
      /\ soft'.booking_cancellation = soft.booking_cancellation
  BY <1>1, Zenon DEF ConfirmReview, StoreConfirmation, SoftState
<1>3. receipt.booking_id = id /\ receipt.status = "confirmed"
  BY DEF ReceiptOf
<1>. HIDE DEF receipt
<1>4. Told(soft') \subseteq {receipt} /\ id \in issued' /\ id \notin issued
  BY <1>2 DEF Told, ConfirmReview
<1>5. ReceiptInv'
  BY <1>3, <1>4 DEF ReceiptInv, Backed
<1>6. soft.booking_receipt # None => soft.booking_receipt.booking_id \in issued
  BY DEF ReceiptInv, Backed, Told
<1>. QED
  BY <1>2, <1>3, <1>4, <1>5, <1>6 DEF Honest, ReceiptStep, CancellationStep

\* The columns of an amendment are all written.
LEMMA WithColumnsAll ==
    ASSUME NEW row \in Receipt, NEW receipt, NEW fields \in SUBSET Field
    PROVE  LET new == WithColumns(row, fields, receipt)
           IN  new.status = row.status /\ \A f \in fields : new[f] = receipt[f]
<1>. DEFINE column(f) == IF f \in fields THEN receipt[f] ELSE row[f]
            new == [row EXCEPT !.contact = column("contact"),
                               !.check_in = column("check_in"),
                               !.check_out = column("check_out"),
                               !.guests = column("guests")]
<1>1. \A f \in fields : column(f) = receipt[f]
  OBVIOUS
<1>. HIDE DEF column
<1>2. /\ new.status = row.status
      /\ new.contact = column("contact") /\ new.check_in = column("check_in")
      /\ new.check_out = column("check_out") /\ new.guests = column("guests")
  BY Zenon DEF Receipt
<1>3. new = WithColumns(row, fields, receipt)
  BY Zenon DEF WithColumns, column
<1>. HIDE DEF new
<1>4. \A f \in fields : new[f] = receipt[f]
  BY <1>1, <1>2 DEF Field
<1>. QED
  BY <1>2, <1>3, <1>4

LEMMA AmendmentHonest ==
    ASSUME LInv, ReceiptInv, NEW outcome \in Outcome, ConfirmAmendment(outcome)
    PROVE  Honest
<1>. DEFINE pending == soft.pending_booking_amendment
            receipt == pending.candidate_receipt
            id      == receipt.booking_id
            new     == WithColumns(rows[id], pending.fields, receipt)
<1>1. /\ soft \in SoftState /\ Sound(soft) /\ Linked(soft) /\ issued \subseteq BookingId
      /\ rows \in [BookingId -> Receipt \cup {None}]
      /\ soft.booking_stage = "awaiting_amendment_confirmation"
  BY DEF LInv, IInv, Sound, ConfirmAmendment
<1>2. pending # None /\ receipt # None
  BY <1>1 DEF Sound, PendingSound, AmendmentStage
<1>3. /\ receipt \in Receipt /\ pending.fields \in SUBSET Field /\ receipt \in Told(soft)
      /\ id = soft.booking_receipt.booking_id /\ id \in BookingId
  BY <1>1, <1>2 DEF SoftState, Amendment, Linked, PendingLinked, Told, Receipt
<1>4. rows[id] # None =>
          new.status = rows[id].status /\ \A f \in pending.fields : new[f] = receipt[f]
  BY <1>1, <1>3, WithColumnsAll
<1>5. rows[id] # None => new # None
  BY <1>1, <1>3, WithColumnsType, RecordAssumption
<1>6. /\ issued' = issued
      /\ rows' = rows \/ (rows[id] # None /\ rows' = [rows EXCEPT ![id] = new])
      /\ soft' = soft
         \/ /\ soft' = StoreAmendment(soft) /\ rows[id] # None
            /\ rows' = [rows EXCEPT ![id] = new]
  BY DEF ConfirmAmendment, Outcome
<1>. HIDE DEF new, id, receipt, pending
<1>7. \A i \in issued : rows[i] # None /\ rows[i].status = "cancelled" =>
                            rows'[i] # None /\ rows'[i].status = "cancelled"
  BY <1>1, <1>3, <1>4, <1>5, <1>6
<1>8. Backed(soft, rows', issued')
  BY <1>1, <1>6, <1>7, BackedKept DEF ReceiptInv
<1>9. CASE soft' = soft
  BY <1>8, <1>9 DEF Honest, ReceiptInv, ReceiptStep, CancellationStep
<1>10. CASE soft' = StoreAmendment(soft) /\ rows[id] # None /\ rows' = [rows EXCEPT ![id] = new]
  <2>. DEFINE r == StoreReceipt(soft, receipt)
  <2>1. /\ r \in SoftState /\ r.booking_receipt = receipt
        /\ r.booking_cancellation = soft.booking_cancellation
    BY <1>1, <1>3, StoreReceiptType, Zenon DEF StoreReceipt, SoftState
  <2>2. soft' = [r EXCEPT !.pending_booking_amendment = None, !.awaiting_field = None]
    BY <1>10, Zenon DEF StoreAmendment, receipt, pending
  <2>. HIDE DEF r
  <2>3. /\ soft'.booking_receipt = receipt /\ soft'.pending_booking_amendment = None
        /\ soft'.booking_cancellation = soft.booking_cancellation
    BY <2>1, <2>2, Zenon DEF SoftState
  <2>4. Told(soft') \subseteq {receipt}
    BY <2>3 DEF Told
  <2>5. ReceiptInv'
    BY <1>3, <1>8, <2>4 DEF ReceiptInv, Backed
  <2>6. rows'[id] = new /\ receipt.booking_id = id
    BY <1>1, <1>3, <1>10 DEF id
  <2>7. receipt.status = "cancelled" => rows'[id] # None /\ rows'[id].status = "cancelled"
    BY <1>3, <1>8, <2>6 DEF Backed
  <2>8. ReceiptStep
    BY <1>1, <1>4, <1>5, <1>10, <2>3, <2>6, <2>7 DEF ReceiptStep, pending
  <2>. QED
    BY <2>3, <2>5, <2>8 DEF Honest, CancellationStep
<1>. QED
  BY <1>6, <1>9, <1>10

\* A cancellation changes the status of the receipt only after that of the row.
LEMMA CancellationHonest ==
    ASSUME LInv, ReceiptInv, NEW outcome \in Outcome, NEW marked \in BOOLEAN,
           ConfirmCancellation(outcome, marked)
    PROVE  Honest
<1>. DEFINE id  == soft.booking_cancellation.id
            new == [rows[id] EXCEPT !.status = "cancelled"]
            receipt == soft.booking_receipt
            cancelled == [receipt EXCEPT !.status = "cancelled"]
<1>1. /\ soft \in SoftState /\ issued \subseteq BookingId
      /\ rows \in [BookingId -> Receipt \cup {None}]
  BY DEF LInv, IInv, Sound
<1>2. /\ issued' = issued
      /\ rows' = rows \/ (rows[id] # None /\ rows' = [rows EXCEPT ![id] = new])
      /\ soft' = soft
         \/ /\ soft' = StoreCancellation(soft, marked) /\ rows[id] # None
            /\ rows' = [rows EXCEPT ![id] = new]
  BY Zenon DEF ConfirmCancellation, Outcome
<1>3. id \in BookingId /\ rows[id] # None => new \in Receipt /\ new.status = "cancelled"
  BY <1>1 DEF Receipt, Status
<1>4. receipt # None => /\ cancelled \in Receipt /\ cancelled.status = "cancelled"
                        /\ cancelled.booking_id = receipt.booking_id
                        /\ \A f \in Field : cancelled[f] = receipt[f]
  BY <1>1 DEF SoftState, Receipt, Status, Field
<1>. HIDE DEF new, cancelled
<1>5. \A i \in issued : rows[i] # None /\ rows[i].status = "cancelled" =>
                            rows'[i] # None /\ rows'[i].status = "cancelled"
  <2>1. ASSUME NEW i \in issued PROVE rows'[i] = rows[i] \/ (i = id /\ rows'[i] = new /\ rows[i] # None)
    BY <1>1, <1>2
  <2>2. id \in BookingId /\ rows[id] # None => new # None
    BY <1>3, RecordAssumption
  <2>. QED
    BY <1>1, <1>3, <2>1, <2>2
<1>6. Backed(soft, rows', issued')
  BY <1>1, <1>2, <1>5, BackedKept DEF ReceiptInv
<1>7. CASE soft' = soft
  BY <1>6, <1>7 DEF Honest, ReceiptInv, ReceiptStep, CancellationStep
<1>8. CASE soft' = StoreCancellation(soft, marked) /\ rows[id] # None
           /\ rows' = [rows EXCEPT ![id] = new]
  <2>1. /\ soft' = [soft EXCEPT !.booking_cancellation = NoCancellation,
                                !.booking_receipt = MarkedReceipt(soft, marked)]
        /\ soft'.booking_receipt = MarkedReceipt(soft, marked)
        /\ soft'.booking_cancellation = NoCancellation
        /\ soft'.pending_booking_amendment = soft.pending_booking_amendment
    BY <1>1, <1>8, Zenon DEF StoreCancellation, SoftState
  <2>2. CancellationStep
    BY <1>1, <2>1 DEF CancellationStep, SoftState
  <2>3. \/ soft'.booking_receipt = receipt
        \/ /\ soft'.booking_receipt = cancelled /\ receipt # None /\ receipt.booking_id = id
           /\ receipt \in Receipt /\ id \in BookingId
    BY <1>1, <2>1 DEF MarkedReceipt, cancelled, SoftState, Receipt
  <2>4. CASE soft'.booking_receipt = receipt
    <3>1. Told(soft') = Told(soft)
      BY <2>1, <2>4, Zenon DEF Told
    <3>. QED
      BY <1>6, <2>2, <2>4, <3>1 DEF Honest, ReceiptInv, Backed, ReceiptStep
  <2>5. CASE /\ soft'.booking_receipt = cancelled /\ receipt # None /\ receipt.booking_id = id
             /\ receipt \in Receipt /\ id \in BookingId
    <3>1. rows'[id] = new /\ new # None /\ new.status = "cancelled" /\ cancelled.booking_id = id
      BY <1>1, <1>3, <1>4, <1>8, <2>5, RecordAssumption
    <3>2. Told(soft') \subseteq Told(soft) \cup {cancelled}
      BY <2>1, <2>5 DEF Told
    <3>3. receipt \in Told(soft)
      BY <2>5 DEF Told
    <3>4. ReceiptInv'
      BY <1>2, <1>6, <2>5, <3>1, <3>2, <3>3 DEF ReceiptInv, Backed
    <3>5. ReceiptStep
      BY <1>4, <2>5, <3>1 DEF ReceiptStep
    <3>. QED
      BY <2>2, <3>4, <3>5 DEF Honest
  <2>. QED
    BY <2>3, <2>4, <2>5
<1>. QED
  BY <1>2, <1>7, <1>8

\* Asking about a cancellation, or dropping it, changes nothing else.
LEMMA DialogueHonest ==
    ASSUME LInv, ReceiptInv, RequestCancellation \/ KeepBooking
    PROVE  Honest
<1>1. soft \in SoftState
  BY DEF LInv, IInv, Sound
<1>2. PICK c : soft' = [soft EXCEPT !.booking_cancellation = c]
  BY DEF RequestCancellation, KeepBooking, AskForCancellationId, AskToConfirmCancellation,
         DropCancellation
<1>3. /\ soft'.booking_receipt = soft.booking_receipt /\ soft'.booking_cancellation = c
      /\ soft'.pending_booking_amendment = soft.pending_booking_amendment
      /\ UNCHANGED <<rows, issued>>
  BY <1>1, <1>2, Zenon DEF SoftState, RequestCancellation, KeepBooking
<1>4. Told(soft') = Told(soft)
  BY <1>3, Zenon DEF Told
<1>5. CancellationStep
  BY <1>1, <1>2, <1>3 DEF CancellationStep, SoftState
<1>. QED
  BY <1>3, <1>4, <1>5 DEF Honest, ReceiptInv, Backed, ReceiptStep

LEMMA StepHonest ==
    ASSUME LInv, ReceiptInv, [Next]_vars
    PROVE  Honest
<1>1. /\ soft \in SoftState /\ Sound(soft) /\ RowsLinked /\ issued \subseteq BookingId
      /\ soft.booking_stage \in AmendmentStage <=> soft.pending_booking_amendment # None
      /\ soft.pending_booking_amendment # None => soft.booking_receipt # None
  BY DEF LInv, IInv, Sound, PendingSound
<1>2. ASSUME Untouched(soft', soft), UNCHANGED <<rows, issued>> PROVE Honest
  BY <1>2, UntouchedTalks, TalkHonest
<1>3. ASSUME NEW p \in Property, SelectProperty(p) PROVE Honest
  BY <1>1, <1>2, <1>3, ReviewHandlersUntouched DEF SelectProperty
<1>4. CASE ShowResults
  BY <1>1, <1>2, <1>4, ReviewHandlersUntouched DEF ShowResults
<1>5. CASE BookSelected
  <2>1. soft.last_selected_property_id \in Property
    BY <1>1, <1>5 DEF BookSelected, SoftState
  <2>2. PICK found \in {None} \cup [ property : {soft.last_selected_property_id},
                     occupancy_max : {None, Capacity[soft.last_selected_property_id]} ] :
          soft' = StartBooking(soft, found)
    BY <1>5 DEF BookSelected
  <2>3. found \in Selected \cup {None}
    BY <2>1, <2>2, DetailsAssumption DEF Selected
  <2>4. Untouched(soft', soft)
    BY <1>1, <2>2, <2>3, StartBookingUntouched
  <2>. QED
    BY <1>2, <1>5, <2>4 DEF BookSelected
<1>6. CASE ProvideDetails \/ ChangeInline
  BY <1>1, <1>2, <1>6, CollectUntouched DEF ProvideDetails, ChangeInline
<1>7. ASSUME NEW id \in BookingId, NEW outcome \in Outcome, ConfirmReview(id, outcome)
      PROVE  Honest
  BY <1>7, RegistrationHonest
<1>8. CASE DeclineReview \/ ChangeProperty \/ NameChange
  BY <1>1, <1>2, <1>8, ReviewHandlersUntouched DEF DeclineReview, ChangeProperty, NameChange
<1>9. CASE ResumeBooking
  BY <1>1, <1>2, <1>9, ResumeUntouched DEF ResumeBooking
<1>10. CASE RequestAmendment
  <2>1. PICK receipt \in IF soft.booking_receipt # None THEN {soft.booking_receipt}
                         ELSE {rows[id] : id \in BookingId} \ {None} :
        \E fields \in SUBSET Field : \E msg \in MessageAbout[fields] :
          soft' = AmendmentTurn([soft EXCEPT !.booking_receipt = receipt], fields, msg)
    BY <1>10 DEF RequestAmendment, AmendableReceipts
  <2>2. receipt \in Receipt /\ receipt # None
    BY <1>1, <2>1, RecordAssumption DEF SoftState, LInv, IInv
  <2>. DEFINE s == [soft EXCEPT !.booking_receipt = receipt]
  <2>3. /\ s \in SoftState /\ s.booking_receipt = receipt
        /\ s.booking_cancellation = soft.booking_cancellation
        /\ s.pending_booking_amendment = soft.pending_booking_amendment
        /\ s.booking_stage = soft.booking_stage
    BY <1>1, <2>2 DEF SoftState
  <2>4. /\ s.booking_stage # "awaiting_amendment_values"
        /\ soft.pending_booking_amendment = None
    BY <1>1, <1>10, <2>3 DEF RequestAmendment, AmendableReceipts, Unclaimed, AmendmentStage
  <2>5. PICK fields \in SUBSET Field :
          \E msg \in MessageAbout[fields] : soft' = AmendmentTurn(s, fields, msg)
    BY <2>1
  <2>. HIDE DEF s
  <2>6. Talks(soft', s)
    BY <2>2, <2>3, <2>4, <2>5, AmendmentTurnTalks
  <2>7. /\ soft.booking_receipt = None \/ receipt = soft.booking_receipt
        /\ receipt \in Told(soft) \/ receipt \in {rows[id] : id \in BookingId}
    BY <2>1, <2>2 DEF Told
  <2>8. Told(s) \subseteq {receipt}
    BY <2>3, <2>4 DEF Told
  <2>9. Backed(s, rows, issued)
    BY <1>1, <2>2, <2>7, <2>8 DEF ReceiptInv, Backed, RowsLinked
  <2>10. Backed(soft', rows, issued)
    BY <2>6, <2>9, BackedDerived DEF Talks
  <2>. QED
    BY <1>10, <2>3, <2>6, <2>7, <2>10
       DEF RequestAmendment, AmendableReceipts, Honest, ReceiptInv, ReceiptStep, CancellationStep, Talks
<1>11. CASE ChooseAmendment
  <2>1. /\ soft.booking_stage # "awaiting_amendment_values" /\ soft.booking_receipt # None
        /\ UNCHANGED <<rows, issued>>
    BY <1>1, <1>11 DEF ChooseAmendment, AmendmentStage
  <2>2. PICK fields \in SUBSET Field :
          \E msg \in MessageAbout[fields] : soft' = AmendmentTurn(soft, fields, msg)
    BY <1>11 DEF ChooseAmendment
  <2>. QED
    BY <1>1, <2>1, <2>2, AmendmentTurnTalks, TalkHonest
<1>12. CASE GiveAmendmentValues
  <2>1. /\ soft.pending_booking_amendment # None /\ soft.booking_receipt # None
        /\ UNCHANGED <<rows, issued>>
    BY <1>1, <1>12 DEF GiveAmendmentValues, AmendmentStage
  <2>2. PICK msg : soft' = AmendmentTurn(soft, {}, msg)
    BY <1>12 DEF GiveAmendmentValues
  <2>. QED
    BY <1>1, <2>1, <2>2, AmendmentTurnTalks, TalkHonest
<1>13. ASSUME NEW outcome \in Outcome, ConfirmAmendment(outcome) PROVE Honest
  BY <1>13, AmendmentHonest
<1>14. CASE ReopenAmendment
  BY <1>1, <1>14, ReviseAmendmentTalks, TalkHonest DEF ReopenAmendment
<1>15. CASE RequestCancellation \/ KeepBooking
  BY <1>15, DialogueHonest
<1>16. ASSUME NEW outcome \in Outcome, NEW marked \in BOOLEAN,
              ConfirmCancellation(outcome, marked)
       PROVE  Honest
  BY <1>16, CancellationHonest
<1>17. CASE CheckStatus
  <2>1. PICK receipt \in SessionReceipts(soft)
                          \cup ({rows[id] : id \in BookingId \ IdsInSession} \ {None}) :
            soft' = StoreReceipt(soft, receipt)
    BY <1>17 DEF CheckStatus, StatusReceipts
  <2>2. /\ soft'.booking_receipt = receipt
        /\ soft'.pending_booking_amendment = None
        /\ soft'.booking_cancellation = soft.booking_cancellation
        /\ UNCHANGED <<rows, issued>>
    BY <1>1, <1>17, <2>1, Zenon DEF CheckStatus, StatusReceipts, StoreReceipt, SoftState
  <2>3. Told(soft') \subseteq {receipt}
    BY <2>2 DEF Told
  <2>4. CASE receipt \in SessionReceipts(soft)
    <3>1. receipt = soft.booking_receipt /\ receipt \in Told(soft)
      BY <2>4 DEF SessionReceipts, Told
    <3>. QED
      BY <1>1, <2>2, <2>3, <3>1, LookupHonest
  <2>5. CASE receipt \in {rows[id] : id \in BookingId \ IdsInSession} \ {None}
    <3>1. receipt \in {rows[id] : id \in BookingId} /\ receipt.booking_id \notin IdsInSession
      BY <1>1, <2>5 DEF RowsLinked
    <3>2. soft.booking_receipt = None \/ receipt.booking_id # soft.booking_receipt.booking_id
      BY <3>1 DEF IdsInSession, SessionReceipts
    <3>. QED
      BY <1>1, <2>2, <2>3, <3>1, <3>2, LookupHonest
  <2>. QED
    BY <2>1, <2>4, <2>5
<1>18. CASE ExpireSession
  <2>1. /\ soft' = EmptySoftState /\ Told(soft') = {} /\ soft'.booking_receipt = None
    BY <1>18 DEF ExpireSession, EmptySoftState, Told
  <2>. QED
    BY <2>1 DEF Honest, ReceiptInv, Backed, ReceiptStep, CancellationStep
<1>19. CASE UNCHANGED vars
  BY <1>2, <1>19 DEF vars, Untouched
<1>. QED
  BY <1>3, <1>4, <1>5, <1>6, <1>7, <1>8, <1>9, <1>10, <1>11, <1>12, <1>13, <1>14, <1>15,
     <1>16, <1>17, <1>18, <1>19, Zenon DEF Next

-----------------------------------------------------------------------------
(* The theorems.                                                             *)

LEMMA ReceiptInvInit == Init => ReceiptInv
  BY DEF Init, EmptySoftState, ReceiptInv, Backed, Told

\* No receipt in a session, and no amendment of one, is of an id that was not handed
\* out, or cancelled before its row.
THEOREM ReceiptInvariance == Spec => []ReceiptInv
<1>1. LInv /\ ReceiptInv /\ [Next]_vars => ReceiptInv'
  BY StepHonest DEF Honest
<1>. QED
  BY <1>1, ReceiptInvInit, LinkedInvariance, PTL DEF Spec

\* The session's receipt of a booking changes only when the database holds the change,
\* whatever failed or was answered late (ReceiptFollowsRow).
THEOREM ReceiptCorrect == Spec => ReceiptFollowsRow
<1>1. LInv /\ ReceiptInv /\ [Next]_vars => ReceiptStep
  BY StepHonest DEF Honest
<1>. QED
  BY <1>1, ReceiptInvariance, LinkedInvariance, PTL DEF Spec, ReceiptFollowsRow, ReceiptStep

\* A turn of the cancellation dialogue leaves the booking or the amendment that it
\* interrupts exactly where it was (CancellationPreservesFlow).
THEOREM CancellationCorrect == Spec => CancellationPreservesFlow
<1>1. LInv /\ ReceiptInv /\ [Next]_vars => CancellationStep
  BY StepHonest DEF Honest
<1>. QED
  BY <1>1, ReceiptInvariance, LinkedInvariance, PTL
     DEF Spec, CancellationPreservesFlow, CancellationStep

-----------------------------------------------------------------------------
(* Details that are lost                                                     *)

\* The loss of details between two drafts is explained by the question that follows.
LossExplained(old, new, asked, occupancy) ==
    LET lost == MissingFields(new) \ MissingFields(old)
    IN  /\ "contact" \notin lost
        /\ "check_in" \in lost => new.check_out = None /\ asked = "check_in"
        /\ "check_out" \in lost => asked \in {"check_in", "check_out"}
        /\ "guests" \in lost => asked # None /\ occupancy.occupancy_max # None

\* A check-in that was refused is asked for first, then the check-out.
LEMMA ErrorsFirst ==
    ASSUME NEW S \in SUBSET Field, S # {}
    PROVE  /\ FirstBy(ErrorRank, S) \in S
           /\ "check_in" \in S => FirstBy(ErrorRank, S) = "check_in"
           /\ "check_out" \in S => FirstBy(ErrorRank, S) \in {"check_in", "check_out"}
<1>1. \A f \in Field : ErrorRank[f] = (CASE f = "check_in" -> 1 [] f = "check_out" -> 2
                                         [] f = "contact" -> 3 [] OTHER -> 4)
  BY DEF ErrorRank, Field
<1>2. \E f \in S : \A g \in S : ErrorRank[f] <= ErrorRank[g]
  <2>1. CASE "check_in" \in S
    BY <1>1, <2>1 DEF Field
  <2>2. CASE "check_in" \notin S /\ "check_out" \in S
    <3>1. \A g \in S : ErrorRank["check_out"] <= ErrorRank[g]
      BY <1>1, <2>2 DEF Field
    <3>. QED
      BY <2>2, <3>1
  <2>3. CASE "check_in" \notin S /\ "check_out" \notin S /\ "contact" \in S
    <3>1. \A g \in S : ErrorRank["contact"] <= ErrorRank[g]
      BY <1>1, <2>3 DEF Field
    <3>. QED
      BY <2>3, <3>1
  <2>4. CASE S = {"guests"}
    BY <1>1, <2>4 DEF Field
  <2>. QED
    BY <2>1, <2>2, <2>3, <2>4 DEF Field
<1>3. /\ FirstBy(ErrorRank, S) \in S
      /\ \A g \in S : ErrorRank[FirstBy(ErrorRank, S)] <= ErrorRank[g]
  BY <1>2, Zenon DEF FirstBy
<1>. QED
  BY <1>1, <1>3 DEF Field

\* What committing a message loses was refused, and is asked for.
LEMMA CommittedLoss ==
    ASSUME NEW d \in Draft, NEW msg \in Message, NEW selected
    PROVE  LossExplained(d, Committed(d, msg, selected), NextField(d, msg, selected), selected)
<1>. DEFINE u == Updated(d, msg)
            c == Committed(d, msg, selected)
            errors == CommitErrors(d, msg, selected)
            next == NextField(d, msg, selected)
<1>1. /\ u.contact = Given(msg.contact, d.contact)
      /\ u.check_in = Given(msg.check_in, d.check_in)
      /\ u.check_out = NewCheckOut(d, msg)
      /\ u.guests = Given(msg.guests, d.guests)
      /\ u \in Draft
  BY UpdatedType, Zenon DEF Updated, Draft
<1>2. /\ c.guests = FittingGuests(u.guests, selected)
      /\ c.check_in = ValidCheckIn(u, msg)
      /\ c.check_out = ValidCheckOut(u, msg)
      /\ c.contact = u.contact
  BY <1>1, Zenon DEF Committed, Draft
<1>3. errors \in SUBSET Field
  BY DEF CommitErrors, Field
<1>4. /\ msg.check_in = Bad => "check_in" \in errors
      /\ msg.check_in # Bad /\ ~Ordered(u) => "check_out" \in errors
      /\ OverCapacity(u.guests, selected) => "guests" \in errors
  BY DEF CommitErrors, Field
<1>. HIDE DEF u, c, errors
<1>5. errors # {} => /\ next \in errors
                     /\ "check_in" \in errors => next = "check_in"
                     /\ "check_out" \in errors => next \in {"check_in", "check_out"}
  BY <1>3, ErrorsFirst DEF NextField, errors
<1>. HIDE DEF next
<1>6. \A f \in Field : f \in MissingFields(c) \ MissingFields(d) <=> c[f] = None /\ d[f] # None
  BY DEF MissingFields
<1>7. /\ \A v \in {msg.contact, msg.check_in, msg.check_out, msg.guests} : \A old :
            Given(v, old) = None => old = None
  BY DEF Given
<1>8. c.contact = None => d.contact = None
  BY <1>1, <1>2, <1>7
<1>9. c.check_in = None /\ d.check_in # None => msg.check_in = Bad /\ c.check_out = None
  BY <1>1, <1>2, <1>7 DEF ValidCheckIn, ValidCheckOut
<1>10. c.check_out = None /\ d.check_out # None => msg.check_in = Bad \/ ~Ordered(u)
  BY <1>1, <1>2, <1>7 DEF ValidCheckOut, NewCheckOut
<1>11. c.guests = None /\ d.guests # None => OverCapacity(u.guests, selected)
  BY <1>1, <1>2, <1>7 DEF FittingGuests
<1>12. errors # {} => next # None
  BY <1>3, <1>5, FieldAssumption
<1>. QED
  BY <1>4, <1>5, <1>6, <1>8, <1>9, <1>10, <1>11, <1>12
     DEF LossExplained, OverCapacity, Field, c, next

Explained(t, s) ==
    LossExplained(s.booking_state, t.booking_state, t.awaiting_field,
                  t.booking_selected_property)

\* A turn that leaves the details alone, or only seeds them, loses nothing.
LEMMA NothingLost ==
    ASSUME NEW s, NEW t, MissingFields(t.booking_state) = MissingFields(s.booking_state)
    PROVE  Explained(t, s)
  BY DEF Explained, LossExplained

LEMMA SeededMissing ==
    ASSUME NEW s, Sound(s)
    PROVE  Seeded(s) \in Draft /\ MissingFields(Seeded(s)) = MissingFields(s.booking_state)
<1>. DEFINE p == IF s.booking_property_id # None THEN s.booking_property_id
                                                 ELSE s.last_selected_property_id
<1>1. /\ s.booking_state \in Draft /\ p \in Property \cup {None}
      /\ s.booking_selected_property \in Selected \cup {None}
      /\ DraftSound(s.booking_state, s.booking_selected_property) /\ s \in SoftState
  BY DEF Sound, SoftState
<1>. HIDE DEF p
<1>2. MissingFields(Seed(s.booking_state, p, s.booking_selected_property))
        = MissingFields(s.booking_state)
  BY <1>1, SeedSound
<1>. QED
  BY <1>1, <1>2, SeededType DEF Seeded, p

LEMMA CollectExplained ==
    ASSUME NEW s \in SoftState, MissingFields(Seeded(s)) = MissingFields(s.booking_state),
           NEW msg \in Message, NEW stage
    PROVE  Explained(Collect(s, msg, stage), s)
<1>. DEFINE selected == s.booking_selected_property
            d    == Committed(Seeded(s), msg, selected)
            next == NextField(Seeded(s), msg, selected)
<1>1. LossExplained(Seeded(s), d, next, selected)
  BY SeededType, CommittedLoss
<1>. HIDE DEF d, next
<1>2. ASSUME NEW t, t.booking_state = d, t.awaiting_field = next,
             t.booking_selected_property = selected
      PROVE  Explained(t, s)
  BY <1>1, <1>2 DEF LossExplained, Explained
<1>3. next = None => Explained(PresentReview(s, d), s)
  <2>. DEFINE t == PresentReview(s, d)
  <2>1. /\ t.booking_state = d /\ t.awaiting_field = None
        /\ t.booking_selected_property = selected
    BY Zenon DEF PresentReview, SoftState
  <2>. HIDE DEF t
  <2>2. next = None => Explained(t, s)
    BY <1>2, <2>1
  <2>. QED
    BY <2>2 DEF t
<1>4. Explained([s EXCEPT !.booking_stage = stage, !.details_shown = FALSE,
                          !.booking_state = d, !.awaiting_field = next], s)
  <2>. DEFINE t == [s EXCEPT !.booking_stage = stage, !.details_shown = FALSE,
                             !.booking_state = d, !.awaiting_field = next]
  <2>1. /\ t.booking_state = d /\ t.awaiting_field = next
        /\ t.booking_selected_property = selected
    BY Zenon DEF SoftState
  <2>. HIDE DEF t
  <2>2. Explained(t, s)
    BY <1>2, <2>1
  <2>. QED
    BY <2>2 DEF t
<1>. QED
  BY <1>3, <1>4, Zenon DEF Collect, d, next

LEMMA StartBookingExplained ==
    ASSUME NEW s, Sound(s), NEW found \in Selected \cup {None}
    PROVE  Explained(StartBooking(s, found), s)
<1>. DEFINE p    == s.last_selected_property_id
            kept == s.booking_selected_property
            selected == IF found = None \/ (kept # None /\ kept.property = p)
                        THEN kept ELSE found
            t == [s EXCEPT !.booking_property_id = p,
                           !.booking_selected_property = selected]
<1>1. /\ s \in SoftState /\ p \in Property \cup {None} /\ selected \in Selected \cup {None}
      /\ s.booking_state \in Draft /\ DraftSound(s.booking_state, kept)
  BY DEF Sound, SoftState
<1>. HIDE DEF p, selected
<1>2. /\ t \in SoftState /\ t.booking_state = s.booking_state
      /\ t.booking_property_id = p /\ t.last_selected_property_id = s.last_selected_property_id
      /\ t.booking_selected_property = selected
  BY <1>1 DEF SoftState
<1>. HIDE DEF t
<1>3. MissingFields(Seeded(t)) = MissingFields(t.booking_state)
  <2>. DEFINE q == IF t.booking_property_id # None THEN t.booking_property_id
                                                   ELSE t.last_selected_property_id
  <2>1. q \in Property \cup {None}
    BY <1>2 DEF SoftState
  <2>. HIDE DEF q
  <2>2. MissingFields(Seed(t.booking_state, q, selected)) = MissingFields(t.booking_state)
    BY <1>1, <1>2, <2>1, SeedSound
  <2>. QED
    BY <1>2, <2>2 DEF Seeded, q
<1>4. Explained(Collect(t, NoMessage, "collecting_details"), t)
  BY <1>2, <1>3, NoMessageType, CollectExplained
<1>5. Explained(Collect(t, NoMessage, "collecting_details"), s)
  BY <1>2, <1>4 DEF Explained
<1>. QED
  BY <1>5, Zenon DEF StartBooking, p, selected, t

LEMMA ResumeExplained ==
    ASSUME NEW s, Sound(s)
    PROVE  Explained(Resume(s), s)
<1>. DEFINE d == Seeded(s)
            t == [s EXCEPT !.booking_state = d]
            r == [t EXCEPT !.booking_stage = "awaiting_confirmation",
                           !.booking_review = t.booking_state]
<1>1. d \in Draft /\ MissingFields(d) = MissingFields(s.booking_state) /\ s \in SoftState
  BY SeededMissing DEF Sound
<1>. HIDE DEF d
<1>2. t \in SoftState /\ t.booking_state = d
  BY <1>1 DEF SoftState
<1>. HIDE DEF t
<1>3. r.booking_state = d
  BY <1>2, Zenon DEF SoftState
<1>. HIDE DEF r
<1>4. Explained(t, s) /\ Explained(r, s)
  BY <1>1, <1>2, <1>3, NothingLost
<1>. QED
  BY <1>4, Zenon DEF Resume, r, t, d

\* The other handlers leave the details alone.
LEMMA OthersKeepDetails ==
    ASSUME NEW s \in SoftState
    PROVE  /\ \A p : ShowDetails(s, p).booking_state = s.booking_state
           /\ [s EXCEPT !.details_shown = FALSE].booking_state = s.booking_state
           /\ \A viewKept : RefuseReview(s, viewKept).booking_state = s.booking_state
           /\ Reselect(s).booking_state = s.booking_state
           /\ \A field : AskForChange(s, field).booking_state = s.booking_state
           /\ \A id : StoreConfirmation(s, id).booking_state = s.booking_state
           /\ \A r : StoreReceipt(s, r).booking_state = s.booking_state
           /\ AskForCancellationId(s).booking_state = s.booking_state
           /\ \A id : AskToConfirmCancellation(s, id).booking_state = s.booking_state
           /\ DropCancellation(s).booking_state = s.booking_state
           /\ \A marked : StoreCancellation(s, marked).booking_state = s.booking_state
           /\ \A r : AskForAmendmentChoice(s, r).booking_state = s.booking_state
           /\ \A r, fields, asked :
                 AskForAmendmentValues(s, r, fields, asked).booking_state = s.booking_state
           /\ \A r, fields, candidate :
                 OfferAmendment(s, r, fields, candidate).booking_state = s.booking_state
  BY Zenon DEF SoftState, ShowDetails, RefuseReview, Reselect, AskForChange, StoreConfirmation,
     StoreReceipt, AskForCancellationId, AskToConfirmCancellation, DropCancellation,
     StoreCancellation, AskForAmendmentChoice, AskForAmendmentValues, OfferAmendment

LEMMA AmendmentsKeepDetails ==
    ASSUME NEW s \in SoftState
    PROVE  /\ \A named, msg : AmendmentTurn(s, named, msg).booking_state = s.booking_state
           /\ \A named : ReviseAmendment(s, named).booking_state = s.booking_state
           /\ Sound(s) /\ s.booking_stage = "awaiting_amendment_confirmation" =>
                 StoreAmendment(s).booking_state = s.booking_state
<1>1. ASSUME NEW named, NEW msg
      PROVE  AmendmentTurn(s, named, msg).booking_state = s.booking_state
  <2>. DEFINE receipt   == AmendmentReceipt(s)
              fields    == IF s.booking_stage = "awaiting_amendment_values"
                           THEN s.pending_booking_amendment.fields ELSE named
              candidate == Amended(receipt, fields, msg)
              asked     == IF Unusable(fields, msg) # {} THEN Unusable(fields, msg)
                           ELSE AmendErrors(candidate, fields, s.booking_selected_property)
  <2>. HIDE DEF receipt, fields, candidate, asked
  <2>1. /\ AskForAmendmentChoice(s, receipt).booking_state = s.booking_state
        /\ AskForAmendmentValues(s, receipt, fields, asked).booking_state = s.booking_state
        /\ OfferAmendment(s, receipt, fields, candidate).booking_state = s.booking_state
    BY OthersKeepDetails
  <2>. QED
    BY <2>1, Zenon DEF AmendmentTurn, receipt, fields, candidate, asked
<1>2. ASSUME NEW named PROVE ReviseAmendment(s, named).booking_state = s.booking_state
  <2>. DEFINE r      == s.pending_booking_amendment.candidate_receipt
              fields == IF named # {} THEN named ELSE s.pending_booking_amendment.fields
  <2>. HIDE DEF r, fields
  <2>1. AskForAmendmentValues(s, r, fields, fields).booking_state = s.booking_state
    BY OthersKeepDetails
  <2>. QED
    BY <2>1, Zenon DEF ReviseAmendment, r, fields
<1>3. ASSUME Sound(s), s.booking_stage = "awaiting_amendment_confirmation"
      PROVE  StoreAmendment(s).booking_state = s.booking_state
  <2>. DEFINE candidate == s.pending_booking_amendment.candidate_receipt
              r == StoreReceipt(s, candidate)
  <2>1. candidate \in Receipt
    BY <1>3 DEF Sound, PendingSound, AmendmentStage, SoftState, Amendment
  <2>. HIDE DEF candidate
  <2>2. r \in SoftState /\ r.booking_state = s.booking_state
    BY <2>1, StoreReceiptType, OthersKeepDetails
  <2>. HIDE DEF r
  <2>3. [r EXCEPT !.pending_booking_amendment = None,
                  !.awaiting_field = None].booking_state = s.booking_state
    BY <2>2, Zenon DEF SoftState
  <2>. QED
    BY <2>3, Zenon DEF StoreAmendment, r, candidate
<1>. QED
  BY <1>1, <1>2, <1>3

LEMMA StepExplained ==
    ASSUME IInv, [Next]_vars, soft' # EmptySoftState
    PROVE  Explained(soft', soft)
<1>1. Sound(soft) /\ soft \in SoftState
  BY DEF IInv, Sound
<1>2. MissingFields(Seeded(soft)) = MissingFields(soft.booking_state)
  BY <1>1, SeededMissing
<1>3. ASSUME soft'.booking_state = soft.booking_state PROVE Explained(soft', soft)
  BY <1>3, NothingLost
<1>4. ASSUME NEW p \in Property, SelectProperty(p) PROVE Explained(soft', soft)
  BY <1>1, <1>3, <1>4, OthersKeepDetails DEF SelectProperty
<1>5. CASE BookSelected
  <2>1. soft.last_selected_property_id \in Property
    BY <1>1, <1>5 DEF BookSelected, SoftState
  <2>2. PICK found \in {None} \cup [ property : {soft.last_selected_property_id},
                     occupancy_max : {None, Capacity[soft.last_selected_property_id]} ] :
          soft' = StartBooking(soft, found)
    BY <1>5 DEF BookSelected
  <2>3. found \in Selected \cup {None}
    BY <2>1, <2>2, DetailsAssumption DEF Selected
  <2>. QED
    BY <1>1, <2>2, <2>3, StartBookingExplained
<1>6. CASE ProvideDetails \/ ChangeInline
  BY <1>1, <1>2, <1>6, CollectExplained DEF ProvideDetails, ChangeInline
<1>7. CASE ResumeBooking
  BY <1>1, <1>7, ResumeExplained DEF ResumeBooking
<1>8. CASE ShowResults \/ DeclineReview \/ ChangeProperty \/ NameChange
  <2>1. CASE ShowResults
    BY <1>1, <1>3, <2>1, OthersKeepDetails DEF ShowResults
  <2>2. CASE DeclineReview
    BY <1>1, <1>3, <2>2, OthersKeepDetails DEF DeclineReview
  <2>3. CASE ChangeProperty \/ NameChange
    BY <1>1, <1>3, <2>3, OthersKeepDetails DEF ChangeProperty, NameChange
  <2>. QED
    BY <1>8, <2>1, <2>2, <2>3
<1>9. ASSUME NEW id \in BookingId, NEW outcome \in Outcome, ConfirmReview(id, outcome)
      PROVE  Explained(soft', soft)
  BY <1>1, <1>3, <1>9, OthersKeepDetails DEF ConfirmReview
<1>10. CASE RequestAmendment
  <2>1. PICK receipt \in IF soft.booking_receipt # None THEN {soft.booking_receipt}
                         ELSE {rows[id] : id \in BookingId} \ {None} :
        \E fields \in SUBSET Field : \E msg \in MessageAbout[fields] :
          soft' = AmendmentTurn([soft EXCEPT !.booking_receipt = receipt], fields, msg)
    BY <1>10 DEF RequestAmendment, AmendableReceipts
  <2>. DEFINE s == [soft EXCEPT !.booking_receipt = receipt]
  <2>2. receipt \in Receipt
    BY <1>1, <2>1 DEF SoftState, IInv
  <2>3. s \in SoftState /\ s.booking_state = soft.booking_state
    BY <1>1, <2>2 DEF SoftState
  <2>4. PICK fields, msg : soft' = AmendmentTurn(s, fields, msg)
    BY <2>1
  <2>. HIDE DEF s
  <2>5. soft'.booking_state = soft.booking_state
    BY <2>3, <2>4, AmendmentsKeepDetails
  <2>. QED
    BY <1>3, <2>5
<1>11. CASE ChooseAmendment \/ GiveAmendmentValues \/ ReopenAmendment
  BY <1>1, <1>3, <1>11, AmendmentsKeepDetails
     DEF ChooseAmendment, GiveAmendmentValues, ReopenAmendment
<1>12. ASSUME NEW outcome \in Outcome, ConfirmAmendment(outcome) PROVE Explained(soft', soft)
  <2>1. soft' \in {soft, StoreAmendment(soft)}
        /\ soft.booking_stage = "awaiting_amendment_confirmation"
    BY <1>12 DEF ConfirmAmendment
  <2>. QED
    BY <1>1, <1>3, <2>1, AmendmentsKeepDetails
<1>13. CASE RequestCancellation \/ KeepBooking
  BY <1>1, <1>3, <1>13, OthersKeepDetails DEF RequestCancellation, KeepBooking
<1>14. ASSUME NEW outcome \in Outcome, NEW marked \in BOOLEAN,
              ConfirmCancellation(outcome, marked)
       PROVE  Explained(soft', soft)
  <2>1. soft' \in {soft, StoreCancellation(soft, marked)}
    BY <1>14 DEF ConfirmCancellation
  <2>. QED
    BY <1>1, <1>3, <2>1, OthersKeepDetails
<1>15. CASE CheckStatus
  BY <1>1, <1>3, <1>15, OthersKeepDetails DEF CheckStatus, StatusReceipts
<1>16. CASE ExpireSession
  BY <1>16 DEF ExpireSession
<1>17. CASE UNCHANGED vars
  BY <1>3, <1>17 DEF vars
<1>. QED
  BY <1>4, <1>5, <1>6, <1>7, <1>8, <1>9, <1>10, <1>11, <1>12, <1>13, <1>14, <1>15, <1>16,
     <1>17, Zenon DEF Next

\* No turn loses a detail the guest gave unless it was found invalid, and then it is
\* asked for again, whatever message came under whatever question (ValidDetailsSurvive).
THEOREM DetailsSurvive == Spec => ValidDetailsSurvive
<1>1. IInv /\ [Next]_vars =>
          [ LET lost == MissingFields(soft'.booking_state) \ MissingFields(soft.booking_state)
            IN  soft' # EmptySoftState =>
                    /\ "contact" \notin lost
                    /\ "check_in" \in lost => /\ soft'.booking_state.check_out = None
                                              /\ soft'.awaiting_field = "check_in"
                    /\ "check_out" \in lost => soft'.awaiting_field \in {"check_in", "check_out"}
                    /\ "guests" \in lost =>
                          /\ soft'.awaiting_field # None
                          /\ soft'.booking_selected_property.occupancy_max # None
          ]_vars
  BY StepExplained DEF Explained, LossExplained
<1>. QED
  BY <1>1, Invariance, PTL DEF Spec, ValidDetailsSurvive

-----------------------------------------------------------------------------
(* The dialogue of an amendment is no dead end: the values of the booking as *)
(* it stands are an answer that completes it.                                *)

LEMMA SameValuesComplete ==
    ASSUME NEW s, Sound(s), Linked(s), s.booking_stage = "awaiting_amendment_values",
           Ordered(s.pending_booking_amendment.base_receipt),
           ~OverCapacity(s.pending_booking_amendment.base_receipt.guests,
                         s.booking_selected_property)
    PROVE  \E msg \in MessageAbout[s.pending_booking_amendment.fields] :
               AmendmentTurn(s, {}, msg).booking_stage = "awaiting_amendment_confirmation"
<1>. DEFINE pending == s.pending_booking_amendment
            base    == pending.base_receipt
            fields  == pending.fields
            value(f) == IF f \in fields THEN base[f] ELSE None
            msg == [contact |-> value("contact"), check_in |-> value("check_in"),
                    check_out |-> value("check_out"), guests |-> value("guests"),
                    outFirst |-> FALSE]
            candidate == Amended(base, fields, msg)
<1>1. /\ s \in SoftState /\ pending # None /\ base \in Receipt /\ fields \in SUBSET Field
      /\ MissingFields(base) = {} /\ fields # {}
  BY DEF Sound, PendingSound, AmendmentStage, SoftState, Amendment, Linked, PendingLinked
<1>2. \A f \in Field : base[f] # None /\ base[f] # Bad
  <2>1. \A f \in Field : base[f] # None
    BY <1>1 DEF MissingFields
  <2>2. /\ base.contact \in Contact /\ base.check_in \in Day /\ base.check_out \in Day
        /\ base.guests \in GuestCount
    BY <1>1, <2>1 DEF Receipt, Field
  <2>. QED
    BY <2>1, <2>2, DetailsAssumption DEF Field
<1>3. \A f \in Field : msg[f] = value(f)
  BY DEF Field
<1>4. msg \in Message
  BY <1>1 DEF Message, Receipt
<1>. HIDE DEF pending, base, fields
<1>5. msg \in MessageAbout[fields]
  BY <1>1, <1>2, <1>3, <1>4 DEF MessageAbout
<1>6. \A f \in fields : msg[f] = base[f] /\ Given(msg[f], base[f]) = base[f]
  BY <1>1, <1>2, <1>3 DEF Given
<1>7. Unusable(fields, msg) = {}
  BY <1>1, <1>2, <1>3 DEF Unusable
<1>. HIDE DEF msg
<1>8. candidate.check_in = base.check_in /\ candidate.check_out = base.check_out
      /\ candidate.guests = base.guests
  BY <1>1, <1>6, Zenon DEF Amended, Receipt
<1>. HIDE DEF candidate
<1>9. AmendErrors(candidate, fields, s.booking_selected_property) = {}
  BY <1>8 DEF AmendErrors, Ordered, OverCapacity, base, pending
<1>10. AmendmentReceipt(s) = base
  BY <1>1 DEF AmendmentReceipt, base, pending
<1>11. AmendmentTurn(s, {}, msg) = OfferAmendment(s, base, fields, candidate)
  BY <1>1, <1>7, <1>9, <1>10 DEF AmendmentTurn, candidate, fields, pending
<1>12. OfferAmendment(s, base, fields, candidate).booking_stage = "awaiting_amendment_confirmation"
  BY <1>1, Zenon DEF OfferAmendment, SoftState
<1>. QED
  BY <1>5, <1>11, <1>12 DEF fields, pending

\* From every question for new values some answer leads to the confirmation, as long as
\* the booking under amendment is itself acceptable (AmendmentCanComplete).
THEOREM AmendmentCompletes == Spec => []AmendmentCanComplete
<1>1. LInv => AmendmentCanComplete
  BY SameValuesComplete DEF LInv, IInv, AmendmentCanComplete
<1>. QED
  BY <1>1, LinkedInvariance, PTL
=============================================================================

--------------------------- MODULE BookingFlowProofs --------------------------
(***************************************************************************)
(* Proofs about BookingFlow, for every set of properties, capacities, days, *)
(* guest counts, contacts and registration ids.  First the shape of what    *)
(* every handler returns (the ...Type lemmas), then the strengthening Sound *)
(* that makes the invariants inductive and its preservation by every        *)
(* handler (the ...Sound lemmas), then one step per action of Next, and at  *)
(* the end the invariants as theorems of the specification.                 *)
(***************************************************************************)
EXTENDS BookingFlow, TLAPS

-----------------------------------------------------------------------------
(* The shape of the data.                                                    *)

\* The question asked first, and the error reported first, is one of the set it is
\* chosen from (next_field_to_ask and the error order of validation.py:93-116).
LEMMA FirstByMember ==
    ASSUME NEW S \in SUBSET Field, S # {}
    PROVE  /\ FirstBy(AskRank, S) \in S
           /\ FirstBy(ErrorRank, S) \in S
<1>1. \A f \in Field : AskRank[f] \in 1..4 /\ ErrorRank[f] \in 1..4
  BY DEF AskRank, ErrorRank, Field
<1>2. \E f \in S : \A g \in S : AskRank[f] <= AskRank[g]
  <2>1. CASE "contact" \in S
    <3>1. \A g \in S : AskRank["contact"] <= AskRank[g]
      BY <1>1 DEF AskRank, Field
    <3>. QED  BY <2>1, <3>1
  <2>2. CASE "contact" \notin S /\ "check_in" \in S
    <3>1. \A g \in S : AskRank["check_in"] <= AskRank[g]
      BY <2>2, <1>1 DEF AskRank, Field
    <3>. QED  BY <2>2, <3>1
  <2>3. CASE "contact" \notin S /\ "check_in" \notin S /\ "check_out" \in S
    <3>1. \A g \in S : AskRank["check_out"] <= AskRank[g]
      BY <2>3, <1>1 DEF AskRank, Field
    <3>. QED  BY <2>3, <3>1
  <2>4. CASE S = {"guests"}
    BY <2>4, <1>1
  <2>. QED
    BY <2>1, <2>2, <2>3, <2>4 DEF Field
<1>3. \E f \in S : \A g \in S : ErrorRank[f] <= ErrorRank[g]
  <2>1. CASE "check_in" \in S
    <3>1. \A g \in S : ErrorRank["check_in"] <= ErrorRank[g]
      BY <1>1 DEF ErrorRank, Field
    <3>. QED  BY <2>1, <3>1
  <2>2. CASE "check_in" \notin S /\ "check_out" \in S
    <3>1. \A g \in S : ErrorRank["check_out"] <= ErrorRank[g]
      BY <2>2, <1>1 DEF ErrorRank, Field
    <3>. QED  BY <2>2, <3>1
  <2>3. CASE "check_in" \notin S /\ "check_out" \notin S /\ "contact" \in S
    <3>1. \A g \in S : ErrorRank["contact"] <= ErrorRank[g]
      BY <2>3, <1>1 DEF ErrorRank, Field
    <3>. QED  BY <2>3, <3>1
  <2>4. CASE S = {"guests"}
    BY <2>4, <1>1
  <2>. QED
    BY <2>1, <2>2, <2>3, <2>4 DEF Field
<1>. QED
  BY <1>2, <1>3, Zenon DEF FirstBy

\* The values read from a message are stored only when their validators accept them.
LEMMA UpdatedType ==
    ASSUME NEW d \in Draft, NEW msg \in Message
    PROVE  Updated(d, msg) \in Draft
<1>1. /\ Given(msg.contact, d.contact) \in Contact \cup {None}
      /\ Given(msg.check_in, d.check_in) \in Day \cup {None}
      /\ NewCheckOut(d, msg) \in Day \cup {None}
      /\ Given(msg.guests, d.guests) \in GuestCount \cup {None}
  BY DEF Given, Draft, Message, NewCheckOut
<1>. QED
  BY <1>1 DEF Updated, Draft

\* Seeding a draft with its property gives a draft (_seed_property_fields).
LEMMA SeedType ==
    ASSUME NEW d \in Draft, NEW p \in Property \cup {None},
           NEW selected \in Selected \cup {None}
    PROVE  Seed(d, p, selected) \in Draft
<1>1. selected # None => selected.property \in Property
  BY DEF Selected
<1>. QED
  BY <1>1 DEF Seed, Draft

\* What is left after the capacity and the dates are checked is a draft.
LEMMA CommittedType ==
    ASSUME NEW d \in Draft, NEW msg \in Message, NEW selected
    PROVE  Committed(d, msg, selected) \in Draft
<1>. DEFINE u == Updated(d, msg)
<1>1. u \in Draft
  BY UpdatedType
<1>2. /\ FittingGuests(u.guests, selected) \in GuestCount \cup {None}
      /\ ValidCheckIn(u, msg) \in Day \cup {None}
      /\ ValidCheckOut(u, msg) \in Day \cup {None}
  BY <1>1 DEF Draft, FittingGuests, ValidCheckIn, ValidCheckOut
<1>. HIDE DEF u
<1>3. [u EXCEPT !.guests    = FittingGuests(u.guests, selected),
                !.check_in  = ValidCheckIn(u, msg),
                !.check_out = ValidCheckOut(u, msg)] \in Draft
  BY <1>1, <1>2 DEF Draft
<1>. QED
  BY <1>3 DEF Committed, u

\* The field to ask for next is a known field, the title, or none.
LEMMA NextFieldType ==
    ASSUME NEW d \in Draft, NEW msg \in Message, NEW selected
    PROVE  NextField(d, msg, selected) \in Field \cup {"property_title", None}
<1>1. CommitErrors(d, msg, selected) \in SUBSET Field
  BY DEF CommitErrors, Field
<1>2. MissingFields(Committed(d, msg, selected)) \in SUBSET Field
  BY DEF MissingFields
<1>. QED
  BY <1>1, <1>2, FirstByMember, Zenon DEF NextField, NextMissing

\* Seeding the session's own draft gives a draft (_ensure_property_seeded).
LEMMA SeededType ==
    ASSUME NEW s \in SoftState
    PROVE  Seeded(s) \in Draft
<1>1. /\ s.booking_state \in Draft
      /\ s.booking_property_id \in Property \cup {None}
      /\ s.last_selected_property_id \in Property \cup {None}
      /\ s.booking_selected_property \in Selected \cup {None}
  BY DEF SoftState
<1>. QED
  BY <1>1, SeedType, Zenon DEF Seeded

\* Presenting a review keeps the shape of soft_state.
LEMMA PresentReviewType ==
    ASSUME NEW s \in SoftState, NEW d \in Draft
    PROVE  PresentReview(s, d) \in SoftState
  BY DEF PresentReview, SoftState, Stage

\* Committing the values of a message keeps the shape of soft_state.
LEMMA CollectType ==
    ASSUME NEW s \in SoftState, NEW msg \in Message, NEW stage \in Stage
    PROVE  Collect(s, msg, stage) \in SoftState
<1>. DEFINE selected == s.booking_selected_property
            d    == Committed(Seeded(s), msg, selected)
            next == NextField(Seeded(s), msg, selected)
<1>1. Seeded(s) \in Draft
  BY SeededType
<1>2. d \in Draft /\ next \in Field \cup {"property_title", None}
  BY <1>1, CommittedType, NextFieldType
<1>. HIDE DEF d, next
<1>3. PresentReview(s, d) \in SoftState
  BY <1>2, PresentReviewType
<1>4. [s EXCEPT !.booking_stage = stage, !.details_shown = FALSE,
                !.booking_state = d, !.awaiting_field = next] \in SoftState
  BY <1>2 DEF SoftState
<1>. QED
  BY <1>3, <1>4, Zenon DEF Collect, d, next

\* A turn that brings no value is validated as a message without values.
LEMMA NoMessageType == NoMessage \in Message
  BY DEF NoMessage, Message

\* Starting a booking keeps the shape of soft_state, whatever the results hold.
LEMMA StartBookingType ==
    ASSUME NEW s \in SoftState, NEW found \in Selected \cup {None}
    PROVE  StartBooking(s, found) \in SoftState
<1>. DEFINE p    == s.last_selected_property_id
            kept == s.booking_selected_property
            selected == IF found = None \/ (kept # None /\ kept.property = p)
                        THEN kept ELSE found
            t == [s EXCEPT !.booking_property_id = p,
                           !.booking_selected_property = selected]
<1>1. p \in Property \cup {None} /\ selected \in Selected \cup {None}
  BY DEF SoftState
<1>. HIDE DEF p, selected
<1>2. t \in SoftState
  BY <1>1 DEF SoftState
<1>. HIDE DEF t
<1>3. Collect(t, NoMessage, "collecting_details") \in SoftState
  BY <1>2, NoMessageType, CollectType DEF Stage
<1>. QED
  BY <1>3, Zenon DEF StartBooking, p, selected, t

\* Resuming a booking keeps the shape of soft_state.
LEMMA ResumeType ==
    ASSUME NEW s \in SoftState
    PROVE  Resume(s) \in SoftState
<1>. DEFINE d == Seeded(s)
            t == [s EXCEPT !.booking_state = d]
<1>1. d \in Draft
  BY SeededType
<1>. HIDE DEF d
<1>2. t \in SoftState
  BY <1>1 DEF SoftState
<1>3. t.booking_state \in Draft
  BY <1>2 DEF SoftState
<1>. HIDE DEF t
<1>4. [t EXCEPT !.booking_stage = "awaiting_confirmation",
                !.booking_review = t.booking_state] \in SoftState
  BY <1>2, <1>3 DEF SoftState, Stage
<1>. QED
  BY <1>2, <1>4, Zenon DEF Resume, t, d

\* So do the answers to a review that ask for something else.
LEMMA ReviewHandlersType ==
    ASSUME NEW s \in SoftState
    PROVE  /\ \A p \in Property : ShowDetails(s, p) \in SoftState
           /\ \A viewKept \in BOOLEAN : RefuseReview(s, viewKept) \in SoftState
           /\ Reselect(s) \in SoftState
           /\ \A field \in Field : AskForChange(s, field) \in SoftState
<1>1. \A p \in Property : ShowDetails(s, p) \in SoftState
  BY DEF ShowDetails, SoftState
<1>2. \A viewKept \in BOOLEAN : RefuseReview(s, viewKept) \in SoftState
  <2>1. ASSUME NEW shown \in BOOLEAN, NEW open \in {None, s.awaiting_field}
        PROVE  [s EXCEPT !.booking_stage = "awaiting_modification_choice",
                         !.details_shown = shown, !.awaiting_field = open] \in SoftState
    BY DEF SoftState, Stage
  <2>2. \A viewKept \in BOOLEAN :
            /\ (s.details_shown /\ viewKept) \in BOOLEAN
            /\ (IF viewKept THEN None ELSE s.awaiting_field) \in {None, s.awaiting_field}
    OBVIOUS
  <2>. QED
    BY <2>1, <2>2, Zenon DEF RefuseReview
<1>3. Reselect(s) \in SoftState
  BY DEF Reselect, SoftState, Stage
<1>4. \A field \in Field : AskForChange(s, field) \in SoftState
  BY DEF AskForChange, SoftState, Stage
<1>. QED
  BY <1>1, <1>2, <1>3, <1>4

\* A complete review makes a receipt (confirm_booking_review).
LEMMA ReceiptOfType ==
    ASSUME NEW review \in Draft, NEW id \in BookingId
    PROVE  ReceiptOf(review, id) \in Receipt
  BY DEF ReceiptOf, Receipt, Draft, Status

\* Storing a receipt keeps the shape of soft_state.
LEMMA StoreReceiptType ==
    ASSUME NEW s \in SoftState, NEW receipt \in Receipt
    PROVE  StoreReceipt(s, receipt) \in SoftState
  BY DEF StoreReceipt, SoftState, Stage

\* Storing a confirmation keeps the shape of soft_state.
LEMMA StoreConfirmationType ==
    ASSUME NEW s \in SoftState, s.booking_review # None, NEW id \in BookingId
    PROVE  StoreConfirmation(s, id) \in SoftState
<1>. DEFINE receipt == ReceiptOf(s.booking_review, id)
<1>1. receipt \in Receipt
  BY ReceiptOfType DEF SoftState
<1>. HIDE DEF receipt
<1>2. [s EXCEPT !.booking_stage = "confirmed", !.details_shown = FALSE,
                !.booking_receipt = receipt, !.awaiting_field = None] \in SoftState
  BY <1>1 DEF SoftState, Stage
<1>. QED
  BY <1>2, Zenon DEF StoreConfirmation, receipt

\* The candidate of an amendment is a receipt.
LEMMA AmendedType ==
    ASSUME NEW receipt \in Receipt, NEW fields \in SUBSET Field, NEW msg \in Message
    PROVE  Amended(receipt, fields, msg) \in Receipt
<1>. DEFINE value(f) == IF f \in fields THEN Given(msg[f], receipt[f]) ELSE receipt[f]
<1>1. /\ value("contact") \in Contact \cup {None}
      /\ value("check_in") \in Day \cup {None}
      /\ value("check_out") \in Day \cup {None}
      /\ value("guests") \in GuestCount \cup {None}
  BY DEF Given, Receipt, Message
<1>. HIDE DEF value
<1>2. [receipt EXCEPT !.contact = value("contact"),   !.check_in = value("check_in"),
                      !.check_out = value("check_out"), !.guests = value("guests")]
        \in Receipt
  BY <1>1 DEF Receipt
<1>. QED
  BY <1>2, Zenon DEF Amended, value

\* A row stays a row when the columns of an amendment are written to it.
LEMMA WithColumnsType ==
    ASSUME NEW row \in Receipt, NEW receipt \in Receipt, NEW fields \in SUBSET Field
    PROVE  WithColumns(row, fields, receipt) \in Receipt
<1>. DEFINE column(f) == IF f \in fields THEN receipt[f] ELSE row[f]
<1>1. /\ column("contact") \in Contact \cup {None}
      /\ column("check_in") \in Day \cup {None}
      /\ column("check_out") \in Day \cup {None}
      /\ column("guests") \in GuestCount \cup {None}
  BY DEF Receipt
<1>. HIDE DEF column
<1>2. [row EXCEPT !.contact = column("contact"),   !.check_in = column("check_in"),
                  !.check_out = column("check_out"), !.guests = column("guests")] \in Receipt
  BY <1>1 DEF Receipt
<1>. QED
  BY <1>2, Zenon DEF WithColumns, column

\* The questions and the offer of the amendment dialogue keep the shape of
\* soft_state.
LEMMA AmendmentAskersType ==
    ASSUME NEW s \in SoftState, NEW receipt \in Receipt
    PROVE  /\ AskForAmendmentChoice(s, receipt) \in SoftState
           /\ \A fields \in SUBSET Field : \A asked \in SUBSET Field :
                 asked # {} => AskForAmendmentValues(s, receipt, fields, asked) \in SoftState
           /\ \A fields \in SUBSET Field : \A candidate \in Receipt :
                 OfferAmendment(s, receipt, fields, candidate) \in SoftState
<1>1. ASSUME NEW pending \in Amendment, NEW stage \in Stage,
             NEW field \in Field \cup {"property_title", None}
      PROVE  [s EXCEPT !.booking_stage = stage, !.awaiting_field = field,
                       !.pending_booking_amendment = pending] \in SoftState
  BY DEF SoftState
<1>2. ASSUME NEW pending \in Amendment
      PROVE  [s EXCEPT !.booking_stage = "awaiting_amendment_confirmation",
                       !.details_shown = FALSE, !.awaiting_field = None,
                       !.pending_booking_amendment = pending] \in SoftState
  BY DEF SoftState, Stage, AmendmentStage
<1>3. \A fields \in SUBSET Field : \A candidate \in Receipt \cup {None} :
        [base_receipt |-> receipt, candidate_receipt |-> candidate, fields |-> fields]
          \in Amendment
  BY DEF Amendment
<1>4. "awaiting_amendment_choice" \in Stage /\ "awaiting_amendment_values" \in Stage
  BY DEF Stage, AmendmentStage
<1>5. \A asked \in SUBSET Field : asked # {} => FirstBy(AskRank, asked) \in Field
  BY FirstByMember
<1>6. AskForAmendmentChoice(s, receipt) \in SoftState
  BY <1>1, <1>3, <1>4, Zenon DEF AskForAmendmentChoice
<1>7. ASSUME NEW fields \in SUBSET Field, NEW asked \in SUBSET Field, asked # {}
      PROVE  AskForAmendmentValues(s, receipt, fields, asked) \in SoftState
  BY <1>1, <1>3, <1>4, <1>5, <1>7, Zenon DEF AskForAmendmentValues
<1>8. ASSUME NEW fields \in SUBSET Field, NEW candidate \in Receipt
      PROVE  OfferAmendment(s, receipt, fields, candidate) \in SoftState
  BY <1>2, <1>3, Zenon DEF OfferAmendment
<1>. QED
  BY <1>6, <1>7, <1>8

-----------------------------------------------------------------------------
(* The inductive invariant.  Each part is a predicate on one soft_state, so  *)
(* that a handler can be shown to preserve it without looking at the step    *)
(* that calls the handler.                                                   *)

\* An amendment is pending exactly in its stages, of a receipt the session holds;
\* it has a candidate, and a field to change, when it is up for confirmation.
PendingSound(s) ==
    LET pending == s.pending_booking_amendment
    IN  /\ s.booking_stage \in AmendmentStage <=> pending # None
        /\ pending # None => s.booking_receipt # None
        /\ s.booking_stage = "awaiting_amendment_confirmation"
              => pending.candidate_receipt # None /\ pending.fields # {}

AskingSound(s) ==
    s.awaiting_field # None <=>
        s.booking_stage \in {"collecting_details", "modifying_details",
                            "awaiting_amendment_values"}

DraftSound(d, selected) == Ordered(d) /\ ~OverCapacity(d.guests, selected)

\* The review is the draft, complete, and the draft already names the property the
\* session books: resuming the review does not change it.
ReviewSound(s) ==
    s.booking_stage = "awaiting_confirmation" =>
        /\ s.booking_review = s.booking_state
        /\ MissingFields(s.booking_state) = {}
        /\ Seeded(s) = s.booking_state

Sound(s) ==
    /\ s \in SoftState
    /\ PendingSound(s)
    /\ AskingSound(s)
    /\ DraftSound(s.booking_state, s.booking_selected_property)
    /\ ReviewSound(s)

IInv == /\ Sound(soft)
        /\ rows \in [BookingId -> Receipt \cup {None}]
        /\ issued \subseteq BookingId

-----------------------------------------------------------------------------
(* What the validation of a message guarantees.                              *)

\* Seeding touches neither the dates nor the guests, and seeding again changes
\* nothing.
LEMMA SeedSound ==
    ASSUME NEW d \in Draft, NEW p \in Property \cup {None},
           NEW selected \in Selected \cup {None}, NEW occupancy,
           DraftSound(d, occupancy)
    PROVE  /\ DraftSound(Seed(d, p, selected), occupancy)
           /\ Seed(Seed(d, p, selected), p, selected) = Seed(d, p, selected)
           /\ MissingFields(Seed(d, p, selected)) = MissingFields(d)
<1>. DEFINE e == Seed(d, p, selected)
<1>1. /\ e.check_in = d.check_in /\ e.check_out = d.check_out
      /\ e.guests = d.guests /\ e.contact = d.contact
  BY Zenon DEF Seed, Draft
<1>2. e \in Draft
  BY SeedType
<1>3. /\ p # None => e.property_id = p
      /\ selected # None => e.property_title = selected.property
  BY Zenon DEF Seed, Draft
<1>4. Seed(e, p, selected) = e
  BY <1>2, <1>3, Zenon DEF Seed, Draft
<1>5. DraftSound(e, occupancy)
  BY <1>1, Zenon DEF DraftSound, Ordered
<1>6. \A f \in Field : e[f] = d[f]
  BY <1>1 DEF Field
<1>7. MissingFields(e) = MissingFields(d)
  BY <1>6 DEF MissingFields
<1>. QED
  BY <1>4, <1>5, <1>7

\* After _validate_and_commit_state the dates are in order and the guests fit.
LEMMA CommittedSound ==
    ASSUME NEW d \in Draft, NEW msg \in Message, NEW selected
    PROVE  DraftSound(Committed(d, msg, selected), selected)
<1>. DEFINE u == Updated(d, msg)
            c == Committed(d, msg, selected)
<1>1. u \in Draft
  BY UpdatedType
<1>2. /\ c.guests = FittingGuests(u.guests, selected)
      /\ c.check_in = ValidCheckIn(u, msg)
      /\ c.check_out = ValidCheckOut(u, msg)
  BY <1>1, Zenon DEF Committed, Draft
<1>. HIDE DEF u, c
<1>3. Ordered(c)
  BY <1>2, Zenon DEF Ordered, ValidCheckIn, ValidCheckOut
<1>4. ~OverCapacity(c.guests, selected)
  BY <1>2, Zenon DEF FittingGuests, OverCapacity
<1>. QED
  BY <1>3, <1>4 DEF DraftSound, c

\* When no question is left, nothing was refused and no detail is missing: what is
\* then presented for review is complete.
LEMMA NextFieldNone ==
    ASSUME NEW d \in Draft, NEW msg \in Message, NEW selected,
           NextField(d, msg, selected) = None
    PROVE  MissingFields(Committed(d, msg, selected)) = {}
<1>1. CommitErrors(d, msg, selected) \in SUBSET Field
  BY DEF CommitErrors, Field
<1>2. MissingFields(Committed(d, msg, selected)) \in SUBSET Field
  BY DEF MissingFields
<1>3. None \notin Field
  BY FieldAssumption
<1>4. CommitErrors(d, msg, selected) = {}
  BY <1>1, <1>3, FirstByMember, Zenon DEF NextField
<1>5. NextMissing(Committed(d, msg, selected)) = None
  BY <1>4, Zenon DEF NextField
<1>. QED
  BY <1>2, <1>3, <1>5, FirstByMember, Zenon DEF NextMissing

\* The values of a message leave the property of the draft alone, so a draft seeded
\* before they are committed is still seeded afterwards.
LEMMA CommittedSeeded ==
    ASSUME NEW d \in Draft, NEW p \in Property \cup {None}, NEW msg \in Message,
           NEW selected \in Selected \cup {None}
    PROVE  Seed(Committed(Seed(d, p, selected), msg, selected), p, selected)
             = Committed(Seed(d, p, selected), msg, selected)
<1>. DEFINE e == Seed(d, p, selected)
            u == Updated(e, msg)
            c == Committed(e, msg, selected)
<1>1. e \in Draft
  BY SeedType
<1>2. /\ p # None => e.property_id = p
      /\ selected # None => e.property_title = selected.property
  BY Zenon DEF Seed, Draft
<1>. HIDE DEF e
<1>3. u \in Draft /\ c \in Draft
  BY <1>1, UpdatedType, CommittedType
<1>4. u.property_id = e.property_id /\ u.property_title = e.property_title
  BY <1>1, Zenon DEF Updated, Draft
<1>5. c.property_id = u.property_id /\ c.property_title = u.property_title
  BY <1>3, Zenon DEF Committed, Draft
<1>6. /\ p # None => c.property_id = p
      /\ selected # None => c.property_title = selected.property
  BY <1>2, <1>4, <1>5
<1>. HIDE DEF c
<1>7. Seed(c, p, selected) = c
  BY <1>3, <1>6, Zenon DEF Seed, Draft
<1>. QED
  BY <1>7 DEF c, e

-----------------------------------------------------------------------------
(* Every handler keeps a sound soft_state sound.                             *)

\* ... when it touches nothing the parts of Sound relate,
LEMMA SoundFrame ==
    ASSUME NEW s, Sound(s), NEW t \in SoftState,
           t.booking_stage = s.booking_stage, t.awaiting_field = s.awaiting_field,
           t.booking_state = s.booking_state, t.booking_review = s.booking_review,
           t.booking_property_id = s.booking_property_id,
           t.last_selected_property_id = s.last_selected_property_id,
           t.booking_selected_property = s.booking_selected_property,
           t.pending_booking_amendment = s.pending_booking_amendment,
           s.booking_receipt # None => t.booking_receipt # None
    PROVE  Sound(t)
<1>1. Seeded(t) = Seeded(s)
  BY DEF Seeded
<1>2. PendingSound(t) /\ AskingSound(t)
  BY DEF Sound, PendingSound, AskingSound
<1>3. ReviewSound(t)
  BY <1>1 DEF Sound, ReviewSound
<1>. QED
  BY <1>2, <1>3 DEF Sound

\* ... when it leaves nothing pending and nothing asked,
LEMMA SoundAtRest ==
    ASSUME NEW t \in SoftState,
           t.booking_stage \in {"none", "confirmed", "awaiting_modification_choice",
                               "awaiting_property_reselection"},
           t.pending_booking_amendment = None, t.awaiting_field = None,
           DraftSound(t.booking_state, t.booking_selected_property)
    PROVE  Sound(t)
<1>1. PendingSound(t) /\ AskingSound(t) /\ ReviewSound(t)
  BY DEF PendingSound, AskingSound, ReviewSound, AmendmentStage
<1>. QED
  BY <1>1 DEF Sound

\* ... and when it takes an amendment to one of its stages.
LEMMA SoundAmending ==
    ASSUME NEW t \in SoftState, t.booking_stage \in AmendmentStage,
           t.pending_booking_amendment # None, t.booking_receipt # None,
           t.booking_stage = "awaiting_amendment_confirmation"
              => /\ t.pending_booking_amendment.candidate_receipt # None
                 /\ t.pending_booking_amendment.fields # {},
           t.awaiting_field # None <=> t.booking_stage = "awaiting_amendment_values",
           DraftSound(t.booking_state, t.booking_selected_property)
    PROVE  Sound(t)
<1>1. PendingSound(t) /\ AskingSound(t) /\ ReviewSound(t)
  BY DEF PendingSound, AskingSound, ReviewSound, AmendmentStage
<1>. QED
  BY <1>1 DEF Sound

\* Committing the values of a message leaves the draft, the review and the open
\* question consistent with the stage.
LEMMA CollectSound ==
    ASSUME NEW s \in SoftState, s.pending_booking_amendment = None, NEW msg \in Message,
           NEW stage \in {"collecting_details", "modifying_details"}
    PROVE  Sound(Collect(s, msg, stage))
<1>. DEFINE selected == s.booking_selected_property
            p    == IF s.booking_property_id # None THEN s.booking_property_id
                                                    ELSE s.last_selected_property_id
            d    == Committed(Seeded(s), msg, selected)
            next == NextField(Seeded(s), msg, selected)
            t    == Collect(s, msg, stage)
<1>1. /\ s.booking_state \in Draft /\ p \in Property \cup {None}
      /\ selected \in Selected \cup {None}
  BY DEF SoftState
<1>2. Seeded(s) \in Draft /\ Seeded(s) = Seed(s.booking_state, p, selected)
  BY SeededType DEF Seeded
<1>3. /\ d \in Draft /\ next \in Field \cup {"property_title", None}
      /\ DraftSound(d, selected)
      /\ next = None => MissingFields(d) = {}
  BY <1>2, CommittedType, NextFieldType, CommittedSound, NextFieldNone
<1>4. Seed(d, p, selected) = d
  <2>. HIDE DEF p, selected
  <2>. QED
    BY <1>1, <1>2, CommittedSeeded
<1>5. t \in SoftState
  BY CollectType DEF Stage
<1>6. CASE next = None
  <2>1. t = PresentReview(s, d)
    BY <1>6, Zenon DEF Collect
  <2>. HIDE DEF d, t
  <2>2. /\ t.booking_stage = "awaiting_confirmation" /\ t.awaiting_field = None
        /\ t.booking_state = d /\ t.booking_review = d
        /\ t.booking_selected_property = selected
        /\ t.booking_property_id = s.booking_property_id
        /\ t.last_selected_property_id = s.last_selected_property_id
        /\ t.pending_booking_amendment = None
    BY <2>1, Zenon DEF PresentReview, SoftState
  <2>3. Seeded(t) = d
    BY <2>2, <1>4 DEF Seeded
  <2>4. PendingSound(t) /\ AskingSound(t)
    BY <2>2 DEF PendingSound, AskingSound, AmendmentStage
  <2>5. ReviewSound(t)
    BY <1>3, <1>6, <2>2, <2>3 DEF ReviewSound
  <2>6. Sound(t)
    BY <1>3, <1>5, <2>2, <2>4, <2>5 DEF Sound
  <2>. QED
    BY <2>6 DEF t
<1>7. CASE next # None
  <2>1. t = [s EXCEPT !.booking_stage = stage, !.details_shown = FALSE,
                      !.booking_state = d, !.awaiting_field = next]
    BY <1>7, Zenon DEF Collect
  <2>. HIDE DEF d, t, next
  <2>2. /\ t.booking_stage = stage /\ t.awaiting_field = next /\ t.booking_state = d
        /\ t.booking_selected_property = selected
        /\ t.pending_booking_amendment = None
    BY <2>1, Zenon DEF SoftState
  <2>3. PendingSound(t) /\ AskingSound(t) /\ ReviewSound(t)
    BY <1>7, <2>2 DEF PendingSound, AskingSound, ReviewSound, AmendmentStage
  <2>4. Sound(t)
    BY <1>3, <1>5, <2>2, <2>3 DEF Sound
  <2>. QED
    BY <2>4 DEF t
<1>. QED
  BY <1>6, <1>7

\* Starting a booking does, also when the session holds details of another one.
LEMMA StartBookingSound ==
    ASSUME NEW s, Sound(s), s.pending_booking_amendment = None,
           NEW found \in Selected \cup {None}
    PROVE  Sound(StartBooking(s, found))
<1>. DEFINE p    == s.last_selected_property_id
            kept == s.booking_selected_property
            selected == IF found = None \/ (kept # None /\ kept.property = p)
                        THEN kept ELSE found
            t == [s EXCEPT !.booking_property_id = p,
                           !.booking_selected_property = selected]
<1>1. s \in SoftState
  BY DEF Sound
<1>2. p \in Property \cup {None} /\ selected \in Selected \cup {None}
  BY <1>1 DEF SoftState
<1>. HIDE DEF p, selected
<1>3. t \in SoftState /\ t.pending_booking_amendment = None
  BY <1>1, <1>2 DEF SoftState
<1>. HIDE DEF t
<1>4. Sound(Collect(t, NoMessage, "collecting_details"))
  BY <1>3, NoMessageType, CollectSound
<1>. QED
  BY <1>4, Zenon DEF StartBooking, p, selected, t

\* Resuming does: a review is brought back only when no question is open.
LEMMA ResumeSound ==
    ASSUME NEW s, Sound(s), s.booking_stage \notin AmendmentStage
    PROVE  Sound(Resume(s))
<1>. DEFINE selected == s.booking_selected_property
            p == IF s.booking_property_id # None THEN s.booking_property_id
                                                 ELSE s.last_selected_property_id
            d == Seeded(s)
            t == [s EXCEPT !.booking_state = d]
            r == [t EXCEPT !.booking_stage = "awaiting_confirmation",
                           !.booking_review = t.booking_state]
<1>1. s \in SoftState /\ DraftSound(s.booking_state, selected)
  BY DEF Sound
<1>2. /\ s.booking_state \in Draft /\ p \in Property \cup {None}
      /\ selected \in Selected \cup {None}
  BY <1>1 DEF SoftState
<1>3. d \in Draft /\ d = Seeded(s) /\ d = Seed(s.booking_state, p, selected)
  BY <1>1, SeededType DEF Seeded
<1>4. /\ DraftSound(d, selected)
      /\ Seed(d, p, selected) = d
      /\ MissingFields(d) = MissingFields(s.booking_state)
  <2>. HIDE DEF p, selected, d
  <2>. QED
    BY <1>1, <1>2, <1>3, SeedSound
<1>. HIDE DEF d
<1>5. /\ t \in SoftState /\ t.booking_state = d
      /\ t.booking_stage = s.booking_stage /\ t.awaiting_field = s.awaiting_field
      /\ t.booking_review = s.booking_review
      /\ t.booking_selected_property = selected
      /\ t.booking_property_id = s.booking_property_id
      /\ t.last_selected_property_id = s.last_selected_property_id
      /\ t.booking_receipt = s.booking_receipt
      /\ t.pending_booking_amendment = s.pending_booking_amendment
  BY <1>1, <1>3, Zenon DEF SoftState
<1>. HIDE DEF t
<1>6. Seeded(t) = d
  BY <1>4, <1>5 DEF Seeded
<1>7. Sound(t)
  <2>1. PendingSound(t) /\ AskingSound(t)
    BY <1>5 DEF Sound, PendingSound, AskingSound
  <2>2. ReviewSound(t)
    BY <1>3, <1>5, <1>6 DEF Sound, ReviewSound
  <2>. QED
    BY <1>4, <1>5, <2>1, <2>2 DEF Sound
<1>8. ASSUME s.awaiting_field = None, MissingFields(d) = {}
      PROVE  Sound(r)
  <2>1. /\ r.booking_stage = "awaiting_confirmation" /\ r.awaiting_field = None
        /\ r.booking_state = d /\ r.booking_review = d
        /\ r.booking_selected_property = selected
        /\ r.booking_property_id = s.booking_property_id
        /\ r.last_selected_property_id = s.last_selected_property_id
        /\ r.pending_booking_amendment = s.pending_booking_amendment
    BY <1>5, <1>8, Zenon DEF SoftState
  <2>2. r \in SoftState
    BY <1>3, <1>5 DEF SoftState, Stage
  <2>. HIDE DEF r
  <2>3. Seeded(r) = d
    BY <2>1, <1>4 DEF Seeded
  <2>4. PendingSound(r) /\ AskingSound(r)
    BY <2>1 DEF Sound, PendingSound, AskingSound, AmendmentStage
  <2>5. ReviewSound(r)
    BY <1>8, <2>1, <2>3 DEF ReviewSound
  <2>. QED
    BY <1>4, <2>1, <2>2, <2>4, <2>5 DEF Sound
<1>9. \/ Resume(s) = t
      \/ Resume(s) = r /\ s.awaiting_field = None /\ MissingFields(d) = {}
  BY <1>5, Zenon DEF Resume, t, d
<1>. QED
  BY <1>7, <1>8, <1>9, Zenon

\* The answers to a review that ask for something else do.
LEMMA ReviewHandlersSound ==
    ASSUME NEW s, Sound(s), s.booking_stage \notin AmendmentStage
    PROVE  /\ \A p \in Property :
                 s.booking_stage # "awaiting_confirmation" => Sound(ShowDetails(s, p))
           /\ s.awaiting_field = None => \A viewKept \in BOOLEAN : Sound(RefuseReview(s, viewKept))
           /\ s.awaiting_field = None => Sound(Reselect(s))
           /\ \A field \in Field : Sound(AskForChange(s, field))
<1>1. /\ s \in SoftState /\ s.pending_booking_amendment = None
      /\ DraftSound(s.booking_state, s.booking_selected_property)
  BY DEF Sound, PendingSound
<1>2. ASSUME NEW p \in Property, s.booking_stage # "awaiting_confirmation"
      PROVE  Sound(ShowDetails(s, p))
  <2>. DEFINE t == ShowDetails(s, p)
  <2>1. /\ t.booking_stage = s.booking_stage /\ t.awaiting_field = s.awaiting_field
        /\ t.booking_state = s.booking_state
        /\ t.booking_selected_property = s.booking_selected_property
        /\ t.booking_receipt = s.booking_receipt
        /\ t.pending_booking_amendment = s.pending_booking_amendment
    BY <1>1, Zenon DEF ShowDetails, SoftState
  <2>2. t \in SoftState
    BY <1>1, ReviewHandlersType
  <2>. HIDE DEF t
  <2>3. PendingSound(t) /\ AskingSound(t) /\ ReviewSound(t)
    BY <1>2, <2>1 DEF Sound, PendingSound, AskingSound, ReviewSound
  <2>4. Sound(t)
    BY <1>1, <2>1, <2>2, <2>3 DEF Sound
  <2>. QED
    BY <2>4 DEF t
<1>3. ASSUME s.awaiting_field = None, NEW viewKept \in BOOLEAN
      PROVE  Sound(RefuseReview(s, viewKept))
  <2>. DEFINE t == RefuseReview(s, viewKept)
  <2>1. /\ t.booking_stage = "awaiting_modification_choice" /\ t.awaiting_field = None
        /\ t.booking_state = s.booking_state
        /\ t.booking_selected_property = s.booking_selected_property
        /\ t.pending_booking_amendment = None
    BY <1>1, <1>3, Zenon DEF RefuseReview, SoftState
  <2>2. t \in SoftState
    BY <1>1, ReviewHandlersType
  <2>. HIDE DEF t
  <2>3. Sound(t)
    BY <1>1, <2>1, <2>2, SoundAtRest
  <2>. QED
    BY <2>3 DEF t
<1>4. ASSUME s.awaiting_field = None
      PROVE  Sound(Reselect(s))
  <2>. DEFINE t == Reselect(s)
  <2>1. /\ t.booking_stage = "awaiting_property_reselection" /\ t.awaiting_field = None
        /\ t.booking_state = s.booking_state
        /\ t.booking_selected_property = s.booking_selected_property
        /\ t.pending_booking_amendment = None
    BY <1>1, <1>4, Zenon DEF Reselect, SoftState
  <2>2. t \in SoftState
    BY <1>1, ReviewHandlersType
  <2>. HIDE DEF t
  <2>3. Sound(t)
    BY <1>1, <2>1, <2>2, SoundAtRest
  <2>. QED
    BY <2>3 DEF t
<1>5. ASSUME NEW field \in Field
      PROVE  Sound(AskForChange(s, field))
  <2>. DEFINE t == AskForChange(s, field)
  <2>1. /\ t.booking_stage = "modifying_details" /\ t.awaiting_field = field
        /\ t.booking_state = s.booking_state
        /\ t.booking_selected_property = s.booking_selected_property
        /\ t.pending_booking_amendment = None
    BY <1>1, Zenon DEF AskForChange, SoftState
  <2>2. t \in SoftState
    BY <1>1, ReviewHandlersType
  <2>. HIDE DEF t
  <2>3. PendingSound(t) /\ AskingSound(t) /\ ReviewSound(t)
    BY <2>1, FieldAssumption DEF PendingSound, AskingSound, ReviewSound, AmendmentStage
  <2>4. Sound(t)
    BY <1>1, <2>1, <2>2, <2>3 DEF Sound
  <2>. QED
    BY <2>4 DEF t
<1>. QED
  BY <1>2, <1>3, <1>4, <1>5

\* Storing a confirmation or a receipt does.
LEMMA ReceiptHandlersSound ==
    ASSUME NEW s, Sound(s), s.booking_stage \notin AmendmentStage
    PROVE  /\ s.booking_review # None =>
                 \A id \in BookingId : Sound(StoreConfirmation(s, id))
           /\ s.awaiting_field = None =>
                 \A receipt \in Receipt : Sound(StoreReceipt(s, receipt))
<1>1. /\ s \in SoftState /\ s.pending_booking_amendment = None
      /\ DraftSound(s.booking_state, s.booking_selected_property)
  BY DEF Sound, PendingSound
<1>2. ASSUME s.booking_review # None, NEW id \in BookingId
      PROVE  Sound(StoreConfirmation(s, id))
  <2>. DEFINE t == StoreConfirmation(s, id)
  <2>1. /\ t.booking_stage = "confirmed" /\ t.awaiting_field = None
        /\ t.booking_state = s.booking_state
        /\ t.booking_selected_property = s.booking_selected_property
        /\ t.pending_booking_amendment = None
    BY <1>1, Zenon DEF StoreConfirmation, SoftState
  <2>2. t \in SoftState
    BY <1>1, <1>2, StoreConfirmationType
  <2>. HIDE DEF t
  <2>3. Sound(t)
    BY <1>1, <2>1, <2>2, SoundAtRest
  <2>. QED
    BY <2>3 DEF t
<1>3. ASSUME s.awaiting_field = None, NEW receipt \in Receipt
      PROVE  Sound(StoreReceipt(s, receipt))
  <2>. DEFINE t == StoreReceipt(s, receipt)
  <2>1. /\ t.booking_stage = "confirmed" /\ t.awaiting_field = None
        /\ t.booking_state = s.booking_state
        /\ t.booking_selected_property = s.booking_selected_property
        /\ t.pending_booking_amendment = None
    BY <1>1, <1>3, Zenon DEF StoreReceipt, SoftState
  <2>2. t \in SoftState
    BY <1>1, StoreReceiptType
  <2>. HIDE DEF t
  <2>3. Sound(t)
    BY <1>1, <2>1, <2>2, SoundAtRest
  <2>. QED
    BY <2>3 DEF t
<1>. QED
  BY <1>2, <1>3

\* The three questions and offers of the amendment dialogue.
LEMMA AmendmentAskersSound ==
    ASSUME NEW s \in SoftState, s.booking_receipt # None,
           DraftSound(s.booking_state, s.booking_selected_property),
           NEW receipt \in Receipt
    PROVE  /\ Sound(AskForAmendmentChoice(s, receipt))
           /\ \A fields \in SUBSET Field : \A asked \in SUBSET Field :
                 asked # {} => Sound(AskForAmendmentValues(s, receipt, fields, asked))
           /\ \A fields \in SUBSET Field : \A candidate \in Receipt :
                 fields # {} => Sound(OfferAmendment(s, receipt, fields, candidate))
<1>1. Sound(AskForAmendmentChoice(s, receipt))
  <2>. DEFINE t == AskForAmendmentChoice(s, receipt)
  <2>1. /\ t.booking_stage = "awaiting_amendment_choice" /\ t.awaiting_field = None
        /\ t.pending_booking_amendment =
              [base_receipt |-> receipt, candidate_receipt |-> None, fields |-> {}]
        /\ t.booking_receipt = s.booking_receipt
        /\ t.booking_state = s.booking_state
        /\ t.booking_selected_property = s.booking_selected_property
    BY Zenon DEF AskForAmendmentChoice, SoftState
  <2>2. t \in SoftState
    BY AmendmentAskersType
  <2>3. t.pending_booking_amendment \in Amendment
    BY <2>1 DEF Amendment
  <2>. HIDE DEF t
  <2>4. Sound(t)
    BY <2>1, <2>2, <2>3, SoundAmending, AmendmentAssumption DEF AmendmentStage
  <2>. QED
    BY <2>4 DEF t
<1>2. ASSUME NEW fields \in SUBSET Field, NEW asked \in SUBSET Field, asked # {}
      PROVE  Sound(AskForAmendmentValues(s, receipt, fields, asked))
  <2>. DEFINE t == AskForAmendmentValues(s, receipt, fields, asked)
  <2>1. /\ t.booking_stage = "awaiting_amendment_values"
        /\ t.awaiting_field = FirstBy(AskRank, asked)
        /\ t.pending_booking_amendment =
              [base_receipt |-> receipt, candidate_receipt |-> None, fields |-> fields]
        /\ t.booking_receipt = s.booking_receipt
        /\ t.booking_state = s.booking_state
        /\ t.booking_selected_property = s.booking_selected_property
    BY Zenon DEF AskForAmendmentValues, SoftState
  <2>2. t \in SoftState
    BY <1>2, AmendmentAskersType
  <2>3. t.pending_booking_amendment \in Amendment
    BY <2>1 DEF Amendment
  <2>4. t.awaiting_field # None
    BY <1>2, <2>1, FirstByMember, FieldAssumption
  <2>. HIDE DEF t
  <2>5. Sound(t)
    BY <2>1, <2>2, <2>3, <2>4, SoundAmending, AmendmentAssumption DEF AmendmentStage
  <2>. QED
    BY <2>5 DEF t
<1>3. ASSUME NEW fields \in SUBSET Field, NEW candidate \in Receipt, fields # {}
      PROVE  Sound(OfferAmendment(s, receipt, fields, candidate))
  <2>. DEFINE t == OfferAmendment(s, receipt, fields, candidate)
  <2>1. /\ t.booking_stage = "awaiting_amendment_confirmation" /\ t.awaiting_field = None
        /\ t.pending_booking_amendment =
              [base_receipt |-> receipt, candidate_receipt |-> candidate, fields |-> fields]
        /\ t.booking_receipt = s.booking_receipt
        /\ t.booking_state = s.booking_state
        /\ t.booking_selected_property = s.booking_selected_property
    BY Zenon DEF OfferAmendment, SoftState
  <2>2. t \in SoftState
    BY <1>3, AmendmentAskersType
  <2>3. t.pending_booking_amendment \in Amendment
    BY <2>1 DEF Amendment
  <2>4. candidate # None
    BY RecordAssumption
  <2>. HIDE DEF t
  <2>5. Sound(t)
    BY <1>3, <2>1, <2>2, <2>3, <2>4, SoundAmending, AmendmentAssumption DEF AmendmentStage
  <2>. QED
    BY <2>5 DEF t
<1>. QED
  BY <1>1, <1>2, <1>3

\* Any turn of the amendment dialogue before its confirmation keeps soft_state
\* consistent, for any fields named and any values given.
LEMMA AmendmentTurnSound ==
    ASSUME NEW s \in SoftState, s.booking_receipt # None,
           DraftSound(s.booking_state, s.booking_selected_property),
           s.booking_stage = "awaiting_amendment_values"
              => s.pending_booking_amendment # None,
           NEW named \in SUBSET Field, NEW msg \in Message
    PROVE  Sound(AmendmentTurn(s, named, msg))
<1>. DEFINE receipt   == AmendmentReceipt(s)
            fields    == IF s.booking_stage = "awaiting_amendment_values"
                         THEN s.pending_booking_amendment.fields ELSE named
            candidate == Amended(receipt, fields, msg)
            asked     == IF Unusable(fields, msg) # {} THEN Unusable(fields, msg)
                         ELSE AmendErrors(candidate, fields, s.booking_selected_property)
<1>1. /\ s.booking_receipt \in Receipt
      /\ s.pending_booking_amendment # None => s.pending_booking_amendment \in Amendment
  BY DEF SoftState
<1>2. receipt \in Receipt
  BY <1>1 DEF AmendmentReceipt, Amendment
<1>3. fields \in SUBSET Field
  BY <1>1 DEF Amendment
<1>. HIDE DEF receipt, fields
<1>4. candidate \in Receipt
  BY <1>2, <1>3, AmendedType
<1>5. asked \in SUBSET Field
  BY <1>3 DEF Unusable, AmendErrors, Field
<1>. HIDE DEF candidate, asked
<1>6. /\ Sound(AskForAmendmentChoice(s, receipt))
      /\ asked # {} => Sound(AskForAmendmentValues(s, receipt, fields, asked))
      /\ fields # {} => Sound(OfferAmendment(s, receipt, fields, candidate))
  BY <1>2, <1>3, <1>4, <1>5, AmendmentAskersSound
<1>. QED
  BY <1>6, Zenon DEF AmendmentTurn, receipt, fields, candidate, asked

\* Reopening an amendment at its confirmation keeps soft_state consistent.
LEMMA ReviseAmendmentSound ==
    ASSUME NEW s, Sound(s), s.booking_stage = "awaiting_amendment_confirmation",
           NEW named \in SUBSET Field
    PROVE  Sound(ReviseAmendment(s, named))
<1>. DEFINE pending == s.pending_booking_amendment
            fields  == IF named # {} THEN named ELSE pending.fields
<1>1. /\ s \in SoftState /\ s.booking_receipt # None
      /\ pending # None /\ pending.candidate_receipt # None /\ pending.fields # {}
      /\ DraftSound(s.booking_state, s.booking_selected_property)
  BY DEF Sound, PendingSound, AmendmentStage
<1>2. pending \in Amendment
  BY <1>1 DEF SoftState
<1>3. pending.candidate_receipt \in Receipt /\ fields \in SUBSET Field /\ fields # {}
  BY <1>1, <1>2 DEF Amendment
<1>. HIDE DEF pending, fields
<1>4. Sound(AskForAmendmentValues(s, pending.candidate_receipt, fields, fields))
  BY <1>1, <1>3, AmendmentAskersSound
<1>. QED
  BY <1>4, Zenon DEF ReviseAmendment, pending, fields

\* Storing a saved amendment keeps soft_state consistent and nothing pending.
LEMMA StoreAmendmentSound ==
    ASSUME NEW s, Sound(s), s.booking_stage = "awaiting_amendment_confirmation"
    PROVE  Sound(StoreAmendment(s))
<1>. DEFINE candidate == s.pending_booking_amendment.candidate_receipt
            r == StoreReceipt(s, candidate)
            t == [r EXCEPT !.pending_booking_amendment = None, !.awaiting_field = None]
<1>1. /\ s \in SoftState /\ s.pending_booking_amendment # None /\ candidate # None
      /\ DraftSound(s.booking_state, s.booking_selected_property)
  BY DEF Sound, PendingSound, AmendmentStage
<1>2. candidate \in Receipt
  BY <1>1 DEF SoftState, Amendment
<1>. HIDE DEF candidate
<1>3. r \in SoftState
  BY <1>1, <1>2, StoreReceiptType
<1>4. /\ r.booking_stage = "confirmed" /\ r.booking_state = s.booking_state
      /\ r.booking_selected_property = s.booking_selected_property
  BY <1>1, Zenon DEF StoreReceipt, SoftState
<1>. HIDE DEF r
<1>5. /\ t.booking_stage = "confirmed" /\ t.awaiting_field = None
      /\ t.booking_state = s.booking_state
      /\ t.booking_selected_property = s.booking_selected_property
      /\ t.pending_booking_amendment = None
  BY <1>3, <1>4, Zenon DEF SoftState
<1>6. t \in SoftState
  BY <1>3 DEF SoftState
<1>. HIDE DEF t
<1>7. Sound(t)
  BY <1>1, <1>5, <1>6, SoundAtRest
<1>. QED
  BY <1>7, Zenon DEF StoreAmendment, t, r, candidate

\* The cancellation dialogue touches nothing the parts of Sound relate.
LEMMA CancellationHandlersSound ==
    ASSUME NEW s, Sound(s)
    PROVE  /\ Sound(AskForCancellationId(s))
           /\ \A id \in BookingId : Sound(AskToConfirmCancellation(s, id))
           /\ Sound(DropCancellation(s))
           /\ \A marked \in BOOLEAN : Sound(StoreCancellation(s, marked))
<1>1. s \in SoftState
  BY DEF Sound
<1>2. s.booking_cancellation \in Cancellation /\ s.booking_receipt \in Receipt \cup {None}
  BY <1>1 DEF SoftState
<1>3. ASSUME NEW c \in Cancellation, NEW receipt \in Receipt \cup {None},
             s.booking_receipt # None => receipt # None
      PROVE  Sound([s EXCEPT !.booking_cancellation = c, !.booking_receipt = receipt])
  <2>. DEFINE t == [s EXCEPT !.booking_cancellation = c, !.booking_receipt = receipt]
  <2>1. /\ t.booking_stage = s.booking_stage /\ t.awaiting_field = s.awaiting_field
        /\ t.booking_state = s.booking_state /\ t.booking_review = s.booking_review
        /\ t.booking_property_id = s.booking_property_id
        /\ t.last_selected_property_id = s.last_selected_property_id
        /\ t.booking_selected_property = s.booking_selected_property
        /\ t.pending_booking_amendment = s.pending_booking_amendment
        /\ t.booking_receipt = receipt
    BY <1>1, Zenon DEF SoftState
  <2>2. t \in SoftState
    BY <1>1 DEF SoftState
  <2>. HIDE DEF t
  <2>3. Sound(t)
    BY <1>3, <2>1, <2>2, SoundFrame
  <2>. QED
    BY <2>3 DEF t
<1>4. ASSUME NEW c \in Cancellation
      PROVE  Sound([s EXCEPT !.booking_cancellation = c])
  <2>1. [s EXCEPT !.booking_cancellation = c]
          = [s EXCEPT !.booking_cancellation = c, !.booking_receipt = s.booking_receipt]
    BY <1>1, Zenon DEF SoftState
  <2>. QED
    BY <1>2, <1>3, <2>1
<1>5. /\ NoCancellation \in Cancellation
      /\ [s.booking_cancellation EXCEPT !.stage = "awaiting_id"] \in Cancellation
      /\ \A id \in BookingId : [stage |-> "awaiting_confirmation", id |-> id] \in Cancellation
  BY <1>2 DEF NoCancellation, Cancellation
<1>6. \A marked \in BOOLEAN :
         /\ MarkedReceipt(s, marked) \in Receipt \cup {None}
         /\ s.booking_receipt # None => MarkedReceipt(s, marked) # None
  <2>1. \A receipt \in Receipt : [receipt EXCEPT !.status = "cancelled"] \in Receipt
    BY DEF Receipt, Status
  <2>. QED
    BY <1>2, <2>1, RecordAssumption, Zenon DEF MarkedReceipt
<1>7. Sound(AskForCancellationId(s))
  BY <1>4, <1>5, Zenon DEF AskForCancellationId
<1>8. \A id \in BookingId : Sound(AskToConfirmCancellation(s, id))
  BY <1>4, <1>5, Zenon DEF AskToConfirmCancellation
<1>9. Sound(DropCancellation(s))
  BY <1>4, <1>5, Zenon DEF DropCancellation
<1>10. \A marked \in BOOLEAN : Sound(StoreCancellation(s, marked))
  BY <1>3, <1>5, <1>6, Zenon DEF StoreCancellation
<1>. QED
  BY <1>7, <1>8, <1>9, <1>10

\* A new, or expired, session is consistent.
LEMMA EmptySound == Sound(EmptySoftState)
<1>1. EmptySoftState \in SoftState
  BY DEF EmptySoftState, SoftState, Stage, NoDraft, Draft, NoCancellation, Cancellation
<1>2. DraftSound(NoDraft, None)
  BY Zenon DEF DraftSound, Ordered, OverCapacity, NoDraft
<1>3. /\ EmptySoftState.booking_stage = "none" /\ EmptySoftState.awaiting_field = None
      /\ EmptySoftState.pending_booking_amendment = None
      /\ EmptySoftState.booking_state = NoDraft
      /\ EmptySoftState.booking_selected_property = None
  BY DEF EmptySoftState
<1>. QED
  BY <1>1, <1>2, <1>3, SoundAtRest

-----------------------------------------------------------------------------
(* The theorems.                                                             *)

\* The invariant is inductive: it holds of a new session ...
LEMMA IInvInit == Init => IInv
  BY EmptySound DEF Init, IInv

\* ... and every turn preserves it.
LEMMA IInvNext == IInv /\ [Next]_vars => IInv'
<1>. SUFFICES ASSUME IInv, [Next]_vars
              PROVE  IInv'
  OBVIOUS
<1>1. /\ Sound(soft) /\ soft \in SoftState
      /\ rows \in [BookingId -> Receipt \cup {None}] /\ issued \subseteq BookingId
      /\ DraftSound(soft.booking_state, soft.booking_selected_property)
      /\ soft.booking_stage \in AmendmentStage <=> soft.pending_booking_amendment # None
      /\ soft.pending_booking_amendment # None => soft.booking_receipt # None
  BY DEF IInv, Sound, PendingSound
<1>2. Unclaimed(soft) => /\ soft.booking_stage \notin AmendmentStage
                         /\ soft.pending_booking_amendment = None
  BY <1>1 DEF Unclaimed
<1>. SUFFICES /\ Sound(soft')
              /\ rows' \in [BookingId -> Receipt \cup {None}]
              /\ issued' \subseteq BookingId
  BY DEF IInv
<1>3. ASSUME NEW p \in Property, SelectProperty(p)
      PROVE  Sound(soft') /\ UNCHANGED <<rows, issued>>
  <2>1. soft.booking_stage # "awaiting_confirmation"
    BY <1>3 DEF SelectProperty, ActiveSession
  <2>. QED
    BY <1>1, <1>2, <1>3, <2>1, ReviewHandlersSound DEF SelectProperty
<1>4. ASSUME ShowResults
      PROVE  Sound(soft') /\ UNCHANGED <<rows, issued>>
  <2>1. soft' = [soft EXCEPT !.details_shown = FALSE]
    BY <1>4 DEF ShowResults
  <2>2. /\ soft' \in SoftState
        /\ soft'.booking_stage = soft.booking_stage
        /\ soft'.awaiting_field = soft.awaiting_field
        /\ soft'.booking_state = soft.booking_state
        /\ soft'.booking_review = soft.booking_review
        /\ soft'.booking_property_id = soft.booking_property_id
        /\ soft'.last_selected_property_id = soft.last_selected_property_id
        /\ soft'.booking_selected_property = soft.booking_selected_property
        /\ soft'.pending_booking_amendment = soft.pending_booking_amendment
        /\ soft'.booking_receipt = soft.booking_receipt
    BY <1>1, <2>1 DEF SoftState
  <2>. QED
    BY <1>1, <1>4, <2>2, SoundFrame DEF ShowResults
<1>5. ASSUME BookSelected
      PROVE  Sound(soft') /\ UNCHANGED <<rows, issued>>
  <2>1. soft.last_selected_property_id \in Property
    BY <1>1, <1>5 DEF BookSelected, SoftState
  <2>2. PICK found \in {None} \cup [ property : {soft.last_selected_property_id},
                     occupancy_max : {None, Capacity[soft.last_selected_property_id]} ] :
          soft' = StartBooking(soft, found)
    BY <1>5 DEF BookSelected
  <2>3. found \in Selected \cup {None}
    BY <2>1, <2>2, DetailsAssumption DEF Selected
  <2>. QED
    BY <1>1, <1>2, <1>5, <2>2, <2>3, StartBookingSound DEF BookSelected
<1>6. ASSUME ProvideDetails
      PROVE  Sound(soft') /\ UNCHANGED <<rows, issued>>
  BY <1>1, <1>2, <1>6, CollectSound DEF ProvideDetails
<1>7. ASSUME NEW id \in BookingId, NEW outcome \in Outcome, ConfirmReview(id, outcome)
      PROVE  /\ Sound(soft')
             /\ rows' \in [BookingId -> Receipt \cup {None}]
             /\ issued' \subseteq BookingId
  <2>1. Sound(soft')
    BY <1>1, <1>2, <1>7, ReceiptHandlersSound DEF ConfirmReview
  <2>2. ReceiptOf(soft.booking_review, id) \in Receipt
    BY <1>1, <1>7, ReceiptOfType DEF ConfirmReview, SoftState
  <2>3. rows' \in [BookingId -> Receipt \cup {None}]
    BY <1>1, <1>7, <2>2 DEF ConfirmReview
  <2>. QED
    BY <1>1, <1>7, <2>1, <2>3 DEF ConfirmReview
<1>8. ASSUME DeclineReview
      PROVE  Sound(soft') /\ UNCHANGED <<rows, issued>>
  <2>1. soft.awaiting_field = None
    BY <1>1, <1>8 DEF DeclineReview, Sound, AskingSound
  <2>. QED
    BY <1>1, <1>2, <1>8, <2>1, ReviewHandlersSound DEF DeclineReview
<1>9. ASSUME ChangeProperty
      PROVE  Sound(soft') /\ UNCHANGED <<rows, issued>>
  <2>1. soft.awaiting_field = None
    BY <1>1, <1>9 DEF ChangeProperty, Sound, AskingSound
  <2>. QED
    BY <1>1, <1>2, <1>9, <2>1, ReviewHandlersSound DEF ChangeProperty
<1>10. ASSUME NameChange
       PROVE  Sound(soft') /\ UNCHANGED <<rows, issued>>
  BY <1>1, <1>2, <1>10, ReviewHandlersSound DEF NameChange
<1>11. ASSUME ChangeInline
       PROVE  Sound(soft') /\ UNCHANGED <<rows, issued>>
  BY <1>1, <1>2, <1>11, CollectSound DEF ChangeInline
<1>12. ASSUME ResumeBooking
       PROVE  Sound(soft') /\ UNCHANGED <<rows, issued>>
  BY <1>1, <1>2, <1>12, ResumeSound DEF ResumeBooking
<1>13. \A fields \in SUBSET Field : MessageAbout[fields] \subseteq Message
  BY DEF MessageAbout
<1>14. ASSUME RequestAmendment
       PROVE  Sound(soft') /\ UNCHANGED <<rows, issued>>
  <2>1. PICK receipt \in IF soft.booking_receipt # None THEN {soft.booking_receipt}
                         ELSE {rows[id] : id \in BookingId} \ {None} :
        \E fields \in SUBSET Field : \E msg \in MessageAbout[fields] :
          soft' = AmendmentTurn([soft EXCEPT !.booking_receipt = receipt], fields, msg)
    BY <1>14 DEF RequestAmendment, AmendableReceipts
  <2>2. receipt \in Receipt /\ receipt # None
    BY <1>1, <2>1, RecordAssumption DEF SoftState
  <2>. DEFINE s == [soft EXCEPT !.booking_receipt = receipt]
  <2>3. /\ s \in SoftState /\ s.booking_receipt = receipt
        /\ s.booking_state = soft.booking_state
        /\ s.booking_selected_property = soft.booking_selected_property
        /\ s.booking_stage = soft.booking_stage
    BY <1>1, <2>2 DEF SoftState
  <2>4. s.booking_stage # "awaiting_amendment_values"
    BY <1>2, <1>14, <2>3 DEF RequestAmendment, AmendableReceipts, AmendmentStage
  <2>5. PICK fields \in SUBSET Field :
          \E msg \in MessageAbout[fields] : soft' = AmendmentTurn(s, fields, msg)
    BY <2>1
  <2>. HIDE DEF s
  <2>6. \A msg \in MessageAbout[fields] : Sound(AmendmentTurn(s, fields, msg))
    BY <1>1, <1>13, <2>2, <2>3, <2>4, AmendmentTurnSound
  <2>. QED
    BY <1>14, <2>5, <2>6 DEF RequestAmendment, AmendableReceipts
<1>15. ASSUME ChooseAmendment
       PROVE  Sound(soft') /\ UNCHANGED <<rows, issued>>
  <2>1. soft.booking_stage \in AmendmentStage
        /\ soft.booking_stage # "awaiting_amendment_values"
    BY <1>15 DEF ChooseAmendment, AmendmentStage
  <2>. QED
    BY <1>1, <1>13, <1>15, <2>1, AmendmentTurnSound DEF ChooseAmendment
<1>16. ASSUME GiveAmendmentValues
       PROVE  Sound(soft') /\ UNCHANGED <<rows, issued>>
  <2>1. soft.booking_stage \in AmendmentStage
    BY <1>16 DEF GiveAmendmentValues, AmendmentStage
  <2>2. soft.pending_booking_amendment.fields \in SUBSET Field
    BY <1>1, <2>1 DEF SoftState, Amendment
  <2>. QED
    BY <1>1, <1>13, <1>16, <2>1, <2>2, AmendmentTurnSound DEF GiveAmendmentValues
<1>17. ASSUME NEW outcome \in Outcome, ConfirmAmendment(outcome)
       PROVE  /\ Sound(soft')
              /\ rows' \in [BookingId -> Receipt \cup {None}]
              /\ UNCHANGED issued
  <2>. DEFINE pending == soft.pending_booking_amendment
              receipt == pending.candidate_receipt
              id      == receipt.booking_id
  <2>1. soft.booking_stage = "awaiting_amendment_confirmation"
    BY <1>17 DEF ConfirmAmendment
  <2>2. pending # None /\ receipt # None
    BY <1>1, <2>1 DEF Sound, PendingSound, AmendmentStage
  <2>3. receipt \in Receipt /\ pending.fields \in SUBSET Field
    BY <1>1, <2>2 DEF SoftState, Amendment
  <2>4. id \in BookingId
    BY <2>3 DEF Receipt
  <2>5. Sound(soft')
    BY <1>1, <1>17, <2>1, StoreAmendmentSound DEF ConfirmAmendment
  <2>6. rows[id] # None => WithColumns(rows[id], pending.fields, receipt) \in Receipt
    BY <1>1, <2>3, <2>4, WithColumnsType
  <2>7. rows' \in [BookingId -> Receipt \cup {None}]
    BY <1>1, <1>17, <2>4, <2>6 DEF ConfirmAmendment
  <2>. QED
    BY <1>17, <2>5, <2>7 DEF ConfirmAmendment
<1>18. ASSUME ReopenAmendment
       PROVE  Sound(soft') /\ UNCHANGED <<rows, issued>>
  BY <1>1, <1>18, ReviseAmendmentSound DEF ReopenAmendment
<1>19. ASSUME RequestCancellation
       PROVE  Sound(soft') /\ UNCHANGED <<rows, issued>>
  BY <1>1, <1>19, CancellationHandlersSound DEF RequestCancellation
<1>20. ASSUME KeepBooking
       PROVE  Sound(soft') /\ UNCHANGED <<rows, issued>>
  BY <1>1, <1>20, CancellationHandlersSound DEF KeepBooking
<1>21. ASSUME NEW outcome \in Outcome, NEW marked \in BOOLEAN,
              ConfirmCancellation(outcome, marked)
       PROVE  /\ Sound(soft')
              /\ rows' \in [BookingId -> Receipt \cup {None}]
              /\ UNCHANGED issued
  <2>. DEFINE id == soft.booking_cancellation.id
  <2>1. Sound(soft')
    BY <1>1, <1>21, CancellationHandlersSound DEF ConfirmCancellation
  <2>2. \A row \in Receipt : [row EXCEPT !.status = "cancelled"] \in Receipt
    BY DEF Receipt, Status
  <2>3. rows' = IF rows[id] = None \/ outcome = "failed" THEN rows
                ELSE [rows EXCEPT ![id] = [rows[id] EXCEPT !.status = "cancelled"]]
    BY <1>21, Zenon DEF ConfirmCancellation
  <2>4. rows' \in [BookingId -> Receipt \cup {None}]
    <3>1. CASE rows' = rows
      BY <1>1, <3>1
    <3>2. CASE id \in BookingId /\ rows[id] # None
               /\ rows' = [rows EXCEPT ![id] = [rows[id] EXCEPT !.status = "cancelled"]]
      <4>. DEFINE row == [rows[id] EXCEPT !.status = "cancelled"]
      <4>1. row \in Receipt
        BY <1>1, <2>2, <3>2
      <4>. HIDE DEF row
      <4>2. [rows EXCEPT ![id] = row] \in [BookingId -> Receipt \cup {None}]
        BY <1>1, <4>1
      <4>. QED
        BY <3>2, <4>2 DEF row
    <3>3. CASE id \notin BookingId
               /\ rows' = [rows EXCEPT ![id] = [rows[id] EXCEPT !.status = "cancelled"]]
      BY <1>1, <3>3, Zenon
    <3>. QED
      BY <2>3, <3>1, <3>2, <3>3, Zenon
  <2>. QED
    BY <1>21, <2>1, <2>4 DEF ConfirmCancellation
<1>22. ASSUME CheckStatus
       PROVE  Sound(soft') /\ UNCHANGED <<rows, issued>>
  <2>1. soft.awaiting_field = None
    BY <1>1, <1>22 DEF CheckStatus, StatusReceipts, Sound, AskingSound
  <2>2. PICK receipt \in Receipt : soft' = StoreReceipt(soft, receipt)
    BY <1>1, <1>22 DEF CheckStatus, StatusReceipts, SessionReceipts, SoftState
  <2>. QED
    BY <1>1, <1>2, <1>22, <2>1, <2>2, ReceiptHandlersSound DEF CheckStatus, StatusReceipts
<1>23. ASSUME ExpireSession
       PROVE  Sound(soft') /\ UNCHANGED <<rows, issued>>
  BY <1>23, EmptySound DEF ExpireSession
<1>24. ASSUME UNCHANGED vars
       PROVE  Sound(soft') /\ UNCHANGED <<rows, issued>>
  BY <1>1, <1>24 DEF vars
<1>. QED
  BY <1>1, <1>3, <1>4, <1>5, <1>6, <1>7, <1>8, <1>9, <1>10, <1>11, <1>12, <1>14, <1>15,
     <1>16, <1>17, <1>18, <1>19, <1>20, <1>21, <1>22, <1>23, <1>24, Zenon DEF Next

\* Every reachable state satisfies the inductive invariant.
THEOREM Invariance == Spec => []IInv
  BY IInvInit, IInvNext, PTL DEF Spec

\* For every set of properties, days, guest counts and bookings, the state keeps its
\* shape (TypeOK).
THEOREM TypeCorrect == Spec => []TypeOK
<1>1. IInv => TypeOK
  BY DEF IInv, Sound, TypeOK
<1>. QED
  BY <1>1, Invariance, PTL

\* ... the details collected never contradict each other (DraftOK).
THEOREM DraftCorrect == Spec => []DraftOK
<1>1. IInv => DraftOK
  BY DEF IInv, Sound, DraftSound, DraftOK
<1>. QED
  BY <1>1, Invariance, PTL

\* ... the review put to the guest is complete, current and valid (ReviewReady).
THEOREM ReviewCorrect == Spec => []ReviewReady
<1>1. IInv => ReviewReady
  BY DEF IInv, Sound, DraftSound, ReviewSound, AskingSound, ReviewReady
<1>. QED
  BY <1>1, Invariance, PTL

\* ... and awaiting_field is set exactly while a question is open (AwaitingMeaning).
THEOREM AwaitingCorrect == Spec => []AwaitingMeaning
<1>1. IInv => AwaitingMeaning
  BY DEF IInv, Sound, AskingSound, AwaitingMeaning
<1>. QED
  BY <1>1, Invariance, PTL
=============================================================================

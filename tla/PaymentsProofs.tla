---------------------------- MODULE PaymentsProofs ---------------------------
(***************************************************************************)
(* Proofs about bookings and their payments, for every number of calls,    *)
(* retries and failures: what a lost answer can leave behind, and what     *)
(* late, repeated and reordered events can do to a booking.                *)
(***************************************************************************)
EXTENDS Payments, FiniteSetTheorems, TLAPS

USE PaymentAssumption

(* What the properties rest on: the rows of attempts that are still to come   *)
(* are not there, a call is answered once and with an id of its own, and what *)
(* Stripe still has to tell follows from what it was told.                    *)
RowsToCome == \A c \in Call : \A k \in 1..MaxRetries :
                  attempt[c] <= k => booking[<<c, k>>] = None
AnsweredOnce ==
    \A c \in Call : /\ attempt[c] # Over => told[c] = None
                    /\ told[c] # None => told[c][1] = c
                    /\ charge[c] # "none" => told[c] # None
MailSound ==
    \A c \in Call : /\ charge[c] = "none" => <<c, "completed">> \notin mail
                    /\ charge[c] # "refunded" => <<c, "refunded">> \notin mail

PaymentInv == TypeOK /\ RowsToCome /\ AnsweredOnce /\ MailSound /\ ToldIsStored

LEMMA IdsOfCalls == \A c \in Call : \A k \in 0..MaxRetries : <<c, k>> \in Id
  BY DEF Id

LEMMA InitialInv == Init => PaymentInv
<1>. SUFFICES ASSUME Init PROVE PaymentInv
  OBVIOUS
<1>1. TypeOK
  <2>1. /\ booking \in [Id -> Status \cup {None}]
        /\ told \in [Call -> Id \cup {None}]
        /\ mail \subseteq Call \X Kind /\ disturbed \subseteq Call
    BY DEF Init
  <2>2. attempt \in [Call -> 0..Over] /\ faults \in 0..MaxFaults
    BY DEF Init, Over
  <2>3. charge \in [Call -> {"none", "paid", "refunded"}] /\ restarted \in BOOLEAN
    BY DEF Init
  <2>. QED
    BY <2>1, <2>2, <2>3 DEF TypeOK
<1>2. RowsToCome
  <2>1. \A id \in Id : booking[id] = None
    BY DEF Init
  <2>. QED
    BY <2>1, IdsOfCalls DEF RowsToCome
<1>3. AnsweredOnce /\ MailSound /\ ToldIsStored
  BY DEF Init, AnsweredOnce, MailSound, ToldIsStored
<1>. QED
  BY <1>1, <1>2, <1>3 DEF PaymentInv

\* One attempt ends in one of three ways.
LEMMA InsertKeepsInv ==
    ASSUME PaymentInv, NEW c \in Call, InsertRow(c) \/ InsertRejected(c) \/ InsertFails(c)
    PROVE  PaymentInv'
<1>. USE DEF PaymentInv, TypeOK, Id, Over, Status
<1>1. attempt[c] \in 1..MaxRetries /\ Row(c) \in Id /\ <<c, 0>> \in Id /\ told[c] = None
  BY DEF InsertRow, InsertRejected, InsertFails, Inserting, Row, AnsweredOnce
<1>2. CASE \E id \in {Row(c), <<c, 0>>} :
              Answers(c, id) /\ UNCHANGED <<charge, mail, disturbed, restarted, faults>>
  <2>1. PICK id \in {Row(c), <<c, 0>>} :
            Answers(c, id) /\ UNCHANGED <<charge, mail, disturbed, restarted, faults>>
    BY <1>2
  <2>2. id \in Id /\ id[1] = c /\ booking' = [booking EXCEPT ![id] = "pending"]
        /\ told' = [told EXCEPT ![c] = id] /\ attempt' = [attempt EXCEPT ![c] = Over]
    BY <1>1, <2>1 DEF Answers, Row
  <2>3. TypeOK'
    BY <2>1, <2>2
  <2>4. RowsToCome'
    BY <2>2 DEF RowsToCome
  <2>5. AnsweredOnce' /\ MailSound'
    BY <2>1, <2>2 DEF AnsweredOnce, MailSound
  <2>6. ToldIsStored'
    BY <2>1, <2>2 DEF ToldIsStored, StatusOf
  <2>. QED
    BY <2>3, <2>4, <2>5, <2>6
<1>3. CASE InsertRow(c) \/ InsertRejected(c)
  BY <1>2, <1>3 DEF InsertRow, InsertRejected
<1>4. CASE InsertFails(c)
  <2>1. /\ booking' \in [Id -> Status \cup {None}]
        /\ \A i \in Id \ {Row(c), <<c, 0>>} : booking'[i] = booking[i]
        /\ \A i \in Id : booking'[i] = None => booking[i] = None
    BY <1>1, <1>4 DEF InsertFails
  <2>2. /\ faults' \in 0..MaxFaults /\ UNCHANGED <<charge, mail, disturbed, restarted>>
        /\ attempt' = [attempt EXCEPT ![c] = attempt'[c]]
        /\ attempt'[c] \in (attempt[c] + 1)..Over
        /\ told' = [told EXCEPT ![c] = told'[c]]
        /\ told'[c] = IF attempt'[c] = Over THEN <<c, 0>> ELSE None
    BY <1>1, <1>4 DEF InsertFails, Fault, TriesAgain
  <2>3. told'[c] = <<c, 0>> => booking'[<<c, 0>>] # None
    BY <1>1, <1>4 DEF InsertFails
  <2>4. TypeOK'
    BY <1>1, <2>1, <2>2
  <2>5. RowsToCome'
    BY <1>1, <2>1, <2>2, IdsOfCalls DEF RowsToCome, Row
  <2>6. AnsweredOnce' /\ MailSound'
    BY <1>1, <2>2 DEF AnsweredOnce, MailSound
  <2>7. ToldIsStored'
    BY <1>1, <2>1, <2>2, <2>3 DEF ToldIsStored, StatusOf
  <2>. QED
    BY <2>4, <2>5, <2>6, <2>7
<1>. QED
  BY <1>3, <1>4

\* An update changes the status of a booking that is there.
LEMMA UpdateChanges ==
    ASSUME TypeOK, NEW id \in Id, NEW current, NEW new \in Status,
           booking' \in {booking, Updated(id, current, new)}
    PROVE  /\ booking' \in [Id -> Status \cup {None}]
           /\ \A i \in Id : booking'[i] = None <=> booking[i] = None
           /\ \A i \in Id \ {id} : booking'[i] = booking[i]
  BY DEF TypeOK, Updated, Matches, Status

LEMMA RestKeepsInv ==
    ASSUME PaymentInv, [Next]_vars,
           \A c \in Call : ~InsertRow(c) /\ ~InsertRejected(c) /\ ~InsertFails(c)
    PROVE  PaymentInv'
<1>. USE DEF PaymentInv
<1>1. ASSUME NEW c \in Call, Request(c) PROVE PaymentInv'
  BY <1>1 DEF Request, TypeOK, RowsToCome, AnsweredOnce, MailSound, ToldIsStored, StatusOf, Over
<1>2. ASSUME NEW c \in Call, Cancel(c) PROVE PaymentInv'
  <2>1. told[c] \in Id /\ booking' \in {booking, Updated(told[c], "", "cancelled")}
        /\ faults' \in 0..MaxFaults
    <3>1. told[c] \in Id
      BY <1>2 DEF Cancel, TypeOK
    <3>2. UNCHANGED faults \/ Fault
      BY <1>2 DEF Cancel, Update
    <3>3. faults \in 0..MaxFaults /\ faults' \in 0..MaxFaults
      BY <3>2 DEF TypeOK, Fault
    <3>. QED
      BY <1>2, <3>1, <3>3 DEF Cancel, Update
  <2>2. /\ booking' \in [Id -> Status \cup {None}]
        /\ \A i \in Id : booking'[i] = None <=> booking[i] = None
    BY <2>1, UpdateChanges DEF Status
  <2>3. UNCHANGED <<attempt, told, charge, mail, disturbed, restarted>>
    BY <1>2 DEF Cancel
  <2>4. TypeOK'
    BY <2>1, <2>2, <2>3 DEF TypeOK
  <2>5. RowsToCome'
    BY <2>2, <2>3, IdsOfCalls DEF RowsToCome
  <2>6. AnsweredOnce' /\ MailSound'
    BY <2>3 DEF AnsweredOnce, MailSound
  <2>7. ToldIsStored'
    BY <2>2, <2>3 DEF ToldIsStored, StatusOf, TypeOK
  <2>. QED
    BY <2>4, <2>5, <2>6, <2>7
<1>3. ASSUME NEW c \in Call, PaymentFails(c) \/ Pay(c) \/ Refund(c) PROVE PaymentInv'
  BY <1>3 DEF PaymentFails, Pay, Refund, Charge, TypeOK, RowsToCome, AnsweredOnce, MailSound,
              ToldIsStored, StatusOf, Kind
<1>4. ASSUME NEW c \in Call, NEW kind \in Kind, Webhook(c, kind) \/ Redelivered(c, kind)
      PROVE  PaymentInv'
  <2>1. /\ faults' \in 0..MaxFaults /\ mail' \subseteq mail /\ disturbed' \subseteq Call
        /\ UNCHANGED <<attempt, told, charge, restarted>>
    BY <1>4 DEF Webhook, Redelivered, Update, TypeOK, Fault
  <2>2. CASE ~Handled(kind)
    BY <1>4, <2>1, <2>2 DEF Webhook, Redelivered, TypeOK, RowsToCome, AnsweredOnce, MailSound,
                            ToldIsStored, StatusOf
  <2>3. CASE Handled(kind)
    <3>1. told[c] \in Id
      <4>1. <<c, kind>> \in mail /\ kind \in {"completed", "refunded"}
        BY <1>4, <2>3 DEF Webhook, Redelivered, Handled, Kind
      <4>2. charge[c] # "none"
        BY <4>1 DEF MailSound
      <4>. QED
        BY <4>2 DEF AnsweredOnce, TypeOK
    <3>2. Change(kind)[2] \in Status
      BY DEF Change, Status
    <3>3. booking' \in {booking, Updated(told[c], Change(kind)[1], Change(kind)[2])}
      BY <1>4, <2>3 DEF Webhook, Redelivered, Update
    <3>4. /\ booking' \in [Id -> Status \cup {None}]
          /\ \A i \in Id : booking'[i] = None <=> booking[i] = None
      BY <3>1, <3>2, <3>3, UpdateChanges
    <3>. QED
      BY <2>1, <3>4 DEF TypeOK, RowsToCome, AnsweredOnce, MailSound, ToldIsStored, StatusOf, Id
  <2>. QED
    BY <2>2, <2>3
<1>5. CASE Restart
  BY <1>5 DEF Restart, Fault, Inserting, TypeOK, RowsToCome, AnsweredOnce, MailSound,
              ToldIsStored, StatusOf, InMemory, Id, Over
<1>6. CASE UNCHANGED vars
  BY <1>6 DEF vars, TypeOK, RowsToCome, AnsweredOnce, MailSound, ToldIsStored, StatusOf
<1>. QED
  BY <1>1, <1>2, <1>3, <1>4, <1>5, <1>6 DEF Next

\* Types, and what the properties below rest on, hold whatever fails and in whatever
\* order events arrive (persistence.py:88-190, stripe_webhook.py:57-87).
THEOREM PaymentInvariance == Spec => []PaymentInv
<1>1. PaymentInv /\ [Next]_vars => PaymentInv'
  BY InsertKeepsInv, RestKeepsInv
<1>. QED
  BY <1>1, InitialInv, PTL DEF Spec

\* A status, an answer and an event are such at every step, whatever is tried again or
\* redelivered (TypeOK; db_client.py:125-142).
THEOREM TypesKept == Spec => []TypeOK
<1>1. PaymentInv => TypeOK
  BY DEF PaymentInv
<1>. QED
  BY <1>1, PaymentInvariance, PTL

\* A guest who was given an id has a booking under it, unless it was kept in the memory
\* of a process that started again (persistence.py:118-133).
THEOREM ToldBookingsExist == Spec => []ToldIsStored
<1>1. PaymentInv => ToldIsStored
  BY DEF PaymentInv
<1>. QED
  BY <1>1, PaymentInvariance, PTL
-----------------------------------------------------------------------------
\* A row of an attempt that may still come is not a cancelled one, and an event changes
\* a row of another status only (persistence.py:161-190, stripe_webhook.py:57-87).
THEOREM CancellationLasts == Spec => CancelledStays
<1> DEFINE Lasts == \A id \in Id : booking[id] = "cancelled" /\ ~InMemory(id) =>
                        booking'[id] = "cancelled"
<1>1. ASSUME PaymentInv, [Next]_vars PROVE Lasts
  <2>. SUFFICES ASSUME NEW id \in Id, booking[id] = "cancelled", ~InMemory(id)
                PROVE  booking'[id] = "cancelled"
    OBVIOUS
  <2>1. TypeOK /\ RowsToCome /\ None # "cancelled"
    BY <1>1 DEF PaymentInv, Status
  <2>2. ASSUME NEW c \in Call, InsertRow(c) \/ InsertRejected(c) \/ InsertFails(c)
        PROVE  booking'[id] = "cancelled"
    <3>1. Row(c) \in Id /\ booking[Row(c)] = None
      BY <2>1, <2>2, IdsOfCalls
         DEF InsertRow, InsertRejected, InsertFails, Inserting, Row, RowsToCome, TypeOK
    <3>2. id # Row(c) /\ id # <<c, 0>>
      BY <2>1, <3>1 DEF InMemory
    <3>. QED
      BY <2>1, <2>2, <3>2 DEF InsertRow, InsertRejected, InsertFails, Answers, TypeOK
  <2>3. ASSUME NEW c \in Call, Cancel(c) PROVE booking'[id] = "cancelled"
    BY <2>1, <2>3 DEF Cancel, Update, Updated, TypeOK
  <2>4. ASSUME NEW c \in Call, NEW kind \in Kind, Webhook(c, kind) \/ Redelivered(c, kind)
        PROVE  booking'[id] = "cancelled"
    <3>1. booking' \in {booking, Updated(told[c], Change(kind)[1], Change(kind)[2])}
      BY <2>4 DEF Webhook, Redelivered, Update
    <3>2. Change(kind)[1] \in {"pending", "confirmed"}
      BY DEF Change
    <3>. QED
      BY <2>1, <3>1, <3>2 DEF Updated, Matches, TypeOK
  <2>5. ASSUME NEW c \in Call, Request(c) \/ PaymentFails(c) \/ Pay(c) \/ Refund(c)
        PROVE  booking'[id] = "cancelled"
    BY <2>5 DEF Request, PaymentFails, Pay, Refund, Charge
  <2>6. CASE Restart
    BY <2>6 DEF Restart
  <2>7. CASE UNCHANGED vars
    BY <2>7 DEF vars
  <2>. QED
    BY <1>1, <2>2, <2>3, <2>4, <2>5, <2>6, <2>7 DEF Next
<1>. QED
  BY <1>1, PaymentInvariance, PTL DEF Spec, CancelledStays
-----------------------------------------------------------------------------
Strays == {id \in Id : booking[id] # None /\ told[id[1]] # id}

LEMMA StraysFinite == IsFiniteSet(Strays) /\ Cardinality(Strays) \in Nat
<1>1. IsFiniteSet(0..MaxRetries)
  BY FS_Interval
<1>2. IsFiniteSet(Id)
  BY <1>1, FS_Product DEF Id
<1>. QED
  BY <1>2, FS_Subset, FS_CardinalityType DEF Strays

LEMMA StraysKept ==
    ASSUME TypeOK, UNCHANGED told \/ \E c \in Call : told[c] = None /\
                                         told' = [told EXCEPT ![c] = told'[c]],
           NEW more, \A id \in Id : booking'[id] # None /\ booking[id] = None =>
                                         id = more \/ told'[id[1]] = id
    PROVE  Strays' \subseteq Strays \cup {more}
  BY DEF Strays, TypeOK, Id

LEMMA StraysKeptBounded ==
    ASSUME PaymentInv, StraysBounded, [Next]_vars
    PROVE  StraysBounded'
<1>. USE DEF PaymentInv
<1>1. Strays' \subseteq Strays \/ (faults' = faults + 1 /\ \E id : Strays' \subseteq Strays \cup {id})
  <2>1. ASSUME NEW c \in Call, InsertRow(c) \/ InsertRejected(c)
        PROVE  Strays' \subseteq Strays
    <3>1. PICK id \in {Row(c), <<c, 0>>} : Answers(c, id)
      BY <2>1 DEF InsertRow, InsertRejected
    <3>2. told[c] = None /\ id[1] = c /\ id \in Id
      BY <2>1, <3>1, IdsOfCalls
         DEF InsertRow, InsertRejected, Inserting, AnsweredOnce, Row, Over, TypeOK
    <3>. QED
      BY <3>1, <3>2 DEF Answers, Strays, TypeOK, Id
  <2>2. ASSUME NEW c \in Call, InsertFails(c)
        PROVE  faults' = faults + 1 /\ Strays' \subseteq Strays \cup {Row(c)}
    <3>1. faults' = faults + 1 /\ told[c] = None
      BY <2>2 DEF InsertFails, Fault, Inserting, AnsweredOnce, Over, TypeOK
    <3>2. UNCHANGED told \/ told' = [told EXCEPT ![c] = told'[c]]
      BY <2>2 DEF InsertFails, TypeOK
    <3>3. \A id \in Id : booking'[id] # None /\ booking[id] = None =>
              id = Row(c) \/ told'[id[1]] = id
      BY <2>2 DEF InsertFails, TypeOK
    <3>. QED
      BY <3>1, <3>2, <3>3, StraysKept
  <2>3. ASSUME NEW c \in Call, Cancel(c) PROVE Strays' \subseteq Strays
    BY <2>3 DEF Cancel, Update, Updated, Matches, Strays, TypeOK
  <2>4. ASSUME NEW c \in Call, NEW kind \in Kind, Webhook(c, kind) \/ Redelivered(c, kind)
        PROVE  Strays' \subseteq Strays
    <3>1. booking' \in {booking, Updated(told[c], Change(kind)[1], Change(kind)[2])}
          /\ UNCHANGED told
      BY <2>4 DEF Webhook, Redelivered, Update
    <3>. QED
      BY <3>1 DEF Updated, Matches, Strays, TypeOK
  <2>5. ASSUME NEW c \in Call, Request(c) \/ PaymentFails(c) \/ Pay(c) \/ Refund(c)
        PROVE  Strays' \subseteq Strays
    BY <2>5 DEF Request, PaymentFails, Pay, Refund, Charge, Strays
  <2>6. CASE Restart
    BY <2>6 DEF Restart, Strays
  <2>7. CASE UNCHANGED vars
    BY <2>7 DEF vars, Strays
  <2>. QED
    BY <2>1, <2>2, <2>3, <2>4, <2>5, <2>6, <2>7 DEF Next
<1>2. Cardinality(Strays) <= faults /\ (faults' = faults \/ faults' = faults + 1) /\ faults \in Nat
  <2>1. faults' = faults \/ Fault
    BY DEF Next, vars, Request, InsertRow, InsertRejected, InsertFails, Cancel, PaymentFails, Pay,
           Refund, Charge, Webhook, Redelivered, Update, Restart
  <2>. QED
    BY <2>1 DEF StraysBounded, Strays, Fault, TypeOK
<1>3. CASE Strays' \subseteq Strays
  <2>1. Cardinality(Strays') <= Cardinality(Strays)
    BY <1>3, StraysFinite, FS_Subset
  <2>2. Cardinality(Strays') \in Nat /\ Cardinality(Strays) \in Nat
    BY <1>3, StraysFinite, FS_Subset, FS_CardinalityType
  <2>. QED
    BY <1>2, <2>1, <2>2 DEF StraysBounded, Strays
<1>4. ASSUME faults' = faults + 1, NEW id, Strays' \subseteq Strays \cup {id}
      PROVE  StraysBounded'
  <2>1. /\ IsFiniteSet(Strays \cup {id})
        /\ Cardinality(Strays \cup {id})
             = IF id \in Strays THEN Cardinality(Strays) ELSE Cardinality(Strays) + 1
    BY StraysFinite, FS_AddElement
  <2>2. IsFiniteSet(Strays') /\ Cardinality(Strays') <= Cardinality(Strays \cup {id})
    BY <1>4, <2>1, FS_Subset
  <2>3. Cardinality(Strays') \in Nat /\ Cardinality(Strays) \in Nat
    BY <2>2, StraysFinite, FS_CardinalityType
  <2>. QED
    BY <1>2, <1>4, <2>1, <2>2, <2>3 DEF StraysBounded, Strays
<1>. QED
  BY <1>1, <1>3, <1>4

\* However many inserts are tried again, whatever their fate, each failure leaves at most
\* one booking nobody was told of (db_client.py:125-142, persistence.py:88-133).
THEOREM FailuresBoundStrays == Spec => []StraysBounded
<1>1. Init => StraysBounded
  <2>. SUFFICES ASSUME Init PROVE StraysBounded
    OBVIOUS
  <2>1. Strays = {}
    BY DEF Init, Strays
  <2>2. Cardinality(Strays) = 0
    BY <2>1, FS_EmptySet
  <2>. QED
    BY <2>2 DEF Init, StraysBounded, Strays
<1>2. PaymentInv /\ StraysBounded /\ [Next]_vars => StraysBounded'
  BY StraysKeptBounded
<1>. QED
  BY <1>1, <1>2, PaymentInvariance, PTL DEF Spec
-----------------------------------------------------------------------------
(* Once the refund of an undisturbed booking is handled, its completed event is too,  *)
(* so that nothing confirms it again.                                                 *)
RefundSettled(c) ==
    charge[c] = "refunded" /\ <<c, "refunded">> \notin mail /\ c \notin disturbed =>
        <<c, "completed">> \notin mail /\ StatusOf(c) # "confirmed"

RefundInv == \A c \in Call : RefundSettled(c)

LEMMA EventKeepsRefund ==
    ASSUME PaymentInv, RefundInv, NEW d \in Call, NEW c \in Call, NEW kind \in Kind,
           Webhook(d, kind) \/ Redelivered(d, kind)
    PROVE  RefundSettled(c)'
<1>. SUFFICES ASSUME charge'[c] = "refunded", <<c, "refunded">> \notin mail', c \notin disturbed'
              PROVE  <<c, "completed">> \notin mail' /\ StatusOf(c)' # "confirmed"
  BY DEF RefundSettled
<1>1. /\ UNCHANGED <<attempt, told, charge, restarted>> /\ mail' \subseteq mail
      /\ disturbed \subseteq disturbed'
  BY DEF Webhook, Redelivered
<1>2. TypeOK /\ charge[c] = "refunded" /\ c \notin disturbed /\ told[c] \in Id /\ told[c][1] = c
  BY <1>1 DEF PaymentInv, AnsweredOnce, TypeOK
<1>3. StatusOf(c) = booking[told[c]] /\ StatusOf(c)' = booking'[told[c]] /\ told[c] # None
  BY <1>1, <1>2 DEF StatusOf
<1>4. CASE d = c /\ kind = "refunded"
  <2>1. Webhook(c, "refunded") /\ faults' = faults /\ <<c, "completed">> \notin mail
    BY <1>4, <1>2 DEF Webhook, Redelivered, Overtakes
  <2>2. booking' = Updated(told[c], "confirmed", "pending")
    BY <2>1, <1>2 DEF Webhook, Update, Handled, Change, Fault, TypeOK
  <2>3. None # "confirmed"
    BY DEF Status
  <2>4. booking'[told[c]] # "confirmed"
    <3>1. CASE Matches(told[c], "confirmed")
      BY <2>2, <3>1, <1>2 DEF Updated, TypeOK
    <3>2. CASE ~Matches(told[c], "confirmed")
      BY <2>2, <2>3, <3>2 DEF Updated, Matches
    <3>. QED
      BY <3>1, <3>2
  <2>. QED
    BY <1>1, <1>3, <2>1, <2>4
<1>5. CASE ~(d = c /\ kind = "refunded")
  <2>1. <<c, "refunded">> \notin mail
    BY <1>5 DEF Webhook, Redelivered
  <2>2. <<c, "completed">> \notin mail /\ StatusOf(c) # "confirmed"
    BY <2>1, <1>2 DEF RefundInv, RefundSettled
  <2>3. booking'[told[c]] = booking[told[c]]
    <3>1. <<d, kind>> \in mail
      BY DEF Webhook, Redelivered
    <3>2. CASE d # c
      <4>1. CASE Handled(kind)
        <5>1. told[d] \in Id /\ told[d] # told[c]
          <6>1. kind = "completed" \/ kind = "refunded"
            BY <4>1 DEF Handled, Kind
          <6>2. charge[d] # "none"
            BY <6>1, <3>1 DEF PaymentInv, MailSound
          <6>3. told[d] # None /\ told[d][1] = d
            BY <6>2 DEF PaymentInv, AnsweredOnce
          <6>. QED
            BY <6>3, <3>2, <1>2 DEF TypeOK
        <5>2. booking' \in {booking, Updated(told[d], Change(kind)[1], Change(kind)[2])}
          BY <4>1 DEF Webhook, Redelivered, Update
        <5>. QED
          BY <5>1, <5>2, <1>2 DEF Updated, TypeOK
      <4>. QED
        BY <4>1 DEF Webhook, Redelivered
    <3>3. CASE d = c
      <4>1. kind = "failed"
        BY <3>1, <3>3, <1>5, <2>2 DEF Kind
      <4>. QED
        BY <4>1 DEF Webhook, Redelivered, Handled
    <3>. QED
      BY <3>2, <3>3
  <2>. QED
    BY <1>1, <1>3, <2>2, <2>3
<1>. QED
  BY <1>4, <1>5

LEMMA StepKeepsRefund ==
    ASSUME PaymentInv, RefundInv, [Next]_vars, NEW c \in Call
    PROVE  RefundSettled(c)'
<1>1. TypeOK /\ AnsweredOnce /\ MailSound /\ RefundSettled(c)
  BY DEF PaymentInv, RefundInv
<1>2. ASSUME NEW d \in Call, InsertRow(d) \/ InsertRejected(d) \/ InsertFails(d)
      PROVE  RefundSettled(c)'
  <2>1. UNCHANGED <<charge, mail, disturbed>> /\ told[d] = None
    BY <1>1, <1>2 DEF InsertRow, InsertRejected, InsertFails, Inserting, AnsweredOnce, Over, TypeOK
  <2>2. SUFFICES ASSUME charge[c] = "refunded"
                 PROVE  StatusOf(c)' = StatusOf(c)
    BY <1>1, <2>1 DEF RefundSettled
  <2>3. told[c] # None /\ told[c] \in Id /\ told[c][1] = c /\ c # d
    BY <1>1, <2>1, <2>2 DEF AnsweredOnce, TypeOK
  <2>4. told'[c] = told[c]
    BY <1>1, <1>2, <2>3 DEF InsertRow, InsertRejected, InsertFails, Answers, TypeOK
  <2>5. told[c] # Row(d) /\ told[c] # <<d, 0>>
    BY <2>3 DEF Row
  <2>6. booking'[told[c]] = booking[told[c]]
    BY <1>1, <1>2, <2>3, <2>5 DEF InsertRow, InsertRejected, InsertFails, Answers, TypeOK
  <2>. QED
    BY <2>3, <2>4, <2>6 DEF StatusOf
<1>3. ASSUME NEW d \in Call, Cancel(d) PROVE RefundSettled(c)'
  <2>1. UNCHANGED <<charge, mail, disturbed, told>> /\ told[d] \in Id
    BY <1>1, <1>3 DEF Cancel, TypeOK
  <2>2. booking' \in {booking, Updated(told[d], "", "cancelled")}
    BY <1>3 DEF Cancel, Update
  <2>3. StatusOf(c)' = "confirmed" => StatusOf(c) = "confirmed"
    BY <1>1, <2>1, <2>2 DEF StatusOf, Updated, TypeOK, Id
  <2>. QED
    BY <1>1, <2>1, <2>3 DEF RefundSettled
<1>4. ASSUME NEW d \in Call, PaymentFails(d) \/ Pay(d) \/ Refund(d) PROVE RefundSettled(c)'
  BY <1>1, <1>4 DEF PaymentFails, Pay, Refund, Charge, RefundSettled, StatusOf, TypeOK
<1>5. ASSUME NEW d \in Call, NEW kind \in Kind, Webhook(d, kind) \/ Redelivered(d, kind)
      PROVE  RefundSettled(c)'
  BY <1>5, EventKeepsRefund
<1>6. ASSUME NEW d \in Call, Request(d) PROVE RefundSettled(c)'
  BY <1>1, <1>6 DEF Request, RefundSettled, StatusOf
<1>7. CASE Restart
  <2>1. StatusOf(c)' = "confirmed" => StatusOf(c) = "confirmed"
    BY <1>1, <1>7 DEF Restart, StatusOf, TypeOK, Status
  <2>. QED
    BY <1>1, <1>7, <2>1 DEF Restart, RefundSettled
<1>8. CASE UNCHANGED vars
  BY <1>1, <1>8 DEF vars, RefundSettled, StatusOf
<1>. QED
  BY <1>2, <1>3, <1>4, <1>5, <1>6, <1>7, <1>8 DEF Next

\* A booking that was paid back and of which all events were handled, none of them
\* disturbed, is not confirmed (stripe_webhook.py:57-87).
THEOREM RefundsUnconfirm == Spec => []RefundedNotConfirmed
<1>1. Init => RefundInv
  BY DEF Init, RefundInv, RefundSettled
<1>2. PaymentInv /\ RefundInv /\ [Next]_vars => RefundInv'
  BY StepKeepsRefund DEF RefundInv
<1>3. RefundInv => RefundedNotConfirmed
  BY DEF RefundInv, RefundSettled, RefundedNotConfirmed, Kind
<1>. QED
  BY <1>1, <1>2, <1>3, PaymentInvariance, PTL DEF Spec
=============================================================================

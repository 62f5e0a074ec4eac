------------------------------ MODULE Payments ------------------------------
(* Bookings made through the HTTP route, their payment and their            *)
(* cancellation: services/booking/persistence.py over services/db_client.py,*)
(* route/booking.py and route/stripe_webhook.py.  A call that cannot insert *)
(* a row keeps its booking in the memory of the process, under an id of its *)
(* own.  Stripe sends an event until it is answered, in no order.           *)
EXTENDS Integers, FiniteSets

CONSTANTS None, Call,
          MaxRetries,     \* DB_MAX_RETRIES
          MaxFaults       \* bound on failed statements, lost answers and restarts

\* The row of an attempt of a call, and the booking in memory
Id == Call \X (0..MaxRetries)
InMemory(id) == id[2] = 0

Status == {"pending", "confirmed", "cancelled"}
Kind == {"completed", "failed", "refunded"}
Over == MaxRetries + 1

ASSUME PaymentAssumption ==
    /\ MaxRetries \in Nat \ {0} /\ MaxFaults \in Nat
    /\ IsFiniteSet(Call)
    /\ None \notin Id \cup Status

VARIABLES
    booking,      \* the status of each booking, in public.bookings or in _BOOKINGS
    attempt,      \* the attempt of each call, 0 before it and Over after it
    told,         \* the id each call was answered with
    charge,       \* what Stripe knows of it
    mail,         \* the events Stripe has yet to see answered
    disturbed,    \* calls of which an event failed, came twice or overtook another
    restarted,    \* whether the process has started again
    faults

vars == <<booking, attempt, told, charge, mail, disturbed, restarted, faults>>

TypeOK ==
    /\ booking \in [Id -> Status \cup {None}]
    /\ attempt \in [Call -> 0..Over]
    /\ told \in [Call -> Id \cup {None}]
    /\ charge \in [Call -> {"none", "paid", "refunded"}]
    /\ mail \subseteq Call \X Kind
    /\ disturbed \subseteq Call
    /\ restarted \in BOOLEAN
    /\ faults \in 0..MaxFaults

Init ==
    /\ booking = [id \in Id |-> None]
    /\ attempt = [c \in Call |-> 0]
    /\ told = [c \in Call |-> None]
    /\ charge = [c \in Call |-> "none"]
    /\ mail = {} /\ disturbed = {} /\ restarted = FALSE /\ faults = 0

Fault == faults < MaxFaults /\ faults' = faults + 1
-----------------------------------------------------------------------------
(* create_booking *)

Row(c) == <<c, attempt[c]>>
Inserting(c) == attempt[c] \in 1..MaxRetries

Request(c) ==
    /\ attempt[c] = 0
    /\ attempt' = [attempt EXCEPT ![c] = 1]
    /\ UNCHANGED <<booking, told, charge, mail, disturbed, restarted, faults>>

\* Mutant: the booking of the fallback is not kept.
AnswersUnkept(c, id) ==
    /\ booking' = [booking EXCEPT ![id] = IF InMemory(id) THEN None ELSE "pending"]
    /\ told' = [told EXCEPT ![c] = id]
    /\ attempt' = [attempt EXCEPT ![c] = Over]

\* Mutant: no return after the row, the booking is kept in memory as well.
AnswersTwice(c, id) ==
    /\ booking' = [booking EXCEPT ![id] = "pending", ![<<c, 0>>] = "pending"]
    /\ told' = [told EXCEPT ![c] = id]
    /\ attempt' = [attempt EXCEPT ![c] = Over]

\* The call is answered with a booking that is stored under this id.
Answers(c, id) ==
    /\ booking' = [booking EXCEPT ![id] = "pending"]
    /\ told' = [told EXCEPT ![c] = id]
    /\ attempt' = [attempt EXCEPT ![c] = Over]

InsertRow(c) ==
    /\ Inserting(c)
    /\ Answers(c, Row(c))
    /\ UNCHANGED <<charge, mail, disturbed, restarted, faults>>

\* The database refuses the values, which is not tried again.
InsertRejected(c) ==
    /\ Inserting(c)
    /\ Answers(c, <<c, 0>>)
    /\ UNCHANGED <<charge, mail, disturbed, restarted, faults>>

\* _run_with_retry
TriesAgain(c) == attempt[c] < MaxRetries

\* No answer in time, whether or not the row was written
InsertFails(c) ==
    /\ Inserting(c) /\ Fault
    /\ \E written \in BOOLEAN :
          LET rows == IF written THEN [booking EXCEPT ![Row(c)] = "pending"] ELSE booking IN
          IF TriesAgain(c)
          THEN /\ booking' = rows
               /\ attempt' = [attempt EXCEPT ![c] = @ + 1]
               /\ UNCHANGED told
          ELSE /\ booking' = [rows EXCEPT ![<<c, 0>>] = "pending"]
               /\ told' = [told EXCEPT ![c] = <<c, 0>>]
               /\ attempt' = [attempt EXCEPT ![c] = Over]
    /\ UNCHANGED <<charge, mail, disturbed, restarted>>
-----------------------------------------------------------------------------
(* update_booking_status *)

\* Mutant: the statement does not compare the status.
Found(id, current) == booking[id] # None

\* The booking in memory is changed whatever its status.
Matches(id, current) ==
    booking[id] # None /\ (InMemory(id) \/ current \in {"", booking[id]})

Updated(id, current, new) ==
    IF Matches(id, current) THEN [booking EXCEPT ![id] = new] ELSE booking

Update(id, current, new) ==
    \/ booking' = Updated(id, current, new) /\ UNCHANGED faults
    \/ ~InMemory(id) /\ Fault /\ booking' \in {booking, Updated(id, current, new)}

\* handle_booking_cancellation_turn, once the guest has confirmed
Cancel(c) ==
    /\ told[c] # None /\ Update(told[c], "", "cancelled")
    /\ UNCHANGED <<attempt, told, charge, mail, disturbed, restarted>>
-----------------------------------------------------------------------------
(* Stripe and its webhook *)

\* The guest tries to pay, pays, is paid back.
Charge(c, from, to, kind) ==
    /\ told[c] # None /\ charge[c] = from
    /\ charge' = [charge EXCEPT ![c] = to]
    /\ mail' = mail \cup {<<c, kind>>}
    /\ UNCHANGED <<booking, attempt, told, disturbed, restarted, faults>>

PaymentFails(c) == Charge(c, "none", "none", "failed")
Pay(c) == Charge(c, "none", "paid", "completed")
Refund(c) == Charge(c, "paid", "refunded", "refunded")

\* Mutant: a refund resets a booking that is still pending.
ResetsPending(kind) ==
    IF kind = "completed" THEN <<"pending", "confirmed">> ELSE <<"pending", "pending">>

\* Mutant: the status that is set is the name of the event.
SetsRefunded(kind) ==
    IF kind = "completed" THEN <<"pending", "confirmed">> ELSE <<"confirmed", "refunded">>

\* The status an event expects and the one it sets
Change(kind) ==
    IF kind = "completed" THEN <<"pending", "confirmed">> ELSE <<"confirmed", "pending">>

\* Mutant: the handler of completed events is left out.
RefundsOnly(kind) == kind = "refunded"

Handled(kind) == kind # "failed"

Overtakes(c, kind) == kind = "refunded" /\ <<c, "completed">> \in mail

\* stripe_webhook answers 200 whatever becomes of the update.
Webhook(c, kind) ==
    /\ <<c, kind>> \in mail
    /\ IF Handled(kind) THEN Update(told[c], Change(kind)[1], Change(kind)[2])
                        ELSE UNCHANGED <<booking, faults>>
    /\ mail' = mail \ {<<c, kind>>}
    /\ disturbed' = IF faults' # faults \/ Overtakes(c, kind) THEN disturbed \cup {c}
                                                              ELSE disturbed
    /\ UNCHANGED <<attempt, told, charge, restarted>>

\* The answer is lost, and Stripe sends the event again.
Redelivered(c, kind) ==
    /\ <<c, kind>> \in mail /\ Handled(kind) /\ Fault
    /\ booking' = Updated(told[c], Change(kind)[1], Change(kind)[2])
    /\ disturbed' = disturbed \cup {c}
    /\ UNCHANGED <<attempt, told, charge, mail, restarted>>
-----------------------------------------------------------------------------
\* The bookings in memory and the calls under way are gone.
Restart ==
    /\ Fault /\ restarted' = TRUE
    /\ booking' = [id \in Id |-> IF InMemory(id) THEN None ELSE booking[id]]
    /\ attempt' = [c \in Call |-> IF Inserting(c) THEN Over ELSE attempt[c]]
    /\ UNCHANGED <<told, charge, mail, disturbed>>

Next ==
    \/ \E c \in Call :
          \/ Request(c) \/ InsertRow(c) \/ InsertRejected(c) \/ InsertFails(c)
          \/ Cancel(c) \/ PaymentFails(c) \/ Pay(c) \/ Refund(c)
          \/ \E kind \in Kind : Webhook(c, kind) \/ Redelivered(c, kind)
    \/ Restart

\* Stripe sends what was not answered again and again.
Fairness == \A c \in Call, kind \in Kind : WF_vars(Webhook(c, kind))

Spec == Init /\ [][Next]_vars /\ Fairness
-----------------------------------------------------------------------------
\* The status of the booking a call was answered with
StatusOf(c) == IF told[c] = None THEN None ELSE booking[told[c]]

\* Every failure costs at most one booking that nobody was told of: a retried insert
\* and the fallback never add more (db_client.py:125-142, persistence.py:88-133).
StraysBounded ==
    Cardinality({id \in Id : booking[id] # None /\ told[id[1]] # id}) <= faults

\* The id a call was answered with is that of a booking, until a restart forgets the
\* bookings in memory (persistence.py:118-133).
ToldIsStored ==
    \A c \in Call : told[c] # None =>
        StatusOf(c) # None \/ (InMemory(told[c]) /\ restarted)

\* A row that was cancelled stays cancelled, whatever events of its payment are still
\* to come (stripe_webhook.py:57-87, persistence.py:180-190).
CancelledStays ==
    [][\A id \in Id : booking[id] = "cancelled" /\ ~InMemory(id) =>
          booking'[id] = "cancelled"]_vars

\* When all events are handled, a booking that was paid back is not confirmed, unless
\* one of its events failed, came twice or overtook another.
RefundedNotConfirmed ==
    \A c \in Call :
        /\ charge[c] = "refunded" /\ \A kind \in Kind : <<c, kind>> \notin mail
        /\ c \notin disturbed
        => StatusOf(c) # "confirmed"

\* While nothing fails, a booking that is paid is confirmed, or paid back or cancelled.
PaymentConfirms ==
    \A c \in Call :
        charge[c] = "paid" ~>
            \/ faults > 0 \/ charge[c] = "refunded"
            \/ StatusOf(c) \in {"confirmed", "cancelled"}
=============================================================================

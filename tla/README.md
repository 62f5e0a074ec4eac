# TLA+ models of the property booking concierge

The concierge (`src/backend/app`) answers chat messages of guests who search for
a property, book it, pay, and later look up, amend or cancel the booking. A
gateway in Rust (`src/backend/rust_gateway`) serves its tools over HTTP. This
directory holds TLA+ modules translated from that code, TLC configurations that
check them on small instances, and proofs for all instances that TLAPS checks.
Paths below are relative to `src/backend/app`, those under `specs/`, `tests/` and
`rust_gateway/` to `src/backend`, unless they start with `src/`.

## 1. The system: inventory

A message arrives over HTTP or WhatsApp and becomes one *turn*
(`services/adk_runner/turn.py:run_adk_turn`). The turn loads the session's
`soft_state`, offers the message to deterministic handlers in a fixed order, and
the first that claims it changes `soft_state`, talks to the database, and returns
a reply; otherwise a language-model agent runs and may call tools. The turn then
stores `soft_state` back.

| component | state it keeps | operations | interacts with | hard behaviour |
|---|---|---|---|---|
| Booking workflow (`services/booking/*`) | `booking_stage`, `booking_state` (draft), `booking_review`, `awaiting_field`, `booking_receipt`, `pending_booking_amendment`, cancellation keys, all inside `soft_state` | start, give details, review, confirm, modify, resume, amend, cancel, look up | session store (load/save), `successful_bookings` (insert, select, update), search state (selected property) | three dialogues share a few keys and can interrupt each other at any message; writes fail or lose their reply |
| Message extraction (`services/booking/extraction.py`, `date_parser.py`) | none | cut a message into segments and parts, find dates, relate them to labels, infer years | booking workflow: what it returns depends on the question that is open | the same words mean another thing under another question; passes that overrule each other |
| Turn dispatch (`services/adk_runner/handlers.py`, `turn.py`, `config/conversation_shortcuts*`) | none of its own | claim order, guards per stage, shortcuts, timeout of the agent | every handler, session store | no lock per session: turns may overlap; the agent may be cancelled after a tool wrote; "yes" means six things |
| Session store (`services/redis_store.py`, `adk_runner/session_service.py`, `state_helpers.py`) | Redis snapshot with a time to live, copy of the process, in-memory ADK sessions | get, save, merge, create, append_event, expire | every turn | outage and recovery, merge that never removes a key, a lock around one of two merges |
| Tool-loop detection (`security/anomaly.py`) | history per session in Redis or in the process | check, record | agent turns | check and record are apart; history split by an outage |
| Search and pages (`agents/tools/search`, `services/direct_property_search`, `services/search_planner.py`) | results, filters, order, visible page, option map, selection | plan, search, refine, page, select, reject, return | booking workflow, FAQ, coverage questions | option numbers resolved against another list than the one shown |
| FAQ interruption (`services/faq_interruption.py`) | what the question interrupted | capture, answer, resume | booking workflow, search | what is resumed may be gone |
| Payments (`route/stripe_webhook.py`, `services/booking/persistence.py`, `services/db_client.py`) | rows of `bookings`, bookings in memory | request, insert with retries, cancel, completed, failed, refunded | Stripe | lost replies and retries, duplicated and reordered events, restart |
| `successful_bookings` (`observability/db_logging.py`) | one row per registration id | upsert, select, update with retry | booking workflow, agent tools | commit whose reply is lost, failure swallowed into `False` |
| Rust gateway (`rust_gateway/src`) | windows per client, response cache, loaded policies | admit, intercept, look up, compute, clean up, store, reload, evict | the Python tools | several threads; a lock per step, none around the call |
| Agents and their booking tools (`agents/*`) | write the same keys | request, review, process | a language model decides the order | see section 9 |
| Guardrails, memory, retrieval, formatting, telemetry, configuration, frontend | none that a protocol depends on | text processing, I/O | | see section 9 |

What makes each of them correct:

* **Booking workflow**: the review the guest confirms is the current, complete,
  valid draft; nothing valid is lost on the way; no write without a yes to that
  very write; receipts do not run ahead of rows; a dialogue that interrupts
  another leaves it intact; no dialogue asks for ever.
* **Message extraction**: a message that says its values plainly gives those
  values and no others, whatever question is open.
* **Turn dispatch**: a short message is taken by the handler the guest means;
  what a turn stored is lost only to a turn that overlapped it; every turn ends.
* **Session store**: after an outage nobody falls back to a state older than the
  last turn that ended.
* **Tool loop**: a call is repeated no more often than the threshold allows.
* **Search**: results meet all that was asked for, in however many messages; the
  number a guest answers with is the listing beside it; a booking does not lose
  the search behind it.
* **Payments**: no failure leaves more than one stray booking; a cancelled booking
  stays cancelled; a payment is honoured in the end.
* **Gateway**: at most the limit per window and refusals only for cause; answers
  only from the policies in force or from entries that have not expired; bounded
  memory.

## 2. Modules

| module | what it is | code |
|---|---|---|
| `BookingDetails` | constants, the shape of drafts, messages and receipts, the rules of validation | `services/booking/validation.py`, `state.py`, `receipt.py`, `config/booking_schema.yaml` |
| `BookingHandlers` | every deterministic booking handler as a function from one `soft_state` to the next | `creation.py`, `amendment.py`, `cancellation.py`, `receipt.py` |
| `BookingFlow` | the state machine: `soft`, `rows`, `issued`; one action per kind of turn | `adk_runner/handlers.py`, the same services, `db_logging.py` |
| `BookingLedger` | abstract specification of the table: register, amend, cancel | what `successful_bookings` promises |
| `BookingClaims` | statements of the repository's documents that the code does not keep | `src/backend/specs/*.md` |
| `DetailReading` | what is read of a message: labels, dates and their years, association, parts, name, phone, guests | `date_parser.py`, `extraction.py` |
| `BookingReading` | `BookingFlow` composed with `DetailReading` | |
| `DetailDialogue` | the collection of one field after another, with messages as texts | `creation.py`, `validation.py`, `config/booking_schema_loader.py` |
| `CancellationDialogue` | the cancellation reply by reply, and what each reply is read as | `services/booking/cancellation.py` |
| `ListingSearch` | constraints, their merging and enforcement, order, both backends | `agents/tools/search/core.py`, `services/dynamic_constraints.py` |
| `MessageReading` | the constraints and the order a message names: numbers, cities, types, amenities | `services/search_planner.py`, `direct_property_search/city.py`, `extraction.py`, `config/property_search_filters.yaml` |
| `SearchSession` | the state machine of search, pages, selection, rejection, coverage questions, FAQ interruption | `direct_property_search/handler.py`, `agents/tools/search/*`, `faq_interruption.py`, `adk_runner/coverage_followups.py` |
| `CueReading` | which shortcut or cue a short message is | `config/conversation_shortcuts_loader.py`, `.yaml`, `faq_interruption.py`, `service_coverage_loader.py` |
| `MessageRouting` | which handler takes a message in which situation | `adk_runner/turn.py`, `handlers.py`, `coverage_followups.py` |
| `SessionStore` | the snapshot in Redis, the copy of the process, outages | `services/redis_store.py` |
| `ToolGuard` | EXTENDS `SessionStore`: the guard against tool loops | `security/anomaly.py` |
| `SessionTurns` | EXTENDS both: turns of one session that overlap, a step per await | `adk_runner/turn.py`, `session_service.py`, `state_helpers.py`, `events.py` |
| `Payments` | bookings that are requested, retried, paid, refunded, cancelled | `services/booking/persistence.py`, `db_client.py`, `route/stripe_webhook.py` |
| `RateLimit` | the sliding window limiter | `rust_gateway/src/rate_limiter.rs` |
| `AdmissionContract` | abstract specification: at most so many calls served per window | |
| `ResponseCache` | bounded map with a time to live | `rust_gateway/src/cache.rs` |
| `GatewayTools` | intent, tool and policy of a request, as operators | `rust_gateway/src/gateway.rs`, `cag.rs`, `tools/*.rs`; what the Python client sends, `agents/tools/rust_client.py` |
| `Gateway` | composes the four: concurrent calls of `POST /execute` | `rust_gateway/src/main.rs` |
| `BookingFlowProofs`, `BookingAftercareProofs`, `BookingReceiptProofs` | theorems about `BookingFlow` | |
| `SearchProofs`, `TurnsProofs`, `PaymentsProofs` | theorems about `SearchSession`, `SessionTurns`, `Payments` | |
| `DetailProofs` | theorems about `DetailReading` and `DetailDialogue` | |
| `GatewayProofs` | theorems about `RateLimit` and `Gateway` | |
| `MCBooking`, `PlainTexts`, `MCDetails`, `MCCancellation`, `MCSearch`, `MCTurns`, `MCPayments`, `MCGateway` | values of constants and named bounds, for TLC | |

### State and actions

**BookingFlow.** `soft` is the `soft_state` dictionary as stored between turns. A
record field has the name of the dictionary's key; an absent key is `None`.
`booking_review` stands also for `pending_booking`; `booking_receipt` for
`booking_registration_id` and `booking_status`; `details_shown` says whether
`last_presented_view` is `property_details`; `booking_cancellation` groups the
cancellation keys. `rows` is `public.successful_bookings`, by registration id.
`issued` is the set of ids handed out, a history variable that keeps ids fresh as
the code's random ids are. A guard contains what keeps *earlier* handlers from
claiming the message: `Unclaimed(soft)`, `ActiveSession`, and so on. `Message` is
what `_extract_updates_from_message` can return, including the order of the two
dates in the dictionary of updates (`outFirst`), because the check-out is
validated against the check-in known at that moment. A write is `ok`, `failed`, or
`reply_lost` (committed, and the caller sees an exception).

**DetailReading** is pure. A message is a sequence of pieces with their kind,
number of words and place, because labels are related to dates by distance;
`ReadingOf(t, f)` is the dictionary of updates and of errors while `f` is asked
for. The operators are the passes of the code in their order: segments after the
field names (`Written`), dates near their labels (`AssociatedStay`, `StayRead`),
parts between commas (`ReadFromParts`), the answer to the open question
(`Fallback`). Its results were compared with those of the Python functions on some
15,000 generated texts, those of `CueReading` on 9,000 pairs of a message and a
state; texts on which a regular expression of the code joins two values (section
5) are outside its domain, as its header says.

**SearchSession.** One action is one turn that does not overlap another. `results`,
`filters`, `visible`, `options`, ... are the keys of `soft_state` named beside
them; `screen`, `live` and `asked` are history: the numbered listings the guest saw
last, whether they were read from the present state, and what was asked for since
the last new search. `Found` chooses between the two backends, which differ.

**SessionTurns.** A turn is a process; `pc` names the await it is at, `work` is
local to it. A handler turn is load, settle, save; an agent run opens or creates its
session, appends its message, then alternates with the model (`Think`), checks and
records tools, merges every event under the lock, and merges once more at the end
without it. A snapshot is, per part of `soft_state`, the turn that wrote it last:
lost updates need no more. `remote` and `local` are Redis and the copy of the
process; every call of Redis may fail, a save also after Redis took it.

**Payments.** `booking[id]` is a row or a booking in memory, `attempt[c]` where the
insert of call `c` is in its retries, `told[c]` the id it was answered with,
`charge[c]` what the guest did, `mail` the events of Stripe not yet handled.

**Gateway.** `now`, `arrivals`, `dropped`, `caller`, `stamp`, `passed`, `verdict` are
the limiter's: a call reads the clock when it arrives (`ReadClock`) and has the lock in a
later step (`Limit`), so that calls may overtake each other on the way. The deque of a
client is `arrivals[c]` without the `dropped[c]` stamps popped from its front; what was
popped stays for the properties to speak about. `store` is the cache; `policies` what is
loaded; `stage[k]` where call `k` is. A step ends where the code releases a lock or has
read a shared pointer or the clock. `passed`, `storedAt`, `inForce` are history.

### What is abstracted

* In `BookingFlow`, name, e-mail and phone are one field `contact`: no rule relates
  them. `DetailReading` has the three. A title stands for title and price per
  night, always copied together; nights and totals are recomputed from the dates
  and left out. `Bad` is a value that its own validator refuses, or a date that
  could not be parsed. The reference date does not move. In the dialogues of
  amendments `awaiting_field` names the first field asked.
* In `SearchSession` the booking is only its stage. Ranking is the order of the
  listings under a preference; ranking by wording permutes the first `RerankLimit`
  rows in any way. The dataset says what can be searched for: a field is one that the
  first hundred rows have, cities and types are those of the rows. How alike two
  names are written is a constant (`CityResemblance`, `TypeLikeness`), what the code
  makes of it is not: a type is resembled only when no other is nearly as much alike.
  `MessageReading` finds phrases at word boundaries, also those the code looks for
  anywhere; for the names in answers about coverage `Inside` says which words contain
  them. The classifiers that say whether a text
  is a search or a question of policy are fields of the message.
* In `SessionTurns` there is one process, as deployed (`src/backend/Dockerfile`,
  `src/docker-compose.yml:18`, `src/ecosystem.config.js:6`), and one repeated tool call.
  Messages are numbered in the order in which they arrive. The window of the tool
  guard passes only while models think. The Redis answer to a save is apart from
  its application. History, events and `final_reply` are left out; the runner's own
  get-or-create of a session is external.
* In `Gateway` what a tool answers is which tool it was: tools keep no state. The cache
  reads its clock where it is used.
* In `Payments` money and dates are left out; a status is all that matters.

## 3. Runs

Deadlock is checked except in `turns` and `payments`, where every turn may be done
and every payment settled.

| run | module | distinct states | shows |
|---|---|---|---|
| `collecting` | `MCBooking` | 496,060 | `TypeOK`, `DraftOK`, `ReviewReady`, `ValidDetailsSurvive`, `AmendmentCanComplete`, `DetailsAsSaid`: properties of capacity 1 and 2, days 1..2, guests 1..2, one id, and 410 plain messages read under every open question |
| `rebooking` | `MCBooking` | 111,886 | `AwaitingMeaning`, `ReviewReady`: one property, one id, every further booking |
| `aftercare` | `MCBooking` | 359,562 | `AmendmentCoherent`, `WritesAreConfirmed`, `ReceiptFollowsRow`, `CancellationPreservesFlow`, `ImplementsLedger`: two ids (symmetric) |
| `search` | `MCSearch` | 277,330 | `TypeOK`, `WindowCoherent`, `ResultsMatch`, `FiltersAsAsked`, `CuesTakenAsMeant`, `ResumeCoherent`, `SelectionAsShown`, `RejectionKeepsWindow`, `BookingKeepsSearch`: four listings, eight searches, twenty-two cues, both displays, both backends |
| `turns` | `MCTurns` | 534,497 | `TypeOK`, `CopyIsFresh`, `LoopBounded`, `LossNeedsOverlap`, `EveryTurnEnds`: two turns, one failure of Redis or restart |
| `payments` | `MCPayments` | 135,004 | `TypeOK`, `StraysBounded`, `ToldIsStored`, `CancelledStays`, `RefundedNotConfirmed`, `PaymentConfirms`: two calls, two retries, two failures |
| `gateway` | `MCGateway` | 384,609 | `TypeOK`, `AdmittedWithinLimit`, `CapacityKept`, `PoliciesDecide`, `RefusedForCause`, `CachedAnswerStands`, `KeepsAdmissionContract`: three concurrent calls of a client through the whole gateway, and four of a crowd at its limiter |
| `capacity_claim` | `MCBooking` | | `RegisteredGuestsFit` is violated |
| `stored_stay_claim` | `MCBooking` | | `StoredStayIsOrdered` is violated |
| `refusal_claim` | `MCCancellation` | | `RefusalKeepsBooking` is violated |
| `stage_claim` | `MCBooking` | | `ConfirmedByTheGuest` is violated |
| `phone_claim` | `MCDetails` | | `InvalidCheckOutKeepsDetails` is violated |

Why the bounds are enough:

* *Booking.* Two days give an ordered stay, an equal pair and a reversed pair, all
  that the order tests distinguish; a third is used where an amendment in two rounds
  must be in order with one old value and not the other. Two guest counts and two
  capacities give a count that fits, one that does not, and a change of property
  after which a count stops fitting. Contact values are copied and never compared:
  one suffices beside `None` and `Bad`. Two ids are needed for the session's receipt
  to be of another booking than the one cancelled or looked up; no definition
  compares them but for equality, so symmetry is sound. `OneBookingCollected` checks,
  and does not go on from, states in which details of a further booking are
  collected after a registration; `rebooking` explores those.
* *Plain messages* (`PlainTexts`) are built from phrases: each field under each of
  its names, both orders of a stay, years said and unsaid, pairs across the new
  year, commas or none. Today is 15 June 2027, so that a month and day can be past.
* *Search.* Two cities, types and pages of one listing give a first, middle and last
  page; a page limit of two and a result limit of two let a list be cut. Each
  message is there for one way of reading: an alias, a misspelling, two patterns
  that overlap, an amenity that is unknown, an order, nothing.
* *Turns.* Two turns meet at every pair of awaits. What more turns can do to each
  other, a third one's value put in the place of a turn's own among it, is proved
  (section 7). One failure at any call of Redis, with a save that was taken or
  not, gives an outage, a fallback and its end; a threshold of 0 is reached at once.
* *Payments.* A failed insert, its retry, and the failure of that too; two events
  on their way at a time.
* *Gateway.* The window and the period of the eviction task are one second, the limit
  is two. `WithinBounds` explores two kinds of history. Calls of a *crowd* stop at the
  limiter, are four and go on to the third second: two that fill a window, one that read
  the clock in it and one that read it beyond the edge of it and has the lock first, with
  the purge, the eviction task and a stale stamp behind a fresh one. The other calls are
  three, through policies, cache and tools, in the two moments 0 and 1, which is enough
  for times to live of 0 and 1. Two slots for a capacity of one; two requests share a
  slot. Calls are interchangeable: no definition orders them, and no liveness is checked
  here, so their symmetry is sound.

## 4. Properties

`TypeOK` apart, each is about several handlers or a sequence of steps.

*Booking.* `DraftOK`: dates in order, guests within the *known* capacity, at all
times. `ReviewReady`: on whatever path, a guest who is asked to confirm is shown the
current draft, complete, valid, with no open question. `AwaitingMeaning`:
`awaiting_field` is set exactly in the stages that wait for a value (stronger than
`specs/session_state_contract.md:89`). `ValidDetailsSurvive`: a detail disappears
only if it was found invalid, and is then asked for again. `AmendmentCoherent`:
stage, pending amendment and receipt agree. `AmendmentCanComplete`: from every
question for new values, if the booking as it stands is acceptable, some answer
leads to the confirmation; it is stated over the handler itself rather than with a
fairness assumption. `WritesAreConfirmed`: the only steps that change a row are the
answers "yes" to exactly that change. `ReceiptFollowsRow`: a receipt changes only
with or after its row. `CancellationPreservesFlow`: a cancellation dialogue leaves
everything but itself and the receipt's status alone. `ImplementsLedger`:
`BookingFlow` refines `BookingLedger`, with `rows` mapped to itself.

*Reading.* `DetailsAsSaid`: whatever is asked for, a plain message gives what it
says. `FiltersAsAsked`: the filters of the session are what the guest asked for.
`CuesTakenAsMeant`: each of twenty-two short messages is taken, in every state the
search can be in, by the handler its meaning calls for; of a question about coverage
it is also told apart what the answer leads to: the end of it, the cities, the types
or the search.

*Search.* `WindowCoherent`, `ResultsMatch`, `ResumeCoherent`, `SelectionAsShown`,
`RejectionKeepsWindow`, `BookingKeepsSearch`, each as stated beside it, with the
situations it has to except (section 5 has them as divergences).

*Turns.* `CopyIsFresh`, `LoopBounded`, `LossNeedsOverlap` (while Redis answers, a turn
replaces what is stored by something else than its own only where a turn beside it
saved last), `EveryTurnEnds`.

*Payments.* `StraysBounded`, `ToldIsStored`, `CancelledStays`,
`RefundedNotConfirmed`, `PaymentConfirms`.

*Gateway.* What a limiter promises has to be said with care when calls overtake each
other between the clock and the lock. `AdmittedWithinLimit`: in no window, wherever it
ends, are more calls than the limit, those not counted that were *overtaken*: another call
of the client had the lock first and had read the clock later, or the call waited for the
lock longer than the eviction task sleeps. `RefusedForCause`: whoever is refused has as
many calls as the limit behind it that had the lock in the window before its reading or
later; stale stamps behind a fresh one count too, but never for longer than that.
`KeepsAdmissionContract`: the gateway refines `AdmissionContract`, with `served` mapped to
the admitted calls and their stamps: at the moment of an admission, of an overtaken call
as well, fewer than the limit had been served that came in the last window. Then `CapacityKept`, `PoliciesDecide`,
`CachedAnswerStands`.

## 5. What the code does otherwise than its documents say

Shown by a run:

* `RegisteredGuestsFit`: the results page is formatted without `occupancy_max`,
  and without it the capacity check is skipped.
* `StoredStayIsOrdered`: an amendment reopened at its confirmation writes only the
  columns of the fields named last, beside columns that were never written. The
  ledger therefore does not promise ordered stays after an amendment.
* `RefusalKeepsBooking`: asked to confirm a cancellation, "i do not want to cancel my
  booking" cancels it. Before the question the same words are a refusal
  (`cancellation.py:70`); at the question they are no negation, and "cancel" is a yes.
* `ConfirmedByTheGuest`: a status question turns a pending review into the
  confirmed stage.
* `InvalidCheckOutKeepsDetails`: a date in figures is read as a phone number too.

Met while modelling, and part of the models unless said otherwise.

*Reading of details.* "check in 13 july, check out 23 may" is read in parts, so the
pair is not normalised to one year although `date_parser.py:270-273` says so.
"2 guests" in a part of its own is taken as a name when none is known. "my name is
john smith and my email is j@x.com" gives a name that goes on to "j". "2 guests 13
july" gives 13 guests. "5 august, 2 guests" as the answer to the check-out overwrites
the check-in as well. "29 february" is not read in a year without one. "june 14,
2028" is split at the comma. `_validate_and_commit_state` never uses
`mentioned_fields`. Plain messages leave such texts out.

*Reading of searches.* "less than 3 bedrooms" is a price and exactly three bedrooms;
"at least 2 beds" is exactly two; "no parking" asks for parking; "above $200" is
enforced as a maximum. Equally long city names are chosen in the order of a set.

*Shortcuts.* Unquoted `yes` and `no` in `config/conversation_shortcuts.yaml:82-147`
are booleans in YAML 1.1: the group of `yes` becomes the token "true" and the groups
of `no` are dropped, so "yes that is right" does not confirm a review and "no ok"
does, although the file lists `[no]` under `none`. The same in
`config/booking_schema.yaml:194-195`: the cancellation knows "yes" only as an exact
reply, and "no" within a sentence is lost. "ok" and "sure" anywhere confirm a review. "yes" to a review resumed beside
the details of another property books that one. The review outlives its confirmation,
against `specs/session_state_contract.md:65`. After a confirmed booking a policy
question offers to continue a booking that `resume_booking_flow` does not resume.
"no, thanks" to a question of coverage is not a no.

*Search.* A cue shows the list that was interrupted, with the numbers its rows had, while
numbers select from the present one (`services/adk_runner/handlers.py:107`). A rejection
after `last_search` has expired counts the listings anew from 1, although the page stays
what it was (`agents/tools/search/pagination.py:297-307`). The
reselection shortcut numbers from 1. A question about type or coverage left open
swallows the answers of a booking, and may run a search in the middle of it, against
`specs/search_workflow.md:95`. A list of amenities with ";" is one amenity to the
loader; the Rust backend cuts its answer before it is filtered.

*Turns.* A turn that runs out of time or events may end without a reply
(`turn.py:652-675`, against `src/specs/error_handling.md:14`). `turn_count` at
`turn.py:689` is undefined, so trajectories are never logged. `create_session`
stores an empty state over what a handler stored since its look-up. An agent's merge
prefers the state of its session to the updates it collected (`turn.py:515-545`).

*Payments.* The webhook answers 200 although its update failed
(`route/stripe_webhook.py:61`), so Stripe does not try again: `PaymentConfirms` holds
only while nothing fails. A booking in memory takes an update whatever its status. A
refund that overtakes the payment leaves a booking that was paid back confirmed.

*Gateway.* The limiter reads the clock at `rate_limiter.rs:172` and locks at `:179`. A
call that reads it at the end of a window, and has the lock after one that read it beyond
the edge and purged that window, is let in: the window that ended with its reading then
holds more than the limit. And a fresh stamp in front stops the purge (`:184`), so that
stale ones behind it are counted and refuse calls. The key of the cache leaves out `context`
and may collide. Refused requests count against the limit. A full cache gives up an entry
even for a key it holds. `validate_booking`, `check_fraud` and `analyze_sentiment` reach the
pricing tool or none with the registry of the repository.

*Agent tools.* `process_v2_booking` registers a row whatever the review, the stage
or the receipt (`agents/tools/booking.py:280`), and its changes of `soft_state` do
not reach the session.

## 6. Fairness

`BookingFlow`, `SearchSession` and `Gateway` assume none: their actions answer
messages that guests may or may not send, and only safety is claimed of them. What
the booking owes the guest, that no question is a dead end, is
`AmendmentCanComplete`.

`SessionTurns` assumes `WF_vars(Step(t))` for each turn: the event loop runs every
turn on, calls of Redis and of the database answer or time out. `Think(t)`, what a
model does, is not fair: that a turn ends although its model never answers is the
work of `Timeout`, which is a `Step`. Weak fairness is enough although turns wait for
a lock: with two turns a lock that is released stays free until the other turn takes
it, or its holder comes back a bounded number of times (`MaxEvents`).

`Payments` assumes `WF_vars(Webhook(c, kind))`: Stripe sends an event again until it
is answered. Guests and failures are not fair.

## 7. Proofs

| theorem | module | statement |
|---|---|---|
| `Invariance` | `BookingFlowProofs` | `Spec => []IInv` |
| `TypeCorrect` | | `Spec => []TypeOK` |
| `DraftCorrect` | | `Spec => []DraftOK` |
| `ReviewCorrect` | | `Spec => []ReviewReady` |
| `AwaitingCorrect` | | `Spec => []AwaitingMeaning` |
| `LinkedInvariance` | `BookingAftercareProofs` | `Spec => []LInv` |
| `AmendmentCorrect` | | `Spec => []AmendmentCoherent` |
| `WritesCorrect` | | `Spec => WritesAreConfirmed` |
| `LedgerCorrect` | | `Spec => ImplementsLedger` |
| `RegistrationFits` | | `Spec => RegisteredFits` |
| `OnlyPartialAmendmentsDisorder` | | `Spec => DisorderIsPartial` |
| `ReceiptInvariance` | `BookingReceiptProofs` | `Spec => []ReceiptInv` |
| `ReceiptCorrect` | | `Spec => ReceiptFollowsRow` |
| `CancellationCorrect` | | `Spec => CancellationPreservesFlow` |
| `DetailsSurvive` | | `Spec => ValidDetailsSurvive` |
| `AmendmentCompletes` | | `Spec => []AmendmentCanComplete` |
| `NothingInvented` | `DetailProofs` | a detail read of any message is one the message `Says` |
| `NoAmendmentInvented` | | so is the new value of an amendment |
| `AnswersAreRead` | | a value alone, in answer to its question, is read as that value |
| `YearlessDatesLieAhead` | | the year given to a date said without one |
| `FormOnlyHears` | | `ASSUME TextsTold PROVE Spec => FormStoresWhatIsSaid` |
| `FormIsSound` | | `Spec => []FormSound` |
| `ScreenInvariance`, `SearchInvariance` | `SearchProofs` | `Spec => []ScreenIsOptions`, `Spec => []SearchInv` |
| `SearchTypes` | | `Spec => []TypeOK` |
| `NumbersSelect`, `BookingsKeepSearch` | | `Spec => SelectionAsShown`, `Spec => BookingKeepsSearch` |
| `WindowsCohere`, `ResumesCohere` | | `Spec => []WindowCoherent`, `Spec => []ResumeCoherent` |
| `RejectionsKeepWindow` | | `Spec => RejectionKeepsWindow` |
| `FiltersStayAsAsked` | | `ASSUME ReadAsMeant PROVE Spec => []FiltersAsAsked` |
| `ResultsStayMatched` | | `ASSUME ReadAsMeant PROVE Spec => []ResultsMatch` |
| `SessionsCohere` | | `Spec => [](SoftState \in SoftStates)` |
| `CuesStayAsMeant` | | `ASSUME CuesRead PROVE Spec => []CuesTakenAsMeant` |
| `GuardInvariance`, `LoopsBounded` | `TurnsProofs` | `Spec => []GuardInv`, `Spec => []LoopBounded` |
| `TurnInvariance`, `TurnTypes` | | `Spec => []TurnInv`, `Spec => []TypeOK` |
| `CopiesStayFresh` | | `Spec => []CopyIsFresh` |
| `LossNeedsOverlapAlways` | | `Spec => LossNeedsOverlap` |
| `PaymentInvariance`, `TypesKept` | `PaymentsProofs` | `Spec => []PaymentInv`, `Spec => []TypeOK` |
| `ToldBookingsExist` | | `Spec => []ToldIsStored` |
| `CancellationLasts` | | `Spec => CancelledStays` |
| `FailuresBoundStrays` | | `Spec => []StraysBounded` |
| `RefundsUnconfirm` | | `Spec => []RefundedNotConfirmed` |
| `LimiterInvariance` | `GatewayProofs` | `LimiterSpec => [](LimiterInv /\ AdmittedWithinLimit)` |
| `RunsLimiter` | | `Spec => LimiterSpec` |
| `AdmissionLimited`, `RefusalsJustified` | | `Spec => []AdmittedWithinLimit`, `Spec => RefusedForCause` |
| `AdmissionRefined` | | `Spec => KeepsAdmissionContract` |
| `TypesKept`, `CacheBounded` | | `Spec => []TypeOK`, `Spec => []CapacityKept` |
| `PoliciesRule` | | `Spec => []PoliciesDecide` |
| `CacheAnswersStand` | | `Spec => CachedAnswerStands` |

They hold for every value of the constants that the named assumptions allow:
`DetailsAssumption`, `FieldAssumption`, `RecordAssumption`, `AmendmentAssumption`
(days and counts are natural numbers, `None` and `Bad` are no values, records or
fields), `LimiterAssumption` (finitely many calls; a window, a limit and a period
that are natural numbers), `ToolsAssumption`, `GatewayAssumption` (scores are
percentages, finitely many slots, room for one entry), `PaymentAssumption` (finitely
many calls; `None` is no booking and no status), `StoreAssumption`, `GuardAssumption` and
`TurnAssumption` (numbers of turns, of failures and of identical calls; a turn
consumes at least one event; `None` is no turn), `ListingAssumption`,
`SessionAssumption` and `MessageAssumption` (a dataset of typed listings, `None` is
no number; a page has room for a listing; messages mean constraints on the fields
that there are). TLC evaluates all of them in the runs.

Four theorems have a hypothesis besides. What the readers make of a text is induction
over data, out of the prover's reach, and not always what was meant (section 5), so a
theorem about sessions takes the reading of single messages as given and proves the
rest of the way.

* `ReadAsMeant` (`FiltersStayAsAsked`, `ResultsStayMatched`): each message that a guest
  may send is searched for as the guest means it. Every message of the run `search`
  satisfies it, which is what `FiltersAsAsked` finds out there, since every message can
  be the first search. Proved under it is merging over any number of messages, relaxed
  and inherited constraints, coverage questions, both backends.
* `CuesRead` (`CuesStayAsMeant`): each short message is taken for what it means in each
  of the *coherent* states of a session. It was evaluated with TLC for the constants of
  the run `search`: 315 states, no exception. It is not an `ASSUME` of the instance,
  because a reader that is wrong is to be found by the property. Proved under it is that
  no history of a session leads anywhere else (`SessionsCohere`).
* `TextsTold` (`FormOnlyHears`): what the guest tells are sequences. `FormIsSound` needs
  that a property takes a natural number of guests, and that a missing detail is no
  number; `YearlessDatesLieAhead` and `AnswersAreRead` that it is no year or name of a
  date. `DetailProofs` has no other hypothesis: its texts are of any length and any pieces.

### The booking

`DraftOK`, `ReviewReady` and `AwaitingMeaning` are not inductive by themselves.
`Sound` adds what the handlers rely on and nobody wrote down:

* `PendingSound`: an amendment stage has a pending amendment and the session a
  receipt; a candidate and the fields it changes exist at the confirmation.
* `AskingSound`: `AwaitingMeaning`, of any `soft_state` a handler computes.
* `DraftSound`: `DraftOK` of any draft and selected property.
* `ReviewSound`: at the review, the draft is the reviewed one *and seeding it again
  changes nothing*: `resume_booking_flow` seeds the draft from the selected property
  even when it then keeps the review, and only because that is the identity does the
  review stay current.

There is, per handler, a lemma about the type of what it returns and one that it
keeps `Sound`; the step of `IInvNext` for each action cites the lemmas of the
handlers it calls. The second module strengthens `IInv` to `LInv` with what ties a
session to the table: `PendingLinked` (base and candidate of an amendment are of the
session's booking and complete), `Linked` (so is its receipt), `RowsLinked` (a row
is filed under its own id, which was issued: why a registration never overwrites a
row although the insert is an upsert). Three lemmas, one per kind of write, show
that `LInv` is kept, that the write is the confirmed one, and that it is a step of
`BookingLedger`.

What a session says of its booking needs one invariant more, `ReceiptInv`: the
receipt, and both receipts of a pending amendment, are of an id that was handed out,
and say "cancelled" only when the row does. Without it an amendment that is
confirmed after a cancellation could bring a cancelled receipt back to life; with it
`ReceiptFollowsRow` follows handler by handler. `CancellationPreservesFlow` needs
only that the handlers of the cancellation write no key of the draft or of the
amendment (`Untouched`). For `ValidDetailsSurvive` a lemma per handler says that
each detail is kept, or is refused and becomes the next question.
`AmendmentCanComplete` exhibits an answer: the old value of every field asked for.

The runs `capacity_claim` and `stored_stay_claim` show two promises of the documents that
fail. What is left of them is proved. A registration is within the capacity the session
knows (`RegisteredFits`), so more guests come only with a property listed without one. A
stored stay goes out of order only by an amendment that leaves a date in the row which is
not the one the guest confirmed (`DisorderIsPartial`): registrations, cancellations and
amendments that write all that they show never do it.

### The reading of messages

`NothingInvented` is about one message of any pieces and any length: a detail in
`ReadingOf(t, f).updates` is one the text says. `Says` is what that means without any of
the passes: the name is a piece of the text as it stands, an e-mail or a phone number one
of its pieces, the guests the first figure of a piece, and a date has the day and the month
of a piece that is a date, and its year if it has one. The proof follows the passes of the
code: texts within texts (`Within`: trimmed segments, parts, what follows "my name is"), the
first or last of some places (`FirstOf`, `LatestOf`, the least-number principle), then a
lemma per detail, the stay in three steps (`AssociatedSaid`, `LabelledSaid`, `StaySaid`), the
parts and the fallback. The only step that changes what was said is `InOneYear`, which moves
a check-out to the year of the check-in, and the lemma shows that it moves only one that was
said without its own year. `DetailReading` was rewritten for it with places as sets in place
of filtered sequences, and the old form compared with the new one by TLC on 50,000 texts; a
conjunction of `AmendedName` that was laid out as an implication was found and corrected.

`AnswersAreRead` is the other direction, for the answer that is the value alone: the name,
the e-mail, the number, the day are read as such whichever field is asked for, and no date
of it is refused. Longer answers, where labels and values compete, are `DetailsAsSaid`.

`FormStoresWhatIsSaid` carries it through validation and storage: the form stores what this
answer says, or takes a detail back, and nothing else. `FormSound` is inductive as it is: every
detail was accepted by its validator or was there before, and the guests and the pair of dates
are looked at again whatever has changed.

### Search, turns and payments

`SelectionAsShown` rests on `ScreenIsOptions`: the list on the screen, while it was
read from the present state, is what numbers are looked up in. `BookingKeepsSearch`
needs no invariant, but every action.

`SearchInv` says what the keys of a search owe each other: the results are different
listings that meet the filters they were found with (`ListSound`); what is on display
is their page, the whole of it unless it is longer than a page may be, and numbers
are looked up in that list (`DisplaySound`); before a booking, the selection is
one of the results (`SelectionSound`); what a policy question interrupted is of this
search (`InterruptionSound`). The arithmetic of pages is in lemmas about `Window`,
`PageOf` and `Renumbered`: a page cut from an excerpt is an excerpt of the same page.
From it follow `WindowCoherent`, `ResumeCoherent` and `RejectionKeepsWindow`.
`FiltersSound` carries `filters = Searched(asked)` from message to message, and with
`ListSound` gives `ResultsMatch`.

The handlers ask whether keys of the session are there, and which handler takes a message
depends on that alone. `MessageRouting` states it as a snapshot, `SoftState`, and
`Coherent` says which snapshots go together. That there are no others is `KeysSound`, with
`SearchInv` beneath it: before anything was found there is nothing else, and afterwards
there is a city to search in and something on display (`FoundSound`); a booking, and the
details on display, are of a property that was selected (`ViewSound`). It needs that a
question about coverage or type that leads to a search always finds something, whichever
backend answers: the type is one the city has, and the cheapest listing is within the
limit of the Rust gateway (`FreshFinds`, by `FirstByPrice`). `SessionsCohere` is that
invariant, and takes `CuesTakenAsMeant` from one message in one state to every history.

`LoopBounded` counts what the guard cannot see: calls that were let through are those
counted in Redis and no more than the failures besides (`CallsCounted`), and the
turns between their check and their record, of which there are no more than turns,
are still to be added (`ChecksBounded`).

`TurnInv` is about overlap. Turns under way at the same time have met (`Acquainted`).
While Redis has not answered the turn that saved last, all who wait for an answer are
beside it, and once it has, the copy is its own or theirs (`CopyLeft`), which is
`CopyIsFresh`. Unless a turn beside it saved last, a turn works on what is stored
(`StoredKept`): what it has loaded is what is there, and the state of its run has only
parts that are its own, absent, or as stored. Each save then keeps what is stored or
writes its own over it (`Sound`). The proof corrected the property.
It used to name the turn whose value is lost: that turn had to be beside the one that
overwrites it. With two turns TLC finds no exception. With three there is one, found
by TLC when the proof did not go through: the value lost is the turn's own, saved with
an earlier event, and a third turn's takes its place; with four, an older value comes
back. What is true for any number of turns, and is checked and proved, names the turn
that saved last (`storedBy`).

`PaymentInv` has, besides types, that the rows of the attempts still to come are not
there (`RowsToCome`), that a call is answered once and with an id of its own
(`AnsweredOnce`), and that Stripe tells only of what happened (`MailSound`). For
`RefundedNotConfirmed` it is strengthened by what is still in the mail
(`RefundSettled`), for `StraysBounded` by counting bookings nobody was told of
against the failures.

### The gateway

`AdmittedWithinLimit` needs `LimiterInv`. A call has the lock no earlier than it read the
clock (`Clocked`); the calls of a client stand in the order in which they had the lock, each
once and none missing (`Lined`, `Addressed`, `Placed`); and what was popped from the front was
stale for some call of the line, or older than a window and a period of the eviction task
(`DroppedForAge`). Nothing is said of the order of the stamps: there is none. A window grows
only when a call is let through that was not overtaken, and that call still finds all the
others of the window in the deque (`WindowCounted`): whoever had popped them would have read
the clock later and have overtaken it. So `Bounded` is inductive: it is
`AdmittedWithinLimit` of windows that end in the future as well. For `RefusedForCause` the
argument starts from the front of the deque: it is fresh after the purge, so whatever
stands behind it had the lock no earlier than its stamp (`CountedSeen`). `StepOfLimiter` shows that the gateway changes
the limiter's variables by steps of the limiter only, so that what is proved of
`RateLimit` alone holds in `Gateway` (`RunsLimiter`), the refinement of
`AdmissionContract` included: the served calls of the last window are no more than
the calls the limiter counts (`ServedAreCounted`).

`PolicyInvariant` says what is known of a call at each stage: until its question was
looked at the loaded policies are among those in force, and past that point one of
those let it pass. `CacheSound` says that every entry was stored by a call with that
key, that answer and that stamp; it is kept because a call that has stored does
nothing more (`StoredLast`). `InsertKeepsCapacity` does not need that a call cleaned
up just before it inserts: the victim alone makes room. `TypesKept` needs that
`FirstBest` finds a place, which is the least-number principle twice
(`FirstBestPlace`).

### Only model-checked

`DetailsAsSaid` of the booking: that a whole sentence or form, with labels, several dates
and parts in any order, gives exactly the values it says. It is a statement about given texts,
and what the recursive folds and the distances make of each is for TLC; what holds of every
text is in `DetailProofs`. So is liveness under fairness
(`EveryTurnEnds`, `PaymentConfirms`) and `ENABLED` out of the prover's reach. None of the modules declares a
`RECURSIVE` operator.

## 8. Plan

Done: the booking, its reading of messages, search and routing, turns over the
session store and the tool guard, payments, the gateway; proofs of every safety
property the runs check but `DetailsAsSaid` (section 7), of what holds of the reading of
every message, and of both refinements.

Next, in this order:

1. Lemmas about the readers of the search under hypotheses on their vocabulary
   (`Prevails`, `Longest`), as `AnswersAreRead` is for the booking, so that `ReadAsMeant`
   and `CuesRead` can be derived for classes of messages.
2. `BookingFlow` with overlapping turns, two drafts confirmed at once: it would
   carry the whole `soft_state` through the awaits of `SessionTurns`.

## 9. Not modelled

* **Agents, their prompts and their booking tools**: what a language model says and
  which tool it calls with which arguments is not a function of the state. In
  `SessionTurns` an agent's calls are nondeterministic. The booking tools insert a
  row whatever the session says, and their changes of `soft_state` are lost, so that
  no property of a session could be kept or broken by them but through the row.
* **Routes**: input and output around `run_adk_turn`. `main.py:336-338,367` mounts
  health, chat, webhook and admin routes only; `route/booking.py` and
  `route/mobile.py` are not mounted, and `delete_booking` and `get_or_create_user`
  have no caller.
* **Guardrails and policy router, memory engine**: classification of texts by lists,
  embeddings and external models; no state a protocol depends on.
* **Ranking and retrieval**: which documents a query finds is a matter of
  embeddings. What is done with the listings found is in `ListingSearch`.
* **What the gateway's tools compute**: pure functions of one request. Which tool
  answers is in `GatewayTools`.
* **Database gateway in Rust**: statements passed on; its update ignores the status
  the caller expects (`rust_db_gateway/src/main.rs:183-206`), as the bookings in
  memory do, which `Payments` has.
* **The property branch of an amendment**: `property_id` is not among the amendable
  fields (`config/booking_schema.yaml:113-119`), so the branch is dead.
* **`booking_receipts`**, a list that `receipt.py` reads and nothing writes.
* **Configuration, telemetry, reply formatting, frontend, evaluation, scripts**: no
  state of the conversation.

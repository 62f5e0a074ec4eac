---------------------------- MODULE SearchSession ---------------------------
(* The results a session holds, from the search that found them to the      *)
(* booking of one of them: direct searches that refine each other, the      *)
(* questions about coverage and property type, paging, selecting,           *)
(* rejecting, policy questions that interrupt and the cue that resumes.     *)
(* One action is one turn; it loads the soft_state and stores it again, and *)
(* turns do not overlap here.  The steps of the booking are modelled in     *)
(* BookingFlow; here it is only its stage.                                  *)
(* The turns an agent answers do not reach the soft_state and are left out. *)
EXTENDS MessageReading

CONSTANTS Message,       \* the messages a guest may search with
          Displays,      \* configurations of search_display
          PageSize, MaxPageSize

\* A message, what the guest means by it, and how the classifiers take it: as a
\* property search, as a request for the listings found, as a question of policy.
ASSUME MessageAssumption ==
    \A m \in Message : /\ m.words \in Seq(STRING)
                       /\ DOMAIN m.meant \subseteq Fields
                       /\ {m.search, m.listing, m.policy} \subseteq BOOLEAN

ASSUME SessionAssumption ==
    /\ PageSize \in Nat \ {0} /\ MaxPageSize \in Nat \ {0}
    /\ \A d \in Displays : /\ d.allMatching \in BOOLEAN
                           /\ d.inline \in (Nat \ {0}) \cup {None}

VARIABLES
    display,     \* the configuration in force
    results,     \* all_search_results
    filters,     \* last_dynamic_constraints, mirrored in last_filters
    preference,  \* last_sort_preferences
    page, pageSize,
    visible,     \* visible_results, by the numbers of the rows; last_visible_results is the same
    options,     \* option_map, and its alias
    remembered,  \* whether last_search is there
    selected,    \* selected_property
    lastSelected,\* last_selected_property_id
    view,        \* last_presented_view
    interruption,\* faq_interruption
    coverage,    \* service_coverage_stage
    refinement,  \* whether property_refinement_stage awaits a type
    booking,     \* booking_stage
    bookingOf,   \* booking_selected_property
    screen,      \* the numbered listings the guest saw last
    live,        \* whether they were read from the session's present state
    asked        \* what the guest asked of the results, as it was said

listVars == <<results, filters, preference, page, pageSize, visible, options>>
bookingVars == <<booking, bookingOf>>
guestVars == <<screen, live, asked>>
vars == <<display, listVars, remembered, selected, lastSelected, view, interruption,
          coverage, refinement, bookingVars, guestVars>>

NoListings == [n \in {} |-> None]
Spans == {lo..hi : lo \in 1..Len(Listings) + 1, hi \in 0..Len(Listings)}
Numbered == UNION {[span -> Listing] : span \in Spans}

BookingStages == {"none", "collecting_details", "awaiting_confirmation",
                  "awaiting_property_reselection", "confirmed"}
Views == {"none", "property_list", "property_details", "booking", "receipt"}
Interruptions == [target : {"property_menu"}, items : Numbered]
                 \cup [target : {"selected_property"}, property : Listing]
                 \cup [target : {"booking_flow"}]

NoCoverage == [stage |-> "none", city |-> None]

TypeOK ==
    /\ display \in Displays
    /\ results \in Seq(Listing)
    /\ DOMAIN filters \subseteq Fields
    /\ preference \in Preferences
    /\ page \in Nat \ {0} /\ pageSize \in Nat
    /\ visible \in Numbered /\ options \in Numbered
    /\ remembered \in BOOLEAN
    /\ selected \in Listing \cup {None} /\ lastSelected \in Listing \cup {None}
    /\ view \in Views
    /\ interruption \in Interruptions \cup {None}
    /\ coverage \in [stage : {"none", "city list", "city", "type"}, city : City \cup {None}]
    /\ refinement \in BOOLEAN
    /\ booking \in BookingStages /\ bookingOf \in Listing \cup {None}
    /\ screen \in Numbered /\ live \in BOOLEAN
    /\ DOMAIN asked \subseteq Fields

Init ==
    /\ display \in Displays
    /\ results = << >> /\ filters = NoConstraints /\ preference = "none"
    /\ page = 1 /\ pageSize = 0
    /\ visible = NoListings /\ options = NoListings
    /\ remembered = FALSE
    /\ selected = None /\ lastSelected = None
    /\ view = "none" /\ interruption = None
    /\ coverage = NoCoverage /\ refinement = FALSE
    /\ booking = "none" /\ bookingOf = None
    /\ screen = NoListings /\ live = TRUE /\ asked = NoConstraints
-----------------------------------------------------------------------------
(* Windows *)

Smaller(m, n) == IF m <= n THEN m ELSE n

\* _resolve_page_size_from
SizeFrom(n) ==
    IF display.inline # None THEN display.inline
    ELSE Smaller(IF n > 0 THEN n ELSE PageSize, MaxPageSize)

TotalPages(list, size) == IF list = << >> THEN 1 ELSE (Len(list) + size - 1) \div size

Segment(list, lo, hi) == [n \in lo..hi |-> list[n]]

\* Mutant: a page out of bounds is taken as it is.
AnyPage(list, p, size) == p

\* _build_search_page_payload: a page out of bounds is clamped.
PageOf(list, p, size) == Smaller(p, TotalPages(list, size))
Window(list, p, size) ==
    Segment(list, (PageOf(list, p, size) - 1) * size + 1,
            Smaller(PageOf(list, p, size) * size, Len(list)))

AllShown(list) ==
    IF display.inline = None THEN Len(list) ELSE Smaller(display.inline, Len(list))

\* The listings on display are counted from 1 again, as many as a page may hold.
Renumbered(items) ==
    LET n == Cardinality(DOMAIN items)
        first == CHOOSE lo \in DOMAIN items : \A k \in DOMAIN items : lo <= k
    IN  [k \in 1..Smaller(SizeFrom(n), n) |-> items[first + k - 1]]

Show(items) == screen' = items /\ live' = TRUE
-----------------------------------------------------------------------------
(* Who may search *)

\* handlers.py _has_active_booking_session
ActiveSession == booking \notin {"none", "confirmed"}

\* booking/state.py has_active_booking_session: the review outlives the booking.
ActiveBooking == booking # "none"

\* A message no question about coverage swallows, nor one about the type.
Unclaimed == coverage.stage = "none"
Free == Unclaimed /\ ~refinement

Found(c) ==
    IF display.allMatching THEN {PythonSearch(c)} ELSE {PythonSearch(c), RustSearch(c)}

\* sync_alias_keys after a search: a property booked, or selected before and found
\* again, is selected once more.
SelectedAfter(list) ==
    IF bookingOf # None THEN bookingOf
    ELSE IF \E n \in DOMAIN list : list[n] = lastSelected THEN lastSelected ELSE None

\* Mutant: a search keeps the policy question that was captured before it.
Kept == interruption

\* A search ends the interruption.
AfterSearch == None

\* search_properties, once something was found
StoreResults(list, c, pref) ==
    LET size  == IF display.allMatching THEN AllShown(list) ELSE SizeFrom(PageSize)
        items == IF display.allMatching THEN Segment(list, 1, AllShown(list))
                 ELSE Window(list, 1, size)
    IN  /\ results' = list
        /\ filters' = c
        /\ preference' = pref
        /\ page' = 1
        /\ pageSize' = size
        /\ visible' = items
        /\ options' = items
        /\ remembered' = TRUE
        /\ selected' = SelectedAfter(list)
        /\ view' = "property_list"
        /\ interruption' = AfterSearch
        /\ Show(items)
-----------------------------------------------------------------------------
(* Searches *)

Reading == [m \in Message |-> [constraints |-> Extracted(m.words),
                                preference  |-> ReadPreference(m.words)]]

Searching == results # << >> \/ filters # NoConstraints

\* dynamic_constraints_from_soft_state: what is stored, with its operators
SessionConstraints == IF Searching THEN filters ELSE NoConstraints

\* plan_search: what a message names refines the search before it.
Planned(read) == [read EXCEPT !.constraints = Merged(SessionConstraints, @)]

\* A message that names neither constraints nor an order repeats the search before it
\* if it reads as a search; without one before it, only policy questions are left out.
Claimed(m, read) ==
    IF ~Searching THEN ~m.policy
    ELSE \/ read.constraints # NoConstraints \/ read.preference # "none"
         \/ m.search /\ ~m.policy /\ ~(m.listing /\ results # << >>)

\* Without a city the guest is asked for one; a search that finds nothing leaves
\* everything as it was.
SearchFor(wanted, order) ==
    /\ "city" \in DOMAIN wanted
    /\ \E found \in Found(Searched(wanted)) \ {{}} :
          \E list \in Ranked(found, order, SoftTerms(wanted)) :
              StoreResults(list, Searched(wanted), order)

DirectSearch ==
    /\ Free /\ ~ActiveBooking
    /\ \E m \in Message : \E plan \in {Planned(Reading[m])} :
          /\ Claimed(m, Reading[m])
          /\ SearchFor(plan.constraints,
                       IF plan.preference = "none" THEN preference ELSE plan.preference)
          /\ asked' = Merged(asked, m.meant)
    /\ UNCHANGED <<display, lastSelected, coverage, refinement, bookingVars>>

TypesIn(city) == {Listings[i].property_type : i \in {j \in Listing : Listings[j].city = city}}

\* Questions answered end in a new search by city and type alone.
FreshSearch(city, type) ==
    LET c == [f \in {"city", "property_type"} |-> Exact(IF f = "city" THEN city ELSE type)]
    IN  /\ \E found \in Found(c) : \E list \in Ranked(found, "none", {}) :
              StoreResults(list, c, "none")
        /\ asked' = c

\* A place that is not served: the cities are offered, in a booking as well.
LeaveRegion ==
    /\ Unclaimed
    /\ coverage' = [coverage EXCEPT !.stage = "city list"]
    /\ UNCHANGED <<display, listVars, remembered, selected, lastSelected, view, interruption,
                   refinement, bookingVars, guestVars>>

\* get_all_available_cities
CitiesAvailable == {Listings[i].city : i \in Listing}

AnswerCoverage ==
    /\ \/ coverage.stage = "city list" /\ coverage' = [coverage EXCEPT !.stage = "city"]
       \/ /\ coverage.stage = "city"
          /\ \E c \in CitiesAvailable : coverage' = [stage |-> "type", city |-> c]
       \/ ~Unclaimed /\ coverage' = NoCoverage              \* "no"
    /\ UNCHANGED <<display, listVars, remembered, selected, lastSelected, view, interruption,
                   refinement, bookingVars, guestVars>>

SearchCovered ==
    /\ coverage.stage = "type"
    /\ \E type \in TypesIn(coverage.city) : FreshSearch(coverage.city, type)
    /\ coverage' = NoCoverage
    /\ UNCHANGED <<display, lastSelected, refinement, bookingVars>>

\* Mutant: the question about the type is put to whoever has searched.
AnyView == TRUE

\* The results are on display.
OnList == view = "property_list"

\* _property_refinement_city_from_state: the city of the last search
SearchCity == IF "city" \in DOMAIN filters THEN filters["city"].value ELSE None

\* "change the property type", while the results are on display
AskType ==
    /\ Free /\ SearchCity # None /\ OnList
    /\ refinement' = TRUE
    /\ UNCHANGED <<display, listVars, remembered, selected, lastSelected, view, interruption,
                   coverage, bookingVars, guestVars>>

\* "no"
DropType ==
    /\ Unclaimed /\ refinement
    /\ refinement' = FALSE
    /\ UNCHANGED <<display, listVars, remembered, selected, lastSelected, view, interruption,
                   coverage, bookingVars, guestVars>>

\* A type answers the question, which takes every message meanwhile, or comes with it.
SearchType ==
    /\ Unclaimed /\ SearchCity # None
    /\ refinement \/ OnList
    /\ \E type \in TypesIn(SearchCity) : FreshSearch(SearchCity, type)
    /\ refinement' = FALSE
    /\ UNCHANGED <<display, lastSelected, coverage, bookingVars>>
-----------------------------------------------------------------------------
(* Paging, selecting, rejecting *)

\* sync_alias_keys elsewhere
Synced(list) == IF selected # None THEN selected ELSE SelectedAfter(list)

Move(target) ==
    LET size  == SizeFrom(pageSize)
        items == Window(results, target, size)
    IN  /\ page' = PageOf(results, target, size)
        /\ pageSize' = size
        /\ visible' = items
        /\ options' = items
        /\ Show(items)

\* "more", "previous"
Paginate ==
    /\ Unclaimed /\ ~ActiveSession /\ results # << >>
    /\ Move(page + 1) \/ Move(IF page > 1 THEN page - 1 ELSE 1)
    /\ remembered' = TRUE
    /\ selected' = Synced(results)
    /\ UNCHANGED <<display, results, filters, preference, lastSelected, view, interruption,
                   coverage, refinement, bookingVars, asked>>

\* Mutant: a number is the place of the listing among the results.
ByPlace(n) == results[n]

\* _resolve_property_id_from_selection
Chosen(n) == options[n]

\* "option 2"; a number that is not on display selects nothing
SelectOption(n) ==
    /\ Unclaimed
    /\ ~ActiveSession \/ booking = "awaiting_property_reselection"
    /\ n \in DOMAIN options
    /\ selected' = Chosen(n)
    /\ lastSelected' = Chosen(n)
    /\ view' = "property_details"
    /\ interruption' = None
    /\ UNCHANGED <<display, listVars, remembered, coverage, refinement, bookingVars, guestVars>>

\* Mutant: the list is built again from the first page.
Restarted == [items |-> Window(results, 1, SizeFrom(pageSize)), page |-> 1]

\* return_to_previous_results: without last_search the listings are numbered anew.
Returned == [items |-> IF remembered THEN visible ELSE Renumbered(visible), page |-> page]

\* The option map is built from the rows that are listed again, by their numbers.
BackToResults ==
    /\ visible' = Returned.items
    /\ page' = Returned.page
    /\ options' = Returned.items
    /\ remembered' = TRUE
    /\ selected' = None
    /\ view' = "property_list"
    /\ interruption' = None
    /\ Show(Returned.items)
    /\ UNCHANGED <<results, filters, preference, pageSize, lastSelected, asked>>

RejectProperty ==
    /\ Unclaimed /\ ~ActiveSession
    /\ view = "property_details" /\ visible # NoListings
    /\ BackToResults
    /\ UNCHANGED <<display, coverage, refinement, bookingVars>>
-----------------------------------------------------------------------------
(* The booking, as far as the search sees it *)

\* A booking whose details are known from an earlier one goes to its review.
StartBooking ==
    /\ Unclaimed /\ view = "property_details" /\ lastSelected # None
    /\ booking' \in {"collecting_details"}
                    \cup {s \in {"awaiting_confirmation"} : booking # "none"}
    /\ bookingOf' = lastSelected
    /\ selected' = lastSelected
    /\ view' = "booking"
    /\ interruption' = None
    /\ UNCHANGED <<display, listVars, remembered, lastSelected, coverage, refinement, guestVars>>

CompleteDetails ==
    /\ Free /\ booking = "collecting_details"
    /\ booking' = "awaiting_confirmation"
    /\ view' = "booking"
    /\ interruption' = None
    /\ selected' = Synced(results)
    /\ UNCHANGED <<display, listVars, remembered, lastSelected, coverage, refinement, bookingOf,
                   guestVars>>

Confirm ==
    /\ Unclaimed /\ booking = "awaiting_confirmation"
    /\ booking' = "confirmed"
    /\ view' = "receipt"
    /\ UNCHANGED <<display, listVars, remembered, selected, lastSelected, interruption, coverage,
                   refinement, bookingOf, guestVars>>

\* The shortcut lists at most five of the listings on display from 1, whatever the
\* option map says.
FirstFive(items) ==
    LET n == Cardinality(DOMAIN items)
        first == CHOOSE lo \in DOMAIN items : \A k \in DOMAIN items : lo <= k
    IN  [k \in 1..Smaller(5, n) |-> items[first + k - 1]]

ReselectByShortcut ==
    /\ Unclaimed /\ booking = "awaiting_confirmation"
    /\ booking' = "awaiting_property_reselection"
    /\ view' = "property_list"
    /\ screen' = FirstFive(visible) /\ live' = FALSE
    /\ UNCHANGED <<display, listVars, remembered, selected, lastSelected, interruption, coverage,
                   refinement, bookingOf, asked>>

Reselect ==
    /\ Free /\ booking = "awaiting_confirmation"
    /\ booking' = "awaiting_property_reselection"
    /\ BackToResults
    /\ UNCHANGED <<display, coverage, refinement, bookingOf>>

\* Mutant: the stage is named as the review modification names it.
ResumedPending(stage) ==
    IF stage = "awaiting_property_reselection" THEN "review_pending" ELSE stage

\* resume_booking_flow, of a booking whose details are complete
Resumed(stage) ==
    IF stage = "awaiting_property_reselection" THEN "awaiting_confirmation" ELSE stage

ResumeBooking ==
    /\ Unclaimed /\ ActiveSession
    /\ booking' = Resumed(booking)
    /\ interruption' = None
    /\ selected' = Synced(results)
    /\ UNCHANGED <<display, listVars, remembered, lastSelected, view, coverage, refinement,
                   bookingOf, guestVars>>
-----------------------------------------------------------------------------
(* Policy questions *)

\* resolve_resume_target and build_resume_payload
Captured ==
    LET s == Synced(results) IN
    IF booking # "none" THEN [target |-> "booking_flow"]
    ELSE IF view = "property_details" /\ s # None
         THEN [target |-> "selected_property", property |-> s]
    ELSE IF visible # NoListings
         THEN [target |-> "property_menu", items |-> visible]
    ELSE IF s # None THEN [target |-> "selected_property", property |-> s]
    ELSE None

AskPolicy ==
    /\ Unclaimed
    /\ interruption # None \/ ~refinement
    /\ interruption' = Captured
    /\ selected' = Synced(results)
    /\ UNCHANGED <<display, listVars, remembered, lastSelected, view, coverage, refinement,
                   bookingVars, guestVars>>

\* The cue shows what was captured, not what the session holds now.
ResumeSearch ==
    /\ Unclaimed /\ interruption # None
    /\ \/ /\ interruption.target = "property_menu"
          /\ screen' = interruption.items
          /\ live' = FALSE
       \/ interruption.target = "selected_property" /\ UNCHANGED <<screen, live>>
    /\ interruption' = None
    /\ selected' = Synced(results)
    /\ UNCHANGED <<display, listVars, remembered, lastSelected, view, coverage, refinement,
                   bookingVars, asked>>

\* last_search outlives SOFT_SESSION_TTL_SECONDS only by being written again.
ForgetSearch ==
    /\ remembered /\ remembered' = FALSE
    /\ UNCHANGED <<display, listVars, selected, lastSelected, view, interruption, coverage,
                   refinement, bookingVars, guestVars>>
-----------------------------------------------------------------------------
Next ==
    \/ DirectSearch \/ LeaveRegion \/ AnswerCoverage \/ SearchCovered
    \/ AskType \/ DropType \/ SearchType
    \/ Paginate \/ (\E n \in DOMAIN options : SelectOption(n)) \/ RejectProperty
    \/ StartBooking \/ CompleteDetails \/ Confirm \/ ReselectByShortcut \/ Reselect
    \/ ResumeBooking \/ AskPolicy \/ ResumeSearch \/ ForgetSearch

Spec == Init /\ [][Next]_vars
-----------------------------------------------------------------------------
ItemsOf(items) == {items[n] : n \in DOMAIN items}

\* What is on display is the page of the results that the session says it is
\* (search_workflow.md:198), whatever the numbers, and the option map is that list.  A
\* list of all matches that is longer than a page may shrink to one, counted anew, when
\* it is brought back after last_search has gone.
WindowCoherent ==
    /\ options = visible
    /\ results # << >> =>
          LET window == ItemsOf(Window(results, page, pageSize)) IN
          /\ visible # NoListings
          /\ ItemsOf(visible) \subseteq window
          /\ Cardinality(window) <= MaxPageSize => ItemsOf(visible) = window

\* The filters of the session are what the guest has asked for since the last new
\* search, nothing more and nothing less, over however many messages and in the wordings
\* that the messages stand for: numbers are read with their field and direction, a city from its name, an
\* alias or a misspelling (search_workflow.md:90-105).  Prices are searched as maxima,
\* and amenities the dataset does not know are no filter.
FiltersAsAsked == results # << >> => filters = Searched(asked)

\* Every listing the session offers meets everything the guest has asked for since
\* the last new search, in however many messages and through either backend.  Left
\* out are a price that is no maximum, which is searched as one, and amenities the
\* dataset does not know (search_workflow.md:90-105).
ResultsMatch ==
    \A n \in DOMAIN results : \A f \in DOMAIN asked :
        \/ f = "price_per_night" /\ asked[f].operator # "max"
        \/ Meets(Listings[results[n]], f,
                 IF f = "amenities" THEN Including(asked[f].value \cap KnownAmenities)
                 ELSE asked[f])

\* What the cue would resume belongs to the search and the selection that are still
\* stored: a captured list is part of the present results, captured details are
\* those that "book it" would book (faq_interruption.py:193-262).
ResumeCoherent ==
    interruption # None =>
        CASE interruption.target = "property_menu" ->
                 \A n \in DOMAIN interruption.items :
                     \E m \in DOMAIN results : results[m] = interruption.items[n]
          [] interruption.target = "selected_property" ->
                 view = "property_details" /\ interruption.property = lastSelected
          [] interruption.target = "booking_flow" -> booking # "none"

\* A number selects the listing the guest sees beside it, after a rejection as well,
\* unless the list on the screen was resumed after a policy question, which is shown and
\* not stored, or offered by the reselection shortcut.
SelectionAsShown ==
    [][\A n \in DOMAIN options :
          live /\ SelectOption(n) => n \in DOMAIN screen /\ lastSelected' = screen[n]]_vars

\* Rejecting a selected property brings back the listings it was selected from,
\* on whatever page: none is lost but those beyond the largest page, none added.
RejectionKeepsWindow ==
    [][selected # None /\ selected' = None /\ results' = results =>
          /\ ItemsOf(visible') \subseteq ItemsOf(visible)
          /\ Cardinality(ItemsOf(visible)) <= MaxPageSize => ItemsOf(visible') = ItemsOf(visible)
          /\ page' = page]_vars

\* Only a question about coverage or type that is still open, or a list that is
\* still on display, lets a message change the search behind a booking
\* (search_workflow.md:95: "leaves booking state authoritative").
BookingKeepsSearch ==
    [][ActiveSession /\ Free /\ view # "property_list" =>
          UNCHANGED <<results, filters, preference, page, pageSize, asked>>]_vars
=============================================================================

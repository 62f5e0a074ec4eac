---------------------------- MODULE MessageRouting --------------------------
(* Which part of run_adk_turn answers a short message, in every state a     *)
(* session of SearchSession can be in: the handlers are asked in the order  *)
(* of the code, each reads the message its own way and passes on what it    *)
(* does not take.  Cancellation and amendment come before and take messages *)
(* that name them; the messages here do not.                                *)
EXTENDS SearchSession, CueReading

CONSTANT Cue   \* a message, whether it is a question of policy, and what it means where

Situations == {"region", "city", "kind", "policy", "question", "review", "reselection",
               "choice", "details", "list"}
Claims == {<<"coverage", next>> : next \in {"goodbye", "city", "type", "search"}}
          \cup {<<"region">>, <<"faq">>, <<"resume">>, <<"refinement">>,
                <<"booking">>, <<"other">>}
          \cup {Shortcuts[k].action : k \in DOMAIN Shortcuts}
          \cup {<<"select_property", w>> : w \in DOMAIN Numeral}

ASSUME CueRecords ==
    \A c \in Cue : /\ c.words \in Seq(STRING) /\ c.policy \in BOOLEAN
                   /\ DOMAIN c.means \subseteq Situations
                   /\ \A s \in DOMAIN c.means : c.means[s] \in Claims

Targets == {"property_menu", "selected_property", "booking_flow"}

ASSUME NoTarget == None \notin Targets
-----------------------------------------------------------------------------
(* What the handlers see of the session *)

ListKeys   == {"all_search_results", "visible_results", "city"}
OptionKeys == {"option_map", "active_property_options_map"}
ChosenKeys == {"last_selected_property_id"}
StartKeys  == {"booking_stage", "booking_property_id"}
ReviewKey  == {"booking_review"}

\* The review is asked for only where the stage awaits a confirmation, and there it is.
HeldKeys ==
    {k \in {"all_search_results"} : results # << >>}
    \cup {k \in {"visible_results"} : visible # NoListings}
    \cup {k \in {"city"} : "city" \in DOMAIN filters}
    \cup {k \in OptionKeys : options # NoListings}
    \cup {k \in ChosenKeys : lastSelected # None}
    \cup {k \in {"booking_stage"} : booking # "none"}
    \cup {k \in {"booking_property_id"} : bookingOf # None}
    \cup {k \in ReviewKey : booking = "awaiting_confirmation"}

Viewed(shown, stage) ==
    [k \in {"last_presented_view", "booking_stage"} |->
        IF k = "booking_stage" THEN stage ELSE shown]

SoftState ==
    [held       |-> HeldKeys,
     values     |-> Viewed(view, booking),
     coverage   |-> coverage,
     refinement |-> refinement,
     resumes    |-> IF interruption = None THEN None ELSE interruption.target]

View(s)     == s.values["last_presented_view"]
Stage(s)    == s.values["booking_stage"]
InBooking(s) == Stage(s) \notin {"none", "confirmed"}
Uncovered(s) == s.coverage.stage = "none"

\* What the shortcut of message m does in the session is an answer: no paging or
\* rejecting during a booking, no choice but where a property is asked for, a change
\* of the review only in the words the shortcut knows.
Answers(action, m, s) ==
    CASE action[1] \in {"paginate_results", "return_to_previous_results"} -> ~InBooking(s)
      [] action[1] = "select_property" ->
             ~InBooking(s) \/ Stage(s) = "awaiting_property_reselection"
      [] action[1] = "modify_booking_review" -> Amends(m)
      [] action[1] = "resume_booking_flow" -> InBooking(s)
      [] OTHER -> TRUE

\* What the open question about coverage leads to: anything but a no has the cities
\* listed, and a city or a type is asked for until one of them is named.
CoverageAnswer(m, asked_) ==
    CASE Refuses(m) -> "goodbye"
      [] ~Refuses(m) /\ asked_.stage = "city list" -> "city"
      [] ~Refuses(m) /\ asked_.stage = "city" ->
             IF NamedCities(m, CitiesAvailable) # {} THEN "type" ELSE "city"
      [] ~Refuses(m) /\ asked_.stage = "type" ->
             IF NamedTypes(m, TypesIn(asked_.city)) # {} THEN "search" ELSE "type"

\* The type question takes everything; the list only a no and a wish for a type.
Refines(m, s) ==
    /\ "city" \in s.held
    /\ s.refinement \/ (View(s) = "property_list" /\ (Refuses(m) \/ WantsType(m)))

\* handle_active_booking_turn passes on what does not amend a review.
TakenByBooking(s) == Stage(s) \in {"collecting_details", "awaiting_property_reselection"}

\* The handler that claims the message, first come first served.
Claim(c, s) ==
    LET action == Matched(c.words, s) IN
    CASE ~Uncovered(s) -> <<"coverage", CoverageAnswer(c.words, s.coverage)>>
      [] Uncovered(s) /\ Unserved(c.words) -> <<"region">>
      [] OTHER ->
         IF s.resumes # None /\ c.policy THEN <<"faq">>
         ELSE IF /\ s.resumes # None /\ Resumes(c.words)
                 /\ s.resumes = "booking_flow" => InBooking(s)
              THEN <<"resume">>
         ELSE IF action # None /\ Answers(action, c.words, s) THEN action
         ELSE IF Refines(c.words, s) THEN <<"refinement">>
         ELSE IF TakenByBooking(s) THEN <<"booking">>
         ELSE <<"other">>
-----------------------------------------------------------------------------
(* What a guest means *)

\* What is on display
Shown(s) ==
    CASE View(s) = "property_details" -> IF InBooking(s) THEN "choice" ELSE "details"
      [] View(s) = "property_list" -> IF InBooking(s) THEN "reselection" ELSE "list"
      [] OTHER -> "none"

\* What the guest was asked or shown last.  Left out are an open question about the
\* type, which takes the messages of a booking too, the list its answer leaves on display
\* there, a review that was resumed while another property's details were, and a booking
\* that is offered to be continued though it is confirmed.
Situation(s) ==
    CASE s.coverage.stage = "city list" -> "region"
      [] s.coverage.stage = "city"      -> "city"
      [] s.coverage.stage = "type"      -> "kind"
      [] Uncovered(s) /\ s.resumes # None ->
             IF s.resumes = "booking_flow" /\ ~InBooking(s) THEN "beside" ELSE "policy"
      [] Uncovered(s) /\ s.resumes = None /\ s.refinement -> "type"
      [] OTHER -> CASE Stage(s) = "collecting_details" ->
                           IF View(s) = "property_list" THEN "beside" ELSE "question"
                    [] Stage(s) = "awaiting_confirmation" ->
                           IF View(s) = "property_details" THEN "beside" ELSE "review"
                    [] OTHER -> Shown(s)

TakenAsMeant(c, s) == Situation(s) \in DOMAIN c.means => Claim(c, s) = c.means[Situation(s)]

\* A short answer is taken for what it means where it is given: "yes" books the
\* property on display, confirms the review or resumes after a policy question, never
\* one for the other; "2" chooses where listings are on display and is an answer where
\* a number was asked for; a message that takes back its own yes confirms nothing
\* (conversation_shortcuts.yaml, search_workflow.md).  At the review only a bare no is one.
CuesTakenAsMeant ==
    \A c \in Cue : TakenAsMeant(c, SoftState)
-----------------------------------------------------------------------------
(* What the handlers can see, of any session *)

\* The keys that are held together
KeySets ==
    {found \cup chosen \cup booked :
        found \in {{}, ListKeys \cup OptionKeys}, chosen \in {{}, ChosenKeys},
        booked \in {{}, StartKeys, StartKeys \cup ReviewKey}}

CoverageStates ==
    {[stage |-> stage, city |-> None] : stage \in {"none", "city list", "city"}}
    \cup [stage : {"type"}, city : CitiesAvailable]

\* Nothing is on display, chosen, interrupted or booked before something was found; a
\* booking is of a property that was chosen, and its stage says which of its keys are held.
Coherent(s) ==
    /\ ListKeys \subseteq s.held \/ (s.held = {} /\ View(s) = "none" /\ ~s.refinement)
    /\ View(s) = "none" => s.held = {}
    /\ StartKeys \subseteq s.held <=> Stage(s) # "none"
    /\ ReviewKey \subseteq s.held <=> Stage(s) = "awaiting_confirmation"
    /\ Stage(s) # "none" \/ View(s) = "property_details" => ChosenKeys \subseteq s.held
    /\ View(s) = "property_details" => Stage(s) # "collecting_details"
    /\ View(s) \in {"booking", "receipt"} => Stage(s) # "none"
    /\ View(s) = "receipt" => Stage(s) = "confirmed"
    /\ s.resumes = "booking_flow" => Stage(s) # "none"
    /\ s.resumes = "property_menu" => Stage(s) = "none" /\ s.held # {}
    /\ s.resumes = "selected_property" => Stage(s) = "none" /\ View(s) = "property_details"

SoftStates ==
    {s \in [held       : KeySets,
            values     : {Viewed(shown, stage) : shown \in Views, stage \in BookingStages},
            coverage   : CoverageStates,
            refinement : BOOLEAN,
            resumes    : {None} \cup Targets] :
        Coherent(s)}

\* Whatever the handlers can see, each cue is taken for what it means.
CuesRead == \A s \in SoftStates : \A c \in Cue : TakenAsMeant(c, s)
=============================================================================

------------------------------ MODULE MCSearch ------------------------------
(* An instance of SearchSession for TLC.                                    *)
EXTENDS MessageRouting

CONSTANTS austin, boston, villa, loft, us, emirates

pool == "pool"
wifi == "wifi"

Home(c, t, a, joined, beds, price, guests, stars) ==
    [city |-> c, property_type |-> t, amenities |-> a, joined |-> joined, bedrooms |-> beds,
     bathrooms |-> 1, price_per_night |-> price, occupancy_max |-> guests, rating |-> stars,
     reviews_count |-> stars]

MCListings == << Home(austin, villa, {pool, wifi}, FALSE, 2, 2, 4, 3),
                 Home(austin, villa, {pool}, FALSE, 0, 3, 2, 5),
                 Home(austin, loft, {wifi, pool}, TRUE, 1, 1, 2, 4),
                 Home(boston, villa, {}, FALSE, 1, 2, 2, 1) >>

Compared(alias, short, score, spaced) ==
    [alias |-> alias, short |-> short, score |-> score, spaced |-> spaced]

MCNumeral   == [w \in {"1", "2", "3"} |-> CASE w = "1" -> 1 [] w = "2" -> 2 [] w = "3" -> 3]
MCCityName  == [c \in {austin, boston} |-> IF c = austin THEN <<"austin">> ELSE <<"boston">>]
MCCityAlias == [p \in {<<"beantown">>} |-> boston]
MCCityResemblance == [pc \in {<<<<"austn">>, austin>>, <<<<"austn">>, boston>>} |->
                          IF pc[2] = austin THEN 91 ELSE 36]
MCTypeName  == [t \in {villa, loft} |-> IF t = loft THEN <<"loft">> ELSE <<"villa">>]
MCTypeAlias == [p \in {<<"villa">>, <<"villas">>, <<"resort", "villa">>, <<"loft">>} |->
                    IF p = <<"loft">> THEN loft ELSE villa]
MCTypeLikeness == [w \in {"vila", "place"} |->
    IF w = "place" THEN << Compared(<<"villa">>, FALSE, 40, 40),
                           Compared(<<"resort", "villa">>, FALSE, 40, 23) >>
    ELSE << Compared(<<"villa">>, TRUE, 89, 89), Compared(<<"villas">>, TRUE, 89, 80),
            Compared(<<"resort", "villa">>, TRUE, 89, 50), Compared(<<"loft">>, TRUE, 25, 25) >>]

Says(words, meant) == [words |-> words, meant |-> meant, search |-> FALSE, listing |-> FALSE,
                       policy |-> FALSE]

\* A misspelt city; a city by its alias and a misspelt type; numbers of three fields, two
\* of which match more than one pattern; amenities the dataset knows, and one it does not; an
\* order; a question of policy; a search that names nothing.
MCMessage ==
    { Says(<<"homes", "in", "austn">>, [f \in {"city"} |-> Exact(austin)]),
      Says(<<"vila", "near", "beantown">>,
           [f \in {"city", "property_type"} |-> Exact(IF f = "city" THEN boston ELSE villa)]),
      Says(<<"up", "to", "2", "bedrooms", "for", "3", "guests", "under", "2", "per", "night">>,
           [f \in {"bedrooms", "occupancy_max", "price_per_night"} |->
               IF f = "occupancy_max" THEN AtLeast(3) ELSE AtMost(2)]),
      Says(<<"with", "wifi", "a", "pool", "and", "parking">>,
           [f \in {"amenities"} |-> Including({pool, wifi, "parking"})]),
      [Says(<<"what", "if", "it", "rains">>, NoConstraints) EXCEPT !.policy = TRUE],
      Says(<<"something", "cheaper">>, NoConstraints),
      Says(<<"more", "expensive", "ones">>, NoConstraints),
      [Says(<<"find", "me", "a", "place">>, NoConstraints) EXCEPT !.search = TRUE] }

MCBare == [w \in {"yes,", "no,", "don't", "dubai?", "york?"} |->
    CASE w = "yes," -> <<"yes">> [] w = "no," -> <<"no">> [] w = "don't" -> <<"don", "t">>
      [] w = "dubai?" -> <<"dubai">> [] w = "york?" -> <<"york">>]
MCInside == [w \in {"austin?", "villas?"} |->
                IF w = "austin?" THEN {"austin"} ELSE {"villa", "villas"}]
MCCountryOfTown == [p \in {<<"new", "york">>, <<"dubai">>} |-> IF p = <<"dubai">> THEN emirates ELSE us]
MCCountryAlias  == [p \in {<<"us">>, <<"uae">>} |-> IF p = <<"us">> THEN us ELSE emirates]

Means(situations, claim) == [s \in situations |-> claim]
Cued(words, means) == [words |-> words, policy |-> FALSE, means |-> means]

Left    == Means({"region", "city", "kind"}, <<"coverage", "goodbye">>)
Unnamed == [s \in {"city", "kind"} |-> <<"coverage", IF s = "city" THEN "city" ELSE "type">>]
Detail == Means({"question"}, <<"booking">>)
Chosen2 == Means({"details", "choice", "list", "reselection"}, <<"select_property", "2">>)
Booked == Means({"details", "choice"}, <<"start_booking_for_selected_property">>)
Back   == Means({"details"}, <<"return_to_previous_results">>)
Onward == Means({"details", "list"}, <<"paginate_results", "next">>)
Resume == Means({"policy"}, <<"resume">>)
Nothing == Means({"review"}, <<"other">>)

\* Yes and its kin; no and its kin, also with a yes in the same breath; numbers, of a
\* choice and of something else; pages; a place that is not served, and one that is.
MCCue ==
    { Cued(<<"yes">>, Means({"region"}, <<"coverage", "city">>) @@ Unnamed @@ Detail @@ Resume
                      @@ Booked @@ Means({"review"}, <<"confirm_booking_review">>)),
      Cued(<<"sure">>, Resume @@ Booked @@ Means({"review"}, <<"confirm_booking_review">>)),
      Cued(<<"looks", "good">>, Detail @@ Means({"review"}, <<"confirm_booking_review">>)
                                @@ Means({"details", "list"}, <<"other">>)),
      Cued(<<"yes,", "but", "not", "the", "email">>, Nothing @@ Means({"details"}, <<"other">>)),
      Cued(<<"don't", "confirm", "yet">>, Nothing @@ Means({"details"}, <<"other">>)),
      Cued(<<"no">>, Left @@ Detail @@ Back @@ Means({"review"}, <<"modify_booking_review">>)),
      Cued(<<"no,", "book", "it">>, Nothing @@ Means({"details"}, <<"other">>)),
      Cued(<<"i", "don't", "want", "this">>, Back @@ Nothing),
      Cued(<<"i", "don't", "like", "this", "one">>, Detail @@ Back),
      Cued(<<"change", "property">>, Means({"review"}, <<"modify_booking_review">>)
                                     @@ Means({"list"}, <<"refinement">>)),
      Cued(<<"continue">>, Detail @@ Resume @@ Booked @@ Nothing
                           @@ Means({"list"}, <<"paginate_results", "next">>)),
      Cued(<<"continue", "booking">>, Resume @@ Means({"question", "review", "choice", "reselection"},
                                                      <<"resume_booking_flow">>)),
      Cued(<<"go", "back">>, Detail @@ Resume @@ Nothing
                             @@ Means({"list", "details"}, <<"paginate_results", "previous">>)),
      Cued(<<"next", "page">>, Unnamed @@ Detail @@ Onward @@ Nothing),
      Cued(<<"2">>, Unnamed @@ Detail @@ Chosen2 @@ Nothing),
      Cued(<<"book", "option", "2">>, Detail @@ Chosen2 @@ Nothing),
      Cued(<<"2", "guests">>, Detail @@ Nothing @@ Means({"details", "list"}, <<"other">>)),
      [Cued(<<"can", "i", "return", "my", "deposit">>, Means({"policy"}, <<"faq">>)) EXCEPT !.policy = TRUE],
      Cued(<<"in", "austin?">>, Means({"city"}, <<"coverage", "type">>)),
      Cued(<<"villas?">>, Means({"kind"}, <<"coverage", "search">>) @@ Means({"city"}, <<"coverage", "city">>)),
      Cued(<<"a", "villa", "in", "dubai?">>, Means({"city"}, <<"coverage", "city">>) @@ Means({"policy", "question", "review", "list"}, <<"region">>)),
      Cued(<<"tell", "us", "more">>, Detail @@ Means({"list", "details"}, <<"other">>)) }

MCDisplays == { [allMatching |-> FALSE, inline |-> None],
                [allMatching |-> TRUE, inline |-> None] }
=============================================================================

---------------------------- MODULE ListingSearch ---------------------------
(* What a search finds in the dataset (app/services/search_planner.py,      *)
(* dynamic_constraints.py, components/search.py, agents/tools/search/,      *)
(* rust_gateway/src/tools/search.rs).  Pure operators, no state.            *)
(*                                                                          *)
(* Constraints are a function from the fields the guest has spoken of to a  *)
(* value and an operator.  A listing is its position in the dataset, whose  *)
(* order stands for that of the titles too, the last tie-breaker of the     *)
(* code.  The dataset has no column "beds", and no cell but one of amenities *)
(* is empty.                                                                *)
EXTENDS Integers, FiniteSets, SequencesExt, FiniteSetsExt

CONSTANTS None,
          Listings,           \* the rows of the dataset, in order
          City, PropertyType, Amenity,
          ResultLimit,        \* rows the gateway returns at most
          SummaryThreshold,   \* more matches than this lose their amenities there
          RerankLimit         \* rows ranked by wording at most

Fields == {"city", "property_type", "bedrooms", "bathrooms", "price_per_night",
           "occupancy_max", "amenities"}
Columns == {"bedrooms", "bathrooms", "price_per_night", "occupancy_max"}

\* `joined`: the amenities share one cell with a separator the loader does not know
Row == [city : City, property_type : PropertyType, amenities : SUBSET Amenity,
        joined : BOOLEAN, bedrooms : Nat, bathrooms : Nat, price_per_night : Nat,
        occupancy_max : Nat, rating : Nat, reviews_count : Nat]

ASSUME ListingAssumption ==
    /\ Listings \in Seq(Row)
    /\ None \notin Nat
    /\ ResultLimit \in Nat \ {0}
    /\ SummaryThreshold \in Nat \ {0}
    /\ RerankLimit \in Nat \ {0}

Listing == DOMAIN Listings

\* The rows the schema is inferred from
SampleRows == 100

\* A column without a value among them is unknown to the schema.
Sampled(f) == \E i \in Listing : i <= SampleRows /\ (f = "amenities" => Listings[i][f] # {})

\* The fields of the configuration that the dataset can be searched by
Searchable == {f \in Fields : Sampled(f)}
-----------------------------------------------------------------------------
(* Constraints *)

Exact(v)     == [value |-> v, operator |-> "exact"]
AtLeast(v)   == [value |-> v, operator |-> "min"]
AtMost(v)    == [value |-> v, operator |-> "max"]
Including(v) == [value |-> v, operator |-> "contains"]

NoConstraints == [f \in {} |-> None]

\* New values override old ones, lists accumulate.
Merged(old, new) ==
    [f \in DOMAIN old \cup DOMAIN new |->
        IF f = "amenities" /\ f \in DOMAIN old \cap DOMAIN new
        THEN Including(old[f].value \cup new[f].value)
        ELSE IF f \in DOMAIN new THEN new[f] ELSE old[f]]

\* The loader splits cells at commas and bars; the terms of a row are what is left.
Terms(r) == IF r.joined THEN {r.amenities} ELSE {{a} : a \in r.amenities}

\* The vocabulary is split at semicolons as well.
KnownAmenities == UNION {Listings[i].amenities : i \in Listing}

\* What search_properties is asked for: a price is a budget whatever its operator
\* was, and only amenities the dataset knows filter.
Searched(c) ==
    LET hard == IF "amenities" \in DOMAIN c THEN c["amenities"].value \cap KnownAmenities ELSE {}
    IN  [f \in {g \in DOMAIN c : g # "amenities" \/ hard # {}} |->
            CASE f = "price_per_night" -> AtMost(c[f].value)
              [] f = "amenities"       -> Including(hard)
              [] OTHER                 -> c[f]]

SoftTerms(c) ==
    IF "amenities" \in DOMAIN c THEN c["amenities"].value \ KnownAmenities ELSE {}
-----------------------------------------------------------------------------
(* Filtering *)

\* occupancy_max is read as text, so that a number never equals it; a maximum
\* takes 0 for a missing value, a minimum takes a missing value for 0.
Meets(r, f, c) ==
    CASE c.operator = "exact" -> f # "occupancy_max" /\ r[f] = c.value
      [] c.operator = "contains" -> \A a \in c.value : {a} \in Terms(r)
      [] c.operator = "min" -> r[f] >= c.value
      [] c.operator = "max" -> r[f] # 0 /\ r[f] <= c.value

MatchesHardFilters(i, c) == \A f \in DOMAIN c : Meets(Listings[i], f, c[f])

\* The filters both backends know: city, type, budget and amenities.
BackendMatches(c) ==
    {i \in Listing :
        LET r == Listings[i] IN
        \A f \in DOMAIN c \cap {"city", "property_type", "price_per_night", "amenities"} :
            IF f = "price_per_night" THEN r[f] <= c[f].value ELSE Meets(r, f, c[f])}

\* Order of both backends: price, then rating.
PriceFirst(i, j) ==
    LET a == Listings[i]  b == Listings[j] IN
    \/ a.price_per_night < b.price_per_night
    \/ a.price_per_night = b.price_per_night /\ a.rating > b.rating
    \/ a.price_per_night = b.price_per_night /\ a.rating = b.rating /\ i < j

\* Mutant: the answer of a backend is shown as it is.
Unfiltered(found, c) == found

\* The planner filters again what a backend returned.
Enforced(found, c) == {i \in found : MatchesHardFilters(i, c)}

PythonSearch(c) == Enforced(BackendMatches(c), c)

\* The gateway cuts its answer before the planner filters it, and strips the
\* amenities of long answers: no row without amenities contains one.
RustSearch(c) ==
    LET matches == BackendMatches(c)
        first   == {i \in matches : Cardinality({j \in matches : PriceFirst(j, i)}) < ResultLimit}
    IN  IF Cardinality(matches) > SummaryThreshold /\ "amenities" \in DOMAIN c THEN {}
        ELSE Enforced(first, c)
-----------------------------------------------------------------------------
(* Order *)

Preferences == {"none", "cheaper", "more expensive"}

\* search_display.sort: rating, then reviews, then price
DisplayFirst(i, j) ==
    LET a == Listings[i]  b == Listings[j] IN
    \/ a.rating > b.rating
    \/ a.rating = b.rating /\ a.reviews_count > b.reviews_count
    \/ a.rating = b.rating /\ a.reviews_count = b.reviews_count /\ PriceFirst(i, j)

DearestFirst(i, j) ==
    IF Listings[i].price_per_night = Listings[j].price_per_night THEN PriceFirst(i, j)
    ELSE Listings[i].price_per_night > Listings[j].price_per_night

Before(preference, i, j) ==
    CASE preference = "none"    -> DisplayFirst(i, j)
      [] preference = "cheaper" -> PriceFirst(i, j)
      [] OTHER                  -> DearestFirst(i, j)

Sorted(found, preference) ==
    {list \in SetToSeqs(found) :
        \A m, n \in DOMAIN list : m < n => Before(preference, list[m], list[n])}

\* By wording the first rows come in whatever order; the others stay where they are.
Reranked(list) ==
    {ranked \in SetToSeqs(ToSet(list)) :
        \A n \in DOMAIN list : n > RerankLimit => ranked[n] = list[n]}

\* The lists that may come of `found`: terms the dataset does not know rank it once
\* more, after everything else.
Ranked(found, preference, soft) ==
    IF soft = {} THEN Sorted(found, preference)
    ELSE UNION {Reranked(list) : list \in Sorted(found, preference)}
=============================================================================

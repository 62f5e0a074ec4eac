---------------------------- MODULE MessageReading --------------------------
(* What the search understands of a message: the constraints and the order  *)
(* it names (app/services/search_planner.py, direct_property_search/ and    *)
(* config/property_search_filters.yaml).  Pure operators, no state.         *)
(*                                                                          *)
(* A message is a sequence of words, in small letters; a numeral written    *)
(* together with a word counts as a word of its own.  Phrases are found at  *)
(* word boundaries, also those the code looks for anywhere in the text.     *)
EXTENDS ListingSearch

CONSTANTS Numeral,         \* Numeral[w]: the number a word stands for
          CityName,        \* CityName[c]: the name of a city of the dataset
          CityAlias,       \* CityAlias[p]: the city that phrase p stands for
          CityResemblance, \* CityResemblance[p, c]: how alike they are written, of 100
          TypeName,        \* TypeName[t]: the name of a type of the taxonomy
          TypeAlias,       \* TypeAlias[p]: the type that phrase p stands for
          TypeLikeness     \* TypeLikeness[w]: what word w, of three letters or more, is
                           \* compared with, in order

ASSUME ReadingAssumption ==
    /\ \A w \in DOMAIN Numeral : Numeral[w] \in Nat
    /\ CityName \in [City -> Seq(STRING)]
    /\ \A p \in DOMAIN CityAlias : CityAlias[p] \in City
    /\ \A pc \in DOMAIN CityResemblance : CityResemblance[pc] \in 0..100
    /\ TypeName \in [PropertyType -> Seq(STRING)]
    /\ \A p \in DOMAIN TypeAlias : TypeAlias[p] \in PropertyType
    \* `score`: how alike w, or w without its last "s", and the alias or its type are
    \* written; `short`: it has at most four letters; `spaced`: w and the alias alone
    /\ \A w \in DOMAIN TypeLikeness :
          TypeLikeness[w] \in Seq([alias : DOMAIN TypeAlias, short : BOOLEAN,
                                   score : 0..100, spaced : 0..100])
-----------------------------------------------------------------------------
(* Phrases *)

N == "{number}"

\* Pattern p is found in m where word i is its first one.
FoundAt(p, m, i) ==
    /\ i + Len(p) - 1 <= Len(m)
    /\ \A k \in DOMAIN p : IF p[k] = N THEN m[i + k - 1] \in DOMAIN Numeral
                           ELSE m[i + k - 1] = p[k]

Places(p, m) == {i \in DOMAIN m : FoundAt(p, m, i)}
Names(m, p)  == Places(p, m) # {}

Letters(p) == FoldLeft(LAMBDA n, w : n + Len(w) + 1, 0, p)

\* The longest of the phrases that m names.
Longest(phrases, m) ==
    CHOOSE p \in phrases : /\ Names(m, p)
                           /\ \A q \in phrases : Names(m, q) => Letters(q) <= Letters(p)
-----------------------------------------------------------------------------
(* Numbers *)

Reads(f, op, phrases) == {[field |-> f, operator |-> op, words |-> p] : p \in phrases}

RoomPatterns(f, one, many, short) ==
    Reads(f, "exact", {<<N, w>> : w \in {one, many} \cup short})
    \cup Reads(f, "min", {<<"at", "least", N, w>> : w \in {one, many}}
                         \cup {<<"minimum", N, w>> : w \in {one, many}}
                         \cup {<<N, "+", w>> : w \in {one, many}})
    \cup Reads(f, "max", {<<"up", "to", N, w>> : w \in {one, many}}
                         \cup {<<"maximum", N, w>> : w \in {one, many}})

PricePatterns ==
    Reads("price_per_night", "max", {<<"under", N>>, <<"below", N>>, <<"less", "than", N>>,
                                     <<"budget", N>>})
    \cup Reads("price_per_night", "min", {<<"above", N>>, <<"over", N>>})
    \cup Reads("price_per_night", "exact", {<<N, "per", "night">>})

GuestPatterns ==
    Reads("occupancy_max", "min", {<<"for", N, "guests">>}
                                  \cup {<<N, w>> : w \in {"guests", "people", "persons"}})

Patterns ==
    RoomPatterns("bedrooms", "bedroom", "bedrooms", {"bed", "beds", "br"})
    \cup RoomPatterns("bathrooms", "bathroom", "bathrooms", {"bath", "baths", "ba"})
    \cup PricePatterns \cup GuestPatterns

NumberIn(p, m, i) == Numeral[m[i + (CHOOSE k \in DOMAIN p : p[k] = N) - 1]]

\* Mutant: the phrase that comes last.
LastFound(p, i, q, j) == i >= j

\* Of the phrases found for a field the longest is read, and of these the first.
Prevails(p, i, q, j) ==
    Letters(p) > Letters(q) \/ (Letters(p) = Letters(q) /\ i <= j)

ReadNumber(m, f) ==
    LET matches == {[of |-> p, at |-> i] : p \in {q \in Patterns : q.field = f}, i \in DOMAIN m}
        found   == {x \in matches : FoundAt(x.of.words, m, x.at)}
        best    == CHOOSE x \in found :
                       \A y \in found : Prevails(x.of.words, x.at, y.of.words, y.at)
    IN  IF found = {} THEN None
        ELSE [value |-> NumberIn(best.of.words, m, best.at), operator |-> best.of.operator]
-----------------------------------------------------------------------------
(* Amenities and order *)

AmenityPhrases ==
    [p \in {<<"pet", "friendly">>, <<"pets", "allowed">>} |-> "pet_friendly"]
    @@ [p \in {<<"wifi">>, <<"parking">>, <<"pool">>, <<"gym">>} |-> p[1]]

ReadAmenities(m) == {AmenityPhrases[p] : p \in {q \in DOMAIN AmenityPhrases : Names(m, q)}}

Ascending  == {<<"cheaper">>, <<"less", "expensive">>, <<"lower", "price">>,
               <<"more", "affordable">>}
Descending == {<<"more", "expensive">>, <<"higher", "end">>}

ReadPreference(m) ==
    CASE \E p \in Ascending : Names(m, p) -> "cheaper"
      [] (\A p \in Ascending : ~Names(m, p)) /\ (\E p \in Descending : Names(m, p))
           -> "more expensive"
      [] \A p \in Ascending \cup Descending : ~Names(m, p) -> "none"
-----------------------------------------------------------------------------
(* Property types *)

\* fuzzy_match_strict, _high, _medium and _low, of 100
Strict == 93
High   == 90
Medium == 88
Low    == 78
Margin == IF High - Medium > 3 THEN High - Medium ELSE 3

\* A type is named by its own name or by an alias.
TypeTerms == DOMAIN TypeAlias \cup Range(TypeName)

\* normalize_property_type: aliases prevail.
NormalizedType(p) == IF p \in DOMAIN TypeAlias THEN TypeAlias[p]
                     ELSE CHOOSE t \in PropertyType : TypeName[t] = p

TypeBlockWords == {"looking", "search", "find", "show", "need", "want", "some", "with", "and",
    "for", "the", "an", "a", "in", "at", "of", "me", "am", "i", "my", "please", "bedroom",
    "bedrooms", "bed", "beds", "br", "bathroom", "bathrooms", "bath", "guest", "guests",
    "people", "person", "wifi", "parking", "pool", "gym", "pet", "friendly", "allowed", "under",
    "below", "above", "over", "city"}

\* fuzzy_resolve_property_type: short words and long aliases need to be less alike.
TypeThreshold(x) == IF Len(x.alias) > 1 \/ x.short THEN Medium ELSE High

\* The best alias so far and the runner-up, which is the best before it, whatever its
\* type, or the next best of another type.
Better(best, x) ==
    LET type == TypeAlias[x.alias] IN
    CASE x.score < TypeThreshold(x) -> best
      [] x.score >= TypeThreshold(x) /\ x.score > best.score ->
           [type |-> type, score |-> x.score, second |-> best.type, runner |-> best.score]
      [] x.score >= TypeThreshold(x) /\ x.score <= best.score ->
           IF x.score > best.runner /\ type # best.type
           THEN [best EXCEPT !.second = type, !.runner = x.score] ELSE best

\* The type a word resembles, None when another one is nearly as much alike.
ResolvedType(w) ==
    LET best == FoldLeft(Better, [type |-> None, score |-> 0, second |-> None, runner |-> 0],
                         TypeLikeness[w])
    IN  IF best.second \notin {None, best.type} /\ best.runner >= best.score - Margin
        THEN None ELSE best.type

\* Types of several words that a single word resembles
JoinedTypes(w) ==
    {TypeAlias[x.alias] :
        x \in {y \in Range(TypeLikeness[w]) :
                  Len(y.alias) > 1 /\ y.spaced >= IF w \in Range(y.alias) THEN Low ELSE High}}

\* The one type that words of the message resemble, None when there are several.
ResembledType(m) ==
    LET words    == (Range(m) \cap DOMAIN TypeLikeness) \ TypeBlockWords
        single   == {ResolvedType(w) : w \in words} \ {None}
        resolved == IF single # {} THEN single ELSE UNION {JoinedTypes(w) : w \in words}
    IN  IF Cardinality(resolved) = 1 THEN CHOOSE t \in resolved : TRUE ELSE None

ReadType(m) ==
    LET terms == {p \in TypeTerms : Names(m, p)}
    IN  IF terms # {} THEN NormalizedType(Longest(terms, m)) ELSE ResembledType(m)
-----------------------------------------------------------------------------
(* Cities *)

\* The cities of the dataset; without one those of the vocabulary.
Supported == IF Listings = << >> THEN City ELSE {Listings[i].city : i \in Listing}

\* Aliases of cities without listings are passed over.
Aliases == {p \in DOMAIN CityAlias : CityAlias[p] \in Supported}

CityPrefixes == {"in", "at", "near", "around"}
Splitters  == {"with", "under", "for", "from", "and", "but"}
Fillers    == {"my", "the", "a", "an", "in", "at", "near", "around", "for"}
BlockWords == {"property", "properties", "apartment", "apartments", "hotel", "hotels", "house",
               "houses", "villa", "villas", "condo", "condos", "loft", "lofts", "studio",
               "studios", "townhouse", "townhouses"}

\* The words of m from i up to the next of `stops`
Until(stops, m, i) ==
    LET ends == {k \in i..Len(m) : m[k] \in stops}
    IN  SubSeq(m, i, IF ends = {} THEN Len(m) ELSE Min(ends) - 1)

\* A preposition is followed by words without numerals; one among them is none.
PrefixPlaces(m) ==
    {i \in DOMAIN m :
        /\ m[i] \in CityPrefixes
        /\ \A j \in 1..i - 1 : m[j] \in CityPrefixes => \E k \in j..i : m[k] \in DOMAIN Numeral}

\* Phrases that may be the name of a city: what follows a preposition or a property
\* type, or else any few words that are no filler.
Candidates(m) ==
    LET afterPrefix == {Until(Splitters \cup DOMAIN Numeral, m, i + 1) : i \in PrefixPlaces(m)}
        typeEnds    == {Min(Places(p, m)) + Len(p) :
                            p \in {q \in TypeTerms : Names(m, q)}}
        Few(s)      == SubSeq(s, 1, Min({4, Len(s)}))
        afterType   == {Few(SelectSeq(Until(Splitters, m, i), LAMBDA w : w \notin Fillers)) :
                            i \in typeEnds}
        focused     == (afterPrefix \cup afterType) \ {<< >>}
        longest     == Max({Len(CityName[c]) : c \in Supported}) + 1
        any         == {SubSeq(m, i, j) : i \in DOMAIN m, j \in DOMAIN m}
    IN  IF focused # {} THEN focused
        ELSE {s \in any : /\ Len(s) \in 1..longest
                          /\ Range(s) \cap (BlockWords \cup Fillers) = {}
                          /\ s \notin TypeTerms
                          /\ ~(Range(s) \subseteq DOMAIN Numeral)}

Resemblance(p, c) == IF <<p, c>> \in DOMAIN CityResemblance THEN CityResemblance[p, c] ELSE 0

\* A city of several words is recognised by one of them sooner than a single word.
Threshold(p, c) ==
    LET shared == Range(p) \cap Range(CityName[c]) IN
    CASE Len(CityName[c]) > 1 /\ shared # {} -> Low
      [] Len(CityName[c]) = 1 /\ Len(p) > 1 /\ shared # {} -> Medium
      [] OTHER -> High

\* How alike each candidate and each city are written
Likenesses(m) == {[of |-> p, city |-> c, score |-> Resemblance(p, c)] :
                      p \in Candidates(m), c \in Supported}

\* The city written most alike, if it is alike enough and no other is nearly as much.
Leading(best, scored) ==
    LET runner == Max({0} \cup {y.score : y \in {z \in scored : z.city # best.city}})
    IN  IF /\ best.score >= Threshold(best.of, best.city)
           /\ best.score >= Strict \/ best.score - runner >= Margin
        THEN best.city ELSE None

ResembledCity(scored) ==
    IF scored = {} THEN None
    ELSE Leading(CHOOSE x \in scored : \A y \in scored : y.score <= x.score, scored)

\* Names prevail over aliases and aliases over resemblance, the longest first.
ReadCity(m) ==
    LET names == {c \in Supported : Names(m, CityName[c])}
        alias == {p \in Aliases : Names(m, p)}
    IN  CASE names # {} -> CHOOSE c \in names :
                               CityName[c] = Longest({CityName[d] : d \in names}, m)
          [] names = {} /\ alias # {} -> CityAlias[Longest(alias, m)]
          [] names = {} /\ alias = {} -> ResembledCity(Likenesses(m))
-----------------------------------------------------------------------------
(* The whole message *)

Stated(value) == IF value = None THEN None ELSE Exact(value)
Wanted(terms) == IF terms = {} THEN None ELSE Including(terms)

\* extract_constraints: one extractor for each field the dataset can be searched by
ReadField(m, f) ==
    CASE f = "city" -> Stated(ReadCity(m))
      [] f = "property_type" -> Stated(ReadType(m))
      [] f = "amenities" -> Wanted(ReadAmenities(m))
      [] f \notin {"city", "property_type", "amenities"} -> ReadNumber(m, f)

Given(read) == Restrict(read, {f \in DOMAIN read : read[f] # None})

Extracted(m) == Given([f \in Searchable |-> ReadField(m, f)])
=============================================================================

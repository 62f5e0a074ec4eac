------------------------------ MODULE CueReading ----------------------------
(* How short messages are read before any model sees them: the shortcuts of *)
(* config/conversation_shortcuts.yaml, the cues that resume after a policy  *)
(* question, yes and no, and the countries that are served.                 *)
(* Pure operators, no state.                                                *)
(*                                                                          *)
(* A message is a sequence of words in small letters, with the punctuation  *)
(* that is written to them.  Each reader has a normalisation of its own:    *)
(* shortcuts join contractions ("don't" is dont) and drop the punctuation,  *)
(* resume cues split them (don, t), yes and no keep it ("no," is not no).   *)
EXTENDS MessageReading

CONSTANTS Bare,          \* Bare[w]: the words left of a word without its punctuation
          Inside,        \* Inside[w]: words written within a longer word
          Country,
          CountryOfTown, \* CountryOfTown[p]: the country of the town called p
          CountryAlias,  \* CountryAlias[p]: the country that is called p
          Served         \* the countries served

ASSUME CueAssumption ==
    /\ \A w \in DOMAIN Bare : Bare[w] \in Seq(STRING)
    /\ \A w \in DOMAIN Inside : Inside[w] \subseteq STRING
    /\ \A p \in DOMAIN CountryOfTown : CountryOfTown[p] \in Country
    /\ \A p \in DOMAIN CountryAlias : CountryAlias[p] \in Country
    /\ Served \subseteq Country
-----------------------------------------------------------------------------
(* Normalisations *)

Stripped(w) == IF w \in DOMAIN Bare THEN Bare[w] ELSE <<w>>

\* _CONTRACTIONS, without the words of the table that need no change
Contracted ==
    "don't" :> "dont" @@ "doesn't" :> "doesnt" @@ "didn't" :> "didnt" @@ "won't" :> "wont"
    @@ "can't" :> "cant" @@ "couldn't" :> "couldnt" @@ "shouldn't" :> "shouldnt"
    @@ "wouldn't" :> "wouldnt" @@ "isn't" :> "isnt" @@ "aren't" :> "arent" @@ "i'm" :> "im"
    @@ "i'll" :> "ill" @@ "i've" :> "ive" @@ "we're" :> "were" @@ "let's" :> "lets"
    @@ "that's" :> "thats" @@ "it's" :> "its"

Joined(w)   == IF w \in DOMAIN Contracted THEN <<Contracted[w]>> ELSE Stripped(w)

ShortcutWords(m) == FoldLeft(LAMBDA read, w : read \o Joined(w), << >>, m)
ResumeWords(m)   == FoldLeft(LAMBDA read, w : read \o Stripped(w), << >>, m)

\* Mutant: what must not be said is not looked for.
AnyOf(cues, words) == \E group \in cues.any : group \subseteq Range(words)

\* Some group of words is said whole, and none of those that must not be.
SaysCue(cues, words) ==
    /\ \E group \in cues.any : group \subseteq Range(words)
    /\ \A group \in cues.none : ~(group \subseteq Range(words))

NoCues == [any |-> {}, none |-> {}]
-----------------------------------------------------------------------------
(* The shortcuts, in the order of the file, which is their priority *)

\* What the session must hold: every key of `all`, one of `some` if there are any,
\* and the values of `where`.
Shortcut(action, all, some, where, patterns, examples, cues) ==
    [action |-> action, all |-> all, some |-> some, where |-> where, patterns |-> patterns,
     examples |-> examples, cues |-> cues]

Anywhere == [k \in {} |-> ""]
OnDetails == [k \in {"last_presented_view"} |-> "property_details"]
InReview  == [k \in {"booking_stage"} |-> "awaiting_confirmation"]

One(words) == {<<w>> : w \in words}
Each(words) == {{w} : w \in words}

AvailableCities == Shortcut(<<"list_available_cities">>, {}, {}, Anywhere, {},
    {<<"in", "which", "cities", "currently", "the", "service", "is", "available">>,
     <<"which", "cities", "are", "available">>, <<"list", "available", "cities">>,
     <<"what", "cities", "do", "you", "have", "available">>, <<"show", "available", "cities">>},
    NoCues)

DetailConfirmed == Shortcut(<<"start_booking_for_selected_property">>,
    {}, {"last_selected_property_id"}, OnDetails, {},
    One({"yes", "yeah", "sure", "proceed", "continue", "confirm"})
    \cup {<<"yeah", "sure">>, <<"yes", "please">>, <<"book", "it">>, <<"yes", "book", "it">>,
          <<"yes", "book", "this">>, <<"yes", "book", "this", "property">>,
          <<"yes", "i", "want", "to", "book", "it">>, <<"book", "this">>,
          <<"yes", "i", "want", "to", "book", "this", "property">>,
          <<"book", "this", "property">>, <<"i", "want", "to", "book", "this", "property">>},
    NoCues)

ReviewKeys == {"booking_review", "pending_booking"}

\* The groups [yes] and [no] of the review stand in the file without quotes: YAML reads
\* truth values, of which the first is looked for as "true" and the second is dropped.
ReviewConfirmed == Shortcut(<<"confirm_booking_review">>, {}, ReviewKeys, InReview, {},
    One({"yes", "confirm", "proceed"}) \cup {<<"looks", "good">>, <<"book", "it">>, <<"yes", "please">>},
    [any  |-> Each({"true", "sure", "confirm", "confirmed", "correct", "proceed", "ok", "okay"})
              \cup {{"looks", "good"}, {"all", "good"}, {"everything", "correct"}},
     none |-> Each({"not", "dont", "change", "update", "modify", "edit", "cancel",
                    "delete", "wrong", "incorrect", "email", "phone", "name", "date", "guest",
                    "guests"})
              \cup {{"do", "not"}, {"check", "in"}, {"check", "out"}}])

ReviewModified == Shortcut(<<"modify_booking_review">>, {}, ReviewKeys, InReview, {},
    {<<"no">>, <<"change", "name">>, <<"update", "phone">>, <<"change", "dates">>,
     <<"change", "guests">>, <<"change", "property">>},
    [any  |-> Each({"wrong", "incorrect", "change", "update", "modify", "edit", "fix",
                    "correct"}),
     none |-> Each({"true", "confirm", "sure", "proceed", "book"})])

BookingResumed == Shortcut(<<"resume_booking_flow">>, {"booking_stage", "booking_property_id"},
    {}, Anywhere, {},
    {<<"continue", "booking">>, <<"continue", "booking", "please">>, <<"resume", "booking">>,
     <<"continue", "my", "booking">>}, NoCues)

NextPage == Shortcut(<<"paginate_results", "next">>, {"all_search_results"}, {}, Anywhere, {},
    One({"more", "next", "continue"})
    \cup {<<"show", "me", "more">>, <<"show", "more">>, <<"more", "options">>,
          <<"more", "results">>, <<"next", "page">>, <<"see", "more">>}, NoCues)

PreviousPage == Shortcut(<<"paginate_results", "previous">>, {"all_search_results"}, {},
    Anywhere, {},
    One({"previous", "prev"}) \cup {<<"previous", "page">>, <<"go", "back">>, <<"back", "page">>},
    NoCues)

Selection == Shortcut(<<"select_property">>, {}, {"option_map", "active_property_options_map"},
    Anywhere,
    {<<"option", N>>, <<"select", N>>, <<"choose", "option", N>>, <<"choose", N>>,
     <<"book", "option", N>>, <<"go", "with", N>>, <<"back", "to", "booking", "option", N>>,
     <<N>>}, {}, NoCues)

DetailRejected == Shortcut(<<"return_to_previous_results">>, {},
    {"visible_results", "option_map", "all_search_results"}, OnDetails, {},
    {<<"no">>, <<"no", "thanks">>, <<"not", "this", "one">>,
     <<"i", "dont", "like", "this", "one">>, <<"back", "to", "menu">>, <<"back", "to", "list">>,
     <<"show", "me", "other", "options">>},
    [any  |-> Each({"no", "nah", "nope", "skip"})
              \cup {{"not", w} : w \in {"this", "one", "property", "good"}}
              \cup {{"do", "not", "want"}, {"dont", "want"}, {"other", "options"},
                    {"other", "properties"}, {"another", "option"}, {"another", "property"},
                    {"different", "one"}, {"next", "one"}}
              \cup {{"back", w} : w \in {"list", "menu", "results"}},
     none |-> Each({"book", "confirm", "proceed", "yes", "sure"})])

Shortcuts == <<AvailableCities, DetailConfirmed, ReviewConfirmed, ReviewModified, BookingResumed,
               NextPage, PreviousPage, Selection, DetailRejected>>

\* _state_ok
Permits(state, s) ==
    /\ s.all \subseteq state.held
    /\ s.some = {} \/ s.some \cap state.held # {}
    /\ \A k \in DOMAIN s.where : state.values[k] = s.where[k]

\* A number alone is the whole message; other patterns are found anywhere in it.
PatternFound(p, words) == IF p = <<N>> THEN Len(words) = 1 /\ Names(words, p) ELSE Names(words, p)

\* The numeral that a pattern captures, none for the other ways to say it.
Captures(s, words) ==
    UNION {{words[i + Len(p) - 1] : i \in {i \in DOMAIN words : FoundAt(p, words, i)}} :
              p \in {p \in s.patterns : PatternFound(p, words)}}

Fits(s, words) ==
    \/ \E p \in s.patterns : PatternFound(p, words)
    \/ words \in s.examples
    \/ SaysCue(s.cues, words)

\* match_shortcut: the first that the session permits and the message fits, with the
\* number it captures.  None if there is no such shortcut.
Matched(m, state) ==
    LET words == ShortcutWords(m)
        k == SelectInSeq(Shortcuts, LAMBDA s : Permits(state, s) /\ Fits(s, words))
    IN  IF words = << >> \/ k = 0 THEN None
        ELSE LET numbers == Captures(Shortcuts[k], words)
             IN  Shortcuts[k].action \o (IF numbers = {} THEN << >>
                                         ELSE <<CHOOSE n \in numbers : TRUE>>)
-----------------------------------------------------------------------------
(* Resume cues, yes and no *)

ResumeExamples == One({"yes", "sure", "continue", "resume", "return"})
    \cup {<<"go", "back">>, <<"back", "to", "list">>, <<"yes", "please">>,
          <<"continue", "booking">>, <<"continue", "please">>}

ResumeCues ==
    [any  |-> Each({"yes", "sure", "continue", "resume", "return"})
              \cup {{"go", "back"}, {"back", "list"}},
     none |-> Each({"policy", "refund", "deposit", "cancellation"})
              \cup {{"check", "in"}, {"check", "out"}}]

Resumes(m) == ResumeWords(m) \in ResumeExamples \/ SaysCue(ResumeCues, ResumeWords(m))

Refuses(m) ==
    \/ Range(m) \cap {"no", "n", "nope", "nah", "reject"} # {}
    \/ m = <<"not", "now">>

\* The questions about coverage look for a name anywhere in the text, inside words as well.
Written(m, p) ==
    \E i \in DOMAIN m : /\ i + Len(p) - 1 <= Len(m)
                        /\ \A k \in DOMAIN p : LET w == m[i + k - 1] IN
                              w = p[k] \/ (w \in DOMAIN Inside /\ p[k] \in Inside[w])

NamedCities(m, cities) == {c \in cities : Written(m, CityName[c])}
NamedTypes(m, types)   == {t \in types : Written(m, TypeName[t])}

\* A wish for another type of property
WantsType(m) ==
    \/ Names(m, <<"property", "type">>)
    \/ \E verb \in {"change", "modify", "update"} :
          verb \in Range(m) /\ Range(m) \cap {"property", "type"} # {}

\* The words at the review that the shortcut itself knows how to follow.
Amends(m) ==
    \/ m \in One({"no", "nope", "change", "modify", "edit"}) \cup {<<"not", "correct">>}
    \/ "property" \in Range(ResumeWords(m))
-----------------------------------------------------------------------------
(* Countries *)

\* Towns prevail over the names of countries, and among each the longest.
CountryRead(m) ==
    LET words == ResumeWords(m)
        towns == {p \in DOMAIN CountryOfTown : Names(words, p)}
        names == {p \in DOMAIN CountryAlias : Names(words, p)}
    IN  CASE towns # {} -> CountryOfTown[Longest(towns, words)]
          [] towns = {} /\ names # {} -> CountryAlias[Longest(names, words)]
          [] towns \cup names = {} -> None

Unserved(m) == CountryRead(m) \notin Served \cup {None}
=============================================================================

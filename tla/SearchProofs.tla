----------------------------- MODULE SearchProofs ----------------------------
(***************************************************************************)
(* Proofs about the results a session holds, for every dataset, every set  *)
(* of messages and every configuration of the display: a booking keeps the *)
(* search behind it, a number selects what the guest sees beside it, the   *)
(* display is a page of the results, a rejection brings that page back, a  *)
(* cue resumes what belongs to the session, and every listing offered      *)
(* meets what the guest has asked for.                                     *)
(***************************************************************************)
EXTENDS MessageRouting, FiniteSetTheorems, NaturalsInduction, WellFoundedInduction, TLAPS

(* The list on the screen, while it was read from the present state, is the  *)
(* one that numbers are looked up in.                                        *)
ScreenIsOptions == live => screen = options

LEMMA ScreenKept == ScreenIsOptions /\ [Next]_vars => ScreenIsOptions'
<1>. SUFFICES ASSUME ScreenIsOptions, [Next]_vars PROVE ScreenIsOptions'
  OBVIOUS
<1>. USE DEF ScreenIsOptions
<1>1. ASSUME UNCHANGED <<listVars, guestVars>> PROVE ScreenIsOptions'
  BY <1>1 DEF listVars, guestVars
<1>2. ASSUME NEW list, NEW c, NEW order, StoreResults(list, c, order) PROVE ScreenIsOptions'
  BY <1>2, Zenon DEF StoreResults, Show
<1>3. CASE DirectSearch
  BY <1>2, <1>3, Zenon DEF DirectSearch, SearchFor
<1>4. CASE SearchCovered \/ SearchType
  BY <1>2, <1>4, Zenon DEF SearchCovered, SearchType, FreshSearch
<1>5. CASE LeaveRegion \/ AnswerCoverage \/ AskType \/ DropType
  BY <1>1, <1>5 DEF LeaveRegion, AnswerCoverage, AskType, DropType
<1>6. CASE Paginate
  <2>1. ASSUME NEW target, Move(target) PROVE ScreenIsOptions'
    BY <2>1, Zenon DEF Move, Show
  <2>. QED
    BY <1>6, <2>1, Zenon DEF Paginate
<1>7. ASSUME NEW n, SelectOption(n) PROVE ScreenIsOptions'
  BY <1>1, <1>7, Zenon DEF SelectOption
<1>8. CASE RejectProperty \/ Reselect
  BY <1>8, Zenon DEF RejectProperty, Reselect, BackToResults, Show
<1>9. CASE StartBooking \/ CompleteDetails \/ Confirm \/ ResumeBooking \/ AskPolicy \/ ForgetSearch
  BY <1>1, <1>9, Zenon
     DEF StartBooking, CompleteDetails, Confirm, ResumeBooking, AskPolicy, ForgetSearch
<1>10. CASE ReselectByShortcut
  BY <1>10, Zenon DEF ReselectByShortcut
<1>11. CASE ResumeSearch
  BY <1>11 DEF ResumeSearch, listVars
<1>12. CASE UNCHANGED vars
  BY <1>1, <1>12, Zenon DEF vars
<1>. QED
  BY <1>3, <1>4, <1>5, <1>6, <1>7, <1>8, <1>9, <1>10, <1>11, <1>12, Zenon DEF Next

\* While the list on the screen was read from the present state, numbers are looked up in
\* that list (agents/tools/search/core.py).
THEOREM ScreenInvariance == Spec => []ScreenIsOptions
<1>1. Init => ScreenIsOptions
  BY DEF Init, ScreenIsOptions
<1>. QED
  BY <1>1, ScreenKept, PTL DEF Spec

\* Over any number of searches, pages, rejections and policy questions, a number selects
\* the listing the guest sees beside it (agents/tools/search, faq_interruption.py).
THEOREM NumbersSelect == Spec => SelectionAsShown
<1>1. ScreenIsOptions =>
          \A n \in DOMAIN options :
              live /\ SelectOption(n) => n \in DOMAIN screen /\ lastSelected' = screen[n]
  BY DEF ScreenIsOptions, SelectOption, Chosen
<1>. QED
  BY <1>1, ScreenInvariance, PTL DEF Spec, SelectionAsShown

\* Unless a question about coverage or type is open, or the list is still on display, no
\* message of a guest who books changes the search behind the booking.
THEOREM BookingsKeepSearch == Spec => BookingKeepsSearch
<1>1. ASSUME [Next]_vars, ActiveSession, Free, view # "property_list"
      PROVE  UNCHANGED <<results, filters, preference, page, pageSize, asked>>
  <2>1. ASSUME UNCHANGED <<listVars, asked>>
        PROVE  UNCHANGED <<results, filters, preference, page, pageSize, asked>>
    BY <2>1, Zenon DEF listVars
  <2>2. ~DirectSearch /\ ~SearchCovered /\ ~SearchType /\ ~Paginate /\ ~RejectProperty
    BY <1>1 DEF DirectSearch, SearchCovered, SearchType, Paginate, RejectProperty, ActiveSession,
                ActiveBooking, Free, Unclaimed, OnList
  <2>3. CASE LeaveRegion \/ AnswerCoverage \/ AskType \/ DropType
    BY <2>1, <2>3, Zenon DEF LeaveRegion, AnswerCoverage, AskType, DropType, guestVars
  <2>4. ASSUME NEW n, SelectOption(n)
        PROVE  UNCHANGED <<results, filters, preference, page, pageSize, asked>>
    BY <2>1, <2>4, Zenon DEF SelectOption, guestVars
  <2>5. CASE Reselect
    BY <2>5, Zenon DEF Reselect, BackToResults, Returned
  <2>6. CASE StartBooking \/ CompleteDetails \/ Confirm \/ ReselectByShortcut \/ ResumeBooking
    BY <2>1, <2>6, Zenon
       DEF StartBooking, CompleteDetails, Confirm, ReselectByShortcut, ResumeBooking, guestVars
  <2>7. CASE AskPolicy \/ ResumeSearch \/ ForgetSearch
    BY <2>1, <2>7, Zenon DEF AskPolicy, ResumeSearch, ForgetSearch, guestVars
  <2>8. CASE UNCHANGED vars
    BY <2>1, <2>8, Zenon DEF vars, guestVars
  <2>. QED
    BY <1>1, <2>2, <2>3, <2>4, <2>5, <2>6, <2>7, <2>8, Zenon DEF Next
<1>2. [Next]_vars =>
          [ActiveSession /\ Free /\ view # "property_list" =>
              UNCHANGED <<results, filters, preference, page, pageSize, asked>>]_vars
  BY <1>1
<1>. QED
  BY <1>2, PTL DEF Spec, BookingKeepsSearch
-----------------------------------------------------------------------------
(* Lists and the windows over them                                           *)

\* The listings of a list or of a window are all different.
Distinct(items) == \A m, n \in DOMAIN items : items[m] = items[n] => m = n

\* A list a search may have found
IsList(list) ==
    list \in Seq(Listing) /\ Distinct(list) /\ Len(list) <= Len(Listings)

\* Some of a list, some listing of it at least, and no more than a page holds
Excerpt(items, list, size) ==
    /\ items \in Numbered
    /\ Distinct(items)
    /\ \A n \in DOMAIN items : \E m \in DOMAIN list : list[m] = items[n]
    /\ list # << >> => items # NoListings
    /\ IsFiniteSet(DOMAIN items) /\ Cardinality(DOMAIN items) <= size

LEMMA ListingsCounted ==
    /\ Len(Listings) \in Nat /\ Listing = 1..Len(Listings)
    /\ IsFiniteSet(Listing) /\ Cardinality(Listing) = Len(Listings)
<1>1. Len(Listings) \in Nat /\ Listing = 1..Len(Listings)
  BY ListingAssumption DEF Listing
<1>2. IsFiniteSet(1..Len(Listings))
      /\ Cardinality(1..Len(Listings)) = IF 1 > Len(Listings) THEN 0 ELSE Len(Listings) - 1 + 1
  BY <1>1, FS_Interval
<1>3. Cardinality(1..Len(Listings)) = Len(Listings)
  BY <1>1, <1>2
<1>. QED
  BY <1>1, <1>2, <1>3

LEMMA SpansNumbered ==
    ASSUME NEW span \in Spans, NEW items \in [span -> Listing]
    PROVE  items \in Numbered
  BY SMT DEF Numbered

\* Rounding a quotient up
LEMMA Ceiling ==
    ASSUME NEW n \in Nat \ {0}, NEW s \in Nat \ {0}
    PROVE  /\ (n + s - 1) \div s \in Nat \ {0}
           /\ ((n + s - 1) \div s - 1) * s < n
<1>. DEFINE q == (n + s - 1) \div s
<1>1. q \in Int /\ q * s <= n + s - 1 /\ n + s - 1 < q * s + s
  BY DEF q
<1>. QED
  BY <1>1

LEMMA Earlier ==
    ASSUME NEW p \in Nat \ {0}, NEW q \in Nat \ {0}, NEW s \in Nat, p <= q
    PROVE  (p - 1) * s <= (q - 1) * s /\ (p - 1) * s \in Nat /\ p * s = (p - 1) * s + s
  OBVIOUS

LEMMA SegmentExcerpt ==
    ASSUME NEW list, IsList(list), NEW lo \in Nat \ {0}, NEW hi \in Nat, NEW size \in Nat,
           lo <= Len(list) + 1, hi <= Len(list), hi < lo + size,
           list # << >> => lo <= hi
    PROVE  Excerpt(Segment(list, lo, hi), list, size)
<1>. DEFINE items == Segment(list, lo, hi)
<1>1. /\ list \in Seq(Listing) /\ Len(list) \in Nat /\ DOMAIN list = 1..Len(list)
      /\ Distinct(list) /\ Len(list) <= Len(Listings)
  BY DEF IsList
<1>2. lo..hi \subseteq DOMAIN list /\ DOMAIN items = lo..hi
  BY <1>1 DEF Segment
<1>3. \A n \in lo..hi : items[n] = list[n] /\ items[n] \in Listing
  BY <1>1, <1>2 DEF Segment
<1>4. items \in [lo..hi -> Listing]
  BY <1>3 DEF Segment
<1>5. items \in Numbered
  <2>1. lo \in 1..Len(Listings) + 1 /\ hi \in 0..Len(Listings)
    BY <1>1, ListingsCounted
  <2>2. lo..hi \in Spans
    BY <2>1, SMT DEF Spans
  <2>. HIDE DEF items
  <2>. QED
    BY <1>4, <2>2, SpansNumbered
<1>6. Distinct(items)
  BY <1>1, <1>2, <1>3 DEF Distinct
<1>7. list # << >> => items # NoListings
  <2>. SUFFICES ASSUME list # << >> PROVE items # NoListings
    OBVIOUS
  <2>1. lo \in DOMAIN items
    BY <1>2
  <2>2. DOMAIN NoListings = {}
    BY DEF NoListings
  <2>. QED
    BY <2>1, <2>2
<1>8. IsFiniteSet(DOMAIN items) /\ Cardinality(DOMAIN items) <= size
  <2>1. IsFiniteSet(lo..hi)
        /\ Cardinality(lo..hi) = IF lo > hi THEN 0 ELSE hi - lo + 1
    BY FS_Interval
  <2>2. Cardinality(lo..hi) <= size
    BY <2>1
  <2>. QED
    BY <1>2, <2>1, <2>2
<1>9. \A n \in DOMAIN items : \E m \in DOMAIN list : list[m] = items[n]
  BY <1>2, <1>3
<1>. HIDE DEF items
<1>10. Excerpt(items, list, size)
  BY <1>5, <1>6, <1>7, <1>8, <1>9 DEF Excerpt
<1>. QED
  BY <1>10 DEF items

LEMMA PagesCounted ==
    ASSUME NEW list \in Seq(Listing), NEW size \in Nat \ {0}
    PROVE  /\ TotalPages(list, size) \in Nat \ {0}
           /\ list # << >> => (TotalPages(list, size) - 1) * size < Len(list)
<1>1. CASE list = << >>
  BY <1>1 DEF TotalPages
<1>2. CASE list # << >>
  <2>1. Len(list) \in Nat \ {0}
    BY <1>2
  <2>. QED
    BY <1>2, <2>1, Ceiling DEF TotalPages
<1>. QED
  BY <1>1, <1>2

\* A page out of bounds is clamped once.
LEMMA PageClamped ==
    ASSUME NEW list \in Seq(Listing), NEW p \in Nat \ {0}, NEW size \in Nat \ {0}
    PROVE  /\ PageOf(list, p, size) \in Nat \ {0}
           /\ PageOf(list, p, size) <= TotalPages(list, size)
           /\ PageOf(list, PageOf(list, p, size), size) = PageOf(list, p, size)
           /\ Window(list, PageOf(list, p, size), size) = Window(list, p, size)
<1>1. TotalPages(list, size) \in Nat
  BY PagesCounted
<1>2. PageOf(list, PageOf(list, p, size), size) = PageOf(list, p, size)
  BY <1>1 DEF PageOf, Smaller
<1>. QED
  BY <1>1, <1>2, PagesCounted DEF PageOf, Smaller, Window

LEMMA WindowExcerpt ==
    ASSUME NEW list, IsList(list), NEW p \in Nat \ {0}, NEW size \in Nat \ {0}
    PROVE  Excerpt(Window(list, p, size), list, size)
<1>. DEFINE q    == PageOf(list, p, size)
            past == (q - 1) * size
            hi   == Smaller(q * size, Len(list))
<1>1. list \in Seq(Listing) /\ Len(list) \in Nat /\ (list # << >> => Len(list) > 0)
  BY DEF IsList
<1>2. q \in Nat \ {0} /\ q <= TotalPages(list, size) /\ TotalPages(list, size) \in Nat \ {0}
  BY <1>1, PageClamped, PagesCounted
<1>3. past \in Nat /\ q * size = past + size
  BY <1>2, Earlier
<1>4. list # << >> => past < Len(list)
  <2>1. past <= (TotalPages(list, size) - 1) * size /\ (TotalPages(list, size) - 1) * size \in Nat
    BY <1>2, Earlier
  <2>. QED
    BY <1>1, <1>3, <2>1, PagesCounted
<1>5. list = << >> => past = 0
  BY <1>2 DEF TotalPages
<1>6. Window(list, p, size) = Segment(list, past + 1, hi)
  BY DEF Window
<1>. HIDE DEF q, past
<1>7. /\ hi \in Nat /\ hi <= Len(list) /\ hi < past + 1 + size
      /\ list # << >> => past + 1 <= hi
  BY <1>1, <1>3, <1>4 DEF Smaller
<1>8. past + 1 <= Len(list) + 1
  BY <1>1, <1>3, <1>4, <1>5
<1>. HIDE DEF hi
<1>. QED
  BY <1>3, <1>6, <1>7, <1>8, SegmentExcerpt

\* As many listings as numbers
LEMMA ItemsCounted ==
    ASSUME NEW items, Distinct(items), IsFiniteSet(DOMAIN items)
    PROVE  /\ IsFiniteSet(ItemsOf(items))
           /\ Cardinality(ItemsOf(items)) = Cardinality(DOMAIN items)
<1>. DEFINE f == [n \in DOMAIN items |-> items[n]]
<1>1. f \in [DOMAIN items -> ItemsOf(items)]
  BY DEF ItemsOf
<1>2. \A t \in ItemsOf(items) : \E n \in DOMAIN items : f[n] = t
  BY DEF ItemsOf
<1>3. \A m, n \in DOMAIN items : f[m] = f[n] => m = n
  BY DEF Distinct
<1>. HIDE DEF f
<1>4. f \in Surjection(DOMAIN items, ItemsOf(items))
  BY <1>1, <1>2 DEF Surjection
<1>5. f \in Injection(DOMAIN items, ItemsOf(items))
  BY <1>1, <1>3 DEF Injection, IsInjective
<1>. QED
  BY <1>4, <1>5, FS_Surjection

\* What a search finds is a list of listings that meet what was searched for.
LEMMA FoundLists ==
    ASSUME NEW c, NEW found \in Found(c), NEW order, NEW soft,
           NEW list \in Ranked(found, order, soft)
    PROVE  /\ IsList(list)
           /\ \A n \in DOMAIN list : MatchesHardFilters(list[n], c)
<1>1. \A i \in found : i \in Listing /\ MatchesHardFilters(i, c)
  BY DEF Found, PythonSearch, RustSearch, Enforced, BackendMatches
<1>2. PICK rows \in SUBSET found : list \in SetToSeqs(rows)
  <2>1. CASE list \in Sorted(found, order)
    BY <2>1 DEF Sorted
  <2>2. CASE list \notin Sorted(found, order)
    <3>1. PICK base \in Sorted(found, order) : list \in Reranked(base)
      BY <2>2 DEF Ranked
    <3>2. base \in [1..Cardinality(found) -> found]
      BY <3>1 DEF Sorted, SetToSeqs
    <3>3. ToSet(base) \subseteq found
      BY <3>2 DEF ToSet
    <3>. QED
      BY <3>1, <3>3 DEF Reranked
  <2>. QED
    BY <2>1, <2>2
<1>. DEFINE n == Cardinality(rows)
<1>3. list \in [1..n -> rows] /\ \A i, j \in 1..n : i # j => list[i] # list[j]
  BY <1>2 DEF SetToSeqs
<1>4. n \in Nat /\ n <= Len(Listings)
  <2>1. rows \in SUBSET Listing
    BY <1>1
  <2>. QED
    BY <2>1, ListingsCounted, FS_Subset, FS_CardinalityType
<1>. HIDE DEF n
<1>5. list \in Seq(Listing) /\ Len(list) = n /\ DOMAIN list = 1..n
  BY <1>1, <1>3, <1>4
<1>6. Distinct(list)
  BY <1>3, <1>5 DEF Distinct
<1>7. \A k \in DOMAIN list : list[k] \in found
  BY <1>3, <1>5
<1>. QED
  BY <1>1, <1>4, <1>5, <1>6, <1>7 DEF IsList

LEMMA SizesCounted ==
    ASSUME display \in Displays, NEW n \in Nat
    PROVE  /\ SizeFrom(n) \in Nat \ {0}
           /\ display.inline # None => SizeFrom(n) = display.inline
           /\ display.inline = None /\ n # 0 => SizeFrom(n) = Smaller(n, MaxPageSize)
  BY SessionAssumption DEF SizeFrom, Smaller

LEMMA AllShownCounted ==
    ASSUME display \in Displays, NEW list, IsList(list)
    PROVE  /\ AllShown(list) \in Nat /\ AllShown(list) <= Len(list)
           /\ list # << >> => AllShown(list) > 0
           /\ display.inline # None => AllShown(list) <= display.inline
  BY SessionAssumption DEF AllShown, Smaller, IsList

\* The places of a window follow each other.
LEMMA PlacesFollow ==
    ASSUME NEW items \in Numbered
    PROVE  \E lo \in 1..Len(Listings) + 1, hi \in 0..Len(Listings) :
               /\ items \in [lo..hi -> Listing]
               /\ Cardinality(DOMAIN items) = IF lo > hi THEN 0 ELSE hi - lo + 1
               /\ lo <= hi => (CHOOSE x \in DOMAIN items : \A k \in DOMAIN items : x <= k) = lo
<1>1. PICK places \in Spans : items \in [places -> Listing]
  BY SMT DEF Numbered
<1>2. PICK lo \in 1..Len(Listings) + 1, hi \in 0..Len(Listings) : places = lo..hi
  BY SMT DEF Spans
<1>3. lo \in Nat /\ hi \in Nat /\ DOMAIN items = lo..hi
  BY <1>1, <1>2, ListingsCounted
<1>4. Cardinality(lo..hi) = IF lo > hi THEN 0 ELSE hi - lo + 1
  BY <1>3, FS_Interval
<1>5. ASSUME lo <= hi
      PROVE  (CHOOSE x \in lo..hi : \A k \in lo..hi : x <= k) = lo
  <2>1. lo \in lo..hi /\ \A k \in lo..hi : lo <= k
    BY <1>3, <1>5
  <2>2. ASSUME NEW x \in lo..hi, \A k \in lo..hi : x <= k
        PROVE  x = lo
    BY <1>3, <2>1, <2>2
  <2>. QED
    BY <2>1, <2>2
<1>. QED
  BY <1>1, <1>2, <1>3, <1>4, <1>5

\* A list without an option map is listed again with the numbers of its listings from 1.
LEMMA RenumberedExcerpt ==
    ASSUME display \in Displays, NEW list, NEW size \in Nat, NEW items, Excerpt(items, list, size)
    PROVE  LET n == Cardinality(DOMAIN items) IN
           /\ n \in Nat
           /\ list # << >> => n > 0
           /\ Excerpt(Renumbered(items), list, size)
           /\ ItemsOf(Renumbered(items)) \subseteq ItemsOf(items)
           /\ n <= SizeFrom(n) => ItemsOf(Renumbered(items)) = ItemsOf(items)
<1>. DEFINE n     == Cardinality(DOMAIN items)
            first == CHOOSE lo \in DOMAIN items : \A k \in DOMAIN items : lo <= k
            last  == Smaller(SizeFrom(n), n)
            again == Renumbered(items)
<1>1. PICK lo \in 1..Len(Listings) + 1, hi \in 0..Len(Listings) :
          /\ items \in [lo..hi -> Listing]
          /\ n = IF lo > hi THEN 0 ELSE hi - lo + 1
          /\ lo <= hi => first = lo
  BY PlacesFollow DEF Excerpt
<1>. HIDE DEF first
<1>2. n <= size
  BY DEF Excerpt
<1>. HIDE DEF n
<1>3. lo \in Nat /\ lo > 0 /\ hi \in Nat /\ DOMAIN items = lo..hi /\ hi <= Len(Listings)
  BY <1>1, ListingsCounted
<1>4. n = (IF lo > hi THEN 0 ELSE hi - lo + 1) /\ n \in Nat /\ n <= size
  BY <1>1, <1>2, <1>3
<1>5. n # 0 => first = lo
  BY <1>1, <1>3, <1>4
<1>6. last \in Nat /\ last <= n /\ (n # 0 => last > 0) /\ (n <= SizeFrom(n) => last = n)
  <2>1. SizeFrom(n) \in Nat \ {0}
    BY <1>4, SizesCounted
  <2>. QED
    BY <1>4, <2>1 DEF Smaller
<1>. HIDE DEF last
<1>7. again = [k \in 1..last |-> items[first + k - 1]]
  BY DEF Renumbered, n, first, last
<1>8. DOMAIN again = 1..last /\ \A k \in 1..last : lo + k - 1 \in lo..hi /\ again[k] = items[lo + k - 1]
  BY <1>3, <1>4, <1>5, <1>6, <1>7
<1>. HIDE DEF again
<1>9. \A m \in DOMAIN items : items[m] \in Listing
  BY <1>1, <1>3
<1>10. again \in Numbered
  <2>1. again \in [1..last -> Listing]
    <3>1. \A k \in 1..last : items[first + k - 1] \in Listing
      BY <1>3, <1>7, <1>8, <1>9
    <3>. QED
      BY <1>7, <3>1
  <2>2. 1 \in 1..Len(Listings) + 1 /\ last \in 0..Len(Listings)
    BY <1>3, <1>4, <1>6, ListingsCounted
  <2>3. 1..last \in Spans
    BY <2>2, SMT DEF Spans
  <2>. QED
    BY <2>1, <2>3, SpansNumbered
<1>11. Distinct(again)
  <2>. SUFFICES ASSUME NEW j \in 1..last, NEW k \in 1..last, again[j] = again[k] PROVE j = k
    BY <1>8 DEF Distinct
  <2>1. lo + j - 1 = lo + k - 1
    BY <1>3, <1>8 DEF Excerpt, Distinct
  <2>. QED
    BY <1>3, <1>6, <2>1
<1>12. \A k \in DOMAIN again : \E m \in DOMAIN list : list[m] = again[k]
  BY <1>3, <1>8 DEF Excerpt
<1>13. list # << >> => n > 0
  <2>. SUFFICES ASSUME list # << >>, n = 0 PROVE FALSE
    BY <1>4
  <2>1. lo..hi = {}
    BY <1>3, <1>4
  <2>2. items = NoListings
    BY <1>1, <2>1 DEF NoListings
  <2>. QED
    BY <2>2 DEF Excerpt
<1>14. list # << >> => again # NoListings
  <2>. SUFFICES ASSUME list # << >> PROVE again # NoListings
    OBVIOUS
  <2>1. 1 \in DOMAIN again
    BY <1>4, <1>6, <1>8, <1>13
  <2>2. DOMAIN NoListings = {}
    BY DEF NoListings
  <2>. QED
    BY <2>1, <2>2
<1>15. IsFiniteSet(DOMAIN again) /\ Cardinality(DOMAIN again) <= size
  <2>1. IsFiniteSet(1..last) /\ Cardinality(1..last) = IF 1 > last THEN 0 ELSE last - 1 + 1
    BY <1>6, FS_Interval
  <2>. QED
    BY <1>4, <1>6, <1>8, <2>1
<1>16. Excerpt(again, list, size)
  BY <1>10, <1>11, <1>12, <1>14, <1>15 DEF Excerpt
<1>17. ItemsOf(again) \subseteq ItemsOf(items)
  BY <1>3, <1>8 DEF ItemsOf
<1>18. n <= SizeFrom(n) => ItemsOf(items) \subseteq ItemsOf(again)
  <2>. SUFFICES ASSUME n <= SizeFrom(n), NEW m \in lo..hi PROVE items[m] \in ItemsOf(again)
    BY <1>3 DEF ItemsOf
  <2>1. m - lo + 1 \in 1..last
    BY <1>3, <1>4, <1>6
  <2>2. again[m - lo + 1] = items[lo + (m - lo + 1) - 1]
    BY <1>8, <2>1
  <2>3. lo + (m - lo + 1) - 1 = m
    BY <1>3
  <2>. QED
    BY <1>8, <2>1, <2>2, <2>3 DEF ItemsOf
<1>. QED
  BY <1>4, <1>13, <1>16, <1>17, <1>18 DEF again, n

LEMMA NothingNumbered == NoListings \in Numbered
<1>1. 1..0 \in Spans
  <2>1. 1 \in 1..Len(Listings) + 1 /\ 0 \in 0..Len(Listings)
    BY ListingsCounted
  <2>. QED
    BY <2>1, SMT DEF Spans
<1>2. NoListings \in [1..0 -> Listing]
  BY DEF NoListings
<1>. QED
  BY <1>1, <1>2, SpansNumbered

LEMMA FirstFiveNumbered ==
    ASSUME NEW items \in Numbered
    PROVE  FirstFive(items) \in Numbered
<1>. DEFINE n     == Cardinality(DOMAIN items)
            first == CHOOSE lo \in DOMAIN items : \A k \in DOMAIN items : lo <= k
            last  == Smaller(5, n)
<1>1. PICK lo \in 1..Len(Listings) + 1, hi \in 0..Len(Listings) :
          /\ items \in [lo..hi -> Listing]
          /\ n = IF lo > hi THEN 0 ELSE hi - lo + 1
          /\ lo <= hi => first = lo
  BY PlacesFollow
<1>2. FirstFive(items) = [k \in 1..last |-> items[first + k - 1]]
  BY DEF FirstFive
<1>. HIDE DEF first, n
<1>3. lo \in Nat /\ lo > 0 /\ hi \in Nat /\ hi <= Len(Listings) /\ Len(Listings) \in Nat
  BY <1>1, ListingsCounted
<1>4. last \in Nat /\ last <= n /\ n \in Nat
  BY <1>1, <1>3 DEF Smaller
<1>. HIDE DEF last
<1>5. \A k \in 1..last : items[first + k - 1] \in Listing
  BY <1>1, <1>3, <1>4
<1>6. FirstFive(items) \in [1..last -> Listing]
  BY <1>2, <1>5
<1>7. 1 \in 1..Len(Listings) + 1 /\ last \in 0..Len(Listings)
  BY <1>1, <1>3, <1>4
<1>8. 1..last \in Spans
  BY <1>7, SMT DEF Spans
<1>. QED
  BY <1>6, <1>8, SpansNumbered
-----------------------------------------------------------------------------
(* The inductive invariant                                                   *)

\* What is on display of a list of results: an excerpt of its page, the page itself
\* unless that is longer than a page may be, no more than the size of a page.
Displayed(items, list, p, size) ==
    /\ Excerpt(items, list, size)
    /\ display.inline # None => size <= display.inline
    /\ list # << >> =>
          LET window == ItemsOf(Window(list, p, size)) IN
          /\ size > 0
          /\ ItemsOf(items) \subseteq window
          /\ Cardinality(window) <= MaxPageSize => ItemsOf(items) = window

\* The results meet the filters they were found with.
ListSound ==
    /\ IsList(results)
    /\ \A n \in DOMAIN results : MatchesHardFilters(results[n], filters)

DisplaySound ==
    /\ Displayed(visible, results, page, pageSize)
    /\ options = visible

\* Unless a booking has begun, the selection is the last one and among the results.
SelectionSound ==
    /\ bookingOf = None <=> booking = "none"
    /\ bookingOf = None /\ selected # None =>
          selected = lastSelected /\ \E n \in DOMAIN results : results[n] = lastSelected

\* A list or a selection is captured only while there is no booking.
InterruptionSound ==
    interruption # None =>
        /\ interruption.target = "property_menu" =>
              /\ booking = "none"
              /\ \A n \in DOMAIN interruption.items :
                    \E m \in DOMAIN results : results[m] = interruption.items[n]
        /\ interruption.target = "selected_property" =>
              booking = "none" /\ view = "property_details" /\ interruption.property = lastSelected
        /\ interruption.target = "booking_flow" => booking # "none"

SearchInv == TypeOK /\ ListSound /\ DisplaySound /\ SelectionSound /\ InterruptionSound

LEMMA WindowDisplayed ==
    ASSUME display \in Displays, NEW list, IsList(list), NEW p \in Nat \ {0},
           NEW size \in Nat \ {0}, display.inline # None => size <= display.inline
    PROVE  Displayed(Window(list, p, size), list, PageOf(list, p, size), size)
<1>1. Excerpt(Window(list, p, size), list, size)
  BY WindowExcerpt
<1>2. Window(list, PageOf(list, p, size), size) = Window(list, p, size)
  BY PageClamped DEF IsList
<1>. QED
  BY <1>1, <1>2 DEF Displayed

LEMMA FirstPage ==
    ASSUME NEW list \in Seq(Listing), NEW size \in Nat \ {0}
    PROVE  PageOf(list, 1, size) = 1
  BY PagesCounted DEF PageOf, Smaller

\* A list shown whole, or as far as a message carries, is its own first page.
LEMMA AllDisplayed ==
    ASSUME display \in Displays, NEW list, IsList(list)
    PROVE  Displayed(Segment(list, 1, AllShown(list)), list, 1, AllShown(list))
<1>. DEFINE size == AllShown(list)
<1>1. list \in Seq(Listing) /\ Len(list) \in Nat
  BY DEF IsList
<1>2. size \in Nat /\ size <= Len(list) /\ (list # << >> => size > 0)
      /\ (display.inline # None => size <= display.inline)
  BY AllShownCounted
<1>. HIDE DEF size
<1>3. Excerpt(Segment(list, 1, size), list, size)
  BY <1>1, <1>2, SegmentExcerpt
<1>4. list # << >> => Window(list, 1, size) = Segment(list, 1, size)
  <2>. SUFFICES ASSUME list # << >> PROVE Window(list, 1, size) = Segment(list, 1, size)
    OBVIOUS
  <2>1. PageOf(list, 1, size) = 1
    BY <1>1, <1>2, FirstPage
  <2>2. (1 - 1) * size + 1 = 1 /\ Smaller(1 * size, Len(list)) = size
    BY <1>1, <1>2 DEF Smaller
  <2>. QED
    BY <2>1, <2>2 DEF Window
<1>. QED
  BY <1>2, <1>3, <1>4 DEF Displayed, size

LEMMA StoreDisplays ==
    ASSUME display \in Displays, display' = display, NEW list, IsList(list),
           NEW c, NEW order, StoreResults(list, c, order)
    PROVE  DisplaySound'
<1>1. /\ results' = list /\ page' = 1 /\ options' = visible'
      /\ pageSize' = (IF display.allMatching THEN AllShown(list) ELSE SizeFrom(PageSize))
      /\ visible' = IF display.allMatching THEN Segment(list, 1, AllShown(list))
                    ELSE Window(list, 1, SizeFrom(PageSize))
  BY DEF StoreResults
<1>2. Displayed(visible', list, 1, pageSize')
  <2>1. CASE display.allMatching
    BY <1>1, <2>1, AllDisplayed
  <2>2. CASE ~display.allMatching
    <3>1. SizeFrom(PageSize) \in Nat \ {0}
          /\ (display.inline # None => SizeFrom(PageSize) <= display.inline)
      BY SessionAssumption, SizesCounted
    <3>2. PageOf(list, 1, SizeFrom(PageSize)) = 1
      BY <3>1, FirstPage DEF IsList
    <3>. QED
      BY <1>1, <2>2, <3>1, <3>2, WindowDisplayed
  <2>. QED
    BY <2>1, <2>2
<1>3. Displayed(visible, results, page, pageSize)'
  BY <1>1, <1>2 DEF Displayed
<1>. QED
  BY <1>1, <1>3 DEF DisplaySound

LEMMA MoveDisplays ==
    ASSUME display \in Displays, UNCHANGED <<display, results>>, IsList(results),
           pageSize \in Nat, NEW target \in Nat \ {0}, Move(target)
    PROVE  DisplaySound' /\ page' \in Nat \ {0} /\ pageSize' \in Nat
<1>1. /\ page' = PageOf(results, target, SizeFrom(pageSize)) /\ pageSize' = SizeFrom(pageSize)
      /\ visible' = Window(results, target, SizeFrom(pageSize)) /\ options' = visible'
  BY DEF Move
<1>2. SizeFrom(pageSize) \in Nat \ {0}
      /\ (display.inline # None => SizeFrom(pageSize) <= display.inline)
  BY SizesCounted, SessionAssumption
<1>3. Displayed(visible', results, page', pageSize')
  BY <1>1, <1>2, WindowDisplayed
<1>4. Displayed(visible, results, page, pageSize)'
  BY <1>3 DEF Displayed
<1>5. page' \in Nat \ {0}
  BY <1>1, <1>2, PageClamped DEF IsList
<1>. QED
  BY <1>1, <1>2, <1>4, <1>5 DEF DisplaySound

\* A page of which a list may show everything is not shortened when it is numbered anew.
LEMMA RenumberedKeepsPage ==
    ASSUME display \in Displays, NEW list, NEW p, NEW size \in Nat, NEW items,
           Displayed(items, list, p, size),
           Cardinality(ItemsOf(items)) <= MaxPageSize
    PROVE  ItemsOf(Renumbered(items)) = ItemsOf(items)
<1>. DEFINE n == Cardinality(DOMAIN items)
<1>1. Excerpt(items, list, size) /\ (display.inline # None => size <= display.inline)
  BY DEF Displayed
<1>2. Cardinality(ItemsOf(items)) = n /\ n \in Nat /\ n <= size
  BY <1>1, ItemsCounted, FS_CardinalityType DEF Excerpt
<1>. HIDE DEF n
<1>3. n <= SizeFrom(n)
  <2>1. CASE display.inline # None
    BY <1>1, <1>2, <2>1, SizesCounted, SessionAssumption
  <2>2. CASE display.inline = None
    BY <1>2, <2>2, SizesCounted, SessionAssumption DEF Smaller
  <2>. QED
    BY <2>1, <2>2
<1>. QED
  BY <1>1, <1>3, RenumberedExcerpt DEF n

LEMMA BackDisplays ==
    ASSUME TypeOK, DisplaySound, display' = display, BackToResults
    PROVE  DisplaySound' /\ visible' \in Numbered
<1>1. UNCHANGED <<results, page, pageSize>>
  BY DEF BackToResults, Returned
<1>2. display \in Displays /\ pageSize \in Nat /\ visible \in Numbered
  BY DEF TypeOK
<1>3. visible' = (IF remembered THEN visible ELSE Renumbered(visible))
      /\ options' = visible'
  BY DEF BackToResults, Returned
<1>4. Displayed(visible', results, page, pageSize)
  <2>1. CASE remembered
    BY <1>3, <2>1 DEF DisplaySound
  <2>2. CASE ~remembered
    <3>. DEFINE window == ItemsOf(Window(results, page, pageSize))
    <3>1. Displayed(visible, results, page, pageSize)
      BY DEF DisplaySound
    <3>2. Excerpt(Renumbered(visible), results, pageSize)
          /\ ItemsOf(Renumbered(visible)) \subseteq ItemsOf(visible)
      BY <1>2, <3>1, RenumberedExcerpt DEF Displayed
    <3>3. results # << >> /\ Cardinality(window) <= MaxPageSize =>
              ItemsOf(Renumbered(visible)) = window
      BY <1>2, <3>1, RenumberedKeepsPage DEF Displayed
    <3>. QED
      BY <1>3, <2>2, <3>1, <3>2, <3>3 DEF Displayed
  <2>. QED
    BY <2>1, <2>2
<1>5. Displayed(visible, results, page, pageSize)'
  BY <1>1, <1>4 DEF Displayed
<1>6. options' = visible'
  BY <1>3
<1>. QED
  BY <1>4, <1>5, <1>6 DEF DisplaySound, Displayed, Excerpt
-----------------------------------------------------------------------------
(* Steps: searches, rejections and pages change what is on display           *)

LEMMA OrdersRead == \A m : ReadPreference(m) \in Preferences
<1>. SUFFICES ASSUME NEW m PROVE ReadPreference(m) \in Preferences
  OBVIOUS
<1>1. CASE \E p \in Ascending : Names(m, p)
  BY <1>1 DEF ReadPreference, Preferences
<1>2. CASE (\A p \in Ascending : ~Names(m, p)) /\ (\E p \in Descending : Names(m, p))
  BY <1>2 DEF ReadPreference, Preferences
<1>3. CASE \A p \in Ascending \cup Descending : ~Names(m, p)
  BY <1>3 DEF ReadPreference, Preferences
<1>. QED
  BY <1>1, <1>2, <1>3

LEMMA CitiesListed == \A i \in Listing : Listings[i].city \in City
<1>1. \A i \in Listing : Listings[i] \in Row
  BY ListingAssumption DEF Listing
<1>. QED
  BY <1>1 DEF Row

LEMMA FieldsRead == \A m : DOMAIN Extracted(m) \subseteq Fields
  BY DEF Extracted, Given, Restrict, Searchable

LEMMA FieldsMerged ==
    ASSUME NEW old, NEW new, DOMAIN old \subseteq Fields, DOMAIN new \subseteq Fields
    PROVE  DOMAIN Merged(old, new) \subseteq Fields
  BY DEF Merged

LEMMA FieldsSearched ==
    ASSUME NEW c, DOMAIN c \subseteq Fields
    PROVE  DOMAIN Searched(c) \subseteq Fields
  BY DEF Searched

\* The plan of a message refines what the session holds by what was read of it.
LEMMA PlansRefine ==
    ASSUME NEW m \in Message
    PROVE  /\ Planned(Reading[m]).constraints = Merged(filters, Extracted(m.words))
           /\ Planned(Reading[m]).preference = ReadPreference(m.words)
<1>1. SessionConstraints = filters
  BY DEF SessionConstraints, Searching
<1>. QED
  BY <1>1 DEF Planned, Reading

\* What a search stores: a list of listings that meet what was searched for.
Stores(list, c, order) ==
    /\ IsList(list)
    /\ \A n \in DOMAIN list : MatchesHardFilters(list[n], c)
    /\ DOMAIN c \subseteq Fields
    /\ order \in Preferences
    /\ StoreResults(list, c, order)

LEMMA SearchesFor ==
    ASSUME NEW wanted, DOMAIN wanted \subseteq Fields, NEW order \in Preferences,
           SearchFor(wanted, order)
    PROVE  \E list, c : Stores(list, c, order)
<1>1. PICK found \in Found(Searched(wanted)) :
          \E list \in Ranked(found, order, SoftTerms(wanted)) :
              StoreResults(list, Searched(wanted), order)
  BY DEF SearchFor
<1>2. PICK list \in Ranked(found, order, SoftTerms(wanted)) :
          StoreResults(list, Searched(wanted), order)
  BY <1>1
<1>3. DOMAIN Searched(wanted) \subseteq Fields
  BY FieldsSearched
<1>. QED
  BY <1>2, <1>3, FoundLists DEF Stores

LEMMA FreshSearches ==
    ASSUME NEW city, NEW type, FreshSearch(city, type)
    PROVE  /\ \E list, c : Stores(list, c, "none")
           /\ DOMAIN asked' \subseteq Fields
<1>. DEFINE c == [f \in {"city", "property_type"} |-> Exact(IF f = "city" THEN city ELSE type)]
<1>1. DOMAIN c \subseteq Fields
  BY DEF Fields
<1>. HIDE DEF c
<1>2. (\E found \in Found(c) : \E list \in Ranked(found, "none", {}) :
          StoreResults(list, c, "none")) /\ asked' = c
  BY Zenon DEF FreshSearch, c
<1>3. PICK found \in Found(c) : \E list \in Ranked(found, "none", {}) :
          StoreResults(list, c, "none")
  BY <1>2
<1>4. PICK list \in Ranked(found, "none", {}) : StoreResults(list, c, "none")
  BY <1>3
<1>5. Stores(list, c, "none")
  BY <1>1, <1>4, FoundLists DEF Stores, Preferences
<1>. QED
  BY <1>1, <1>2, <1>5

LEMMA SearchSteps ==
    ASSUME TypeOK, DirectSearch \/ SearchCovered \/ SearchType
    PROVE  /\ \E list, c, order : Stores(list, c, order)
           /\ UNCHANGED <<display, lastSelected, booking, bookingOf>>
           /\ DOMAIN asked' \subseteq Fields
           /\ refinement' \in BOOLEAN
           /\ coverage' \in {coverage, NoCoverage}
<1>1. CASE DirectSearch
  <2>. PICK m \in Message : \E plan \in {Planned(Reading[m])} :
            /\ SearchFor(plan.constraints,
                         IF plan.preference = "none" THEN preference ELSE plan.preference)
            /\ asked' = Merged(asked, m.meant)
    BY <1>1, Zenon DEF DirectSearch
  <2>. DEFINE plan == Planned(Reading[m])
  <2>1. /\ SearchFor(plan.constraints,
                     IF plan.preference = "none" THEN preference ELSE plan.preference)
        /\ asked' = Merged(asked, m.meant)
    OBVIOUS
  <2>2. /\ plan.constraints = Merged(filters, Extracted(m.words))
        /\ plan.preference = ReadPreference(m.words)
    BY PlansRefine
  <2>. HIDE DEF plan
  <2>3. DOMAIN plan.constraints \subseteq Fields
    <3>1. DOMAIN filters \subseteq Fields /\ DOMAIN Extracted(m.words) \subseteq Fields
      BY FieldsRead, Zenon DEF TypeOK
    <3>. QED
      BY <2>2, <3>1, FieldsMerged
  <2>4. (IF plan.preference = "none" THEN preference ELSE plan.preference) \in Preferences
    BY <2>2, OrdersRead DEF TypeOK
  <2>5. \E list, c, order : Stores(list, c, order)
    BY <2>1, <2>3, <2>4, SearchesFor
  <2>6. DOMAIN asked' \subseteq Fields
    <3>1. DOMAIN asked \subseteq Fields /\ DOMAIN m.meant \subseteq Fields
      BY MessageAssumption, Zenon DEF TypeOK
    <3>. QED
      BY <2>1, <3>1, FieldsMerged
  <2>7. UNCHANGED <<display, lastSelected, coverage, refinement, booking, bookingOf>>
    BY <1>1, Zenon DEF DirectSearch, bookingVars
  <2>. QED
    BY <2>5, <2>6, <2>7 DEF TypeOK
<1>2. CASE SearchCovered
  <2>1. PICK type : FreshSearch(coverage.city, type)
    BY <1>2 DEF SearchCovered
  <2>2. UNCHANGED <<display, lastSelected, refinement, booking, bookingOf>> /\ coverage' = NoCoverage
    BY <1>2, Zenon DEF SearchCovered, bookingVars
  <2>. QED
    BY <2>1, <2>2, FreshSearches DEF TypeOK
<1>3. CASE SearchType
  <2>1. PICK type : FreshSearch(SearchCity, type)
    BY <1>3 DEF SearchType
  <2>2. UNCHANGED <<display, lastSelected, coverage, booking, bookingOf>> /\ refinement' = FALSE
    BY <1>3, Zenon DEF SearchType, bookingVars
  <2>. QED
    BY <2>1, <2>2, FreshSearches DEF TypeOK
<1>. QED
  BY <1>1, <1>2, <1>3

\* After a search: the results, what is on display, the selection, no interruption
LEMMA SearchStored ==
    ASSUME SearchInv, DirectSearch \/ SearchCovered \/ SearchType
    PROVE  SearchInv'
<1>1. PICK list, c, order : Stores(list, c, order)
  BY SearchSteps DEF SearchInv
<1>2. /\ UNCHANGED <<display, lastSelected, booking, bookingOf>>
      /\ DOMAIN asked' \subseteq Fields
      /\ refinement' \in BOOLEAN
      /\ coverage' \in {coverage, NoCoverage}
  BY SearchSteps DEF SearchInv
<1>3. /\ results' = list /\ filters' = c /\ preference' = order /\ page' = 1
      /\ options' = visible' /\ remembered' = TRUE
      /\ selected' = SelectedAfter(list) /\ view' = "property_list"
      /\ interruption' = None /\ screen' = visible' /\ live' = TRUE
  BY <1>1, Zenon DEF Stores, StoreResults, Show, AfterSearch
<1>4. DisplaySound'
  BY <1>1, <1>2, StoreDisplays DEF Stores, SearchInv, TypeOK
<1>5. ListSound'
  BY <1>1, <1>3 DEF ListSound, Stores
<1>6. SelectionSound'
  BY <1>2, <1>3 DEF SearchInv, SelectionSound, SelectedAfter
<1>7. InterruptionSound'
  BY <1>3 DEF InterruptionSound
<1>8. TypeOK'
  <2>1. visible' \in Numbered
    BY <1>4 DEF DisplaySound, Displayed, Excerpt
  <2>2. pageSize' \in Nat
    <3>1. pageSize' = IF display.allMatching THEN AllShown(list) ELSE SizeFrom(PageSize)
      BY <1>1 DEF Stores, StoreResults
    <3>. QED
      BY <1>1, <3>1, AllShownCounted, SizesCounted, SessionAssumption
         DEF Stores, SearchInv, TypeOK
  <2>3. selected' \in Listing \cup {None}
    BY <1>2, <1>3 DEF SearchInv, TypeOK, SelectedAfter
  <2>4. coverage' \in [stage : {"none", "city list", "city", "type"}, city : City \cup {None}]
    <3>1. coverage \in [stage : {"none", "city list", "city", "type"}, city : City \cup {None}]
      BY DEF SearchInv, TypeOK
    <3>2. NoCoverage \in [stage : {"none", "city list", "city", "type"}, city : City \cup {None}]
      BY DEF NoCoverage
    <3>. QED
      BY <1>2, <3>1, <3>2
  <2>5. results' \in Seq(Listing) /\ DOMAIN filters' \subseteq Fields /\ preference' \in Preferences
    BY <1>1, <1>3 DEF Stores, IsList
  <2>6. /\ display \in Displays /\ lastSelected \in Listing \cup {None}
        /\ booking \in BookingStages /\ bookingOf \in Listing \cup {None}
    BY Zenon DEF SearchInv, TypeOK
  <2>7. 1 \in Nat \ {0}
    OBVIOUS
  <2>. QED
    BY <1>2, <1>3, <2>1, <2>2, <2>3, <2>4, <2>5, <2>6, <2>7, Zenon DEF TypeOK, Views
<1>. QED
  BY <1>4, <1>5, <1>6, <1>7, <1>8 DEF SearchInv

LEMMA PaginateKept ==
    ASSUME SearchInv, Paginate
    PROVE  SearchInv'
<1>1. /\ UNCHANGED <<display, results, filters, preference, lastSelected, view, interruption,
                     coverage, refinement, booking, bookingOf, asked>>
      /\ remembered' = TRUE /\ selected' = Synced(results)
  BY Zenon DEF Paginate, bookingVars
<1>2. PICK target \in Nat \ {0} : Move(target)
  <2>1. Move(page + 1) \/ Move(IF page > 1 THEN page - 1 ELSE 1)
    BY DEF Paginate
  <2>2. page \in Nat \ {0}
    BY DEF SearchInv, TypeOK
  <2>3. page + 1 \in Nat \ {0} /\ (IF page > 1 THEN page - 1 ELSE 1) \in Nat \ {0}
    BY <2>2
  <2>. QED
    BY <2>1, <2>3
<1>3. DisplaySound' /\ page' \in Nat \ {0} /\ pageSize' \in Nat
  BY <1>1, <1>2, MoveDisplays DEF SearchInv, TypeOK, ListSound
<1>4. options' = visible' /\ screen' = visible' /\ live' = TRUE
  BY <1>2 DEF Move, Show
<1>5. ListSound'
  BY <1>1 DEF SearchInv, ListSound
<1>6. SelectionSound'
  BY <1>1 DEF SearchInv, SelectionSound, Synced, SelectedAfter
<1>7. InterruptionSound'
  BY <1>1 DEF SearchInv, InterruptionSound
<1>8. TypeOK'
  <2>1. visible' \in Numbered
    BY <1>3 DEF DisplaySound, Displayed, Excerpt
  <2>2. selected' \in Listing \cup {None}
    BY <1>1 DEF SearchInv, TypeOK, Synced, SelectedAfter
  <2>. QED
    BY <1>1, <1>3, <1>4, <2>1, <2>2 DEF SearchInv, TypeOK
<1>. QED
  BY <1>3, <1>5, <1>6, <1>7, <1>8 DEF SearchInv

LEMMA BackKept ==
    ASSUME SearchInv, RejectProperty \/ Reselect
    PROVE  SearchInv'
<1>1. /\ BackToResults
      /\ UNCHANGED <<display, coverage, refinement, bookingOf>>
      /\ booking' \in BookingStages /\ (booking' = "none" <=> booking = "none")
  BY DEF RejectProperty, Reselect, bookingVars, SearchInv, TypeOK, BookingStages
<1>2. /\ UNCHANGED <<results, filters, preference, pageSize, lastSelected, asked, page>>
      /\ selected' = None /\ interruption' = None /\ view' = "property_list"
      /\ remembered' = TRUE
      /\ options' = visible' /\ screen' = visible' /\ live' = TRUE
  BY <1>1 DEF BackToResults, Returned, Show
<1>3. DisplaySound' /\ visible' \in Numbered
  BY <1>1, BackDisplays DEF SearchInv
<1>4. ListSound'
  BY <1>2 DEF SearchInv, ListSound
<1>5. SelectionSound'
  BY <1>1, <1>2 DEF SearchInv, SelectionSound
<1>6. InterruptionSound'
  BY <1>2 DEF InterruptionSound
<1>7. TypeOK'
  BY <1>1, <1>2, <1>3 DEF SearchInv, TypeOK, Views
<1>. QED
  BY <1>3, <1>4, <1>5, <1>6, <1>7 DEF SearchInv
-----------------------------------------------------------------------------
(* Steps that leave what is on display as it is                              *)

LEMMA ListsKept ==
    ASSUME SearchInv, UNCHANGED <<display, listVars>>
    PROVE  ListSound' /\ DisplaySound'
<1>1. UNCHANGED <<display, results, filters, page, pageSize, visible, options>>
  BY DEF listVars
<1>2. ListSound'
  BY <1>1 DEF SearchInv, ListSound
<1>3. Displayed(visible, results, page, pageSize)'
  BY <1>1 DEF SearchInv, DisplaySound, Displayed
<1>. QED
  BY <1>1, <1>2, <1>3 DEF SearchInv, DisplaySound

LEMMA SyncedSound ==
    ASSUME SearchInv
    PROVE  /\ Synced(results) \in Listing \cup {None}
           /\ bookingOf = None /\ Synced(results) # None =>
                 /\ Synced(results) = lastSelected
                 /\ \E n \in DOMAIN results : results[n] = lastSelected
  BY DEF SearchInv, TypeOK, SelectionSound, Synced, SelectedAfter

LEMMA ListsTyped ==
    ASSUME SearchInv, UNCHANGED <<display, listVars>>
    PROVE  /\ display' \in Displays /\ results' \in Seq(Listing) /\ DOMAIN filters' \subseteq Fields
           /\ preference' \in Preferences /\ page' \in Nat \ {0} /\ pageSize' \in Nat
           /\ visible' \in Numbered /\ options' \in Numbered
  BY Zenon DEF SearchInv, TypeOK, listVars

\* Questions about coverage and type
LEMMA QuestionsKept ==
    ASSUME SearchInv, LeaveRegion \/ AnswerCoverage \/ AskType \/ DropType
    PROVE  SearchInv'
<1>1. UNCHANGED <<display, listVars, remembered, selected, lastSelected, view, interruption,
                  booking, bookingOf, screen, live, asked>>
  BY Zenon DEF LeaveRegion, AnswerCoverage, AskType, DropType, bookingVars, guestVars
<1>2. /\ refinement' \in BOOLEAN
      /\ coverage' \in [stage : {"none", "city list", "city", "type"}, city : City \cup {None}]
  <2>. DEFINE Stages == {"none", "city list", "city", "type"}
  <2>1. /\ coverage \in [stage : Stages, city : City \cup {None}]
        /\ NoCoverage \in [stage : Stages, city : City \cup {None}]
        /\ refinement \in BOOLEAN
    BY DEF SearchInv, TypeOK, NoCoverage
  <2>2. CASE LeaveRegion
    BY <2>1, <2>2 DEF LeaveRegion
  <2>3. CASE AnswerCoverage
    <3>1. PICK c \in {Listings[i].city : i \in Listing} \cup {None} :
              coverage' \in {[coverage EXCEPT !.stage = "city"], [stage |-> "type", city |-> c], NoCoverage}
      BY <2>3 DEF AnswerCoverage, CitiesAvailable
    <3>2. c \in City \cup {None} /\ refinement' = refinement
      BY <2>3, <3>1, CitiesListed DEF AnswerCoverage
    <3>3. [coverage EXCEPT !.stage = "city"] \in [stage : Stages, city : City \cup {None}]
      BY <2>1
    <3>4. [stage |-> "type", city |-> c] \in [stage : Stages, city : City \cup {None}]
      BY <3>2
    <3>. HIDE DEF Stages
    <3>. QED
      BY <2>1, <3>1, <3>2, <3>3, <3>4, Zenon DEF Stages
  <2>4. CASE AskType \/ DropType
    BY <2>1, <2>4 DEF AskType, DropType
  <2>. QED
    BY <2>2, <2>3, <2>4
<1>3. SelectionSound' /\ InterruptionSound'
  BY <1>1 DEF SearchInv, SelectionSound, InterruptionSound, listVars
<1>4. TypeOK'
  BY <1>1, <1>2, ListsTyped, Zenon DEF SearchInv, TypeOK
<1>. QED
  BY <1>1, <1>3, <1>4, ListsKept DEF SearchInv

LEMMA SelectKept ==
    ASSUME SearchInv, NEW n \in DOMAIN options, SelectOption(n)
    PROVE  SearchInv'
<1>1. /\ UNCHANGED <<display, listVars, remembered, coverage, refinement, booking, bookingOf,
                     screen, live, asked>>
      /\ selected' = options[n] /\ lastSelected' = options[n]
      /\ view' = "property_details" /\ interruption' = None
  BY Zenon DEF SelectOption, Chosen, bookingVars, guestVars
<1>2. options[n] \in Listing /\ \E m \in DOMAIN results : results[m] = options[n]
  <2>1. options = visible
    BY DEF SearchInv, DisplaySound
  <2>2. \E m \in DOMAIN results : results[m] = options[n]
    BY <2>1 DEF SearchInv, DisplaySound, Displayed, Excerpt
  <2>3. results \in Seq(Listing)
    BY DEF SearchInv, TypeOK
  <2>. QED
    BY <2>2, <2>3
<1>3. SelectionSound'
  BY <1>1, <1>2 DEF SearchInv, SelectionSound, listVars
<1>4. InterruptionSound'
  BY <1>1 DEF InterruptionSound
<1>5. TypeOK'
  BY <1>1, <1>2, ListsTyped, Zenon DEF SearchInv, TypeOK, Views
<1>. QED
  BY <1>1, <1>3, <1>4, <1>5, ListsKept DEF SearchInv

\* The stages of the booking
LEMMA BookingsKept ==
    ASSUME SearchInv, StartBooking \/ CompleteDetails \/ ResumeBooking
    PROVE  SearchInv'
<1>1. UNCHANGED <<display, listVars, remembered, lastSelected, coverage, refinement,
                  screen, live, asked>> /\ interruption' = None
  BY Zenon DEF StartBooking, CompleteDetails, ResumeBooking, guestVars
<1>2. view' \in {view, "booking"}
  BY DEF StartBooking, CompleteDetails, ResumeBooking
<1>3. /\ booking' \in BookingStages /\ bookingOf' \in Listing \cup {None}
      /\ selected' \in Listing \cup {None}
      /\ booking' # "none" /\ bookingOf' # None
  <2>1. CASE StartBooking
    BY <2>1 DEF SearchInv, TypeOK, StartBooking, BookingStages
  <2>2. CASE CompleteDetails \/ ResumeBooking
    BY <2>2, SyncedSound
       DEF SearchInv, TypeOK, SelectionSound, CompleteDetails, ResumeBooking, Resumed,
           ActiveSession, BookingStages
  <2>. QED
    BY <2>1, <2>2
<1>4. SelectionSound' /\ InterruptionSound'
  BY <1>1, <1>3 DEF SelectionSound, InterruptionSound
<1>5. TypeOK'
  <2>1. view' \in Views
    BY <1>2 DEF SearchInv, TypeOK, Views
  <2>. QED
    BY <1>1, <1>3, <2>1, ListsTyped, Zenon DEF SearchInv, TypeOK
<1>. QED
  BY <1>1, <1>4, <1>5, ListsKept DEF SearchInv

LEMMA ReviewKept ==
    ASSUME SearchInv, Confirm \/ ReselectByShortcut
    PROVE  SearchInv'
<1>1. /\ UNCHANGED <<display, listVars, remembered, selected, lastSelected, interruption, coverage,
                     refinement, bookingOf, asked>>
      /\ booking = "awaiting_confirmation"
      /\ booking' \in {"confirmed", "awaiting_property_reselection"}
      /\ view' \in {"receipt", "property_list"}
      /\ screen' \in {screen, FirstFive(visible)} /\ live' \in {live, FALSE}
  BY DEF Confirm, ReselectByShortcut, guestVars
<1>2. SelectionSound' /\ InterruptionSound'
  BY <1>1 DEF SearchInv, SelectionSound, InterruptionSound, listVars
<1>3. screen' \in Numbered /\ live' \in BOOLEAN
  BY <1>1, FirstFiveNumbered DEF SearchInv, TypeOK
<1>4. booking' \in BookingStages /\ view' \in Views
  BY <1>1 DEF BookingStages, Views
<1>5. TypeOK'
  BY <1>1, <1>3, <1>4, ListsTyped, Zenon DEF SearchInv, TypeOK
<1>. QED
  BY <1>1, <1>2, <1>5, ListsKept DEF SearchInv

\* What a policy question captures
LEMMA CapturedSound ==
    ASSUME SearchInv
    PROVE  /\ Captured \in Interruptions \cup {None}
           /\ Captured # None =>
                 /\ Captured.target = "property_menu" =>
                       booking = "none" /\ Captured.items = visible
                 /\ Captured.target = "selected_property" =>
                       booking = "none" /\ view = "property_details"
                       /\ Captured.property = lastSelected
                 /\ Captured.target = "booking_flow" => booking # "none"
<1>. DEFINE s == Synced(results)
<1>1. s \in Listing \cup {None}
  BY SyncedSound
<1>2. booking = "none" /\ s # None => s = lastSelected /\ results # << >>
  BY SyncedSound DEF SearchInv, SelectionSound
<1>. HIDE DEF s
<1>3. results # << >> => visible # NoListings
  BY DEF SearchInv, DisplaySound, Displayed, Excerpt
<1>4. CASE booking # "none"
  <2>1. Captured = [target |-> "booking_flow"]
    BY <1>4 DEF Captured
  <2>. QED
    BY <1>4, <2>1 DEF Interruptions
<1>5. CASE booking = "none" /\ view = "property_details" /\ s # None
  <2>1. Captured = [target |-> "selected_property", property |-> s]
    BY <1>5 DEF Captured, s
  <2>2. s \in Listing
    BY <1>1, <1>5
  <2>. QED
    BY <1>2, <1>5, <2>1, <2>2 DEF Interruptions
<1>6. CASE booking = "none" /\ ~(view = "property_details" /\ s # None) /\ visible # NoListings
  <2>1. Captured = [target |-> "property_menu", items |-> visible]
    BY <1>6 DEF Captured, s
  <2>2. visible \in Numbered
    BY DEF SearchInv, TypeOK
  <2>. QED
    BY <1>6, <2>1, <2>2 DEF Interruptions
<1>7. CASE booking = "none" /\ ~(view = "property_details" /\ s # None) /\ visible = NoListings
  <2>1. s = None
    BY <1>2, <1>3, <1>7
  <2>2. Captured = None
    BY <1>7, <2>1 DEF Captured, s
  <2>. QED
    BY <2>2
<1>. QED
  BY <1>4, <1>5, <1>6, <1>7

LEMMA PolicyKept ==
    ASSUME SearchInv, AskPolicy
    PROVE  SearchInv'
<1>1. /\ UNCHANGED <<display, listVars, remembered, lastSelected, view, coverage, refinement,
                     booking, bookingOf, screen, live, asked>>
      /\ interruption' = Captured /\ selected' = Synced(results)
  BY Zenon DEF AskPolicy, bookingVars, guestVars
<1>2. SelectionSound'
  BY <1>1, SyncedSound DEF SearchInv, SelectionSound, listVars
<1>3. InterruptionSound'
  <2>1. \A n \in DOMAIN visible : \E m \in DOMAIN results : results[m] = visible[n]
    BY DEF SearchInv, DisplaySound, Displayed, Excerpt
  <2>2. UNCHANGED <<results, booking, view, lastSelected>>
    BY <1>1 DEF listVars
  <2>. QED
    BY <1>1, <2>1, <2>2, CapturedSound DEF InterruptionSound
<1>4. interruption' \in Interruptions \cup {None} /\ selected' \in Listing \cup {None}
  BY <1>1, CapturedSound, SyncedSound
<1>5. TypeOK'
  BY <1>1, <1>4, ListsTyped, ZenonT(60) DEF SearchInv, TypeOK
<1>. QED
  BY <1>1, <1>2, <1>3, <1>5, ListsKept DEF SearchInv

LEMMA ResumeKept ==
    ASSUME SearchInv, ResumeSearch
    PROVE  SearchInv'
<1>1. /\ UNCHANGED <<display, listVars, remembered, lastSelected, view, coverage, refinement,
                     booking, bookingOf, asked>>
      /\ interruption' = None /\ selected' = Synced(results)
  BY Zenon DEF ResumeSearch, bookingVars
<1>2. SelectionSound' /\ InterruptionSound'
  BY <1>1, SyncedSound DEF SearchInv, SelectionSound, InterruptionSound, listVars
<1>3. screen' \in Numbered /\ live' \in BOOLEAN
  <2>1. CASE interruption.target = "property_menu"
    <3>1. interruption.items \in Numbered
      BY <2>1 DEF SearchInv, TypeOK, ResumeSearch, Interruptions
    <3>. QED
      BY <2>1, <3>1 DEF ResumeSearch
  <2>2. CASE interruption.target # "property_menu"
    BY <2>2 DEF SearchInv, TypeOK, ResumeSearch
  <2>. QED
    BY <2>1, <2>2
<1>4. selected' \in Listing \cup {None}
  BY <1>1, SyncedSound
<1>5. TypeOK'
  BY <1>1, <1>3, <1>4, ListsTyped, Zenon DEF SearchInv, TypeOK
<1>. QED
  BY <1>1, <1>2, <1>5, ListsKept DEF SearchInv

LEMMA ForgetKept ==
    ASSUME SearchInv, ForgetSearch \/ UNCHANGED vars
    PROVE  SearchInv'
<1>1. /\ UNCHANGED <<display, listVars, selected, lastSelected, view, interruption, coverage,
                     refinement, booking, bookingOf, screen, live, asked>>
      /\ remembered' \in BOOLEAN
  BY Zenon DEF ForgetSearch, vars, bookingVars, guestVars, SearchInv, TypeOK
<1>2. SelectionSound' /\ InterruptionSound'
  BY <1>1 DEF SearchInv, SelectionSound, InterruptionSound, listVars
<1>3. TypeOK'
  BY <1>1, ListsTyped, ZenonT(60) DEF SearchInv, TypeOK
<1>. QED
  BY <1>1, <1>2, <1>3, ListsKept DEF SearchInv
-----------------------------------------------------------------------------
(* The invariants                                                            *)

LEMMA SearchInvInit == Init => SearchInv
<1>. SUFFICES ASSUME Init PROVE SearchInv
  OBVIOUS
<1>1. IsList(results) /\ DOMAIN results = {}
  BY ListingsCounted DEF Init, IsList, Distinct
<1>2. Excerpt(visible, results, pageSize)
  <2>1. IsFiniteSet({}) /\ Cardinality({}) = 0
    BY FS_EmptySet
  <2>2. DOMAIN visible = {} /\ visible = NoListings
    BY DEF Init, NoListings
  <2>. QED
    BY <2>1, <2>2, NothingNumbered DEF Init, Excerpt, Distinct
<1>3. DisplaySound
  BY <1>2, SessionAssumption DEF Init, DisplaySound, Displayed
<1>4. NoCoverage \in [stage : {"none", "city list", "city", "type"}, city : City \cup {None}]
  BY DEF NoCoverage
<1>5. TypeOK
  <2>1. /\ DOMAIN filters = {} /\ DOMAIN asked = {} /\ preference \in Preferences
        /\ page \in Nat \ {0} /\ pageSize \in Nat
    BY DEF Init, NoConstraints, Preferences
  <2>2. visible \in Numbered /\ options \in Numbered /\ screen \in Numbered
    BY NothingNumbered DEF Init
  <2>3. results \in Seq(Listing) /\ display \in Displays
    BY <1>1 DEF Init, IsList
  <2>4. coverage \in [stage : {"none", "city list", "city", "type"}, city : City \cup {None}]
    BY <1>4 DEF Init
  <2>. QED
    BY <2>1, <2>2, <2>3, <2>4 DEF Init, TypeOK, BookingStages, Views
<1>. QED
  BY <1>1, <1>3, <1>5 DEF Init, SearchInv, ListSound, SelectionSound, InterruptionSound

LEMMA SearchInvKept == SearchInv /\ [Next]_vars => SearchInv'
<1>. SUFFICES ASSUME SearchInv, [Next]_vars PROVE SearchInv'
  OBVIOUS
<1>1. CASE DirectSearch \/ SearchCovered \/ SearchType
  BY <1>1, SearchStored
<1>2. CASE LeaveRegion \/ AnswerCoverage \/ AskType \/ DropType
  BY <1>2, QuestionsKept
<1>3. CASE Paginate
  BY <1>3, PaginateKept
<1>4. CASE \E n \in DOMAIN options : SelectOption(n)
  BY <1>4, SelectKept
<1>5. CASE RejectProperty \/ Reselect
  BY <1>5, BackKept
<1>6. CASE StartBooking \/ CompleteDetails \/ ResumeBooking
  BY <1>6, BookingsKept
<1>7. CASE Confirm \/ ReselectByShortcut
  BY <1>7, ReviewKept
<1>8. CASE AskPolicy
  BY <1>8, PolicyKept
<1>9. CASE ResumeSearch
  BY <1>9, ResumeKept
<1>10. CASE ForgetSearch \/ UNCHANGED vars
  BY <1>10, ForgetKept
<1>. QED
  BY <1>1, <1>2, <1>3, <1>4, <1>5, <1>6, <1>7, <1>8, <1>9, <1>10, Zenon DEF Next

\* The inductive invariant: results meet their filters, what is on display is their page,
\* the selection is one of them and the interruption belongs to them.
THEOREM SearchInvariance == Spec => []SearchInv
<1>. QED
  BY SearchInvInit, SearchInvKept, PTL DEF Spec

\* The session's search state keeps its types, for every dataset and every message.
THEOREM SearchTypes == Spec => []TypeOK
<1>1. SearchInv => TypeOK
  BY DEF SearchInv
<1>. QED
  BY <1>1, SearchInvariance, PTL

\* What is on display is the page of the results that the session says it is, after any
\* searches, pages, rejections and expiries (agents/tools/search/core.py, pagination.py).
THEOREM WindowsCohere == Spec => []WindowCoherent
<1>1. SearchInv => WindowCoherent
  BY DEF SearchInv, DisplaySound, Displayed, Excerpt, WindowCoherent
<1>. QED
  BY <1>1, SearchInvariance, PTL

\* What the cue after a policy question would resume still belongs to the session's search
\* and selection (services/faq_interruption.py).
THEOREM ResumesCohere == Spec => []ResumeCoherent
<1>1. SearchInv => ResumeCoherent
  <2>. SUFFICES ASSUME SearchInv, interruption # None PROVE ResumeCoherent
    BY DEF ResumeCoherent
  <2>1. interruption \in Interruptions
    BY DEF SearchInv, TypeOK
  <2>2. interruption.target \in {"property_menu", "selected_property", "booking_flow"}
    BY <2>1 DEF Interruptions
  <2>3. CASE interruption.target = "property_menu"
    BY <2>3 DEF SearchInv, InterruptionSound, ResumeCoherent
  <2>4. CASE interruption.target = "selected_property"
    BY <2>4 DEF SearchInv, InterruptionSound, ResumeCoherent
  <2>5. CASE interruption.target = "booking_flow"
    BY <2>5 DEF SearchInv, InterruptionSound, ResumeCoherent
  <2>. QED
    BY <2>2, <2>3, <2>4, <2>5
<1>. QED
  BY <1>1, SearchInvariance, PTL

\* Rejecting a property brings back the listings it was selected from, none lost but those
\* beyond the largest page (agents/tools/search/pagination.py return_to_previous_results).
THEOREM RejectionsKeepWindow == Spec => RejectionKeepsWindow
<1>. DEFINE SameWindow == /\ ItemsOf(visible') \subseteq ItemsOf(visible)
                          /\ Cardinality(ItemsOf(visible)) <= MaxPageSize =>
                                ItemsOf(visible') = ItemsOf(visible)
                          /\ page' = page
<1>1. ASSUME SearchInv, [Next]_vars, selected # None, selected' = None, results' = results
      PROVE  SameWindow
  <2>1. CASE RejectProperty \/ Reselect
    <3>1. /\ visible' = (IF remembered THEN visible ELSE Renumbered(visible))
          /\ page' = page
      BY <2>1 DEF RejectProperty, Reselect, BackToResults, Returned
    <3>2. display \in Displays /\ pageSize \in Nat /\ Displayed(visible, results, page, pageSize)
      BY <1>1 DEF SearchInv, TypeOK, DisplaySound
    <3>3. ItemsOf(Renumbered(visible)) \subseteq ItemsOf(visible)
      BY <3>2, RenumberedExcerpt DEF Displayed
    <3>. QED
      BY <3>1, <3>2, <3>3, RenumberedKeepsPage
  <2>2. CASE DirectSearch \/ SearchCovered \/ SearchType
    <3>1. \E list, c, order : Stores(list, c, order)
      BY <1>1, <2>2, SearchSteps DEF SearchInv
    <3>2. selected' = SelectedAfter(results)
      BY <1>1, <3>1 DEF Stores, StoreResults
    <3>3. selected' # None
      BY <1>1, <3>2 DEF SearchInv, SelectionSound, SelectedAfter
    <3>. QED
      BY <1>1, <3>3
  <2>3. CASE Paginate \/ CompleteDetails \/ ResumeBooking \/ AskPolicy \/ ResumeSearch
    <3>1. selected' = Synced(results)
      BY <2>3, Zenon DEF Paginate, CompleteDetails, ResumeBooking, AskPolicy, ResumeSearch
    <3>. QED
      BY <1>1, <3>1 DEF Synced
  <2>4. ASSUME NEW n \in DOMAIN options, SelectOption(n) PROVE SameWindow
    <3>1. selected' = options[n] /\ options = visible
      BY <1>1, <2>4, Zenon DEF SelectOption, Chosen, SearchInv, DisplaySound
    <3>2. options[n] \in Listing
      <4>1. \E m \in DOMAIN results : results[m] = options[n]
        BY <1>1, <2>4, <3>1 DEF SearchInv, DisplaySound, Displayed, Excerpt
      <4>2. results \in Seq(Listing)
        BY <1>1 DEF SearchInv, TypeOK
      <4>. QED
        BY <4>1, <4>2
    <3>3. None \notin Listing
      BY ListingsCounted, ListingAssumption
    <3>. QED
      BY <1>1, <3>1, <3>2, <3>3
  <2>5. CASE StartBooking
    BY <1>1, <2>5 DEF StartBooking
  <2>6. CASE \/ LeaveRegion \/ AnswerCoverage \/ AskType \/ DropType
             \/ Confirm \/ ReselectByShortcut \/ ForgetSearch \/ UNCHANGED vars
    <3>1. selected' = selected
      BY <2>6, Zenon
         DEF LeaveRegion, AnswerCoverage, AskType, DropType, Confirm, ReselectByShortcut,
             ForgetSearch, vars
    <3>. QED
      BY <1>1, <3>1
  <2>. QED
    BY <1>1, <2>1, <2>2, <2>3, <2>4, <2>5, <2>6, Zenon DEF Next
<1>2. SearchInv /\ [Next]_vars =>
          [selected # None /\ selected' = None /\ results' = results => SameWindow]_vars
  BY <1>1
<1>. QED
  BY <1>2, SearchInvariance, PTL DEF Spec, RejectionKeepsWindow
-----------------------------------------------------------------------------
(* What was asked                                                            *)

\* The constraints read in a message search for what the guest means by it.  It holds of
\* the messages of the run, where FiltersAsAsked fails as soon as a reader is changed; of
\* everything a guest may write it is no fact, and the two theorems below rest on it.
ReadAsMeant == \A m \in Message : Searched(Extracted(m.words)) = Searched(m.meant)

FiltersSound == filters = Searched(asked)

AmenitiesOf(c) == IF "amenities" \in DOMAIN c THEN c["amenities"].value ELSE {}

\* What is searched for, field by field
LEMMA SearchedFields ==
    ASSUME NEW c
    PROVE  /\ DOMAIN Searched(c) =
                 {g \in DOMAIN c : g # "amenities" \/ AmenitiesOf(c) \cap KnownAmenities # {}}
           /\ \A f \in DOMAIN Searched(c) :
                 Searched(c)[f] =
                     IF f = "price_per_night" THEN AtMost(c[f].value)
                     ELSE IF f = "amenities" THEN Including(AmenitiesOf(c) \cap KnownAmenities)
                     ELSE c[f]
  BY DEF Searched, AmenitiesOf
LEMMA AmenitiesMerged ==
    ASSUME NEW old, NEW new
    PROVE  AmenitiesOf(Merged(old, new)) = AmenitiesOf(old) \cup AmenitiesOf(new)
  BY DEF AmenitiesOf, Merged, Including

LEMMA AmenitiesSearched ==
    ASSUME NEW c
    PROVE  AmenitiesOf(Searched(c)) = AmenitiesOf(c) \cap KnownAmenities
<1>1. CASE "amenities" \in DOMAIN Searched(c)
  <2>1. Searched(c)["amenities"] = Including(AmenitiesOf(c) \cap KnownAmenities)
    BY <1>1, SearchedFields
  <2>. QED
    BY <1>1, <2>1 DEF AmenitiesOf, Including
<1>2. CASE "amenities" \notin DOMAIN Searched(c)
  <2>1. AmenitiesOf(c) \cap KnownAmenities = {}
    BY <1>2, SearchedFields DEF AmenitiesOf
  <2>. QED
    BY <1>2, <2>1 DEF AmenitiesOf
<1>. QED
  BY <1>1, <1>2

LEMMA MergedFields ==
    ASSUME NEW old, NEW new
    PROVE  /\ DOMAIN Merged(old, new) = DOMAIN old \cup DOMAIN new
           /\ \A f \in DOMAIN Merged(old, new) :
                 f # "amenities" =>
                     Merged(old, new)[f] = IF f \in DOMAIN new THEN new[f] ELSE old[f]
  BY DEF Merged

\* A refinement of what is searched for is what is searched for of the refinement.
LEMMA MergedSearched ==
    ASSUME NEW had, NEW read, NEW meant, Searched(read) = Searched(meant)
    PROVE  Searched(Merged(Searched(had), read)) = Searched(Merged(had, meant))
<1>. DEFINE one   == Merged(Searched(had), read)
            other == Merged(had, meant)
<1>1. AmenitiesOf(read) \cap KnownAmenities = AmenitiesOf(meant) \cap KnownAmenities
  BY AmenitiesSearched
<1>2. AmenitiesOf(one) \cap KnownAmenities = AmenitiesOf(other) \cap KnownAmenities
  <2>1. AmenitiesOf(one) = (AmenitiesOf(had) \cap KnownAmenities) \cup AmenitiesOf(read)
    BY AmenitiesMerged, AmenitiesSearched
  <2>2. AmenitiesOf(other) = AmenitiesOf(had) \cup AmenitiesOf(meant)
    BY AmenitiesMerged
  <2>. HIDE DEF one, other
  <2>. QED
    BY <1>1, <2>1, <2>2
<1>3. \A f : f # "amenities" => (f \in DOMAIN read <=> f \in DOMAIN meant)
  BY SearchedFields
<1>4. \A f : f # "amenities" => (f \in DOMAIN one <=> f \in DOMAIN other)
  <2>1. DOMAIN one = DOMAIN Searched(had) \cup DOMAIN read
        /\ DOMAIN other = DOMAIN had \cup DOMAIN meant
    BY MergedFields
  <2>2. \A f : f # "amenities" => (f \in DOMAIN Searched(had) <=> f \in DOMAIN had)
    BY SearchedFields
  <2>. HIDE DEF one, other
  <2>. QED
    BY <1>3, <2>1, <2>2
<1>5. DOMAIN Searched(one) = DOMAIN Searched(other)
  <2>1. /\ AmenitiesOf(one) # {} => "amenities" \in DOMAIN one
        /\ AmenitiesOf(other) # {} => "amenities" \in DOMAIN other
    BY DEF AmenitiesOf
  <2>2. /\ DOMAIN Searched(one) =
              {g \in DOMAIN one : g # "amenities" \/ AmenitiesOf(one) \cap KnownAmenities # {}}
        /\ DOMAIN Searched(other) =
              {g \in DOMAIN other : g # "amenities" \/ AmenitiesOf(other) \cap KnownAmenities # {}}
    BY SearchedFields
  <2>. HIDE DEF one, other
  <2>. QED
    BY <1>2, <1>4, <2>1, <2>2
<1>6. ASSUME NEW f \in DOMAIN Searched(one)
      PROVE  Searched(one)[f] = Searched(other)[f]
  <2>1. f \in DOMAIN one /\ f \in DOMAIN other /\ f \in DOMAIN Searched(other)
    BY <1>5, SearchedFields
  <2>2. CASE f = "amenities"
    <3>1. /\ Searched(one)[f] = Including(AmenitiesOf(one) \cap KnownAmenities)
          /\ Searched(other)[f] = Including(AmenitiesOf(other) \cap KnownAmenities)
      BY <2>1, <2>2, SearchedFields
    <3>. HIDE DEF one, other
    <3>. QED
      BY <1>2, <3>1
  <2>3. CASE f # "amenities"
    <3>1. /\ one[f] = IF f \in DOMAIN read THEN read[f] ELSE Searched(had)[f]
          /\ other[f] = IF f \in DOMAIN meant THEN meant[f] ELSE had[f]
      <4>1. \A g \in DOMAIN one : g # "amenities" =>
                one[g] = IF g \in DOMAIN read THEN read[g] ELSE Searched(had)[g]
        BY MergedFields, Zenon
      <4>2. \A g \in DOMAIN other : g # "amenities" =>
                other[g] = IF g \in DOMAIN meant THEN meant[g] ELSE had[g]
        BY MergedFields, Zenon
      <4>. HIDE DEF one, other
      <4>. QED
        BY <2>1, <2>3, <4>1, <4>2
    <3>2. CASE f \in DOMAIN read
      <4>1. f \in DOMAIN Searched(read) /\ f \in DOMAIN Searched(meant) /\ f \in DOMAIN meant
        BY <1>3, <2>3, <3>2, SearchedFields
      <4>2. Searched(read)[f] = IF f = "price_per_night" THEN AtMost(read[f].value) ELSE read[f]
        BY <2>3, <4>1, SearchedFields
      <4>3. Searched(meant)[f] = IF f = "price_per_night" THEN AtMost(meant[f].value) ELSE meant[f]
        BY <2>3, <4>1, SearchedFields
      <4>4. /\ Searched(one)[f] = IF f = "price_per_night" THEN AtMost(read[f].value) ELSE read[f]
            /\ Searched(other)[f] = IF f = "price_per_night" THEN AtMost(meant[f].value) ELSE meant[f]
        BY <2>1, <2>3, <3>1, <3>2, <4>1, SearchedFields
      <4>. QED
        BY <4>2, <4>3, <4>4
    <3>3. CASE f \notin DOMAIN read
      <4>1. f \in DOMAIN Searched(had) /\ f \notin DOMAIN meant
        <5>1. DOMAIN one = DOMAIN Searched(had) \cup DOMAIN read
          BY MergedFields
        <5>. HIDE DEF one, other
        <5>. QED
          BY <1>3, <2>1, <2>3, <3>3, <5>1
      <4>2. Searched(had)[f] = IF f = "price_per_night" THEN AtMost(had[f].value) ELSE had[f]
        BY <2>3, <4>1, SearchedFields
      <4>3. one[f] = Searched(had)[f] /\ other[f] = had[f]
        BY <3>1, <3>3, <4>1
      <4>4. Searched(one)[f] = IF f = "price_per_night" THEN AtMost(one[f].value) ELSE one[f]
        BY <2>1, <2>3, SearchedFields
      <4>5. Searched(other)[f] = IF f = "price_per_night" THEN AtMost(other[f].value) ELSE other[f]
        BY <2>1, <2>3, SearchedFields
      <4>6. AtMost(AtMost(had[f].value).value) = AtMost(had[f].value)
        BY DEF AtMost
      <4>. HIDE DEF one, other
      <4>. QED
        BY <4>2, <4>3, <4>4, <4>5, <4>6
    <3>. QED
      BY <3>2, <3>3
  <2>. QED
    BY <2>2, <2>3
<1>7. /\ Searched(one) = [f \in DOMAIN Searched(one) |-> Searched(one)[f]]
      /\ Searched(other) = [f \in DOMAIN Searched(other) |-> Searched(other)[f]]
  BY DEF Searched
<1>. HIDE DEF one, other
<1>8. Searched(one) = Searched(other)
  BY <1>5, <1>6, <1>7
<1>. QED
  BY <1>8 DEF one, other

\* A search by city and type alone searches for what it is asked for.
LEMMA FreshFilters ==
    ASSUME NEW city, NEW type, FreshSearch(city, type)
    PROVE  FiltersSound'
<1>. DEFINE c == [f \in {"city", "property_type"} |-> Exact(IF f = "city" THEN city ELSE type)]
<1>1. Searched(c) = c
  BY DEF Searched
<1>. HIDE DEF c
<1>2. (\E found \in Found(c) : \E list \in Ranked(found, "none", {}) :
          StoreResults(list, c, "none")) /\ asked' = c
  BY Zenon DEF FreshSearch, c
<1>3. filters' = c
  BY <1>2, Zenon DEF StoreResults
<1>. QED
  BY <1>1, <1>2, <1>3 DEF FiltersSound

LEMMA FiltersKept == ReadAsMeant /\ FiltersSound /\ [Next]_vars => FiltersSound'
<1>. SUFFICES ASSUME ReadAsMeant, FiltersSound, [Next]_vars PROVE FiltersSound'
  OBVIOUS
<1>1. ASSUME UNCHANGED <<filters, asked>> PROVE FiltersSound'
  BY <1>1 DEF FiltersSound
<1>2. CASE DirectSearch
  <2>1. PICK m \in Message : \E plan \in {Planned(Reading[m])} :
            /\ SearchFor(plan.constraints,
                         IF plan.preference = "none" THEN preference ELSE plan.preference)
            /\ asked' = Merged(asked, m.meant)
    BY <1>2, Zenon DEF DirectSearch
  <2>. DEFINE read == Extracted(m.words)
  <2>2. filters' = Searched(Planned(Reading[m]).constraints) /\ asked' = Merged(asked, m.meant)
    BY <2>1, Zenon DEF SearchFor, StoreResults
  <2>3. Planned(Reading[m]).constraints = Merged(filters, read)
    BY PlansRefine
  <2>. HIDE DEF read
  <2>4. Searched(read) = Searched(m.meant) /\ filters = Searched(asked)
    BY DEF ReadAsMeant, FiltersSound, read
  <2>5. Searched(Merged(Searched(asked), read)) = Searched(Merged(asked, m.meant))
    BY <2>4, MergedSearched
  <2>. QED
    BY <2>2, <2>3, <2>4, <2>5 DEF FiltersSound
<1>3. CASE SearchCovered \/ SearchType
  BY <1>3, FreshFilters, Zenon DEF SearchCovered, SearchType
<1>4. CASE LeaveRegion \/ AnswerCoverage \/ AskType \/ DropType
  BY <1>1, <1>4, Zenon DEF LeaveRegion, AnswerCoverage, AskType, DropType, listVars, guestVars
<1>5. CASE Paginate
  BY <1>1, <1>5, Zenon DEF Paginate
<1>6. ASSUME NEW n, SelectOption(n) PROVE FiltersSound'
  BY <1>1, <1>6, Zenon DEF SelectOption, listVars, guestVars
<1>7. CASE RejectProperty \/ Reselect
  BY <1>1, <1>7, Zenon DEF RejectProperty, Reselect, BackToResults
<1>8. CASE StartBooking \/ CompleteDetails \/ Confirm \/ ReselectByShortcut \/ ResumeBooking
  BY <1>1, <1>8, Zenon
     DEF StartBooking, CompleteDetails, Confirm, ReselectByShortcut, ResumeBooking, listVars, guestVars
<1>9. CASE AskPolicy \/ ResumeSearch \/ ForgetSearch \/ UNCHANGED vars
  BY <1>1, <1>9, Zenon DEF AskPolicy, ResumeSearch, ForgetSearch, vars, listVars, guestVars
<1>. QED
  BY <1>2, <1>3, <1>4, <1>5, <1>6, <1>7, <1>8, <1>9, Zenon DEF Next

\* If every message is read as it is meant, the filters of the session are what the guest
\* has asked for since the last new search, over however many messages
\* (services/search_planner.py plan_search, agents/tools/search).
THEOREM FiltersStayAsAsked == ASSUME ReadAsMeant PROVE Spec => []FiltersAsAsked
<1>1. Init => FiltersSound
  BY DEF Init, FiltersSound, Searched, NoConstraints
<1>2. FiltersSound /\ [Next]_vars => FiltersSound'
  BY FiltersKept
<1>3. FiltersSound => FiltersAsAsked
  BY DEF FiltersSound, FiltersAsAsked
<1>. QED
  BY <1>1, <1>2, <1>3, PTL DEF Spec

\* If every message is read as it is meant, every listing the session offers meets
\* everything the guest has asked for, through either backend (services/search_planner.py,
\* agents/tools/search).
THEOREM ResultsStayMatched == ASSUME ReadAsMeant PROVE Spec => []ResultsMatch
<1>1. Init => FiltersSound
  BY DEF Init, FiltersSound, Searched, NoConstraints
<1>2. FiltersSound /\ [Next]_vars => FiltersSound'
  BY FiltersKept
<1>3. SearchInv /\ FiltersSound => ResultsMatch
  <2>. SUFFICES ASSUME SearchInv, FiltersSound, NEW n \in DOMAIN results, NEW f \in DOMAIN asked,
                       f # "price_per_night" \/ asked[f].operator = "max"
                PROVE  Meets(Listings[results[n]], f,
                             IF f = "amenities" THEN Including(asked[f].value \cap KnownAmenities)
                             ELSE asked[f])
    BY DEF ResultsMatch
  <2>1. \A g \in DOMAIN Searched(asked) : Meets(Listings[results[n]], g, Searched(asked)[g])
    BY DEF SearchInv, ListSound, FiltersSound, MatchesHardFilters
  <2>2. CASE f = "price_per_night"
    <3>1. f \in DOMAIN Searched(asked) /\ Searched(asked)[f] = AtMost(asked[f].value)
      BY <2>2, SearchedFields
    <3>2. Meets(Listings[results[n]], f, AtMost(asked[f].value))
      BY <2>1, <3>1
    <3>. QED
      BY <2>2, <3>2 DEF Meets, AtMost
  <2>3. CASE f = "amenities" /\ f \in DOMAIN Searched(asked)
    <3>1. Searched(asked)[f] = Including(asked[f].value \cap KnownAmenities)
      BY <2>3, SearchedFields DEF AmenitiesOf
    <3>. QED
      BY <2>1, <2>3, <3>1
  <2>4. CASE f = "amenities" /\ f \notin DOMAIN Searched(asked)
    <3>1. asked[f].value \cap KnownAmenities = {}
      BY <2>4, SearchedFields DEF AmenitiesOf
    <3>. QED
      BY <2>4, <3>1 DEF Meets, Including
  <2>5. CASE f \notin {"amenities", "price_per_night"}
    <3>1. f \in DOMAIN Searched(asked) /\ Searched(asked)[f] = asked[f]
      BY <2>5, SearchedFields
    <3>. QED
      BY <2>1, <2>5, <3>1
  <2>. QED
    BY <2>2, <2>3, <2>4, <2>5
<1>. QED
  BY <1>1, <1>2, <1>3, SearchInvariance, PTL DEF Spec
-----------------------------------------------------------------------------
(* What the handlers see of the session                                      *)

LEMMA LeastNatural ==
    ASSUME NEW T, T \subseteq Nat, T # {}
    PROVE  \E x \in T : \A y \in T : x <= y
<1>. DEFINE R == {ss \in Nat \X Nat : ss[1] < ss[2]}
<1>1. IsWellFoundedOn(R, Nat)
  BY NatLessThanWellFounded DEF OpToRel
<1>. HIDE DEF R
<1>2. PICK x \in T : \A y \in T : ~(<<y, x>> \in R)
  BY <1>1, WFMin
<1>3. \A y \in T : ~(y < x)
  BY <1>2 DEF R
<1>. QED
  BY <1>3

\* Of some listings one comes before no other: the gateway, which cuts its answer, leaves
\* something of it.
LEMMA FirstByPrice ==
    ASSUME NEW rows \in SUBSET Listing, rows # {}
    PROVE  \E i \in rows : {j \in rows : PriceFirst(j, i)} = {}
<1>. DEFINE ahead(i) == {j \in rows : PriceFirst(j, i)}
            rank(i)  == Cardinality(ahead(i))
<1>1. \A i \in rows : /\ Listings[i].price_per_night \in Nat /\ Listings[i].rating \in Nat
                      /\ i \in Nat
  <2>. SUFFICES ASSUME NEW i \in rows
                PROVE  /\ Listings[i].price_per_night \in Nat /\ Listings[i].rating \in Nat
                       /\ i \in Nat
    OBVIOUS
  <2>1. Listings \in Seq(Row) /\ i \in DOMAIN Listings
    BY ListingAssumption DEF Listing
  <2>2. Listings[i] \in Row /\ i \in Nat
    BY <2>1
  <2>. QED
    BY <2>2 DEF Row
<1>2. IsFiniteSet(rows)
  BY ListingsCounted, FS_Subset
<1>3. \A i \in rows : IsFiniteSet(ahead(i)) /\ rank(i) \in Nat
  BY <1>2, FS_Subset, FS_CardinalityType
<1>4. PICK i \in rows : \A j \in rows : rank(i) <= rank(j)
  <2>. DEFINE T == {rank(j) : j \in rows}
  <2>1. T \subseteq Nat /\ T # {}
    BY <1>3
  <2>. HIDE DEF T
  <2>2. PICK least \in T : \A x \in T : least <= x
    BY <2>1, LeastNatural
  <2>. QED
    BY <2>2 DEF T
<1>5. ASSUME NEW j \in ahead(i) PROVE FALSE
  <2>1. \A k \in rows : PriceFirst(k, j) => PriceFirst(k, i)
    BY <1>1, <1>5 DEF PriceFirst
  <2>2. ~PriceFirst(j, j)
    BY <1>1, <1>5 DEF PriceFirst
  <2>3. ahead(j) \subseteq ahead(i) /\ ahead(j) # ahead(i)
    BY <1>5, <2>1, <2>2
  <2>4. rank(j) < rank(i)
    BY <1>3, <1>5, <2>3, FS_Subset
  <2>. QED
    BY <1>3, <1>4, <1>5, <2>4
<1>. QED
  BY <1>5

\* A list of something found is not empty.
LEMMA SomethingListed ==
    ASSUME NEW c, NEW found \in Found(c), found # {}, NEW order, NEW soft,
           NEW list \in Ranked(found, order, soft)
    PROVE  list # << >>
<1>1. \A rows : rows \subseteq Listing /\ rows # {} => \A l \in SetToSeqs(rows) : 1 \in DOMAIN l
  <2>. SUFFICES ASSUME NEW rows, rows \subseteq Listing, rows # {}, NEW l \in SetToSeqs(rows)
                PROVE  1 \in DOMAIN l
    OBVIOUS
  <2>1. IsFiniteSet(rows)
    BY ListingsCounted, FS_Subset
  <2>2. Cardinality(rows) \in Nat /\ Cardinality(rows) # 0
    BY <2>1, FS_CardinalityType, FS_EmptySet
  <2>3. DOMAIN l = 1..Cardinality(rows)
    BY DEF SetToSeqs
  <2>. QED
    BY <2>2, <2>3
<1>2. found \subseteq Listing
  BY DEF Found, PythonSearch, RustSearch, Enforced, BackendMatches
<1>3. CASE list \in Sorted(found, order)
  BY <1>1, <1>2, <1>3 DEF Sorted
<1>4. CASE list \notin Sorted(found, order)
  <2>1. PICK base \in Sorted(found, order) : list \in Reranked(base)
    BY <1>4 DEF Ranked
  <2>2. base \in SetToSeqs(found) /\ base \in [1..Cardinality(found) -> found]
    BY <2>1 DEF Sorted, SetToSeqs
  <2>3. 1 \in DOMAIN base
    BY <1>1, <1>2, <2>2
  <2>4. ToSet(base) \subseteq Listing /\ ToSet(base) # {}
    BY <1>2, <2>2, <2>3 DEF ToSet
  <2>. QED
    BY <1>1, <2>1, <2>4 DEF Reranked
<1>. QED
  BY <1>3, <1>4

\* A city that has listings of a type is never searched in vain for that type, whichever
\* backend answers.
LEMMA FreshFinds ==
    ASSUME NEW city, NEW type \in TypesIn(city), NEW c,
           c = [f \in {"city", "property_type"} |-> Exact(IF f = "city" THEN city ELSE type)],
           NEW found \in Found(c)
    PROVE  found # {}
<1>1. PICK i \in Listing : Listings[i].city = city /\ Listings[i].property_type = type
  BY DEF TypesIn
<1>2. /\ DOMAIN c = {"city", "property_type"}
      /\ c["city"] = Exact(city) /\ c["property_type"] = Exact(type)
  OBVIOUS
<1>3. \A j \in Listing : \A f \in DOMAIN c : Meets(Listings[j], f, c[f]) <=> Listings[j][f] = c[f].value
  <2>. SUFFICES ASSUME NEW j \in Listing, NEW f \in DOMAIN c
                PROVE  Meets(Listings[j], f, c[f]) <=> Listings[j][f] = c[f].value
    OBVIOUS
  <2>1. c[f].operator = "exact" /\ f # "occupancy_max"
    BY <1>2 DEF Exact
  <2>. QED
    BY <2>1 DEF Meets
<1>4. \A j \in BackendMatches(c) : MatchesHardFilters(j, c)
  BY <1>2 DEF BackendMatches, MatchesHardFilters
<1>5. i \in BackendMatches(c)
  <2>1. \A f \in DOMAIN c : Meets(Listings[i], f, c[f])
    BY <1>1, <1>2, <1>3 DEF Exact
  <2>. QED
    BY <1>2, <2>1 DEF BackendMatches
<1>6. CASE found = PythonSearch(c)
  BY <1>4, <1>5, <1>6 DEF PythonSearch, Enforced
<1>7. CASE found = RustSearch(c)
  <2>. DEFINE matches == BackendMatches(c)
  <2>1. PICK k \in matches : {j \in matches : PriceFirst(j, k)} = {}
    <3>1. matches \in SUBSET Listing
      BY DEF BackendMatches
    <3>. QED
      BY <1>5, <3>1, FirstByPrice
  <2>2. Cardinality({j \in matches : PriceFirst(j, k)}) < ResultLimit
    <3>. DEFINE ahead == {j \in matches : PriceFirst(j, k)}
    <3>1. ahead = {}
      BY <2>1
    <3>. HIDE DEF ahead
    <3>2. Cardinality(ahead) = 0
      BY <3>1, FS_EmptySet
    <3>. QED
      BY <3>2, ListingAssumption DEF ahead
  <2>3. found = Enforced({j \in matches : Cardinality({l \in matches : PriceFirst(l, j)}) < ResultLimit}, c)
    BY <1>2, <1>7 DEF RustSearch
  <2>4. k \in found
    BY <1>4, <2>1, <2>2, <2>3 DEF Enforced
  <2>. QED
    BY <2>4
<1>. QED
  BY <1>6, <1>7 DEF Found

\* A search leaves results and a city among the filters.
LEMMA FreshLeaves ==
    ASSUME NEW city, NEW type \in TypesIn(city), FreshSearch(city, type)
    PROVE  results' # << >> /\ "city" \in DOMAIN filters' /\ view' = "property_list"
<1>. DEFINE c == [f \in {"city", "property_type"} |-> Exact(IF f = "city" THEN city ELSE type)]
<1>1. "city" \in DOMAIN c
  OBVIOUS
<1>2. \A found \in Found(c) : found # {}
  BY FreshFinds
<1>. HIDE DEF c
<1>3. PICK found \in Found(c) : \E list \in Ranked(found, "none", {}) :
          StoreResults(list, c, "none")
  BY Zenon DEF FreshSearch, c
<1>4. PICK list \in Ranked(found, "none", {}) : StoreResults(list, c, "none")
  BY <1>3
<1>. QED
  BY <1>1, <1>2, <1>4, SomethingListed DEF StoreResults

LEMMA SearchLeaves ==
    ASSUME DirectSearch \/ SearchCovered \/ SearchType
    PROVE  results' # << >> /\ "city" \in DOMAIN filters' /\ view' = "property_list"
<1>1. ASSUME NEW wanted, NEW order, SearchFor(wanted, order)
      PROVE  results' # << >> /\ "city" \in DOMAIN filters' /\ view' = "property_list"
  <2>1. "city" \in DOMAIN Searched(wanted)
    BY <1>1 DEF SearchFor, Searched
  <2>2. PICK found \in Found(Searched(wanted)) \ {{}} :
            \E list \in Ranked(found, order, SoftTerms(wanted)) :
                StoreResults(list, Searched(wanted), order)
    BY <1>1 DEF SearchFor
  <2>3. PICK list \in Ranked(found, order, SoftTerms(wanted)) :
            StoreResults(list, Searched(wanted), order)
    BY <2>2
  <2>4. list # << >>
    BY <2>2, <2>3, SomethingListed
  <2>. QED
    BY <2>1, <2>3, <2>4 DEF StoreResults
<1>2. CASE DirectSearch
  BY <1>1, <1>2, Zenon DEF DirectSearch
<1>3. CASE SearchCovered
  BY <1>3, FreshLeaves DEF SearchCovered
<1>4. CASE SearchType
  BY <1>4, FreshLeaves DEF SearchType
<1>. QED
  BY <1>2, <1>3, <1>4
-----------------------------------------------------------------------------
(* The keys that are held together                                           *)

\* Before anything was found there is nothing else either; afterwards there is a city
\* to search in and something on display.
FoundSound ==
    IF results = << >>
    THEN /\ filters = NoConstraints /\ view = "none"
         /\ lastSelected = None /\ booking = "none"
         /\ refinement = FALSE /\ interruption = None
    ELSE "city" \in DOMAIN filters /\ view # "none"

\* A booking is of a property that was selected, and so are the details on display, which
\* leave no booking open whose details are asked for.
ViewSound ==
    /\ booking # "none" \/ view = "property_details" => lastSelected # None
    /\ view = "property_details" => booking # "collecting_details"
    /\ view \in {"booking", "receipt"} => booking # "none"
    /\ view = "receipt" => booking = "confirmed"

KeysSound == FoundSound /\ ViewSound /\ coverage \in CoverageStates

LEMMA SomethingDisplayed ==
    ASSUME SearchInv
    PROVE  /\ results # << >> <=> visible # NoListings
           /\ options = visible
<1>1. results = << >> => visible = NoListings
  <2>. SUFFICES ASSUME results = << >> PROVE visible = NoListings
    OBVIOUS
  <2>1. \A n \in DOMAIN visible : \E m \in DOMAIN results : results[m] = visible[n]
    BY DEF SearchInv, DisplaySound, Displayed, Excerpt
  <2>2. DOMAIN visible = {}
    BY <2>1
  <2>3. visible \in Numbered
    BY DEF SearchInv, TypeOK
  <2>4. PICK span \in Spans : visible \in [span -> Listing]
    BY <2>3 DEF Numbered
  <2>5. visible = [n \in {} |-> visible[n]]
    BY <2>2, <2>4
  <2>. QED
    BY <2>5 DEF NoListings
<1>2. results # << >> => visible # NoListings
  BY DEF SearchInv, DisplaySound, Displayed, Excerpt
<1>. QED
  BY <1>1, <1>2 DEF SearchInv, DisplaySound

LEMMA KeysInit == Init => KeysSound
  BY DEF Init, KeysSound, FoundSound, ViewSound, CoverageStates, NoCoverage

LEMMA KeysSearched ==
    ASSUME SearchInv, KeysSound, DirectSearch \/ SearchCovered \/ SearchType
    PROVE  KeysSound'
<1>1. results' # << >> /\ "city" \in DOMAIN filters' /\ view' = "property_list"
  BY SearchLeaves
<1>2. UNCHANGED <<lastSelected, booking>> /\ coverage' \in {coverage, NoCoverage}
  BY SearchSteps DEF SearchInv
<1>. QED
  BY <1>1, <1>2 DEF KeysSound, FoundSound, ViewSound, CoverageStates, NoCoverage

\* An open question, and the city it is about once that was named
CoverageAsked(stage) == [stage |-> stage, city |-> None]

LEMMA CoverageIs ==
    \A x : x \in CoverageStates <=>
        \/ \E stage \in {"none", "city list", "city"} : x = CoverageAsked(stage)
        \/ \E c \in CitiesAvailable : x = [stage |-> "type", city |-> c]
<1>1. \A x : x \in [stage : {"type"}, city : CitiesAvailable] <=>
            \E c \in CitiesAvailable : x = [stage |-> "type", city |-> c]
  <2>1. ASSUME NEW x \in [stage : {"type"}, city : CitiesAvailable]
        PROVE  x = [stage |-> "type", city |-> x.city] /\ x.city \in CitiesAvailable
    OBVIOUS
  <2>2. \A c \in CitiesAvailable :
            [stage |-> "type", city |-> c] \in [stage : {"type"}, city : CitiesAvailable]
    OBVIOUS
  <2>. QED
    BY <2>1, <2>2
<1>2. \A x : x \in {[stage |-> stage, city |-> None] : stage \in {"none", "city list", "city"}}
            <=> \E stage \in {"none", "city list", "city"} : x = CoverageAsked(stage)
  BY DEF CoverageAsked
<1>. QED
  BY <1>1, <1>2, Zenon DEF CoverageStates

LEMMA StageAsked ==
    ASSUME NEW x \in CoverageStates, x.stage # "type"
    PROVE  x = CoverageAsked(x.stage)
<1>1. ASSUME NEW stage, x = CoverageAsked(stage) PROVE x = CoverageAsked(x.stage)
  <2>1. x.stage = stage
    BY <1>1 DEF CoverageAsked
  <2>. QED
    BY <1>1, <2>1
<1>2. ~\E c \in CitiesAvailable : x = [stage |-> "type", city |-> c]
  OBVIOUS
<1>. QED
  BY <1>1, <1>2, CoverageIs, Zenon

LEMMA KeysQuestioned ==
    ASSUME KeysSound, LeaveRegion \/ AnswerCoverage \/ AskType \/ DropType
    PROVE  KeysSound'
<1>1. UNCHANGED <<listVars, lastSelected, view, interruption, booking>>
  BY Zenon DEF LeaveRegion, AnswerCoverage, AskType, DropType, bookingVars
<1>2. ViewSound'
  BY <1>1 DEF KeysSound, ViewSound, listVars
<1>3. FoundSound'
  <2>1. AskType => results # << >>
    BY DEF AskType, SearchCity, KeysSound, FoundSound, NoConstraints
  <2>2. ~AskType => refinement' \in {refinement, FALSE}
    BY DEF LeaveRegion, AnswerCoverage, DropType
  <2>. QED
    BY <1>1, <2>1, <2>2 DEF KeysSound, FoundSound, listVars
<1>4. coverage' \in CoverageStates
  <2>1. coverage \in CoverageStates
    BY DEF KeysSound
  <2>2. CASE LeaveRegion
    <3>1. coverage = CoverageAsked("none")
      BY <2>1, <2>2, StageAsked DEF LeaveRegion, Unclaimed
    <3>2. coverage' = CoverageAsked("city list")
      BY <2>2, <3>1 DEF LeaveRegion, CoverageAsked
    <3>. QED
      BY <3>2, CoverageIs
  <2>3. CASE AnswerCoverage
    <3>1. CASE coverage.stage = "city list" /\ coverage' = [coverage EXCEPT !.stage = "city"]
      <4>1. coverage = CoverageAsked("city list")
        BY <2>1, <3>1, StageAsked
      <4>2. coverage' = CoverageAsked("city")
        BY <3>1, <4>1 DEF CoverageAsked
      <4>. QED
        BY <4>2, CoverageIs
    <3>2. CASE \E c \in CitiesAvailable : coverage' = [stage |-> "type", city |-> c]
      BY <3>2, CoverageIs
    <3>3. CASE coverage' = NoCoverage
      BY <3>3, CoverageIs DEF CoverageAsked, NoCoverage
    <3>. QED
      BY <2>3, <3>1, <3>2, <3>3 DEF AnswerCoverage
  <2>4. CASE AskType \/ DropType
    BY <2>1, <2>4 DEF AskType, DropType
  <2>. QED
    BY <2>2, <2>3, <2>4
<1>. QED
  BY <1>2, <1>3, <1>4 DEF KeysSound

LEMMA KeysDisplayed ==
    ASSUME SearchInv, KeysSound, SearchInv',
           Paginate \/ (\E n \in DOMAIN options : SelectOption(n)) \/ RejectProperty \/ Reselect
    PROVE  KeysSound'
<1>1. CASE Paginate
  <2>1. /\ UNCHANGED <<results, filters, lastSelected, view, interruption, coverage, refinement,
                       booking>>
    BY <1>1, Zenon DEF Paginate, bookingVars
  <2>. QED
    BY <2>1 DEF KeysSound, FoundSound, ViewSound
<1>2. CASE \E n \in DOMAIN options : SelectOption(n)
  <2>. PICK n \in DOMAIN options : SelectOption(n)
    BY <1>2
  <2>1. /\ UNCHANGED <<results, filters, options, coverage, refinement, booking>>
        /\ lastSelected' = options[n] /\ view' = "property_details" /\ interruption' = None
        /\ ~ActiveSession \/ booking = "awaiting_property_reselection"
    BY Zenon DEF SelectOption, Chosen, listVars, bookingVars
  <2>2. options # NoListings
    BY DEF NoListings
  <2>3. results # << >> /\ options[n] # None
    <3>1. results # << >> /\ options \in Numbered
      BY <2>2, SomethingDisplayed DEF SearchInv, TypeOK
    <3>2. PICK span \in Spans : options \in [span -> Listing]
      BY <3>1 DEF Numbered
    <3>3. options[n] \in Nat
      BY <3>2, ListingAssumption DEF Listing
    <3>. QED
      BY <3>1, <3>3, ListingAssumption
  <2>. QED
    BY <2>1, <2>2, <2>3 DEF KeysSound, FoundSound, ViewSound, ActiveSession
<1>3. CASE RejectProperty \/ Reselect
  <2>1. /\ UNCHANGED <<results, filters, lastSelected, coverage, refinement>>
        /\ view' = "property_list" /\ interruption' = None
        /\ booking' = "none" <=> booking = "none"
    BY <1>3, Zenon DEF RejectProperty, Reselect, BackToResults, bookingVars
  <2>2. results # << >>
    BY <1>3 DEF RejectProperty, Reselect, KeysSound, FoundSound
  <2>. QED
    BY <2>1, <2>2 DEF KeysSound, FoundSound, ViewSound
<1>. QED
  BY <1>1, <1>2, <1>3

LEMMA KeysBooked ==
    ASSUME SearchInv, KeysSound,
           StartBooking \/ CompleteDetails \/ Confirm \/ ReselectByShortcut \/ ResumeBooking
    PROVE  KeysSound'
<1>1. UNCHANGED <<results, filters, options, lastSelected, coverage, refinement>>
  BY Zenon DEF StartBooking, CompleteDetails, Confirm, ReselectByShortcut, ResumeBooking, listVars
<1>2. results # << >> /\ lastSelected # None
  BY DEF StartBooking, CompleteDetails, Confirm, ReselectByShortcut, ResumeBooking, ActiveSession,
         KeysSound, FoundSound, ViewSound
<1>3. booking' # "none" /\ view' # "none"
  BY <1>2 DEF StartBooking, CompleteDetails, Confirm, ReselectByShortcut, ResumeBooking, Resumed,
              ActiveSession, KeysSound, FoundSound
<1>4. ViewSound'
  BY <1>1, <1>2, <1>3
     DEF StartBooking, CompleteDetails, Confirm, ReselectByShortcut, ResumeBooking, Resumed,
         ActiveSession, KeysSound, ViewSound
<1>. QED
  BY <1>1, <1>2, <1>3, <1>4 DEF KeysSound, FoundSound

LEMMA KeysInterrupted ==
    ASSUME SearchInv, KeysSound,
           AskPolicy \/ ResumeSearch \/ ForgetSearch \/ UNCHANGED vars
    PROVE  KeysSound'
<1>1. UNCHANGED <<results, filters, options, lastSelected, view, coverage, refinement, booking>>
  BY Zenon DEF AskPolicy, ResumeSearch, ForgetSearch, vars, listVars, bookingVars
<1>2. interruption' \in {interruption, None, Captured}
  BY DEF AskPolicy, ResumeSearch, ForgetSearch, vars
<1>3. results = << >> => Captured = None
  <2>. SUFFICES ASSUME results = << >> PROVE Captured = None
    OBVIOUS
  <2>1. booking = "none" /\ view = "none" /\ visible = NoListings
    BY SomethingDisplayed DEF KeysSound, FoundSound
  <2>2. Synced(results) = None
    BY <2>1, SyncedSound DEF SearchInv, SelectionSound
  <2>. QED
    BY <2>1, <2>2 DEF Captured
<1>. QED
  BY <1>1, <1>2, <1>3 DEF KeysSound, FoundSound, ViewSound

LEMMA KeysKept == SearchInv /\ KeysSound /\ [Next]_vars => KeysSound'
<1>. SUFFICES ASSUME SearchInv, KeysSound, [Next]_vars PROVE KeysSound'
  OBVIOUS
<1>0. SearchInv'
  BY SearchInvKept
<1>1. CASE DirectSearch \/ SearchCovered \/ SearchType
  BY <1>1, KeysSearched
<1>2. CASE LeaveRegion \/ AnswerCoverage \/ AskType \/ DropType
  BY <1>2, KeysQuestioned
<1>3. CASE Paginate \/ (\E n \in DOMAIN options : SelectOption(n)) \/ RejectProperty \/ Reselect
  BY <1>0, <1>3, KeysDisplayed
<1>4. CASE StartBooking \/ CompleteDetails \/ Confirm \/ ReselectByShortcut \/ ResumeBooking
  BY <1>4, KeysBooked
<1>5. CASE AskPolicy \/ ResumeSearch \/ ForgetSearch \/ UNCHANGED vars
  BY <1>5, KeysInterrupted
<1>. QED
  BY <1>1, <1>2, <1>3, <1>4, <1>5, Zenon DEF Next

\* The keys of the session come in the groups that the handlers look for.
LEMMA HeldTogether ==
    ASSUME SearchInv, KeysSound
    PROVE  HeldKeys = (IF results # << >> THEN ListKeys \cup OptionKeys ELSE {})
                      \cup (IF lastSelected # None THEN ChosenKeys ELSE {})
                      \cup (IF booking = "none" THEN {}
                            ELSE IF booking = "awaiting_confirmation" THEN StartKeys \cup ReviewKey
                            ELSE StartKeys)
<1>1. /\ visible # NoListings <=> results # << >>
      /\ options # NoListings <=> results # << >>
      /\ "city" \in DOMAIN filters <=> results # << >>
      /\ bookingOf # None <=> booking # "none"
  BY SomethingDisplayed DEF KeysSound, FoundSound, NoConstraints, SearchInv, SelectionSound
<1>2. CASE results = << >>
  <2>1. lastSelected = None /\ booking = "none"
    BY <1>2 DEF KeysSound, FoundSound
  <2>. QED
    BY <1>1, <1>2, <2>1 DEF HeldKeys
<1>3. CASE results # << >>
  <2>1. {k \in {"all_search_results"} : results # << >>}
        \cup {k \in {"visible_results"} : visible # NoListings}
        \cup {k \in {"city"} : "city" \in DOMAIN filters} = ListKeys
    BY <1>1, <1>3 DEF ListKeys
  <2>2. {k \in {"booking_stage"} : booking # "none"}
        \cup {k \in {"booking_property_id"} : bookingOf # None}
        = IF booking = "none" THEN {} ELSE StartKeys
    BY <1>1 DEF StartKeys
  <2>3. {k \in ReviewKey : booking = "awaiting_confirmation"}
        = IF booking = "awaiting_confirmation" THEN ReviewKey ELSE {}
    OBVIOUS
  <2>4. /\ {k \in OptionKeys : options # NoListings} = OptionKeys
        /\ {k \in ChosenKeys : lastSelected # None} = IF lastSelected # None THEN ChosenKeys ELSE {}
    BY <1>1, <1>3
  <2>. QED
    BY <1>3, <2>1, <2>2, <2>3, <2>4 DEF HeldKeys
<1>. QED
  BY <1>2, <1>3

LEMMA StateSeen ==
    ASSUME SearchInv, KeysSound
    PROVE  SoftState \in SoftStates
<1>. DEFINE s == SoftState
            found  == IF results # << >> THEN ListKeys \cup OptionKeys ELSE {}
            chosen == IF lastSelected # None THEN ChosenKeys ELSE {}
            booked == IF booking = "none" THEN {}
                      ELSE IF booking = "awaiting_confirmation" THEN StartKeys \cup ReviewKey
                      ELSE StartKeys
<1>1. /\ s.held = found \cup chosen \cup booked
      /\ s.values = Viewed(view, booking) /\ s.coverage = coverage /\ s.refinement = refinement
      /\ s.resumes = IF interruption = None THEN None ELSE interruption.target
  BY HeldTogether DEF SoftState
<1>2. View(s) = view /\ Stage(s) = booking
  BY <1>1 DEF View, Stage, Viewed
<1>3. /\ view \in Views /\ booking \in BookingStages /\ refinement \in BOOLEAN
      /\ interruption \in Interruptions \cup {None}
  BY DEF SearchInv, TypeOK
<1>4. s.resumes \in {None} \cup Targets
  BY <1>1, <1>3 DEF Interruptions, Targets
<1>5. s.held \in KeySets
  <2>1. /\ found \in {{}, ListKeys \cup OptionKeys} /\ chosen \in {{}, ChosenKeys}
        /\ booked \in {{}, StartKeys, StartKeys \cup ReviewKey}
    OBVIOUS
  <2>. HIDE DEF found, chosen, booked, s
  <2>. QED
    BY <1>1, <2>1 DEF KeySets
<1>6. s.resumes \in Targets =>
          /\ interruption # None /\ s.resumes = interruption.target
          /\ results # << >>
  BY <1>1, NoTarget DEF KeysSound, FoundSound
<1>7. /\ ListKeys \subseteq s.held <=> results # << >>
      /\ StartKeys \subseteq s.held <=> booking # "none"
      /\ ReviewKey \subseteq s.held <=> booking = "awaiting_confirmation"
      /\ ChosenKeys \subseteq s.held <=> lastSelected # None
  <2>1. \A k : k \in s.held <=> \/ k \in ListKeys /\ results # << >>
                                \/ k \in OptionKeys /\ results # << >>
                                \/ k \in ChosenKeys /\ lastSelected # None
                                \/ k \in StartKeys /\ booking # "none"
                                \/ k \in ReviewKey /\ booking = "awaiting_confirmation"
    BY <1>1
  <2>. HIDE DEF s
  <2>. QED
    BY <2>1 DEF ListKeys, OptionKeys, ChosenKeys, StartKeys, ReviewKey
<1>8. results = << >> => s.held = {}
  BY <1>1 DEF KeysSound, FoundSound
<1>. HIDE DEF s, found, chosen, booked
<1>9. Coherent(s)
  <2>1. /\ ListKeys \subseteq s.held \/ (s.held = {} /\ view = "none" /\ ~s.refinement)
        /\ view = "none" => s.held = {}
    BY <1>1, <1>7, <1>8 DEF KeysSound, FoundSound
  <2>2. /\ booking # "none" \/ view = "property_details" => ChosenKeys \subseteq s.held
        /\ view = "property_details" => booking # "collecting_details"
        /\ view \in {"booking", "receipt"} => booking # "none"
        /\ view = "receipt" => booking = "confirmed"
    BY <1>7 DEF KeysSound, ViewSound
  <2>3. /\ s.resumes = "booking_flow" => booking # "none"
        /\ s.resumes = "property_menu" => booking = "none" /\ s.held # {}
        /\ s.resumes = "selected_property" => booking = "none" /\ view = "property_details"
    BY <1>6, <1>7 DEF SearchInv, InterruptionSound, Targets, ListKeys
  <2>. QED
    BY <1>2, <1>7, <2>1, <2>2, <2>3 DEF Coherent
<1>10. s \in [held       : KeySets,
              values     : {Viewed(shown, stage) : shown \in Views, stage \in BookingStages},
              coverage   : CoverageStates,
              refinement : BOOLEAN,
              resumes    : {None} \cup Targets]
  <2>1. s.values \in {Viewed(shown, stage) : shown \in Views, stage \in BookingStages}
    BY <1>1, <1>3
  <2>2. s.coverage \in CoverageStates /\ s.refinement \in BOOLEAN
    BY <1>1, <1>3 DEF KeysSound
  <2>3. s = [held |-> s.held, values |-> s.values, coverage |-> s.coverage,
             refinement |-> s.refinement, resumes |-> s.resumes]
    BY DEF SoftState, s
  <2>. QED
    BY <1>4, <1>5, <2>1, <2>2, <2>3
<1>. QED
  BY <1>9, <1>10 DEF SoftStates, s

\* Whatever happened in a session, the handlers of the next message see one of finitely
\* many states: nothing on display, chosen, interrupted or booked before something was
\* found, a review only with its booking, a booking only of a property that was chosen.
THEOREM SessionsCohere == Spec => [](SoftState \in SoftStates)
<1>1. SearchInv /\ KeysSound /\ [Next]_vars => (SearchInv /\ KeysSound)'
  BY SearchInvKept, KeysKept
<1>2. SearchInv /\ KeysSound => SoftState \in SoftStates
  BY StateSeen
<1>. QED
  BY <1>1, <1>2, SearchInvInit, KeysInit, PTL DEF Spec

\* If each cue is taken for what it means in those states, it is after every history of a
\* session: which handler claims a message depends on nothing else.
THEOREM CuesStayAsMeant == ASSUME CuesRead PROVE Spec => []CuesTakenAsMeant
<1>1. SoftState \in SoftStates => CuesTakenAsMeant
  BY CuesRead DEF CuesRead, CuesTakenAsMeant
<1>. QED
  BY <1>1, SessionsCohere, PTL
=============================================================================

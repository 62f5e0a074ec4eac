----------------------------- MODULE DetailProofs ----------------------------
(* Proofs about the reading of messages and the form that is filled by it,    *)
(* for messages of any length and any pieces: a detail that is read was said, *)
(* a date keeps the day, the month and the year it was said with, and the     *)
(* form stores nothing else.                                                  *)
EXTENDS DetailDialogue, FiniteSetTheorems, NaturalsInduction, WellFoundedInduction, TLAPS
-----------------------------------------------------------------------------
(* Places in a text *)

LEMMA LeastNatural ==
    ASSUME NEW T, T \subseteq Nat, T # {}
    PROVE  \E x \in T : \A y \in T : x <= y
<1>. DEFINE R == {ss \in Nat \X Nat : ss[1] < ss[2]}
<1>1. IsWellFoundedOn(R, Nat)
  BY NatLessThanWellFounded DEF OpToRel
<1>. HIDE DEF R
<1>2. PICK x \in T : \A y \in T : ~(<<y, x>> \in R)
  BY <1>1, WFMin
<1>3. \A y \in T : ~(y < x)
  BY <1>2 DEF R
<1>. QED
  BY <1>3

LEMMA FirstOf ==
    ASSUME NEW S, S \subseteq Nat, S # {}
    PROVE  First(S) \in S /\ \A j \in S : First(S) <= j
<1>1. \E i \in S : \A j \in S : i <= j
  BY LeastNatural
<1>. QED
  BY <1>1 DEF First

LEMMA LatestOf ==
    ASSUME NEW n \in Nat, NEW S, S \subseteq 0..n, S # {}
    PROVE  Latest(S) \in S /\ \A j \in S : j <= Latest(S)
<1>. DEFINE T == {n - i : i \in S}
<1>1. T \subseteq Nat /\ T # {}
  <2>1. \A i \in S : n - i \in Nat
    OBVIOUS
  <2>. QED
    BY <2>1
<1>2. PICK x \in T : \A y \in T : x <= y
  BY <1>1, LeastNatural
<1>3. PICK i \in S : x = n - i
  BY <1>2
<1>4. \A j \in S : j <= i
  <2>. SUFFICES ASSUME NEW j \in S PROVE j <= i
    OBVIOUS
  <2>1. x <= n - j
    BY <1>2
  <2>2. i \in Int /\ j \in Int
    OBVIOUS
  <2>. QED
    BY <1>3, <2>1, <2>2
<1>. QED
  BY <1>4 DEF Latest

LEMMA PlacesIn ==
    ASSUME NEW P, NEW t \in Seq(P)
    PROVE  /\ Len(t) \in Nat /\ DOMAIN t = 1..Len(t)
           /\ \A kinds : Of(t, kinds) \subseteq 1..Len(t)
           /\ \A f : Labels(t, f) \subseteq 1..Len(t)
           /\ \A i \in DOMAIN t : t[i] \in P
  BY DEF Of, Labels
-----------------------------------------------------------------------------
(* Parts of a text *)

\* s stands in t as it is
Within(s, t) == \E k, n \in 0..Len(t) : k + n <= Len(t) /\ s = [i \in 1..n |-> t[k + i]]

LEMMA WithinAt ==
    ASSUME NEW P, NEW t \in Seq(P), NEW k \in Nat, NEW n \in Nat, k + n <= Len(t),
           NEW s, s = [i \in 1..n |-> t[k + i]]
    PROVE  Within(s, t)
<1>1. k \in 0..Len(t) /\ n \in 0..Len(t)
  OBVIOUS
<1>. QED
  BY <1>1 DEF Within

LEMMA WithinText ==
    ASSUME NEW P, NEW t \in Seq(P), NEW s, Within(s, t)
    PROVE  /\ s \in Seq(P)
           /\ \A i \in DOMAIN s : \E j \in DOMAIN t : t[j] = s[i]
<1>1. PICK k, n \in 0..Len(t) : k + n <= Len(t) /\ s = [i \in 1..n |-> t[k + i]]
  BY DEF Within
<1>2. \A i \in 1..n : k + i \in DOMAIN t /\ t[k + i] \in P
  BY <1>1, PlacesIn
<1>. QED
  BY <1>1, <1>2

LEMMA WithinItself ==
    ASSUME NEW P, NEW t \in Seq(P)
    PROVE  Within(t, t) /\ Within(<<>>, t)
<1>1. Len(t) \in Nat
  OBVIOUS
<1>2. t = [i \in 1..Len(t) |-> t[0 + i]]
  <2>1. t = [i \in 1..Len(t) |-> t[i]]
    OBVIOUS
  <2>2. \A i \in 1..Len(t) : t[0 + i] = t[i]
    OBVIOUS
  <2>. QED
    BY <2>1, <2>2
<1>3. <<>> = [i \in 1..0 |-> t[0 + i]]
  OBVIOUS
<1>4. 0 + Len(t) <= Len(t) /\ 0 + 0 <= Len(t)
  BY <1>1
<1>. QED
  BY <1>1, <1>2, <1>3, <1>4 DEF Within

LEMMA WithinPart ==
    ASSUME NEW P, NEW t \in Seq(P), NEW r, Within(r, t), NEW s, Within(s, r)
    PROVE  Within(s, t)
<1>1. PICK k, n \in 0..Len(t) : k + n <= Len(t) /\ r = [i \in 1..n |-> t[k + i]]
  BY DEF Within
<1>2. PICK l, m \in 0..Len(r) : l + m <= Len(r) /\ s = [i \in 1..m |-> r[l + i]]
  BY DEF Within
<1>3. Len(r) = n
  BY <1>1
<1>4. (k + l) + m <= Len(t)
  BY <1>1, <1>2, <1>3, PlacesIn
<1>5. \A i \in 1..m : r[l + i] = t[(k + l) + i]
  BY <1>1, <1>2, <1>3
<1>6. s = [i \in 1..m |-> t[(k + l) + i]]
  BY <1>2, <1>5
<1>. DEFINE place == k + l
<1>7. place \in Nat /\ place + m <= Len(t) /\ s = [i \in 1..m |-> t[place + i]]
  BY <1>4, <1>6
<1>. HIDE DEF place
<1>. QED
  BY <1>7, WithinAt

LEMMA SubSeqWithin ==
    ASSUME NEW P, NEW t \in Seq(P), NEW a \in 1..Len(t) + 1, NEW b \in 0..Len(t)
    PROVE  Within(SubSeq(t, a, b), t)
<1>1. CASE b < a
  <2>1. SubSeq(t, a, b) = <<>>
    BY <1>1
  <2>. QED
    BY <2>1, WithinItself
<1>2. CASE a <= b
  <2>1. SubSeq(t, a, b) = [i \in 1..b - a + 1 |-> t[(a - 1) + i]]
    BY <1>2
  <2>2. a - 1 \in Nat /\ b - a + 1 \in Nat /\ (a - 1) + (b - a + 1) <= Len(t)
    BY <1>2
  <2>. DEFINE before == a - 1
              length == b - a + 1
  <2>3. SubSeq(t, a, b) = [i \in 1..length |-> t[before + i]]
    BY <2>1
  <2>4. before \in Nat /\ length \in Nat /\ before + length <= Len(t)
    BY <2>2
  <2>. HIDE DEF before, length
  <2>. QED
    BY <2>3, <2>4, WithinAt
<1>. QED
  BY <1>1, <1>2

LEMMA TailWithin ==
    ASSUME NEW P, NEW t \in Seq(P), t # <<>>
    PROVE  Within(Tail(t), t)
<1>1. Len(t) \in Nat \ {0}
  OBVIOUS
<1>2. Tail(t) = SubSeq(t, 2, Len(t))
  BY <1>1
<1>3. 2 \in 1..Len(t) + 1 /\ Len(t) \in 0..Len(t)
  BY <1>1
<1>4. Within(SubSeq(t, 2, Len(t)), t)
  BY <1>3, SubSeqWithin
<1>. QED
  BY <1>2, <1>4
-----------------------------------------------------------------------------
(* What a message says                                                        *)

\* A piece says a date if it is on the calendar and has its day and its month, and its
\* year unless it was said without one.
SaysDate(p, d) ==
    p.kind = "date" /\ OnCalendar(d) /\ d = In(d.year, p) /\ (Yearless(p) \/ d.year = p.year)

\* A message says a detail if a piece of it does; a name is one or more pieces as they stand.
Says(t, f, value) ==
    IF f = "guest_name" THEN value # <<>> /\ Within(value, t)
    ELSE \E i \in DOMAIN t :
           CASE f = "guest_email" -> t[i].kind = "email" /\ value = t[i]
             [] f = "guest_phone" -> Dialable(t[i]) /\ value = t[i]
             [] f = "guests"      -> /\ t[i].kind \in {"number", "date", "phone"}
                                     /\ value = LeadingNumber(t[i])
             [] OTHER             -> SaysDate(t[i], value)

LEMMA PartSays ==
    ASSUME NEW P, NEW t \in Seq(P), NEW s, Within(s, t),
           NEW f \in Detail, NEW value, Says(s, f, value)
    PROVE  Says(t, f, value)
<1>1. \A i \in DOMAIN s : \E j \in DOMAIN t : t[j] = s[i]
  BY WithinText
<1>2. CASE f = "guest_name"
  BY <1>2, WithinPart DEF Says
<1>3. CASE f # "guest_name"
  BY <1>1, <1>3, Zenon DEF Says
<1>. QED
  BY <1>2, <1>3

LEMMA Details ==
    /\ Detail = {"guest_name", "guest_email", "guest_phone", "check_in", "check_out", "guests"}
    /\ StayDate \subseteq Detail
<1>1. DOMAIN AskOrder = 1..6
  BY DEF AskOrder
<1>. QED
  BY <1>1 DEF Detail, AskOrder, StayDate, Range
-----------------------------------------------------------------------------
(* Dates                                                                      *)

LEMMA YearSaid ==
    ASSUME NEW p, p.kind = "date", DateOf(p) # Unread
    PROVE  SaysDate(p, DateOf(p))
<1>. DEFINE year == IF Yearless(p) THEN InferredYear(p) ELSE p.year
<1>1. DateOf(p) = In(year, p) /\ OnCalendar(In(year, p))
  BY DEF DateOf
<1>2. In(year, p).year = year
  BY DEF In
<1>. QED
  BY <1>1, <1>2 DEF SaysDate

LEMMA DayKept ==
    ASSUME NEW p, NEW d, SaysDate(p, d)
    PROVE  d.month = p.month /\ d.day = p.day
<1>1. In(d.year, p).month = p.month /\ In(d.year, p).day = p.day
  BY DEF In
<1>. QED
  BY <1>1 DEF SaysDate

\* The first of some dates, if there are any
LEMMA EarliestSaid ==
    ASSUME NEW P, NEW t \in Seq(P), NEW places, places \subseteq DOMAIN t
    PROVE  Earliest(t, places) # Unread => \E i \in places : Earliest(t, places) = DateOf(t[i])
<1>1. places # {} => First(places) \in places
  BY FirstOf, PlacesIn
<1>. QED
  BY <1>1 DEF Earliest

\* A date read from a piece of text is one of its dates.
LEMMA NaturalDateSaid ==
    ASSUME NEW P, NEW s \in Seq(P), NaturalDate(s) # Unread
    PROVE  \E i \in DOMAIN s : SaysDate(s[i], NaturalDate(s))
<1>. DEFINE dates == {i \in DOMAIN s : s[i].kind = "date"}
<1>1. \A places : places \subseteq dates /\ places # {} =>
          First(places) \in places
  BY FirstOf, PlacesIn
<1>2. \A i \in dates : DateOf(s[i]) # Unread => SaysDate(s[i], DateOf(s[i]))
  BY YearSaid
<1>3. \E i \in dates : NaturalDate(s) = DateOf(s[i])
  <2>. DEFINE said(order, yearless) ==
                  {i \in Of(s, {"date"}) : /\ s[i].order = order /\ Seen(s, i)
                                           /\ Yearless(s[i]) = yearless}
              before(i)  == i > 1 /\ s[i - 1].kind \in Lettered
              after(i)   == i < Len(s) /\ s[i + 1].kind \in Lettered
              dayFirst   == said("dayFirst", TRUE)
              monthFirst == said("monthFirst", TRUE)
              numberWord == dayFirst \cup {i \in monthFirst \cup Of(s, {"number"}) : after(i)}
              wordNumber == monthFirst \cup {i \in dayFirst \cup Of(s, {"number"}) : before(i)}
              read(place, order) == IF place \cap order # {} /\ First(place) \in order
                                    THEN DateOf(s[First(place)]) ELSE Unread
              dated(order) == said(order, FALSE)
  <2>1. \A order, yearless : said(order, yearless) \subseteq dates
    BY DEF Of
  <2>2. \A order : dated(order) # {} => First(dated(order)) \in dates
    <3>. SUFFICES ASSUME NEW order, dated(order) # {} PROVE First(dated(order)) \in dates
      OBVIOUS
    <3>1. dated(order) \subseteq dates
      BY <2>1
    <3>. HIDE DEF dated, dates
    <3>. QED
      BY <1>1, <3>1
  <2>3. \A place : /\ read(place, dayFirst) # Unread =>
                         \E i \in dates : read(place, dayFirst) = DateOf(s[i])
                   /\ read(place, monthFirst) # Unread =>
                         \E i \in dates : read(place, monthFirst) = DateOf(s[i])
    BY <2>1
  <2>4. NaturalDate(s) =
          IF dated("numeric") # {}         THEN DateOf(s[First(dated("numeric"))])
          ELSE IF dated("dayFirst") # {}   THEN DateOf(s[First(dated("dayFirst"))])
          ELSE IF dated("monthFirst") # {} THEN DateOf(s[First(dated("monthFirst"))])
          ELSE IF read(numberWord, dayFirst) # Unread THEN read(numberWord, dayFirst)
          ELSE read(wordNumber, monthFirst)
    BY Zenon DEF NaturalDate
  <2>. HIDE DEF said, dayFirst, monthFirst, numberWord, wordNumber, read, dated, dates
  <2>. QED
    BY <2>2, <2>3, <2>4
<1>. QED
  BY <1>2, <1>3

\* Of the whole message, a date of the stay is one that was found, or a check-out in the
\* year of the check-in that was said without its own.
LEMMA AssociatedSaid ==
    ASSUME NEW P, NEW t \in Seq(P), NEW f \in StayDate, AssociatedStay(t)[f] # Unread
    PROVE  \E i \in DOMAIN t : SaysDate(t[i], AssociatedStay(t)[f])
<1>. DEFINE found == FoundDates(t)
            FoundThere(d) == \E i \in found : d = DateOf(t[i])
            ins      == Labels(t, "check_in")
            outs     == Labels(t, "check_out")
            other(d) == {i \in found : DateOf(t[i]) # d}
            headed   == /\ ins # {} /\ outs # {}
                        /\ \A i \in ins \cup outs : t[i].end <= t[First(found)].at
            afterOut == {i \in found : t[i].at >= t[Latest(outs)].end}
            out      == Earliest(t, afterOut)
            in1      == Earliest(t, {i \in found : NearestLabel(t, i) = "check_in"})
            out1     == Earliest(t, {i \in found : NearestLabel(t, i) = "check_out"})
            orOther(d, e) == IF d # Unread \/ other(e) = {} THEN d ELSE Earliest(t, other(e))
            stay ==
                IF Cardinality(found) < 2 THEN [check_in |-> in1, check_out |-> out1]
                ELSE IF headed \/ ins \cup outs = {}
                THEN [check_in  |-> Earliest(t, found),
                      check_out |-> Earliest(t, found \ {First(found)})]
                ELSE IF ins = {} /\ afterOut # {} /\ other(out) # {}
                THEN [check_in |-> Earliest(t, other(out)), check_out |-> out]
                ELSE [check_in |-> orOther(in1, out1), check_out |-> orOther(out1, in1)]
<1>1. AssociatedStay(t) = IF found = {} THEN NoStay ELSE InOneYear(t, stay)
  BY Zenon DEF AssociatedStay, StayAmong
<1>2. \A places \in SUBSET found :
          Earliest(t, places) # Unread => FoundThere(Earliest(t, places))
  <2>1. found \subseteq DOMAIN t
    BY DEF FoundDates, Of
  <2>. HIDE DEF found
  <2>. QED
    BY <2>1, EarliestSaid
<1>3. /\ in1 # Unread => FoundThere(in1)
      /\ out1 # Unread => FoundThere(out1)
      /\ out # Unread => FoundThere(out)
      /\ \A d : Earliest(t, other(d)) # Unread => FoundThere(Earliest(t, other(d)))
      /\ Earliest(t, found) # Unread => FoundThere(Earliest(t, found))
      /\ LET later == Earliest(t, found \ {First(found)})
         IN  later # Unread => FoundThere(later)
  <2>. HIDE DEF found, FoundThere
  <2>. QED
    BY <1>2
<1>. HIDE DEF other, headed, afterOut, out, in1, out1, found, FoundThere, ins, outs
<1>4. /\ stay = [check_in |-> stay.check_in, check_out |-> stay.check_out]
      /\ stay.check_in # Unread => FoundThere(stay.check_in)
      /\ stay.check_out # Unread => FoundThere(stay.check_out)
  BY <1>3
<1>. HIDE DEF stay
<1>5. \A d : FoundThere(d) => \E i \in DOMAIN t : SaysDate(t[i], d)
  BY YearSaid DEF FoundThere, found, FoundDates, Of
<1>6. CASE InOneYear(t, stay) = stay \/ found = {}
  <2>1. found # {} /\ AssociatedStay(t) = stay
    BY <1>1, <1>6 DEF NoStay, StayDate
  <2>. QED
    BY <1>4, <1>5, <2>1 DEF StayDate
<1>7. CASE InOneYear(t, stay) # stay /\ found # {}
  <2>. DEFINE place == First({i \in found : DateOf(t[i]) = stay.check_out})
              moved == In(stay.check_in.year, stay.check_out)
  <2>1. /\ stay.check_in # Unread /\ stay.check_out # Unread
        /\ Yearless(t[place])
        /\ OnCalendar(moved)
        /\ InOneYear(t, stay) = [stay EXCEPT !.check_out = moved]
    BY <1>7, Zenon DEF InOneYear, found
  <2>2. place \in DOMAIN t /\ t[place].kind = "date" /\ DateOf(t[place]) = stay.check_out
    <3>1. {i \in found : DateOf(t[i]) = stay.check_out} # {}
      BY <1>4, <2>1 DEF FoundThere
    <3>2. found \subseteq DOMAIN t /\ \A i \in found : t[i].kind = "date"
      BY DEF found, FoundDates, Of
    <3>. DEFINE saying == {i \in found : DateOf(t[i]) = stay.check_out}
    <3>3. saying \subseteq Nat
      BY <3>2, PlacesIn
    <3>4. First(saying) \in saying
      BY <3>1, <3>3, FirstOf
    <3>. QED
      BY <3>2, <3>4
  <2>3. SaysDate(t[place], moved)
    <3>1. SaysDate(t[place], stay.check_out)
      BY <2>1, <2>2, YearSaid
    <3>2. stay.check_out.month = t[place].month /\ stay.check_out.day = t[place].day
      BY <3>1, DayKept
    <3>. QED
      BY <2>1, <2>2, <3>2 DEF SaysDate, In
  <2>4. AssociatedStay(t) = [check_in |-> stay.check_in, check_out |-> moved]
    BY <1>1, <1>4, <1>7, <2>1
  <2>. QED
    BY <1>4, <1>5, <2>2, <2>3, <2>4 DEF StayDate
<1>. QED
  BY <1>6, <1>7
-----------------------------------------------------------------------------
(* The other details, of the whole message                                    *)

LEMMA TrimmedWithin ==
    ASSUME NEW P, NEW s \in Seq(P)
    PROVE  Within(Trimmed(s), s)
<1>. DEFINE solid == DOMAIN s \ Of(s, {"comma"})
<1>1. solid \subseteq 1..Len(s) /\ Len(s) \in Nat
  OBVIOUS
<1>2. Trimmed(s) = IF solid = {} THEN <<>> ELSE SubSeq(s, First(solid), Latest(solid))
  BY DEF Trimmed
<1>. HIDE DEF solid
<1>3. solid \subseteq Nat /\ solid \subseteq 0..Len(s)
  BY <1>1
<1>4. CASE solid # {}
  <2>1. First(solid) \in solid /\ Latest(solid) \in solid
    BY <1>1, <1>3, <1>4, FirstOf, LatestOf
  <2>. DEFINE a == First(solid)
              b == Latest(solid)
  <2>2. a \in 1..Len(s) /\ b \in 1..Len(s)
    BY <1>1, <2>1
  <2>. HIDE DEF a, b
  <2>3. a \in 1..Len(s) + 1 /\ b \in 0..Len(s)
    BY <1>1, <2>2
  <2>4. Within(SubSeq(s, a, b), s)
    BY <2>3, SubSeqWithin
  <2>. QED
    BY <1>2, <1>4, <2>4 DEF a, b
<1>. QED
  BY <1>2, <1>4, WithinItself

LEMMA NamingPlaces ==
    ASSUME NEW P, NEW t \in Seq(P), NEW f \in Named(t)
    PROVE  First(Naming(t, f)) \in 1..Len(t)
<1>. DEFINE places == Naming(t, f)
<1>1. places \subseteq 1..Len(t) /\ places # {}
  BY PlacesIn DEF Naming, Named
<1>. HIDE DEF places
<1>2. places \subseteq Nat
  BY <1>1
<1>3. First(places) \in places
  BY <1>1, <1>2, FirstOf
<1>. QED
  BY <1>1, <1>3 DEF places

LEMMA SegmentWithin ==
    ASSUME NEW P, NEW t \in Seq(P), NEW f
    PROVE  Within(SegmentOf(t, f), t) /\ (f \in Named(t) => Within(Segment(t, f), t))
<1>1. ASSUME f \in Named(t) PROVE Within(Segment(t, f), t)
  <2>. DEFINE at    == First(Naming(t, f))
              later == {i \in {First(Naming(t, g)) : g \in Named(t)} : i > at}
              to    == IF later = {} THEN Len(t) ELSE First(later) - 1
              after == SubSeq(t, at + 1, to)
  <2>1. at \in 1..Len(t) /\ later \subseteq 1..Len(t)
    BY <1>1, NamingPlaces
  <2>2. Segment(t, f) = Trimmed(after)
    BY DEF Segment
  <2>. HIDE DEF at, later
  <2>3. later # {} => First(later) \in 1..Len(t)
    <3>1. later \subseteq Nat
      BY <2>1
    <3>. QED
      BY <2>1, <3>1, FirstOf
  <2>. DEFINE from == at + 1
  <2>4. from \in 1..Len(t) + 1 /\ to \in 0..Len(t)
    BY <2>1, <2>3
  <2>. HIDE DEF from, to
  <2>5. Within(SubSeq(t, from, to), t)
    BY <2>4, SubSeqWithin
  <2>6. Within(after, t)
    BY <2>5 DEF from
  <2>. HIDE DEF after
  <2>7. after \in Seq(P)
    BY <2>6, WithinText
  <2>8. Within(Trimmed(after), after)
    BY <2>7, TrimmedWithin
  <2>. QED
    BY <2>2, <2>6, <2>8, WithinPart
<1>. QED
  BY <1>1, WithinItself DEF SegmentOf

LEMMA NameAfterWithin ==
    ASSUME NEW P, NEW t \in Seq(P), NEW i \in DOMAIN t
    PROVE  Within(NameAfter(t, i), t)
<1>. DEFINE goesOn(j) == \A k \in i + 1 .. j : t[k].kind \in {"words", "label", "nameIs"}
            places    == {j \in i .. Len(t) : goesOn(j)}
            last      == Latest(places)
            touches   == last < Len(t) /\ (t[last + 1].kind = "email" \/
                             (t[last + 1].kind = "date" /\ t[last + 1].order = "monthFirst"))
            to        == IF touches THEN last + 1 ELSE last
            from      == i + 1
<1>1. NameAfter(t, i) = SubSeq(t, from, to)
  BY DEF NameAfter
<1>2. i \in 1..Len(t) /\ Len(t) \in Nat
  OBVIOUS
<1>3. places \subseteq 0..Len(t) /\ i \in places
  BY <1>2
<1>. HIDE DEF places
<1>4. last \in 0..Len(t)
  BY <1>2, <1>3, LatestOf
<1>5. from \in 1..Len(t) + 1 /\ to \in 0..Len(t)
  BY <1>2, <1>4
<1>. HIDE DEF from, to
<1>. QED
  BY <1>1, <1>5, SubSeqWithin

\* A piece of text that may be a name is not empty.
LEMMA NamesAreSomething == ~NameCandidate(<<>>)
  BY DEF NameCandidate, Of

LEMMA NameSaid ==
    ASSUME NEW P, NEW t \in Seq(P), NameRead(t) # Unread
    PROVE  Says(t, "guest_name", NameRead(t))
<1>. DEFINE says == Of(t, {"nameIs"})
<1>1. CASE says # {} /\ NameAfter(t, First(says)) # <<>>
  <2>1. says \subseteq DOMAIN t /\ says \subseteq Nat
    BY PlacesIn
  <2>2. NameRead(t) = NameAfter(t, First(says))
    BY <1>1 DEF NameRead
  <2>. HIDE DEF says
  <2>3. First(says) \in DOMAIN t
    BY <1>1, <2>1, FirstOf
  <2>. QED
    BY <1>1, <2>2, <2>3, NameAfterWithin DEF Says
<1>2. CASE ~(says # {} /\ NameAfter(t, First(says)) # <<>>)
  <2>1. NameRead(t) = SegmentOf(t, "guest_name") /\ NameCandidate(SegmentOf(t, "guest_name"))
    BY <1>2 DEF NameRead
  <2>. QED
    BY <2>1, SegmentWithin, NamesAreSomething DEF Says
<1>. QED
  BY <1>1, <1>2

LEMMA EmailSaid ==
    ASSUME NEW P, NEW t \in Seq(P), EmailRead(t) # Unread
    PROVE  Says(t, "guest_email", EmailRead(t))
<1>. DEFINE es == Of(t, {"email"})
<1>1. es # {} /\ EmailRead(t) = t[First(es)]
  BY DEF EmailRead
<1>2. es \subseteq DOMAIN t /\ es \subseteq Nat /\ \A i \in es : t[i].kind = "email"
  BY PlacesIn DEF Of
<1>. HIDE DEF es
<1>3. First(es) \in es
  BY <1>1, <1>2, FirstOf
<1>. QED
  BY <1>1, <1>2, <1>3 DEF Says

LEMMA PhoneSaid ==
    ASSUME NEW P, NEW t \in Seq(P), PhoneRead(t) # Unread
    PROVE  Says(t, "guest_phone", PhoneRead(t))
<1>. DEFINE dialable == {i \in DOMAIN t : Dialable(t[i])}
            asked    == {i \in dialable : i - 1 \in Labels(t, "guest_phone")}
<1>1. \/ asked # {} /\ PhoneRead(t) = t[First(asked)]
      \/ dialable # {} /\ PhoneRead(t) = t[First(dialable)]
  BY DEF PhoneRead
<1>2. /\ dialable \subseteq DOMAIN t /\ asked \subseteq dialable /\ dialable \subseteq Nat
      /\ \A i \in dialable : Dialable(t[i])
  BY PlacesIn
<1>. HIDE DEF dialable, asked
<1>3. /\ dialable # {} => First(dialable) \in dialable
      /\ asked # {} => First(asked) \in dialable
  BY <1>2, FirstOf
<1>. QED
  BY <1>1, <1>2, <1>3 DEF Says

LEMMA GuestsSaid ==
    ASSUME NEW P, NEW t \in Seq(P), GuestsRead(t) # Unread
    PROVE  Says(t, "guests", GuestsRead(t))
<1>. DEFINE figures == Of(t, {"number", "date", "phone"})
            after   == {i \in figures : /\ i - 1 \in Labels(t, "guests")
                                        /\ ~(t[i].kind = "date" /\ t[i].order = "monthFirst")}
            before  == {i \in Of(t, {"number"}) : i + 1 \in Labels(t, "guests")}
            segment == SegmentOf(t, "guests")
<1>1. \/ after # {} /\ GuestsRead(t) = LeadingNumber(t[First(after)])
      \/ before # {} /\ GuestsRead(t) = t[First(before)].value
      \/ /\ Len(segment) = 1 /\ segment[1].kind \in {"number", "phone"}
         /\ GuestsRead(t) = LeadingNumber(segment[1])
  BY DEF GuestsRead
<1>2. /\ after \subseteq DOMAIN t /\ before \subseteq DOMAIN t /\ DOMAIN t \subseteq Nat
      /\ \A i \in after : t[i].kind \in {"number", "date", "phone"}
      /\ \A i \in before : t[i].kind = "number"
  BY PlacesIn DEF Of
<1>3. Within(segment, t)
  BY SegmentWithin
<1>4. segment \in Seq(P) /\ \A i \in DOMAIN segment : \E j \in DOMAIN t : t[j] = segment[i]
  BY <1>3, WithinText
<1>. HIDE DEF after, before, segment
<1>5. CASE after # {} /\ GuestsRead(t) = LeadingNumber(t[First(after)])
  <2>1. First(after) \in after
    BY <1>2, <1>5, FirstOf
  <2>. QED
    BY <1>2, <1>5, <2>1 DEF Says
<1>6. CASE before # {} /\ GuestsRead(t) = t[First(before)].value
  <2>1. First(before) \in before
    BY <1>2, <1>6, FirstOf
  <2>2. GuestsRead(t) = LeadingNumber(t[First(before)])
    BY <1>2, <1>6, <2>1 DEF LeadingNumber
  <2>. QED
    BY <1>2, <2>1, <2>2 DEF Says
<1>7. CASE /\ Len(segment) = 1 /\ segment[1].kind \in {"number", "phone"}
           /\ GuestsRead(t) = LeadingNumber(segment[1])
  <2>1. PICK j \in DOMAIN t : t[j] = segment[1]
    BY <1>4, <1>7
  <2>. QED
    BY <1>7, <2>1 DEF Says
<1>. QED
  BY <1>1, <1>5, <1>6, <1>7
-----------------------------------------------------------------------------
(* The stay                                                                   *)

DateSaid(t, d) == \E i \in DOMAIN t : SaysDate(t[i], d)

LEMMA StaySays ==
    ASSUME NEW t, NEW f \in StayDate, NEW d, DateSaid(t, d)
    PROVE  Says(t, f, d)
  BY DEF DateSaid, Says, StayDate

LEMMA LabelledSaid ==
    ASSUME NEW P, NEW t \in Seq(P), NEW f \in StayDate,
           LabelledStay(t, AssociatedStay(t))[f] # Unread
    PROVE  DateSaid(t, LabelledStay(t, AssociatedStay(t))[f])
<1>. DEFINE date == LabelledDate(t, f, AssociatedStay(t))
<1>1. LabelledStay(t, AssociatedStay(t))[f] = date
  BY DEF LabelledStay
<1>2. CASE f \in Named(t)
  <2>. DEFINE segment == Segment(t, f)
  <2>1. date = NaturalDate(segment)
    BY <1>2 DEF LabelledDate
  <2>2. Within(segment, t)
    BY <1>2, SegmentWithin
  <2>. HIDE DEF segment
  <2>3. segment \in Seq(P) /\ \A i \in DOMAIN segment : \E j \in DOMAIN t : t[j] = segment[i]
    BY <2>2, WithinText
  <2>4. \E i \in DOMAIN segment : SaysDate(segment[i], NaturalDate(segment))
    BY <1>1, <2>1, <2>3, NaturalDateSaid
  <2>. QED
    BY <1>1, <2>1, <2>3, <2>4 DEF DateSaid
<1>3. CASE f \notin Named(t)
  <2>1. date = AssociatedStay(t)[f]
    BY <1>1, <1>3 DEF LabelledDate
  <2>. QED
    BY <1>1, <2>1, AssociatedSaid DEF DateSaid
<1>. QED
  BY <1>2, <1>3

LEMMA StaySaid ==
    ASSUME NEW P, NEW t \in Seq(P), NEW f \in StayDate, StayRead(t)[f] # Unread
    PROVE  Says(t, f, StayRead(t)[f])
<1>. DEFINE near     == AssociatedStay(t)
            labelled == LabelledStay(t, near)
            found    == FoundDates(t)
            both     == \A g \in StayDate : Labels(t, g) # {}
            one      == [g \in StayDate |-> IF labelled[g] # Unread \/ ~both
                                            THEN labelled[g] ELSE near[g]]
            in       == IF one.check_in = Unread THEN Earliest(t, found) ELSE one.check_in
            rest     == {i \in found : DateOf(t[i]) # in}
            later    == IF one.check_out = Unread /\ rest # {} THEN Earliest(t, rest)
                        ELSE one.check_out
            Sound(d) == d # Unread => DateSaid(t, d)
<1>1. StayRead(t) =
          IF both /\ \A g \in StayDate : near[g] # Unread THEN near
          ELSE IF both /\ Cardinality(found) >= 2
          THEN [check_in |-> in, check_out |-> later]
          ELSE one
  BY Zenon DEF StayRead, StayNear, Reconciled
<1>2. \A places \in SUBSET found : Sound(Earliest(t, places))
  <2>. SUFFICES ASSUME NEW places \in SUBSET found, Earliest(t, places) # Unread
                PROVE  DateSaid(t, Earliest(t, places))
    OBVIOUS
  <2>1. places \subseteq DOMAIN t /\ \A i \in places : t[i].kind = "date"
    BY DEF FoundDates, Of
  <2>2. PICK i \in places : Earliest(t, places) = DateOf(t[i])
    BY <2>1, EarliestSaid
  <2>. QED
    BY <2>1, <2>2, YearSaid DEF DateSaid
<1>3. \A g \in StayDate : Sound(near[g])
  BY AssociatedSaid DEF DateSaid
<1>4. \A g \in StayDate : Sound(labelled[g])
  BY LabelledSaid
<1>. HIDE DEF near, labelled, both, found, Sound
<1>5. \A g \in StayDate : Sound(one[g])
  BY <1>3, <1>4
<1>6. one.check_in = one["check_in"] /\ one.check_out = one["check_out"]
  OBVIOUS
<1>7. rest \subseteq found
  OBVIOUS
<1>. HIDE DEF one
<1>8. Sound(in)
  BY <1>2, <1>5 DEF StayDate
<1>. HIDE DEF in, rest
<1>9. Sound(later)
  BY <1>2, <1>5, <1>7 DEF StayDate
<1>. HIDE DEF later
<1>10. Sound(StayRead(t)[f])
  BY <1>1, <1>3, <1>5, <1>8, <1>9 DEF StayDate
<1>. QED
  BY <1>10, StaySays DEF Sound

LEMMA WrittenSaid ==
    ASSUME NEW P, NEW t \in Seq(P), NEW f \in Detail, Written(t, StayRead(t))[f] # Unread
    PROVE  Says(t, f, Written(t, StayRead(t))[f])
<1>. DEFINE value == Written(t, StayRead(t))[f]
            segment == SegmentOf(t, "guest_phone")
<1>1. /\ f = "guest_name"  => value = NameRead(t)
      /\ f = "guest_email" => value = EmailRead(t)
      /\ f = "guest_phone" => value = IF PhoneRead(t) # Unread THEN PhoneRead(t)
                                      ELSE PhoneRead(segment)
      /\ f = "guests"      => value = GuestsRead(t)
      /\ f \in StayDate    => value = StayRead(t)[f]
  BY DEF Written, StayDate
<1>. HIDE DEF value
<1>2. CASE f = "guest_name"
  BY <1>1, <1>2, NameSaid DEF value
<1>3. CASE f = "guest_email"
  BY <1>1, <1>3, EmailSaid DEF value
<1>4. CASE f = "guests"
  BY <1>1, <1>4, GuestsSaid DEF value
<1>5. CASE f \in StayDate
  BY <1>1, <1>5, StaySaid DEF value
<1>6. CASE f = "guest_phone"
  <2>1. CASE PhoneRead(t) # Unread
    BY <1>1, <1>6, <2>1, PhoneSaid DEF value
  <2>2. CASE PhoneRead(t) = Unread
    <3>1. Within(segment, t)
      BY SegmentWithin
    <3>2. segment \in Seq(P)
      BY <3>1, WithinText
    <3>3. value = PhoneRead(segment) /\ PhoneRead(segment) # Unread
      BY <1>1, <1>6, <2>2 DEF value
    <3>. HIDE DEF segment
    <3>4. Says(segment, "guest_phone", PhoneRead(segment))
      BY <3>2, <3>3, PhoneSaid
    <3>. QED
      BY <1>6, <3>1, <3>3, <3>4, PartSays DEF value
  <2>. QED
    BY <2>1, <2>2
<1>. QED
  BY <1>2, <1>3, <1>4, <1>5, <1>6, Details DEF StayDate
-----------------------------------------------------------------------------
(* The parts between commas                                                   *)

LEMMA PartWithin ==
    ASSUME NEW P, NEW t \in Seq(P), NEW i \in Starts(t)
    PROVE  Within(Part(t, i), t) /\ Part(t, i) \in Seq(P) /\ Part(t, i) # <<>>
<1>. DEFINE places == {j \in i .. Len(t) : \A k \in i .. j : t[k].kind # "comma"}
            to     == Latest(places)
<1>1. i \in 1..Len(t) /\ Len(t) \in Nat /\ t[i].kind # "comma"
  BY DEF Starts
<1>2. places \subseteq i..Len(t) /\ places \subseteq 0..Len(t) /\ i \in places
  BY <1>1
<1>3. Part(t, i) = SubSeq(t, i, to)
  BY DEF Part
<1>. HIDE DEF places
<1>4. to \in i..Len(t)
  <2>1. to \in places
    BY <1>1, <1>2, LatestOf
  <2>. QED
    BY <1>2, <2>1
<1>. HIDE DEF to
<1>5. i \in 1..Len(t) + 1 /\ to \in 0..Len(t)
  BY <1>1, <1>4
<1>6. Within(SubSeq(t, i, to), t)
  BY <1>5, SubSeqWithin
<1>7. SubSeq(t, i, to) # <<>>
  BY <1>1, <1>4
<1>. QED
  BY <1>3, <1>6, <1>7, WithinText

LEMMA GivenWithin ==
    ASSUME NEW P, NEW t \in Seq(P), NEW starts, starts \subseteq Starts(t), NEW f, NEW unfilled
    PROVE  Within(PartGiven(t, starts, f, unfilled), t)
<1>. DEFINE alike == {i \in starts : PartKind(Part(t, i)) = Kind[f]}
            k     == Cardinality({g \in unfilled : Kind[g] = Kind[f] /\ Rank(g) <= Rank(f)})
            kth   == {i \in alike : Cardinality({j \in alike : j <= i}) = k}
            given == Part(t, First(kth))
<1>1. PartGiven(t, starts, f, unfilled) = IF f \in unfilled /\ kth # {} THEN given ELSE <<>>
  BY Zenon DEF PartGiven
<1>2. kth \subseteq Starts(t) /\ Starts(t) \subseteq Nat
  BY PlacesIn DEF Starts
<1>. HIDE DEF kth
<1>3. kth # {} => First(kth) \in Starts(t)
  <2>1. kth \subseteq Nat
    BY <1>2
  <2>. QED
    BY <1>2, <2>1, FirstOf
<1>4. kth # {} => Within(given, t)
  BY <1>3, PartWithin
<1>. QED
  BY <1>1, <1>4, WithinItself

LEMMA PartValueSaid ==
    ASSUME NEW P, NEW part \in Seq(P), part # <<>>, NEW f \in Detail, PartValue(f, part) # Unread
    PROVE  Says(part, f, PartValue(f, part))
<1>. DEFINE value == PartValue(f, part)
<1>1. /\ Kind["guest_name"] = "text" /\ Kind["guest_email"] = "email"
      /\ Kind["guest_phone"] = "phone" /\ Kind["guests"] = "number"
      /\ Kind["check_in"] = "date" /\ Kind["check_out"] = "date"
  BY DEF Kind
<1>2. CASE f = "guest_name"
  <2>1. value = IF NameCandidate(part) THEN part ELSE Unread
    BY <1>1, <1>2 DEF PartValue
  <2>. QED
    BY <1>2, <2>1, WithinItself DEF Says
<1>3. CASE f = "guest_email"
  <2>1. value = EmailRead(part)
    BY <1>1, <1>3 DEF PartValue
  <2>. QED
    BY <1>3, <2>1, EmailSaid
<1>4. CASE f = "guest_phone"
  <2>1. value = IF Len(part) = 1 /\ Dialable(part[1]) THEN part[1] ELSE Unread
    BY <1>1, <1>4 DEF PartValue
  <2>2. 1 \in DOMAIN part
    BY <2>1
  <2>. QED
    BY <1>4, <2>1, <2>2 DEF Says
<1>5. CASE f = "guests"
  <2>1. value = IF Len(part) = 1 /\ part[1].kind = "number" THEN part[1].value ELSE Unread
    BY <1>1, <1>5 DEF PartValue
  <2>2. 1 \in DOMAIN part /\ value = LeadingNumber(part[1]) /\ part[1].kind = "number"
    BY <2>1 DEF LeadingNumber
  <2>. QED
    BY <1>5, <2>2 DEF Says
<1>6. CASE f \in StayDate
  <2>1. value = NaturalDate(part)
    BY <1>1, <1>6 DEF PartValue, StayDate
  <2>. HIDE DEF value
  <2>2. DateSaid(part, value)
    BY <2>1, NaturalDateSaid DEF DateSaid, value
  <2>. QED
    BY <1>6, <2>2, StaySays DEF value
<1>. QED
  BY <1>2, <1>3, <1>4, <1>5, <1>6, Details DEF StayDate

LEMMA PartsSaid ==
    ASSUME NEW P, NEW t \in Seq(P), NEW f \in Detail, NEW written,
           written[f] # Unread => Says(t, f, written[f]),
           ReadFromParts(t, written)[f] # Unread
    PROVE  Says(t, f, ReadFromParts(t, written)[f])
<1>. DEFINE labelled == [g \in Detail |-> {i \in Starts(t) : Heads(Part(t, i), g)}]
            plain    == {i \in Starts(t) : \A g \in Detail : i \notin labelled[g]}
            open     == {g \in Detail : g \in StayDate \/ written[g] = Unread}
            unfilled == {g \in open : labelled[g] = {}}
            part(g)  == IF labelled[g] # {} THEN Tail(Part(t, Latest(labelled[g])))
                        ELSE PartGiven(t, plain, g, unfilled)
            value    == ReadFromParts(t, written)[f]
            given    == part(f)
<1>1. value = IF f \notin open THEN written[f]
              ELSE IF given = <<>> THEN Unread ELSE PartValue(f, given)
  BY Zenon DEF ReadFromParts
<1>2. labelled[f] \subseteq Starts(t) /\ plain \subseteq Starts(t) /\ Starts(t) \subseteq 0..Len(t)
  BY PlacesIn DEF Starts
<1>3. Within(given, t)
  <2>1. CASE labelled[f] # {}
    <3>. DEFINE places == labelled[f]
                place  == Latest(places)
                headed == Part(t, place)
    <3>1. places \subseteq 0..Len(t) /\ places # {} /\ Len(t) \in Nat
      BY <1>2, <2>1
    <3>2. given = Tail(headed)
      BY <2>1
    <3>3. places \subseteq Starts(t)
      BY <1>2
    <3>. HIDE DEF places, labelled, given
    <3>4. place \in Starts(t)
      BY <3>1, <3>3, LatestOf
    <3>. HIDE DEF place
    <3>5. Within(headed, t) /\ headed \in Seq(P) /\ headed # <<>>
      BY <3>4, PartWithin
    <3>. HIDE DEF headed
    <3>6. Within(Tail(headed), headed)
      BY <3>5, TailWithin
    <3>. QED
      BY <3>2, <3>5, <3>6, WithinPart
  <2>2. CASE labelled[f] = {}
    <3>1. given = PartGiven(t, plain, f, unfilled)
      BY <2>2
    <3>. HIDE DEF plain, unfilled, given
    <3>. QED
      BY <1>2, <3>1, GivenWithin
  <2>. QED
    BY <2>1, <2>2
<1>. HIDE DEF given, open, value
<1>4. CASE f \notin open
  BY <1>1, <1>4 DEF value
<1>5. CASE f \in open
  <2>1. given # <<>> /\ value = PartValue(f, given)
    BY <1>1, <1>5 DEF value
  <2>2. given \in Seq(P)
    BY <1>3, WithinText
  <2>3. Says(given, f, PartValue(f, given))
    BY <2>1, <2>2, PartValueSaid DEF value
  <2>. QED
    BY <1>3, <2>1, <2>3, PartSays DEF value
<1>. QED
  BY <1>4, <1>5
-----------------------------------------------------------------------------
(* The whole message                                                          *)

LEMMA FallbackSaid ==
    ASSUME NEW P, NEW t \in Seq(P), NEW f \in Detail, Fallback(t, f) # Unread
    PROVE  Says(t, f, Fallback(t, f))
<1>1. CASE f = "guest_name"
  <2>1. Fallback(t, f) = t /\ t # <<>>
    BY <1>1 DEF Fallback, StayDate
  <2>. QED
    BY <1>1, <2>1, WithinItself DEF Says
<1>2. CASE f = "guests"
  <2>. DEFINE figures == Of(t, {"number", "date", "phone"})
  <2>1. figures # {} /\ Fallback(t, f) = LeadingNumber(t[First(figures)])
    BY <1>2 DEF Fallback, StayDate
  <2>2. /\ figures \subseteq DOMAIN t /\ figures \subseteq Nat
        /\ \A i \in figures : t[i].kind \in {"number", "date", "phone"}
    BY PlacesIn DEF Of
  <2>. HIDE DEF figures
  <2>3. First(figures) \in figures
    BY <2>1, <2>2, FirstOf
  <2>. QED
    BY <1>2, <2>1, <2>2, <2>3 DEF Says
<1>3. CASE f \in StayDate
  <2>1. Fallback(t, f) = NaturalDate(t) /\ NaturalDate(t) # Unread
    BY <1>3 DEF Fallback, StayDate
  <2>. QED
    BY <1>3, <2>1, NaturalDateSaid, StaySays DEF DateSaid
<1>4. CASE f \notin StayDate \cup {"guest_name", "guests"}
  BY <1>4 DEF Fallback
<1>. QED
  BY <1>1, <1>2, <1>3, <1>4

\* A detail that is read of a message is said by it: a name, an e-mail and a phone number
\* stand in it as they are, a number of guests is the first figure of one of its pieces, and
\* a date is the day and the month of one of its dates, with the year if it has one.  This is
\* so for every message and whatever is asked for (_extract_updates_from_message).
THEOREM NothingInvented ==
    ASSUME NEW P, NEW t \in Seq(P), NEW awaiting, NEW f \in Detail,
           ReadingOf(t, awaiting).updates[f] # Unread
    PROVE  Says(t, f, ReadingOf(t, awaiting).updates[f])
<1>. DEFINE written == Written(t, StayRead(t))
            read    == Read(t, written)
            value   == ReadingOf(t, awaiting).updates[f]
<1>1. value = IF f = awaiting /\ read[f] = Unread THEN Fallback(t, f) ELSE read[f]
  BY DEF ReadingOf, ReadWithStay, UpdatesAndErrors, Updates
<1>2. written[f] # Unread => Says(t, f, written[f])
  BY WrittenSaid
<1>. HIDE DEF written
<1>3. read[f] # Unread => Says(t, f, read[f])
  BY <1>2, PartsSaid DEF Read
<1>. HIDE DEF read, value
<1>. QED
  BY <1>1, <1>3, FallbackSaid DEF value

LEMMA AmendedNameSaid ==
    ASSUME NEW P, NEW t \in Seq(P), AmendedName(t) # Unread
    PROVE  Says(t, "guest_name", AmendedName(t))
<1>. DEFINE ends(i) == i > Len(t) \/ t[i].kind \in {"comma", "words"}
            says    == {i \in Of(t, {"nameIs"}) :
                           i < Len(t) /\ t[i + 1].kind = "words" /\ ends(i + 2)}
            place   == First(says)
<1>1. says # {} /\ AmendedName(t) = <<t[place + 1]>>
  BY DEF AmendedName
<1>2. says \subseteq Nat /\ \A i \in says : i < Len(t)
  BY PlacesIn
<1>. HIDE DEF says
<1>3. place \in Nat /\ place < Len(t)
  BY <1>1, <1>2, FirstOf
<1>. HIDE DEF place
<1>4. <<t[place + 1]>> = [i \in 1..1 |-> t[place + i]]
  OBVIOUS
<1>5. place \in Nat /\ 1 \in Nat /\ place + 1 <= Len(t)
  BY <1>3, PlacesIn
<1>6. Within(<<t[place + 1]>>, t)
  BY <1>4, <1>5, WithinAt
<1>. QED
  BY <1>1, <1>6 DEF Says

\* The same of the new value of a detail of a registered booking: the amendment reads names
\* in a way of its own, the other details as the form does (_extract_amendment_updates).
THEOREM NoAmendmentInvented ==
    ASSUME NEW P, NEW t \in Seq(P), NEW awaiting, NEW f \in Detail,
           AmendmentValue(t, f, ReadingOf(t, awaiting).updates) # Unread
    PROVE  Says(t, f, AmendmentValue(t, f, ReadingOf(t, awaiting).updates))
<1>. DEFINE updates == ReadingOf(t, awaiting).updates
<1>1. /\ f = "guest_name"  => AmendmentValue(t, f, updates) = AmendedName(t)
      /\ f = "guest_email" => AmendmentValue(t, f, updates) = EmailRead(t)
      /\ f = "guest_phone" => AmendmentValue(t, f, updates) = PhoneRead(t)
      /\ f \notin {"guest_name", "guest_email", "guest_phone"} =>
             AmendmentValue(t, f, updates) = updates[f]
  BY DEF AmendmentValue
<1>. QED
  BY <1>1, NothingInvented, AmendedNameSaid, EmailSaid, PhoneSaid

(* What is said alone                                                         *)

LEMMA FirstAlone == First({1}) = 1
  BY FirstOf

LEMMA Alone ==
    ASSUME NEW p, p.kind \notin {"label", "nameIs"}
    PROVE  /\ DOMAIN <<p>> = {1} /\ Len(<<p>>) = 1 /\ <<p>>[1] = p
           /\ \A f : Labels(<<p>>, f) = {}
           /\ \A f : SegmentOf(<<p>>, f) = <<>> /\ f \notin Named(<<p>>)
           /\ \A written : Read(<<p>>, written) = written
<1>. DEFINE t == <<p>>
<1>1. DOMAIN t = {1} /\ Len(t) = 1 /\ t[1] = p
  <2>1. DOMAIN t = 1..1 /\ Len(t) = 1 /\ t[1] = p
    OBVIOUS
  <2>. QED
    BY <2>1
<1>. HIDE DEF t
<1>2. \A f : Labels(t, f) = {}
  BY <1>1 DEF Labels, Of
<1>3. Of(t, {"nameIs"}) = {}
  BY <1>1 DEF Of
<1>4. \A f : f \notin Named(t) /\ SegmentOf(t, f) = <<>>
  BY <1>2, <1>3 DEF Named, Naming, SegmentOf
<1>5. Cardinality(Starts(t)) < 2
  <2>1. Starts(t) \subseteq {1}
    BY <1>1 DEF Starts
  <2>2. IsFiniteSet({1}) /\ Cardinality({1}) = 1
    BY FS_Singleton
  <2>3. Cardinality(Starts(t)) <= Cardinality({1}) /\ Cardinality(Starts(t)) \in Nat
    BY <2>1, <2>2, FS_Subset, FS_CardinalityType
  <2>. QED
    BY <2>2, <2>3
<1>6. \A written : Read(t, written) = written
  <2>1. Cardinality(Starts(t)) \in Nat
    <3>1. Starts(t) \subseteq {1}
      BY <1>1 DEF Starts
    <3>. QED
      BY <3>1, FS_Singleton, FS_Subset, FS_CardinalityType
  <2>2. ~(Cardinality(Starts(t)) >= 2)
    BY <1>5, <2>1
  <2>. QED
    BY <2>2 DEF Read, Compact
<1>. QED
  BY <1>1, <1>2, <1>4, <1>6 DEF t

\* Nothing is associated with the labels of a stay that are not there.
LEMMA StayOfNothing ==
    ASSUME NEW p, p.kind \notin {"label", "nameIs"}, Unread \notin StayDate, NEW f \in StayDate
    PROVE  StayRead(<<p>>)[f] = Unread
<1>. DEFINE t     == <<p>>
            found == FoundDates(t)
            near  == AssociatedStay(t)
<1>1. DOMAIN t = {1} /\ \A g : Labels(t, g) = {} /\ g \notin Named(t)
  BY Alone
<1>. HIDE DEF t
<1>2. Cardinality(found) \in Nat /\ Cardinality(found) < 2
  <2>1. found \subseteq {1}
    BY <1>1 DEF FoundDates, Of
  <2>. HIDE DEF found
  <2>2. IsFiniteSet({1}) /\ Cardinality({1}) = 1
    BY FS_Singleton
  <2>3. Cardinality(found) <= Cardinality({1}) /\ Cardinality(found) \in Nat
    BY <2>1, <2>2, FS_Subset, FS_CardinalityType
  <2>. QED
    BY <2>2, <2>3
<1>3. \A i : NearestLabel(t, i) = Unread
  BY <1>1 DEF NearestLabel, Distances
<1>4. /\ {i \in found : NearestLabel(t, i) = "check_in"} = {}
      /\ {i \in found : NearestLabel(t, i) = "check_out"} = {}
  BY <1>3 DEF StayDate
<1>5. near = NoStay
  <2>1. near = IF found = {} THEN NoStay
               ELSE InOneYear(t, [check_in  |-> Earliest(t, {}), check_out |-> Earliest(t, {})])
    BY <1>2, <1>4, Zenon DEF AssociatedStay, StayAmong
  <2>2. Earliest(t, {}) = Unread
    BY DEF Earliest
  <2>3. InOneYear(t, NoStay) = NoStay
    BY DEF InOneYear, NoStay
  <2>. QED
    BY <2>1, <2>2, <2>3 DEF NoStay
<1>6. LabelledStay(t, near) = [g \in StayDate |-> Unread]
  BY <1>1 DEF LabelledStay, LabelledDate
<1>7. StayRead(t) = [g \in StayDate |-> Unread]
  <2>1. ~(\A g \in StayDate : Labels(t, g) # {})
    BY <1>1 DEF StayDate
  <2>2. StayRead(t) = [g \in StayDate |-> LabelledStay(t, near)[g]]
    BY <2>1, Zenon DEF StayRead, StayNear, Reconciled
  <2>. QED
    BY <1>6, <2>2
<1>. QED
  BY <1>7 DEF t

LEMMA DateAlone ==
    ASSUME NEW p, p.kind = "date", p.order \in {"numeric", "dayFirst", "monthFirst"},
           p.order = "numeric" => ~Yearless(p)
    PROVE  NaturalDate(<<p>>) = DateOf(p)
<1>. DEFINE s == <<p>>
            said(order, yearless) == {i \in Of(s, {"date"}) : /\ s[i].order = order /\ Seen(s, i)
                                                              /\ Yearless(s[i]) = yearless}
            before(i)  == i > 1 /\ s[i - 1].kind \in Lettered
            after(i)   == i < Len(s) /\ s[i + 1].kind \in Lettered
            dayFirst   == said("dayFirst", TRUE)
            monthFirst == said("monthFirst", TRUE)
            numberWord == dayFirst \cup {i \in monthFirst \cup Of(s, {"number"}) : after(i)}
            wordNumber == monthFirst \cup {i \in dayFirst \cup Of(s, {"number"}) : before(i)}
            read(place, order) == IF place \cap order # {} /\ First(place) \in order
                                  THEN DateOf(s[First(place)]) ELSE Unread
            dated(order) == said(order, FALSE)
<1>1. DOMAIN s = {1} /\ Len(s) = 1 /\ s[1] = p
  BY Alone
<1>2. NaturalDate(s) =
          IF dated("numeric") # {}         THEN DateOf(s[First(dated("numeric"))])
          ELSE IF dated("dayFirst") # {}   THEN DateOf(s[First(dated("dayFirst"))])
          ELSE IF dated("monthFirst") # {} THEN DateOf(s[First(dated("monthFirst"))])
          ELSE IF read(numberWord, dayFirst) # Unread THEN read(numberWord, dayFirst)
          ELSE read(wordNumber, monthFirst)
  BY Zenon DEF NaturalDate
<1>. HIDE DEF s
<1>3. Of(s, {"date"}) = {1} /\ Of(s, {"number"}) = {} /\ Seen(s, 1)
  BY <1>1 DEF Of, Seen
<1>4. \A order, yearless : said(order, yearless) =
          IF p.order = order /\ Yearless(p) = yearless THEN {1} ELSE {}
  BY <1>1, <1>3
<1>. HIDE DEF said
<1>5. /\ numberWord = dayFirst
      /\ wordNumber = monthFirst
  <2>1. dayFirst \subseteq {1} /\ monthFirst \subseteq {1}
    BY <1>4
  <2>2. ~after(1) /\ ~before(1)
    BY <1>1
  <2>. HIDE DEF dayFirst, monthFirst, after, before
  <2>. QED
    BY <1>3, <2>1, <2>2
<1>6. read(dayFirst, dayFirst) = IF dayFirst = {1} THEN DateOf(p) ELSE Unread
  BY <1>1, <1>4, FirstAlone
<1>7. read(monthFirst, monthFirst) = IF monthFirst = {1} THEN DateOf(p) ELSE Unread
  BY <1>1, <1>4, FirstAlone
<1>8. CASE Yearless(p)
  <2>1. dated("numeric") = {} /\ dated("dayFirst") = {} /\ dated("monthFirst") = {}
    BY <1>4, <1>8
  <2>2. p.order = "dayFirst" => dayFirst = {1}
    BY <1>4, <1>8
  <2>3. p.order = "monthFirst" => dayFirst = {} /\ monthFirst = {1}
    BY <1>4, <1>8
  <2>4. p.order = "dayFirst" => monthFirst = {}
    BY <1>4
  <2>5. NaturalDate(s) = IF read(dayFirst, dayFirst) # Unread THEN read(dayFirst, dayFirst)
                         ELSE read(monthFirst, monthFirst)
    BY <1>2, <1>5, <2>1
  <2>. HIDE DEF read, dayFirst, monthFirst
  <2>. QED
    BY <1>6, <1>7, <1>8, <2>2, <2>3, <2>4, <2>5 DEF s
<1>9. CASE ~Yearless(p)
  <2>1. dated(p.order) = {1} /\ \A order : order # p.order => dated(order) = {}
    <3>1. \A order : p.order = order => said(order, FALSE) = {1}
      BY <1>4, <1>9 DEF Yearless
    <3>2. \A order : p.order # order => said(order, FALSE) = {}
      BY <1>4
    <3>. QED
      BY <3>1, <3>2
  <2>2. NaturalDate(s) = DateOf(s[First({1})])
    BY <1>2, <2>1
  <2>. QED
    BY <1>1, <2>2, FirstAlone DEF s
<1>. QED
  BY <1>8, <1>9

\* The answer <<p>> to the question for f, and what is read of it
IsAnswer(p, f) ==
    CASE f = "guest_name"  -> p.kind = "words"
      [] f = "guest_email" -> p.kind = "email"
      [] f = "guest_phone" -> p.kind = "phone"
      [] f = "guests"      -> p.kind = "number"
      [] OTHER             -> /\ p.kind = "date" /\ DateOf(p) # Unread
                              /\ p.order \in {"numeric", "dayFirst", "monthFirst"}
                              /\ p.order = "numeric" => ~Yearless(p)
Answered(p, f) ==
    CASE f = "guest_name" -> <<p>>
      [] f \in {"guest_email", "guest_phone"} -> p
      [] f = "guests"     -> p.value
      [] OTHER            -> DateOf(p)

\* An answer that is the value asked for and nothing else is read as that value, whichever
\* field is asked for, and no date of it is reported as unreadable.
THEOREM AnswersAreRead ==
    ASSUME Unread \notin StayDate, NEW f \in Detail, NEW p, IsAnswer(p, f)
    PROVE  ReadingOf(<<p>>, f).updates[f] = Answered(p, f) /\ ReadingOf(<<p>>, f).errors = {}
<1>. DEFINE t       == <<p>>
            stay    == StayRead(t)
            written == Written(t, stay)
            updates == Updates(t, f, Read(t, written))
<1>1. p.kind \in {"words", "email", "phone", "number", "date"}
  BY Details DEF IsAnswer
<1>2. /\ DOMAIN t = {1} /\ Len(t) = 1 /\ t[1] = p
      /\ \A g : Labels(t, g) = {} /\ SegmentOf(t, g) = <<>> /\ g \notin Named(t)
      /\ Read(t, written) = written
  BY <1>1, Alone
<1>3. /\ ReadingOf(t, f).updates = updates
      /\ ReadingOf(t, f).errors = DateErrors(t, f, stay, updates)
  BY DEF ReadingOf, ReadWithStay, UpdatesAndErrors
<1>4. \A g \in StayDate : stay[g] = Unread
  BY <1>1, StayOfNothing
<1>5. updates[f] = IF written[f] = Unread THEN Fallback(t, f) ELSE written[f]
  BY <1>2 DEF Updates
<1>6. \A kinds : Of(t, kinds) = IF p.kind \in kinds THEN {1} ELSE {}
  BY <1>2 DEF Of
<1>7. t # <<>> /\ ~NameCandidate(<<>>)
  BY <1>2, NamesAreSomething
<1>. HIDE DEF t, stay
<1>8. updates[f] = Answered(p, f)
  <2>1. CASE f = "guest_name"
    <3>1. p.kind = "words"
      BY <2>1 DEF IsAnswer
    <3>2. NameRead(t) = Unread
      BY <1>2, <1>6, <1>7, <3>1 DEF NameRead
    <3>3. Fallback(t, f) = t
      BY <1>2, <1>7, <2>1, <3>1 DEF Fallback, Lettered, StayDate
    <3>. QED
      BY <1>5, <2>1, <3>2, <3>3 DEF Written, Answered, t
  <2>2. CASE f = "guest_email"
    <3>1. EmailRead(t) = p
      BY <1>2, <1>6, <2>2, FirstAlone DEF EmailRead, IsAnswer
    <3>2. Fallback(t, f) = Unread
      BY <2>2 DEF Fallback, StayDate
    <3>. QED
      BY <1>5, <2>2, <3>1, <3>2 DEF Written, Answered
  <2>3. CASE f = "guest_phone"
    <3>. DEFINE dialable == {i \in DOMAIN t : Dialable(t[i])}
                asked    == {i \in dialable : i - 1 \in Labels(t, "guest_phone")}
                figures  == dialable \cup {i \in Of(t, {"date"}) :
                                             t[i].order = "monthFirst" /\ ~Yearless(t[i])}
    <3>1. p.kind = "phone"
      BY <2>3 DEF IsAnswer
    <3>2. dialable = {1} /\ asked = {} /\ figures = {1}
      <4>1. dialable = {1}
        BY <1>2, <3>1 DEF Dialable
      <4>2. asked = {}
        BY <1>2
      <4>3. Of(t, {"date"}) = {}
        BY <1>6, <3>1
      <4>. QED
        BY <4>1, <4>2, <4>3
    <3>3. Cardinality(figures) = 1
      BY <3>2, FS_Singleton
    <3>4. PhoneRead(t) = t[First(dialable)]
      <4>1. PhoneRead(t) = IF asked # {} THEN t[First(asked)]
                           ELSE IF Cardinality(figures) = 1 /\ dialable # {}
                           THEN t[First(dialable)] ELSE Unread
        BY Zenon DEF PhoneRead
      <4>. HIDE DEF dialable, asked, figures
      <4>. QED
        BY <3>2, <3>3, <4>1
    <3>5. PhoneRead(t) = p
      BY <1>2, <3>2, <3>4, FirstAlone
    <3>6. written[f] \in {p, PhoneRead(<<>>)} /\ (p # Unread => written[f] = p)
      BY <1>2, <2>3, <3>5 DEF Written
    <3>7. PhoneRead(<<>>) = Unread
      BY DEF PhoneRead
    <3>8. Fallback(t, f) = Unread
      BY <2>3 DEF Fallback, StayDate
    <3>. QED
      BY <1>5, <2>3, <3>6, <3>7, <3>8 DEF Answered
  <2>4. CASE f = "guests"
    <3>1. p.kind = "number"
      BY <2>4 DEF IsAnswer
    <3>2. GuestsRead(t) = Unread
      BY <1>2, <3>1 DEF GuestsRead
    <3>3. Fallback(t, f) = p.value
      BY <1>2, <1>6, <2>4, <3>1, FirstAlone DEF Fallback, LeadingNumber, StayDate
    <3>. QED
      BY <1>5, <2>4, <3>2, <3>3 DEF Written, Answered
  <2>5. CASE f \in StayDate
    <3>1. written[f] = Unread
      BY <1>4, <2>5 DEF Written, StayDate
    <3>2. ~DatesAnnounced(t)
      BY <1>2 DEF DatesAnnounced
    <3>3. Fallback(t, f) = NaturalDate(t)
      BY <2>5, <3>2 DEF Fallback, StayDate
    <3>4. NaturalDate(t) = DateOf(p)
      BY <2>5, DateAlone DEF IsAnswer, StayDate, t
    <3>. QED
      BY <1>5, <2>5, <3>1, <3>3, <3>4 DEF Answered, StayDate
  <2>. QED
    BY <2>1, <2>2, <2>3, <2>4, <2>5, Details DEF StayDate
<1>9. DateErrors(t, f, stay, updates) = {}
  <2>1. f \in StayDate => updates[f] # Unread
    BY <1>8 DEF Answered, IsAnswer, StayDate
  <2>. QED
    BY <1>2, <2>1 DEF DateErrors
<1>. QED
  BY <1>3, <1>8, <1>9 DEF t

\* A date said without a year is one of this year or the next: of the next only if this
\* year's is past, and past itself only if the next year has no such day, as a 29 February
\* may not (_infer_year).
YearAhead(p, d) ==
    /\ d.year \in {Today.year, Today.year + 1}
    /\ d.year = Today.year + 1 => Before(In(Today.year, p), Today)
    /\ Before(d, Today) => ~OnCalendar(In(Today.year + 1, p))

\* The year that is inferred for a date said without one.
THEOREM YearlessDatesLieAhead ==
    ASSUME NEW p, Yearless(p), DateOf(p) # Unread, Unread \notin Nat
    PROVE  YearAhead(p, DateOf(p))
<1>. DEFINE year == InferredYear(p)
<1>1. DateOf(p) = In(year, p) /\ year # Unread
  BY DEF DateOf
<1>2. DateOf(p).year = year
  BY <1>1 DEF In
<1>3. OnCalendar(In(Today.year, p))
  BY <1>1 DEF InferredYear
<1>4. Today.year \in Nat
  BY TodayAssumption
<1>5. CASE Before(In(Today.year, p), Today) /\ OnCalendar(In(Today.year + 1, p))
  <2>1. year = Today.year + 1
    BY <1>3, <1>5 DEF InferredYear
  <2>2. ~Before(DateOf(p), Today)
    BY <1>2, <1>4, <2>1 DEF Before
  <2>. QED
    BY <1>2, <1>5, <2>1, <2>2 DEF YearAhead
<1>6. CASE ~(Before(In(Today.year, p), Today) /\ OnCalendar(In(Today.year + 1, p)))
  <2>1. year = Today.year
    BY <1>3, <1>6 DEF InferredYear
  <2>2. Today.year # Today.year + 1
    BY <1>4
  <2>. QED
    BY <1>1, <1>2, <1>6, <2>1, <2>2 DEF YearAhead
<1>. QED
  BY <1>5, <1>6
-----------------------------------------------------------------------------
(* The form                                                                   *)

TextsTold == \A m \in Told : m.text \in Seq(Range(m.text))

\* One answer changes a detail of the form only to what that answer says of it, or takes it
\* back: nothing comes from an earlier answer, another field or the schema.
FormStoresWhatIsSaid ==
    [][ \A f \in Detail :
            \/ booking_state'[f] \in {booking_state[f], Unread}
            \/ Says(told'.text, f, booking_state'[f]) ]_vars

\* What the form has stored can be presented for review as far as it goes: a stay that does
\* not begin in the past or end before it begins, and guests that the property takes.
FormSound ==
    LET given(f) == booking_state[f] # Unread
    IN  /\ given("check_in") => ~Before(booking_state.check_in, Today)
        /\ given("check_in") /\ given("check_out") =>
               Before(booking_state.check_in, booking_state.check_out)
        /\ given("guests") => booking_state.guests \in 1..20 /\ booking_state.guests <= MaxGuests

\* What is stored of an answer, before it is validated as a whole
LEMMA StoredFrom ==
    ASSUME NEW details, NEW updates, NEW f \in Detail
    PROVE  LET d == Stored(details, updates).details
           IN  \/ d[f] = details[f]
               \/ /\ updates[f] # Unread /\ d[f] = updates[f]
                  /\ f = "guests" => d[f] \in 1..20
                  /\ f = "check_in" => ~Before(d[f], Today)
<1>. DEFINE given(g)    == updates[g] # Unread
            stayFrom    == IF given("check_in") /\ Valid("check_in", updates.check_in, details)
                           THEN [details EXCEPT !.check_in = updates.check_in] ELSE details
            accepted(g) == given(g) /\ Valid(g, updates[g], stayFrom)
            d           == Stored(details, updates).details
<1>1. d = [g \in Detail |-> IF accepted(g) THEN updates[g] ELSE details[g]]
  BY DEF Stored
<1>2. d[f] = IF accepted(f) THEN updates[f] ELSE details[f]
  BY <1>1
<1>3. accepted("guests") => updates["guests"] \in 1..20
  BY DEF Valid
<1>4. accepted("check_in") => ~Before(updates["check_in"], Today)
  BY DEF Valid
<1>. QED
  BY <1>2, <1>3, <1>4

\* and what is left of it then
LEMMA CommittedFrom ==
    ASSUME NEW details, NEW reading
    PROVE  LET d    == Stored(details, reading.updates).details
               kept == Commit(details, reading).details
           IN  /\ \A f \in Detail : kept[f] \in {d[f], Unread}
               /\ kept["guests"] # Unread => ~(kept["guests"] > MaxGuests)
               /\ kept["check_in"] # Unread /\ kept["check_out"] # Unread =>
                      Before(kept["check_in"], kept["check_out"])
<1>. DEFINE stored  == Stored(details, reading.updates)
            d       == stored.details
            refused == stored.refused \cup reading.errors
            crowded == d.guests # Unread /\ d.guests > MaxGuests
            badIn   == "check_in" \in refused
            badOut  == /\ d.check_in # Unread /\ d.check_out # Unread
                       /\ ~Before(d.check_in, d.check_out)
            kept    == [d EXCEPT !.guests    = IF crowded THEN Unread ELSE @,
                                 !.check_in  = IF badIn THEN Unread ELSE @,
                                 !.check_out = IF badIn \/ badOut THEN Unread ELSE @]
<1>1. Commit(details, reading).details = kept
  BY DEF Commit
<1>2. DOMAIN d = Detail
  BY DEF Stored
<1>. HIDE DEF d, badIn
<1>3. /\ kept["guests"] = IF crowded THEN Unread ELSE d["guests"]
      /\ kept["check_in"] = IF badIn THEN Unread ELSE d["check_in"]
      /\ kept["check_out"] = IF badIn \/ badOut THEN Unread ELSE d["check_out"]
      /\ \A f \in Detail \ {"guests", "check_in", "check_out"} : kept[f] = d[f]
  BY <1>2, Details
<1>. HIDE DEF kept
<1>4. \A f \in Detail : kept[f] \in {d[f], Unread}
  BY <1>3
<1>5. kept["guests"] # Unread => ~(kept["guests"] > MaxGuests)
  BY <1>3
<1>6. kept["check_in"] # Unread /\ kept["check_out"] # Unread =>
          Before(kept["check_in"], kept["check_out"])
  BY <1>3
<1>. QED
  BY <1>1, <1>4, <1>5, <1>6 DEF d

\* Every answer to the form: the form keeps to what that answer says.
THEOREM FormOnlyHears ==
    ASSUME TextsTold
    PROVE  Spec => FormStoresWhatIsSaid
<1>. DEFINE Heard == \A f \in Detail : \/ booking_state'[f] \in {booking_state[f], Unread}
                                       \/ Says(told'.text, f, booking_state'[f])
<1>1. ASSUME Next PROVE Heard
  <2>1. PICK m \in Told : Answer(m)
    BY <1>1 DEF Next
  <2>. DEFINE reading == ReadingOf(m.text, awaiting_field)
  <2>2. booking_state' = Commit(booking_state, reading).details /\ told' = m
    BY <2>1 DEF Answer
  <2>3. \A f \in Detail : reading.updates[f] # Unread => Says(m.text, f, reading.updates[f])
    BY NothingInvented DEF TextsTold
  <2>. HIDE DEF reading
  <2>4. \A f \in Detail :
            \/ booking_state'[f] \in {booking_state[f], Unread}
            \/ reading.updates[f] # Unread /\ booking_state'[f] = reading.updates[f]
    BY <2>2, StoredFrom, CommittedFrom
  <2>. QED
    BY <2>2, <2>3, <2>4
<1>2. [Next]_vars => [Heard]_vars
  BY <1>1
<1>. QED
  BY <1>2, PTL DEF Spec, FormStoresWhatIsSaid

\* However the form is answered, in whatever order and with whatever corrections.
THEOREM FormIsSound ==
    ASSUME MaxGuests \in Nat, Unread \notin Nat
    PROVE  Spec => []FormSound
<1>1. Init => FormSound
  BY Details DEF Init, Nothing, FormSound
<1>2. FormSound /\ [Next]_vars => FormSound'
  <2>. SUFFICES ASSUME FormSound, [Next]_vars PROVE FormSound'
    OBVIOUS
  <2>1. ASSUME NEW m \in Told, Answer(m) PROVE FormSound'
    <3>. DEFINE reading == ReadingOf(m.text, awaiting_field)
                d       == Stored(booking_state, reading.updates).details
    <3>1. booking_state' = Commit(booking_state, reading).details
      BY <2>1 DEF Answer
    <3>. HIDE DEF reading
    <3>2. \A f \in Detail :
              \/ d[f] = booking_state[f]
              \/ /\ f = "guests" => d[f] \in 1..20
                 /\ f = "check_in" => ~Before(d[f], Today)
      BY StoredFrom
    <3>3. /\ \A f \in Detail : booking_state'[f] \in {d[f], Unread}
          /\ booking_state'["guests"] # Unread => ~(booking_state'["guests"] > MaxGuests)
          /\ booking_state'["check_in"] # Unread /\ booking_state'["check_out"] # Unread =>
                 Before(booking_state'["check_in"], booking_state'["check_out"])
      BY <3>1, CommittedFrom
    <3>. HIDE DEF d
    <3>4. booking_state'["check_in"] # Unread => ~Before(booking_state'["check_in"], Today)
      BY <3>2, <3>3, Details DEF FormSound
    <3>5. booking_state'["guests"] # Unread => booking_state'["guests"] \in 1..20
      BY <3>2, <3>3, Details DEF FormSound
    <3>. QED
      BY <3>3, <3>4, <3>5 DEF FormSound
  <2>2. CASE UNCHANGED vars
    BY <2>2 DEF vars, FormSound
  <2>. QED
    BY <2>1, <2>2 DEF Next
<1>. QED
  BY <1>1, <1>2, PTL DEF Spec
=============================================================================

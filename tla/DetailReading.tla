---------------------------- MODULE DetailReading ---------------------------
(* What the booking reads of a guest's message: the value it gives each of   *)
(* the six details, and the dates it announces and does not give             *)
(* (app/services/booking/date_parser.py and extraction.py).  Pure operators. *)
(*                                                                           *)
(* A message is a sequence of pieces: a "label" (a word that names a field), *)
(* a "date", "number", "email", "phone", a run of other "words", the words   *)
(* "nameIs" ("my name is"), or the "comma" that the code splits messages at  *)
(* (or ; or |).  Each has its number of words and its place in the message,  *)
(* as characters [at, end), because labels are matched to dates by distance. *)
(* Messages in which the code's patterns read two values as one are left     *)
(* out: values with a space alone between them, and a date without its year  *)
(* before a comma and a date in figures.  Days are written with two figures. *)
EXTENDS Integers, SequencesExt

CONSTANTS Today,     \* the reference date of the booking schema
          Unread     \* a detail that a message does not give

ASSUME TodayAssumption == Today \in [year : Nat, month : 1..12, day : 1..31]

AskOrder == <<"guest_name", "guest_email", "guest_phone",
              "check_in", "check_out", "guests">>

Detail   == Range(AskOrder)
StayDate == {"check_in", "check_out"}

First(S)  == CHOOSE i \in S : \A j \in S : i <= j
Latest(S) == CHOOSE i \in S : \A j \in S : j <= i

\* the places in t of the pieces of some kinds
Of(t, kinds) == {i \in DOMAIN t : t[i].kind \in kinds}

\* Figures and hyphens make a phone number, and so does a date in figures.
Dialable(p) == p.kind = "phone" \/ (p.kind = "date" /\ p.order = "numeric")

Lettered == {"label", "nameIs", "words", "email"}
-----------------------------------------------------------------------------
(* Dates *)

MonthLength(year, month) ==
    CASE month = 2 -> IF year % 4 = 0 /\ (year % 100 # 0 \/ year % 400 = 0) THEN 29 ELSE 28
      [] month \in {4, 6, 9, 11} -> 30
      [] OTHER -> 31

OnCalendar(d) == d.month \in 1..12 /\ d.day \in 1..MonthLength(d.year, d.month)

Before(d, e) == \/ d.year < e.year
                \/ d.year = e.year /\ d.month < e.month
                \/ d.year = e.year /\ d.month = e.month /\ d.day < e.day

In(year, p) == [year |-> year, month |-> p.month, day |-> p.day]

\* The year of a date said without one: this one if the day is still to come,
\* else the next.  A 29 February is only looked for in the year it is said.
InferredYear(p) ==
    IF ~OnCalendar(In(Today.year, p)) THEN Unread
    ELSE IF Before(In(Today.year, p), Today) /\ OnCalendar(In(Today.year + 1, p))
         THEN Today.year + 1
         ELSE Today.year

Yearless(p) == p.year = Unread

\* the date that a piece of a message says
DateOf(p) ==
    LET year == IF Yearless(p) THEN InferredYear(p) ELSE p.year
    IN  IF year # Unread /\ OnCalendar(In(year, p)) THEN In(year, p) ELSE Unread

\* A date without a year goes unseen before a comma and four figures, which could
\* have been its year.
Seen(t, i) ==
    ~(/\ Yearless(t[i])
      /\ i + 2 <= Len(t) /\ t[i + 1].kind = "comma" /\ t[i + 2].kind = "phone")

\* The one date read from a piece of text.  A date in figures excludes every
\* other; one without a year is looked for where the first number stands beside
\* a word, which need not be a date.
NaturalDate(s) ==
    LET said(order, yearless) == {i \in Of(s, {"date"}) : /\ s[i].order = order /\ Seen(s, i)
                                                          /\ Yearless(s[i]) = yearless}
        before(i)  == i > 1 /\ s[i - 1].kind \in Lettered
        after(i)   == i < Len(s) /\ s[i + 1].kind \in Lettered
        dayFirst   == said("dayFirst", TRUE)
        monthFirst == said("monthFirst", TRUE)
        numberWord == dayFirst \cup {i \in monthFirst \cup Of(s, {"number"}) : after(i)}
        wordNumber == monthFirst \cup {i \in dayFirst \cup Of(s, {"number"}) : before(i)}
        read(place, order) == IF place \cap order # {} /\ First(place) \in order
                              THEN DateOf(s[First(place)]) ELSE Unread
        dated(order) == said(order, FALSE)
    IN  IF dated("numeric") # {}         THEN DateOf(s[First(dated("numeric"))])
        ELSE IF dated("dayFirst") # {}   THEN DateOf(s[First(dated("dayFirst"))])
        ELSE IF dated("monthFirst") # {} THEN DateOf(s[First(dated("monthFirst"))])
        ELSE IF read(numberWord, dayFirst) # Unread THEN read(numberWord, dayFirst)
        ELSE read(wordNumber, monthFirst)

\* the places of the dates that are found
FoundDates(t) == {i \in Of(t, {"date"}) : Seen(t, i) /\ DateOf(t[i]) # Unread}

\* the date said at the first of some places
Earliest(t, places) == IF places = {} THEN Unread ELSE DateOf(t[First(places)])

Labels(t, field) == {i \in Of(t, {"label"}) : t[i].field = field}

\* A label that follows a date is worth a fifth, or a tenth, of one before it.
Distance(label, date, penalty) ==
    IF label.end <= date.at THEN date.at - label.end ELSE (label.at - date.end) * penalty

Distances(field, t, i) ==
    {Distance(t[k], t[i], IF field = "check_in" THEN 5 ELSE 10) : k \in Labels(t, field)}

\* the date a stay's label is nearest to
NearestLabel(t, i) ==
    LET ins == Distances("check_in", t, i)   outs == Distances("check_out", t, i)
    IN  IF ins = {} /\ outs = {} THEN Unread
        ELSE IF outs = {} \/ (ins # {} /\ First(ins) <= First(outs)) THEN "check_in"
        ELSE "check_out"

NoStay == [check_in |-> Unread, check_out |-> Unread]

\* mutant: each date keeps the year that was inferred for it alone
YearsAsInferred(t, stay) == stay

\* _normalize_yearless_associated_pair: a check-out without a year is one of the
\* year of the check-in, unless a stay of the winter goes over the new year.
InOneYear(t, stay) ==
    LET saying(d) == t[First({i \in FoundDates(t) : DateOf(t[i]) = d})]
        out == stay.check_out
    IN  IF /\ stay.check_in # Unread /\ out # Unread
           /\ out.year > stay.check_in.year
           /\ Yearless(saying(stay.check_in)) /\ Yearless(saying(out))
           /\ ~(stay.check_in.month >= 10 /\ out.month <= 3)
           /\ OnCalendar(In(stay.check_in.year, out))
        THEN [stay EXCEPT !.check_out = In(stay.check_in.year, out)]
        ELSE stay

\* Which of the dates found each label of the stay is given.
StayAmong(t, found) ==
    LET ins      == Labels(t, "check_in")
        outs     == Labels(t, "check_out")
        other(d) == {i \in found : DateOf(t[i]) # d}
        headed   == /\ ins # {} /\ outs # {}
                    /\ \A i \in ins \cup outs : t[i].end <= t[First(found)].at
        afterOut == {i \in found : t[i].at >= t[Latest(outs)].end}
        out      == Earliest(t, afterOut)
        in1      == Earliest(t, {i \in found : NearestLabel(t, i) = "check_in"})
        out1     == Earliest(t, {i \in found : NearestLabel(t, i) = "check_out"})
        orOther(d, e) == IF d # Unread \/ other(e) = {} THEN d ELSE Earliest(t, other(e))
        stay ==
            IF Cardinality(found) < 2 THEN [check_in |-> in1, check_out |-> out1]
            ELSE IF headed \/ ins \cup outs = {}
            THEN [check_in  |-> Earliest(t, found),
                  check_out |-> Earliest(t, found \ {First(found)})]
            ELSE IF ins = {} /\ afterOut # {} /\ other(out) # {}
            THEN [check_in |-> Earliest(t, other(out)), check_out |-> out]
            ELSE [check_in |-> orOther(in1, out1), check_out |-> orOther(out1, in1)]
    IN  IF found = {} THEN NoStay ELSE InOneYear(t, stay)

\* _extract_dates_by_association
AssociatedStay(t) == StayAmong(t, FoundDates(t))
-----------------------------------------------------------------------------
(* The fields a message names, and what it says after each name *)

\* a name of field f that the schema lists; "checkout" is a label it does not list
Naming(t, f) ==
    {i \in Labels(t, f) : t[i].alias} \cup {i \in Of(t, {"nameIs"}) : f = "guest_name"}

Named(t) == {f \in Detail : Naming(t, f) # {}}

Trimmed(s) ==
    LET solid == DOMAIN s \ Of(s, {"comma"})
    IN  IF solid = {} THEN <<>>
        ELSE SubSeq(s, First(solid), Latest(solid))

\* _field_segments: up to the first name of another field
Segment(t, f) ==
    LET at    == First(Naming(t, f))
        later == {i \in {First(Naming(t, g)) : g \in Named(t)} : i > at}
    IN  Trimmed(SubSeq(t, at + 1, IF later = {} THEN Len(t) ELSE First(later) - 1))

SegmentOf(t, f) == IF f \in Named(t) THEN Segment(t, f) ELSE <<>>

\* a piece of text that may be somebody's name: letters, no e-mail, no date
NameCandidate(s) ==
    /\ Of(s, {"email"}) = {}
    /\ NaturalDate(s) = Unread
    /\ \/ Of(s, Lettered) # {}
       \/ \E i \in Of(s, {"date"}) : s[i].order # "numeric"

\* All the letters after "my name is" are the name, up to a comma or a figure.
NameAfter(t, i) ==
    LET goesOn(j) == \A k \in i + 1 .. j : t[k].kind \in {"words", "label", "nameIs"}
        last      == Latest({j \in i .. Len(t) : goesOn(j)})
        touches   == last < Len(t) /\ (t[last + 1].kind = "email" \/
                         (t[last + 1].kind = "date" /\ t[last + 1].order = "monthFirst"))
    IN  SubSeq(t, i + 1, IF touches THEN last + 1 ELSE last)

NameRead(t) ==
    LET says == Of(t, {"nameIs"})
    IN  IF says # {} /\ NameAfter(t, First(says)) # <<>> THEN NameAfter(t, First(says))
        ELSE IF NameCandidate(SegmentOf(t, "guest_name")) THEN SegmentOf(t, "guest_name")
        ELSE Unread

EmailRead(t) == LET es == Of(t, {"email"}) IN IF es = {} THEN Unread ELSE t[First(es)]

\* the figures after the word phone, else the only ones there are
PhoneRead(t) ==
    LET dialable == {i \in DOMAIN t : Dialable(t[i])}
        asked    == {i \in dialable : i - 1 \in Labels(t, "guest_phone")}
        figures  == dialable \cup {i \in Of(t, {"date"}) :
                                     t[i].order = "monthFirst" /\ ~Yearless(t[i])}
    IN  IF asked # {} THEN t[First(asked)]
        ELSE IF Cardinality(figures) = 1 /\ dialable # {} THEN t[First(dialable)]
        ELSE Unread

\* the first figure of a piece, as a count
LeadingNumber(p) ==
    IF p.kind = "number" THEN p.value
    ELSE IF p.kind = "phone" THEN 0            \* no field accepts it, nor a zero
    ELSE IF p.order = "numeric" THEN p.year ELSE p.day

\* a figure just after the word guests, else one just before it
GuestsRead(t) ==
    LET figures == Of(t, {"number", "date", "phone"})
        after   == {i \in figures : /\ i - 1 \in Labels(t, "guests")
                                    /\ ~(t[i].kind = "date" /\ t[i].order = "monthFirst")}
        before  == {i \in Of(t, {"number"}) : i + 1 \in Labels(t, "guests")}
        segment == SegmentOf(t, "guests")
    IN  IF after # {} THEN LeadingNumber(t[First(after)])
        ELSE IF before # {} THEN t[First(before)].value
        ELSE IF Len(segment) = 1 /\ segment[1].kind \in {"number", "phone"}
        THEN LeadingNumber(segment[1])
        ELSE Unread

\* what is read at each label of the stay, before the two are related
LabelledDate(t, f, near) ==
    IF f \in Named(t) THEN NaturalDate(Segment(t, f))
    ELSE IF Labels(t, f) # {} THEN near[f]
    ELSE Unread

LabelledStay(t, near) == [f \in StayDate |-> LabelledDate(t, f, near)]

\* the dates of the stay: those that follow their labels; where both labels are
\* there and both dates could be associated with them, those
Reconciled(t, near, labelled) ==
    LET found == FoundDates(t)
        both  == \A f \in StayDate : Labels(t, f) # {}
        one   == [f \in StayDate |-> IF labelled[f] # Unread \/ ~both
                                     THEN labelled[f] ELSE near[f]]
        in    == IF one.check_in = Unread THEN Earliest(t, found) ELSE one.check_in
        rest  == {i \in found : DateOf(t[i]) # in}
    IN  IF both /\ \A f \in StayDate : near[f] # Unread THEN near
        ELSE IF both /\ Cardinality(found) >= 2
        THEN [check_in  |-> in,
              check_out |-> IF one.check_out = Unread /\ rest # {} THEN Earliest(t, rest)
                            ELSE one.check_out]
        ELSE one

StayNear(t, near) == Reconciled(t, near, LabelledStay(t, near))
StayRead(t) == StayNear(t, AssociatedStay(t))

Written(t, stay) ==
    [f \in Detail |->
        CASE f = "guest_name"  -> NameRead(t)
          [] f = "guest_email" -> EmailRead(t)
          [] f = "guest_phone" -> IF PhoneRead(t) # Unread THEN PhoneRead(t)
                                  ELSE PhoneRead(SegmentOf(t, "guest_phone"))
          [] f = "guests"      -> GuestsRead(t)
          [] OTHER             -> stay[f]]
-----------------------------------------------------------------------------
(* Short parts between commas, as in a form filled on one line *)

\* where a part begins, and the part that begins there
Starts(t) == {i \in DOMAIN t : t[i].kind # "comma" /\ (i = 1 \/ t[i - 1].kind = "comma")}

Part(t, i) ==
    SubSeq(t, i, Latest({j \in i .. Len(t) : \A k \in i .. j : t[k].kind # "comma"}))

Words(part) == FoldLeft(LAMBDA n, p : n + p.words, 0, part)

MaxPartWords == 4    \* three spaces

Compact(t) ==
    Cardinality(Starts(t)) >= 2 /\ \A i \in Starts(t) : Words(Part(t, i)) <= MaxPartWords

Kind == [ guest_name |-> "text", guest_email |-> "email", guest_phone |-> "phone",
          check_in |-> "date", check_out |-> "date", guests |-> "number" ]

\* what a part without a label looks like
PartKind(part) ==
    IF Of(part, {"date"}) # {} THEN "date"
    ELSE IF Of(part, {"email"}) # {} THEN "email"
    ELSE IF Of(part, Lettered) # {} THEN "text"
    ELSE IF Of(part, {"phone"}) # {} THEN "phone"
    ELSE IF Len(part) = 1 THEN "number" ELSE "text"

Heads(part, f) == part[1].kind = "label" /\ part[1].alias /\ part[1].field = f

Rank(f) == CHOOSE i \in DOMAIN AskOrder : AskOrder[i] = f

\* the value of field f in a part that is labelled with it, or that was given to it
PartValue(f, part) ==
    CASE Kind[f] = "date"   -> NaturalDate(part)
      [] Kind[f] = "number" -> IF Len(part) = 1 /\ part[1].kind = "number"
                               THEN part[1].value ELSE Unread
      [] Kind[f] = "email"  -> EmailRead(part)
      [] Kind[f] = "phone"  -> IF Len(part) = 1 /\ Dialable(part[1]) THEN part[1] ELSE Unread
      [] Kind[f] = "text"   -> IF NameCandidate(part) THEN part ELSE Unread

\* the k-th part of a kind goes to the k-th unfilled field of that kind
PartGiven(t, starts, f, unfilled) ==
    LET alike == {i \in starts : PartKind(Part(t, i)) = Kind[f]}
        k     == Cardinality({g \in unfilled : Kind[g] = Kind[f] /\ Rank(g) <= Rank(f)})
        kth   == {i \in alike : Cardinality({j \in alike : j <= i}) = k}
    IN  IF f \in unfilled /\ kth # {} THEN Part(t, First(kth)) ELSE <<>>

\* Compact messages: the dates are read again, each from its own part, and what
\* could not be read of the whole message is read from the parts.
ReadFromParts(t, written) ==
    LET labelled == [f \in Detail |-> {i \in Starts(t) : Heads(Part(t, i), f)}]
        plain    == {i \in Starts(t) : \A f \in Detail : i \notin labelled[f]}
        open     == {f \in Detail : f \in StayDate \/ written[f] = Unread}
        unfilled == {f \in open : labelled[f] = {}}
        part(f)  == IF labelled[f] # {} THEN Tail(Part(t, Latest(labelled[f])))
                    ELSE PartGiven(t, plain, f, unfilled)
    IN  [f \in Detail |-> IF f \notin open THEN written[f]
                          ELSE IF part(f) = <<>> THEN Unread ELSE PartValue(f, part(f))]
-----------------------------------------------------------------------------
(* The whole message *)

DatesAnnounced(t) == \E f \in StayDate : Labels(t, f) # {}

Read(t, written) == IF Compact(t) THEN ReadFromParts(t, written) ELSE written

\* the field asked for, read from an answer that does not name it
Fallback(t, f) ==
    LET figures == Of(t, {"number", "date", "phone"})
    IN  CASE f = "guest_name" -> IF t # <<>> /\ \A i \in DOMAIN t : t[i].kind \in Lettered \ {"email"}
                                 THEN t ELSE Unread
          [] f = "guests"     -> IF figures = {} THEN Unread ELSE LeadingNumber(t[First(figures)])
          [] f \in StayDate   -> IF DatesAnnounced(t) THEN Unread ELSE NaturalDate(t)
          [] OTHER            -> Unread

\* _extract_updates_from_message: the values of the details, for the draft
Updates(t, awaiting, read) ==
    [f \in Detail |-> IF f = awaiting /\ read[f] = Unread THEN Fallback(t, f) ELSE read[f]]

\* the dates announced or asked for that could not be read.  A date read from a
\* part stays refused if it could not be read before.
DateErrors(t, awaiting, stay, updates) ==
    {f \in StayDate : Labels(t, f) # {} /\ stay[f] = Unread}
    \cup {f \in StayDate : f = awaiting /\ ~DatesAnnounced(t) /\ updates[f] = Unread}

\* _extract_amendment_updates: a name has to be announced, and ends where another
\* run of words ("and ...", "for ...") begins; any other detail is read as the
\* answer to a question about it
AmendedName(t) ==
    LET ends(i) == i > Len(t) \/ t[i].kind \in {"comma", "words"}
        says    == {i \in Of(t, {"nameIs"}) :
                       i < Len(t) /\ t[i + 1].kind = "words" /\ ends(i + 2)}
    IN  IF says = {} THEN Unread ELSE <<t[First(says) + 1]>>

AmendmentValue(t, f, updates) ==
    CASE f = "guest_name"  -> AmendedName(t)
      [] f = "guest_phone" -> PhoneRead(t)
      [] f = "guest_email" -> EmailRead(t)
      [] OTHER -> updates[f]

\* All that is read of a message while f is asked for.
UpdatesAndErrors(t, f, stay, updates) ==
    [updates |-> updates, errors |-> DateErrors(t, f, stay, updates)]
ReadWithStay(t, f, stay) ==
    UpdatesAndErrors(t, f, stay, Updates(t, f, Read(t, Written(t, stay))))
ReadingOf(t, f) == ReadWithStay(t, f, StayRead(t))
=============================================================================

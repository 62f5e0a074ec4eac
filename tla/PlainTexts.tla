------------------------------ MODULE PlainTexts ----------------------------
(* Messages for the instances of the booking's reading: answers to one        *)
(* question, stays told in a sentence, and forms filled on one line.          *)
EXTENDS DetailReading

MCToday == [year |-> 2027, month |-> 6, day |-> 15]

\* A piece before it has its place; size is its number of characters.
Piece(kind, words, size) == [kind |-> kind, words |-> words, size |-> size]
Label(f, alias, words, size) == Piece("label", words, size) @@ [field |-> f, alias |-> alias]
Fill(size)  == Piece("words", 1, size) @@ [name |-> FALSE]
Name        == Piece("words", 2, 10) @@ [name |-> TRUE]
NameIs      == Piece("nameIs", 3, 10)
Email       == Piece("email", 1, 8)
Phone       == Piece("phone", 1, 11)
Count(n)    == Piece("number", 1, 1) @@ [value |-> n]
Comma       == Piece("comma", 0, 1)
Say(order, withYear, d) ==
    Piece("date", IF order = "numeric" THEN 1 ELSE IF withYear THEN 3 ELSE 2,
          IF order = "numeric" THEN 10 ELSE IF withYear THEN 12 ELSE 7)
    @@ [order |-> order, year |-> IF withYear THEN d.year ELSE Unread,
        month |-> d.month, day |-> d.day]

\* the pieces in their places, a space before each but a comma
Laid(ps) ==
    LET end[k \in 0 .. Len(ps)] ==
            IF k = 0 THEN -1
            ELSE end[k - 1] + (IF ps[k].kind = "comma" THEN 0 ELSE 1) + ps[k].size
    IN  [k \in DOMAIN ps |-> ps[k] @@ [at |-> end[k] - ps[k].size, end |-> end[k]]]

\* the contact data and the guests that a text says, as they stand in it
OneOf(t, S) == t[CHOOSE i \in S : TRUE]
Names(t)    == {i \in Of(t, {"words"}) : t[i].name}
ContactIn(t) ==
    (IF Names(t) = {} THEN <<>> ELSE [guest_name |-> <<OneOf(t, Names(t))>>])
    @@ (IF Of(t, {"email"}) = {} THEN <<>> ELSE [guest_email |-> OneOf(t, Of(t, {"email"}))])
    @@ (IF Of(t, {"phone"}) = {} THEN <<>> ELSE [guest_phone |-> OneOf(t, Of(t, {"phone"}))])
    @@ (IF Of(t, {"number"}) = {} THEN <<>> ELSE [guests |-> OneOf(t, Of(t, {"number"})).value])

Plain(ps, stay, asked) ==
    LET t == Laid(ps) IN [text |-> t, says |-> ContactIn(t) @@ stay, asked |-> asked]

-----------------------------------------------------------------------------
On(y, m, d) == [year |-> y, month |-> m, day |-> d]
Stay(i, o)  == [check_in |-> i, check_out |-> o]

\* summer; over the new year; next spring; and one that ends before it begins
Stays == {Stay(On(2027, 7, 20), On(2027, 7, 25)), Stay(On(2027, 12, 30), On(2028, 1, 10)),
          Stay(On(2028, 5, 10), On(2028, 5, 14))}
Reversed == {Stay(On(2027, 7, 20), On(2027, 5, 11))}

\* how a date is said
Manner == {<<"dayFirst", FALSE>>, <<"monthFirst", FALSE>>, <<"dayFirst", TRUE>>}
Figures == <<"numeric", TRUE>>

In1  == Label("check_in", TRUE, 2, 8)       \* check in
In2  == Label("check_in", TRUE, 1, 7)       \* arrival
Out1 == Label("check_out", TRUE, 2, 9)      \* check out
Out2 == Label("check_out", FALSE, 1, 8)     \* checkout

Sentence(i, o, a, b) ==
    { <<i, a, o, b>>, <<o, b, i, a>>,                 \* each label before its date
      <<i, Fill(6), a, Fill(3), o, Fill(6), b>>,      \* "around"
      <<Fill(4), a, i, Fill(2), b, o>>,               \* "from ... check in to ... check out"
      <<i, Fill(3), o, Fill(5), a, Fill(3), b>> }     \* "check in and check out dates"

StaySentences ==
    UNION { { Plain(ps, s, (Detail \ {"guests"}) \cup {Unread}) :
                  ps \in Sentence(i, o, Say(how[1], how[2], s.check_in), Say(how[1], how[2], s.check_out)) } :
            i \in {In1, In2}, o \in {Out1, Out2}, s \in Stays \cup Reversed,
            how \in Manner \cup {Figures} }

WithCommas(parts) ==
    FoldLeft(LAMBDA ps, part : IF ps = <<>> THEN part ELSE Append(ps, Comma) \o part, <<>>, parts)

\* the values of the form, without and with their names
Values(a, b, n) == <<<<Name>>, <<Email>>, <<Phone>>, <<a>>, <<b>>, <<Count(n)>>>>
Labelled(a, b, n) ==
    << <<Label("guest_name", TRUE, 1, 4), Name>>, <<Label("guest_email", TRUE, 1, 5), Email>>,
       <<Label("guest_phone", TRUE, 1, 5), Phone>>, <<In2, a>>, <<Out2, b>>,
       <<Label("guests", TRUE, 1, 6), Count(n)>> >>

Orders == {<<1, 2, 3, 4, 5, 6>>, <<6, 4, 5, 3, 2, 1>>, <<4, 1, 5, 2, 6, 3>>, <<3, 6, 1, 2, 4, 5>>}

InOrder(order, parts) == [k \in DOMAIN order |-> parts[order[k]]]

Forms ==
    { Plain(WithCommas(InOrder(order, Values(Say(how[1], how[2], s.check_in),
                                             Say(how[1], how[2], s.check_out), 2))),
            s, Detail \cup {Unread}) :
        order \in Orders, s \in Stays, how \in Manner \cup {Figures} }
    \cup
    { Plain(WithCommas(InOrder(order, Labelled(Say(how[1], how[2], s.check_in),
                                               Say(how[1], how[2], s.check_out), 2))),
            s, Detail \cup {Unread}) :
        order \in Orders, s \in Stays, how \in {<<"dayFirst", TRUE>>, Figures} }

Answers(d) ==
    { Plain(<<Name>>, <<>>, {"guest_name"}), Plain(<<NameIs, Name>>, <<>>, Detail \ StayDate),
      Plain(<<Email>>, <<>>, {"guest_email", "guest_phone"}),
      Plain(<<Phone>>, <<>>, {"guest_phone", "guest_email"}),
      Plain(<<Count(2)>>, <<>>, {"guests"}),
      Plain(<<Count(2), Label("guests", TRUE, 1, 6)>>, <<>>, {"guests", Unread}) }
    \cup { Plain(<<Say(how[1], how[2], d)>>, [check_in |-> d], {"check_in"}) : how \in Manner }
    \cup { Plain(<<Say(how[1], how[2], d)>>, [check_out |-> d], {"check_out"}) : how \in Manner }

PlainMessages == StaySentences \cup Forms \cup Answers(On(2027, 7, 25)) \cup Answers(On(2028, 5, 14))
=============================================================================

--------------------------- MODULE MCCancellation ---------------------------
(* An instance of CancellationDialogue for TLC.                             *)
EXTENDS CancellationDialogue

CONSTANT b1

Replied(words, refuses) == [words |-> words, id |-> None, refuses |-> refuses]

\* Requests, answers in one word, and refusals in a sentence: the first is one that
\* test_booking_cancellation_flow.py:239 has before the question.
MCReply ==
    { Replied(<<"cancel", "my", "booking">>, FALSE),
      [Replied(<<"it", "is", "this", "one">>, FALSE) EXCEPT !.id = b1],
      Replied(<<"yes">>, FALSE), Replied(<<"no">>, TRUE), Replied(<<"nevermind">>, TRUE),
      Replied(<<"i", "do", "not", "want", "to", "cancel", "my", "booking">>, TRUE),
      Replied(<<"no,", "keep", "it">>, TRUE) }

MCBare == [w \in {"no,"} |-> "no"]
=============================================================================

------------------------------- MODULE MCDetails ------------------------------
(* An instance of DetailDialogue for TLC: the answers of a form, and two       *)
(* check-outs in figures, one of them before the check-in.                     *)
EXTENDS DetailDialogue, PlainTexts

CheckOut(d) == Plain(<<Say("numeric", TRUE, d)>>, [check_out |-> d], {"check_out"})

MCTold == Answers(On(2027, 7, 20)) \cup {CheckOut(On(2027, 7, 11)), CheckOut(On(2027, 7, 25))}
=============================================================================

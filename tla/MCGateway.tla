------------------------------ MODULE MCGateway -----------------------------
(* An instance of Gateway for TLC.                                          *)
EXTENDS Gateway, TLC

CONSTANTS refunds, crowd, MaxTime, ShortTime

\* Two calls of the client, and a question as asked by the FAQ tool together with
\* a search filter, so that a tool can answer it too.
Searching  == Called("search_properties", {"location", "budget"})
Booking    == Called("validate_booking", {})
Asking     == [keys |-> {"location"}, intent |-> "faq", question |-> refunds]

MCRequest  == {Searching, Booking, Asking}
\* Two requests share a hash.
MCCacheKey == [d \in MCRequest |-> IF d \in {Searching, Booking} THEN 1 ELSE 2]
MCRegistries == {ConfiguredTools}
MCFaqWords == [q \in Question |-> 1]

Policy(name, keyword, fuzzy) ==
    [id |-> name, keyword |-> [q \in Question |-> keyword], fuzzy |-> [q \in Question |-> fuzzy]]
\* No policy; one found by its keywords; one by its wording, below the first one.
MCPolicies == {<< >>, <<Policy("wifi", 40, 81), Policy("refund", 60, 82)>>}

\* Bounds on the exploration: calls of a crowd go no further than the limiter, and are
\* four over MaxTime; other calls are three, with a time of their own.
Crowded == \E k \in Call : caller[k] = crowd
WithinBounds ==
    IF Crowded
    THEN /\ now <= MaxTime
         /\ \A k \in Call : /\ caller[k] \in {crowd, Nobody} /\ data[k] \in {Searching, None}
                             /\ stage[k] \in {"idle", "arrived", "admitted", "answered"}
    ELSE /\ now <= ShortTime
         /\ Cardinality({k \in Call : stage[k] # "idle"}) <= 3

AlikeCalls == Permutations(Call)
=============================================================================

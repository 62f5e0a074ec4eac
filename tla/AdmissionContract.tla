-------------------------- MODULE AdmissionContract -------------------------
(* What a rate limiter promises the service behind it: whenever a call is    *)
(* served, fewer than MaxRequests of the calls of its client that came in    *)
(* the last Window had been served.  A call may have come some time before   *)
(* it is served.  The promise holds for one lifetime of the process.         *)
EXTENDS Naturals, FiniteSets

CONSTANTS Client, Call, Window, MaxRequests

VARIABLES clock,     \* the time
          served     \* calls served in this lifetime, by whom made and when they came

Serving == [call : Call, client : Client, at : Nat]

Recent(c) == {s \in served : s.client = c /\ s.at + Window >= clock}

Init == clock \in Nat /\ served = {}

Serve(k, c) ==
    /\ \A s \in served : s.call # k
    /\ Cardinality(Recent(c)) < MaxRequests
    /\ \E t \in 0..clock : served' = served \cup {[call |-> k, client |-> c, at |-> t]}
    /\ UNCHANGED clock

Advance == clock' = clock + 1 /\ UNCHANGED served

Forget == served' = {} /\ UNCHANGED clock

Next == Advance \/ Forget \/ \E k \in Call, c \in Client : Serve(k, c)

Spec == Init /\ [][Next]_<<clock, served>>
=============================================================================

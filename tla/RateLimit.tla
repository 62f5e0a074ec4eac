------------------------------ MODULE RateLimit -----------------------------
(* The sliding-window rate limiter of the Rust gateway                      *)
(* (backend/rust_gateway/src/rate_limiter.rs).                              *)
(*                                                                          *)
(* A call reads the clock first and takes the lock afterwards, on a runtime *)
(* of several threads: calls may take the lock in another order than they   *)
(* read the clock, so the stamps in a deque need not be in order.           *)
EXTENDS Naturals, Sequences, FiniteSets

CONSTANTS Client,          \* client addresses
          Call,            \* requests, each made at most once
          Nobody,          \* the address of a call that was not made
          Window,          \* RUST_RATE_LIMIT_WINDOW_SECS
          MaxRequests,     \* RUST_RATE_LIMIT_MAX
          EvictionPeriod   \* seconds between two runs of the eviction task

ASSUME LimiterAssumption ==
    /\ IsFiniteSet(Call)
    /\ Nobody \notin Client
    /\ Window \in Nat /\ EvictionPeriod \in Nat
    /\ MaxRequests \in Nat

VARIABLES now,        \* the clock
          arrivals,   \* arrivals[c]: the calls of c in the order in which they took the lock
          dropped,    \* dropped[c]: how many of them were popped: the deque of c is the rest
          caller,     \* caller[k]: the address call k came from
          stamp,      \* stamp[k]: the time that call k read from the clock
          passed,     \* passed[k]: the time at which call k had the lock
          verdict     \* what became of call k, as far as this process remembers

limiterVars == <<now, arrivals, dropped, caller, stamp, passed, verdict>>

Verdicts == {"none", "waiting", "admitted", "refused", "forgotten"}

LimiterTypeOK ==
    /\ now \in Nat
    /\ arrivals \in [Client -> Seq(Call)]
    /\ dropped \in [Client -> Nat]
    /\ caller \in [Call -> Client \cup {Nobody}]
    /\ stamp \in [Call -> Nat]
    /\ passed \in [Call -> Nat]
    /\ verdict \in [Call -> Verdicts]

LimiterInit ==
    /\ now = 0
    /\ arrivals = [c \in Client |-> << >>]
    /\ dropped = [c \in Client |-> 0]
    /\ caller = [k \in Call |-> Nobody]
    /\ stamp = [k \in Call |-> 0]
    /\ passed = [k \in Call |-> 0]
    /\ verdict = [k \in Call |-> "none"]
-----------------------------------------------------------------------------
\* Mutant: stale stamps are never dropped.
Unpurged(c, t, age) == dropped[c]

\* Mutant: a stamp exactly one window old is dropped, too.
PurgedAtEdge(c, t, age) ==
    CHOOSE n \in dropped[c]..Len(arrivals[c]) :
        /\ \A p \in dropped[c] + 1..n : stamp[arrivals[c][p]] + age <= t
        /\ n < Len(arrivals[c]) => stamp[arrivals[c][n + 1]] + age > t

\* Stamps older than t - age are popped from the front of the deque of c, as far as
\* the first that is not: stale stamps behind a fresh one stay.
Purged(c, t, age) ==
    CHOOSE n \in dropped[c]..Len(arrivals[c]) :
        /\ \A p \in dropped[c] + 1..n : stamp[arrivals[c][p]] + age < t
        /\ n < Len(arrivals[c]) => stamp[arrivals[c][n + 1]] + age >= t

\* A call reads the clock, before it waits for the lock.
ReadClock(k, c) ==
    /\ verdict[k] = "none"
    /\ caller' = [caller EXCEPT ![k] = c]
    /\ stamp' = [stamp EXCEPT ![k] = now]
    /\ verdict' = [verdict EXCEPT ![k] = "waiting"]
    /\ UNCHANGED <<now, arrivals, dropped, passed>>

Record(k) ==
    /\ verdict[k] = "waiting"
    /\ arrivals' = [arrivals EXCEPT ![caller[k]] = Append(@, k)]
    /\ dropped' = [dropped EXCEPT ![caller[k]] = Purged(caller[k], stamp[k], Window)]
    /\ passed' = [passed EXCEPT ![k] = now]
    /\ UNCHANGED <<now, caller, stamp>>

\* Mutant: the call is counted before it is recorded.
CountThenRecord(k) ==
    /\ Record(k)
    /\ verdict' = [verdict EXCEPT ![k] =
           IF Len(arrivals[caller[k]]) - dropped'[caller[k]] > MaxRequests THEN "refused"
           ELSE "admitted"]

\* With the lock, a call is recorded before it is counted, refused calls included.
Limit(k) ==
    /\ Record(k)
    /\ verdict' = [verdict EXCEPT ![k] =
           IF Len(arrivals'[caller[k]]) - dropped'[caller[k]] > MaxRequests THEN "refused"
           ELSE "admitted"]

\* The eviction task, which reads the clock before it takes the lock as well, drops
\* what is older than a window and a period.
Evict ==
    /\ \E t \in 0..now : dropped' = [c \in Client |-> Purged(c, t, Window + EvictionPeriod)]
    /\ UNCHANGED <<now, arrivals, caller, stamp, passed, verdict>>

Tick ==
    /\ now' = now + 1
    /\ UNCHANGED <<arrivals, dropped, caller, stamp, passed, verdict>>

\* The windows live in memory: a new process remembers no call.
Forget ==
    /\ arrivals' = [c \in Client |-> << >>]
    /\ dropped' = [c \in Client |-> 0]
    /\ verdict' = [k \in Call |-> IF verdict[k] = "none" THEN "none" ELSE "forgotten"]
    /\ stamp' = [k \in Call |-> 0]
    /\ passed' = [k \in Call |-> 0]
    /\ caller' = [k \in Call |-> Nobody]
    /\ UNCHANGED now

LimiterNext ==
    \/ \E k \in Call, c \in Client : ReadClock(k, c)
    \/ \E k \in Call : Limit(k)
    \/ Evict
    \/ Tick
    \/ Forget

LimiterSpec == LimiterInit /\ [][LimiterNext]_limiterVars
-----------------------------------------------------------------------------
Remembered(k) == verdict[k] \in {"admitted", "refused"}

\* Call k found the lock taken before it by a call of its client that had read the
\* clock later, or waited for it longer than the eviction task waits between two runs.
Overtaken(k) ==
    \/ \E p, q \in DOMAIN arrivals[caller[k]] :
          /\ p < q /\ arrivals[caller[k]][q] = k
          /\ stamp[arrivals[caller[k]][p]] > stamp[k]
    \/ passed[k] > stamp[k] + EvictionPeriod

\* Calls of client c let through whose stamps lie in the window that ends at t.
AdmittedIn(c, t) ==
    {j \in Call : /\ verdict[j] = "admitted" /\ caller[j] = c
                  /\ stamp[j] <= t /\ stamp[j] + Window >= t}

\* In no window of a client, wherever it ends, are more than MaxRequests calls let
\* through, but for those that were overtaken on their way to the lock
\* (rate_limiter.rs:171-192): a call that read the clock before a window closed and has
\* the lock after another has purged that window is not counted with it.
AdmittedWithinLimit ==
    \A c \in Client : \A t \in 0..now :
        Cardinality({j \in AdmittedIn(c, t) : ~Overtaken(j)}) <= MaxRequests

\* Other calls of the client of k that had the lock no longer than a window before k
\* read the clock.
SeenInWindow(k) ==
    {j \in Call \ {k} : /\ Remembered(j) /\ caller[j] = caller[k]
                        /\ passed[j] + Window >= stamp[k]}

\* A call is refused only if MaxRequests other calls of its client had the lock in the
\* window before its reading of the clock or later (rate_limiter.rs:179-192): a client
\* that has been quiet for longer than a window is let in, however often it was refused
\* before and in whatever order the stamps of its calls went into the deque.
RefusedForCause ==
    [][\A k \in Call : verdict[k] = "waiting" /\ verdict'[k] = "refused" =>
          Cardinality(SeenInWindow(k)) >= MaxRequests]_limiterVars
=============================================================================

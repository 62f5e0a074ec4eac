------------------------------- MODULE Gateway ------------------------------
(* The Rust gateway's POST /execute, as the Python side calls it            *)
(* (backend/rust_gateway/src/main.rs, app/agents/tools/rust_client.py):     *)
(* the rate limiter, the policies that answer questions, the response cache *)
(* and the tools, for calls that run concurrently.  The handler has no      *)
(* await, but requests run on several threads: a step of a call ends where  *)
(* it releases the lock, or reads the pointer, that others share.           *)
EXTENDS GatewayTools, RateLimit

CONSTANTS Request,       \* the data of the requests that may be sent
          Slot,          \* the hashes of cache keys
          CacheKey,      \* CacheKey[d]: cache_key("execute", d)
          PROPERTY_SEARCH, FAQ_ANSWER, SESSION_STATE, PRICING,  \* cache.rs:111-118
          MaxEntries,    \* capacity of the cache
          Registries     \* the tools that may be enabled

Lifetimes == {PROPERTY_SEARCH, FAQ_ANSWER, SESSION_STATE, PRICING}
ToolNames == {AllTools[i] : i \in DOMAIN AllTools}
PolicyIds == UNION {{file[i].id : i \in DOMAIN file} : file \in Policies}
Answers   == [ok : BOOLEAN, intent : Intents, tool : ToolNames \cup {None},
              policy : PolicyIds \cup {None}]
NoAnswer  == [ok |-> FALSE, intent |-> "unknown", tool |-> None, policy |-> None]
FromPolicy(id) == [ok |-> TRUE, intent |-> "faq", tool |-> None, policy |-> id]

ASSUME GatewayAssumption ==
    /\ Request \subseteq Data
    /\ IsFiniteSet(Slot)
    /\ CacheKey \in [Request -> Slot]
    /\ Lifetimes \subseteq Nat
    /\ MaxEntries \in Nat \ {0}
    /\ Registries \subseteq {AllTools, ConfiguredTools}

VARIABLES store,      \* the response cache
          policies,   \* the policies loaded, replaced as a whole by a reload
          registry,   \* the tools enabled when the process started
          data,       \* data[k]: the data of call k
          stage,      \* stage[k]: where the gateway is with call k
          answer,     \* answer[k]: what the gateway computed or found for call k
          source,     \* source[k]: where the answer came from
          storedAt,   \* when call k wrote its answer to the cache
          inForce     \* policies that were in force while the question of call k was open

callVars == <<data, stage, answer, source, storedAt, inForce>>
vars == <<limiterVars, store, policies, registry, callVars>>

Cache == INSTANCE ResponseCache
             WITH Cached <- Answers, Lifetime <- Lifetimes, Empty <- None

Stages == {"idle", "arrived", "admitted", "missed", "computed", "cleaned", "answered", "lost"}

TypeOK ==
    /\ LimiterTypeOK
    /\ Cache!StoreTypeOK
    /\ policies \in Policies
    /\ registry \in Registries
    /\ data \in [Call -> Request \cup {None}]
    /\ stage \in [Call -> Stages]
    /\ answer \in [Call -> Answers]
    /\ source \in [Call -> {"none", "limiter", "policy", "cache", "tool"}]
    /\ storedAt \in [Call -> Nat \cup {None}]
    /\ inForce \in [Call -> SUBSET Policies]

Init ==
    /\ LimiterInit
    /\ store = Cache!EmptyStore
    /\ policies \in Policies
    /\ registry \in Registries
    /\ data = [k \in Call |-> None]
    /\ stage = [k \in Call |-> "idle"]
    /\ answer = [k \in Call |-> NoAnswer]
    /\ source = [k \in Call |-> "none"]
    /\ storedAt = [k \in Call |-> None]
    /\ inForce = [k \in Call |-> {}]

UnderWay(k) == stage[k] \in {"arrived", "admitted", "missed", "computed", "cleaned"}

\* No policy has been looked up yet for the question of call k.
Open(k) == stage[k] \in {"arrived", "admitted"} /\ data[k].question # None

Becomes(k, s) == stage' = [stage EXCEPT ![k] = s]
Answered(k, from, what) ==
    /\ Becomes(k, "answered")
    /\ source' = [source EXCEPT ![k] = from]
    /\ answer' = [answer EXCEPT ![k] = what]
-----------------------------------------------------------------------------
\* A call that execute_tool sent comes in, and the clock is read for it.  The caller waits
\* RUST_TIMEOUT at most; the gateway finishes what nobody waits for any more all the same.
Arrive(k) ==
    /\ stage[k] = "idle"
    /\ \E c \in Client : ReadClock(k, c)
    /\ \E d \in Request :
          /\ data' = [data EXCEPT ![k] = d]
          /\ inForce' = [inForce EXCEPT ![k] = IF d.question = None THEN {} ELSE {policies}]
    /\ Becomes(k, "arrived")
    /\ UNCHANGED <<store, policies, registry, answer, source, storedAt>>
-----------------------------------------------------------------------------
(* The gateway: execute *)

Admit(k) ==
    /\ stage[k] = "arrived"
    /\ Limit(k)
    /\ IF verdict'[k] = "refused" THEN Answered(k, "limiter", NoAnswer)
       ELSE Becomes(k, "admitted") /\ UNCHANGED <<source, answer>>
    /\ UNCHANGED <<store, policies, registry, data, storedAt, inForce>>

\* Mutant: the policies read when the program was built.
BuiltIn == CHOOSE file \in Policies : TRUE

\* The policies consulted are those loaded at this moment.
Consulted == policies

Intercept(k) ==
    /\ stage[k] = "admitted"
    /\ LET q   == data[k].question
           hit == IF q = None THEN None ELSE TryIntercept(Consulted, q)
       IN  IF hit # None THEN Answered(k, "policy", FromPolicy(hit))
           ELSE Becomes(k, "missed") /\ UNCHANGED <<source, answer>>
    /\ UNCHANGED <<limiterVars, store, policies, registry, data, storedAt, inForce>>

CachedReply(k) ==
    LET s == CacheKey[data[k]] IN
    /\ stage[k] = "missed"
    /\ Cache!Hit(s)
    /\ Answered(k, "cache", store[s].value)
    /\ UNCHANGED <<limiterVars, store, policies, registry, data, storedAt, inForce>>

\* Only answers that are ok go to the cache.
RunTool(k) ==
    LET result == ProcessRequest(data[k], registry) IN
    /\ stage[k] = "missed"
    /\ ~Cache!Hit(CacheKey[data[k]])
    /\ Becomes(k, IF result.ok THEN "computed" ELSE "answered")
    /\ source' = [source EXCEPT ![k] = "tool"]
    /\ answer' = [answer EXCEPT ![k] = result]
    /\ UNCHANGED <<limiterVars, store, policies, registry, data, storedAt, inForce>>

CleanCache(k) ==
    /\ stage[k] = "computed"
    /\ Cache!Cleanup
    /\ Becomes(k, "cleaned")
    /\ UNCHANGED <<limiterVars, policies, registry, data, answer, source, storedAt, inForce>>

\* Mutant: a time to live in milliseconds.
TtlInMillis(intent) == 1000 * (PROPERTY_SEARCH + 1)

Ttl(intent) ==
    CASE intent = "search"              -> PROPERTY_SEARCH
      [] intent \in {"booking", "status"} -> SESSION_STATE
      [] intent = "faq"                 -> FAQ_ANSWER
      [] intent \in Intents \ {"search", "booking", "status", "faq"} -> PRICING

StoreAnswer(k) ==
    /\ stage[k] = "cleaned"
    /\ Cache!Insert(CacheKey[data[k]], answer[k], Ttl(answer[k].intent))
    /\ storedAt' = [storedAt EXCEPT ![k] = now]
    /\ Becomes(k, "answered")
    /\ UNCHANGED <<limiterVars, policies, registry, data, answer, source, inForce>>
-----------------------------------------------------------------------------
(* The process *)

\* reload-cag reads the file again; a file that cannot be read holds no policy.
ReloadCag ==
    /\ policies' \in Policies \ {policies}
    /\ inForce' = [k \in Call |-> IF Open(k) THEN inForce[k] \cup {policies'}
                                  ELSE inForce[k]]
    /\ UNCHANGED <<limiterVars, store, registry, data, stage, answer, source, storedAt>>

\* Everything is in memory: a restart loses windows, cache and calls under way.
Restart ==
    /\ Forget
    /\ store' = Cache!EmptyStore
    /\ registry' \in Registries
    /\ policies' \in Policies
    /\ stage' = [k \in Call |-> IF UnderWay(k) THEN "lost" ELSE stage[k]]
    /\ UNCHANGED <<data, answer, source, storedAt, inForce>>

Background ==
    /\ Evict \/ Tick
    /\ UNCHANGED <<store, policies, registry, callVars>>

Execute(k) ==
    \/ Admit(k) \/ Intercept(k) \/ CachedReply(k) \/ RunTool(k)
    \/ CleanCache(k) \/ StoreAnswer(k)

Next ==
    \/ \E k \in Call : Arrive(k) \/ Execute(k)
    \/ ReloadCag \/ Restart \/ Background

Spec == Init /\ [][Next]_vars
-----------------------------------------------------------------------------
\* An answer taken from the cache is one that a tool computed, in an earlier
\* call with the same cache key, and that was stored no longer ago than the time
\* to live of its intent (main.rs:88-110, cache.rs:34-76); no eviction, cleanup,
\* overwriting or restart in between lets an older or a foreign answer through.
CachedAnswerStands ==
    [][\A k \in Call : source[k] # "cache" /\ source'[k] = "cache" =>
           \E j \in Call \ {k} :
               /\ storedAt[j] # None
               /\ storedAt[j] + Ttl(answer[j].intent) >= now
               /\ CacheKey[data[j]] = CacheKey[data[k]]
               /\ answer[j] = answer'[k]]_vars

CapacityKept == Cache!CapacityKept

\* The policies in force at some time between the arrival of a call and the look at
\* its question decide it (main.rs:60-86, 187-221): a question they answer is
\* answered by them and never from the cache or a tool, and a policy withdrawn by a
\* reload before the call came in answers nothing.
PoliciesDecide ==
    \A k \in Call : source[k] \in {"policy", "cache", "tool"} /\ data[k].question # None =>
        \E file \in inForce[k] :
            TryIntercept(file, data[k].question)
                = IF source[k] = "policy" THEN answer[k].policy ELSE None

Admission ==
    INSTANCE AdmissionContract
        WITH clock  <- now,
             served <- {[call |-> k, client |-> caller[k], at |-> stamp[k]] :
                           k \in {j \in Call : verdict[j] = "admitted"}}

\* The limiter inside the gateway keeps the contract of admission.
KeepsAdmissionContract == Admission!Spec
=============================================================================

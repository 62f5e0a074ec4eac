---------------------------- MODULE GatewayTools ----------------------------
(* What the Rust gateway computes from one request: the intent it infers    *)
(* (gateway.rs), the tool that answers it (tools/*.rs), and the policy that *)
(* intercepts a question (cag.rs).  Pure operators, no state.               *)
(*                                                                          *)
(* The data of a request is the set of its JSON keys, the explicit intent   *)
(* and the question, if any.  Scores are whole hundredths of the code's.    *)
EXTENDS Naturals, FiniteSets

CONSTANTS None,            \* an absent key, an absent answer
          Question,        \* questions a request may carry
          FaqWords,        \* FaqWords[q]: keywords of intents.faq found in q
          Policies         \* contents the file of policies may have

\* A file of policies is a sequence of policies; a policy scores a question by
\* the share of its keywords found in it and by its closest canonical question.
ASSUME ToolsAssumption ==
    /\ None \notin Question \cup Nat
    /\ FaqWords \in [Question -> Nat]
    /\ \A file \in Policies : DOMAIN file \subseteq Nat \ {0}
    /\ \A file \in Policies : \A i \in DOMAIN file :
           /\ file[i].keyword \in [Question -> 0..100]
           /\ file[i].fuzzy \in [Question -> 0..100]

Intents == {"search", "booking", "status", "payment", "faq", "sentiment",
            "fraud_check", "unknown"}

SearchKeys  == {"location", "city", "budget", "beds", "amenities",
                "property_type", "query_text"}
BookingKeys == {"property_id", "check_in", "check_out", "user_id", "guests",
                "name", "email", "phone"}
StatusKeys  == {"booking_id", "status", "tracking"}
PaymentKeys == {"amount", "currency", "payment_method", "payment_id"}

Data == [keys : SUBSET (SearchKeys \cup BookingKeys \cup StatusKeys \cup PaymentKeys
                          \cup {"check_fraud", "analyze_sentiment", "review", "feedback",
                                "text", "message", "price_per_night", "nights", "tax_rate",
                            "max_results", "summary_mode_threshold", "properties"}),
         intent : Intents \cup {None},
         question : Question \cup {None}]

\* The Python client, agents/tools/rust_client.py: the keys that a function of it
\* always sends, and those that it sends when they are given.
Always(call) ==
    CASE call = "search_properties" -> {}
      [] call = "validate_booking"  -> {"property_id", "check_in", "check_out", "guests"}
      [] call = "compute_pricing"   -> {"price_per_night", "guests", "tax_rate"}
      [] call = "analyze_sentiment" -> {"text", "analyze_sentiment"}
      [] call = "check_fraud"       -> {"check_fraud"}

IfGiven(call) ==
    CASE call = "search_properties" -> {"location", "budget", "beds", "amenities",
                 "property_type", "max_results", "summary_mode_threshold", "properties"}
      [] call = "validate_booking"  -> {"email"}
      [] call = "compute_pricing"   -> {"check_in", "check_out", "nights"}
      [] call = "analyze_sentiment" -> {}
      [] call = "check_fraud"       -> {"email", "phone", "amount", "guests"}

Called(call, given) == [keys |-> Always(call) \cup (IfGiven(call) \cap given),
                        intent |-> None, question |-> None]

\* Each key of `given` that is present counts `weight`.
Points(d, given, weight) == weight * Cardinality(d.keys \cap given)

\* The place of the highest of the scores above zero, the first of equals, or 0.
FirstBest(scores) ==
    LET able == {i \in DOMAIN scores : scores[i] > 0}
    IN  IF able = {} THEN 0
        ELSE CHOOSE i \in able : \A j \in able :
                 \/ scores[j] < scores[i]
                 \/ scores[j] = scores[i] /\ i <= j
-----------------------------------------------------------------------------
(* Intent *)

IntentScore(d, intent) ==
    CASE intent = "search"  -> Points(d, SearchKeys, 20)
      [] intent = "booking" -> Points(d, BookingKeys, 15)
      [] intent = "status"  -> Points(d, StatusKeys, 35)
      [] intent = "payment" -> Points(d, PaymentKeys, 25)
      [] intent = "faq"     -> IF d.question = None THEN 0
                               ELSE 30 * FaqWords[d.question] + 20

InferIntent(d) ==
    IF d.intent # None THEN d.intent
    ELSE IF "check_fraud" \in d.keys THEN "fraud_check"
    ELSE IF d.keys \cap {"analyze_sentiment", "review", "feedback"} # {} THEN "sentiment"
    ELSE LET ranked == <<"search", "booking", "status", "payment", "faq">>
             best   == FirstBest([i \in DOMAIN ranked |-> IntentScore(d, ranked[i])])
         IN  IF best = 0 THEN "unknown" ELSE ranked[best]
-----------------------------------------------------------------------------
(* Tools *)

SearchConfidence(d) ==
    LET score == Points(d, SearchKeys, 15) IN IF score > 30 THEN score + 10 ELSE score

ValidatorConfidence(d) == Points(d, BookingKeys \ {"phone"}, 15)

PricingConfidence(d) ==
    LET score == Points(d, {"price_per_night"}, 30) + Points(d, {"nights"}, 20)
                   + (IF {"check_in", "check_out"} \subseteq d.keys THEN 20 ELSE 0)
                   + Points(d, {"amount"}, 20) + Points(d, {"currency"}, 10)
        less == Points(d, {"property_id"}, 10)
    IN  IF score < less THEN 0 ELSE score - less

SentimentConfidence(d) ==
    CASE "analyze_sentiment" \in d.keys -> 90
      [] "analyze_sentiment" \notin d.keys /\ d.keys \cap {"feedback", "review"} # {} -> 70
      [] d.keys \cap {"analyze_sentiment", "feedback", "review"} = {}
           -> IF d.keys \cap {"text", "message"} # {} THEN 15 ELSE 0

FraudConfidence(d) ==
    IF "check_fraud" \in d.keys THEN 95
    ELSE Points(d, {"email", "phone", "amount"}, 10) + Points(d, {"guests"}, 5)

Confidence(d, tool) ==
    LET score == CASE tool = "property_search"    -> SearchConfidence(d)
                   [] tool = "booking_validator"  -> ValidatorConfidence(d)
                   [] tool = "pricing"            -> PricingConfidence(d)
                   [] tool = "sentiment_analysis" -> SentimentConfidence(d)
                   [] tool = "fraud_check"        -> FraudConfidence(d)
    IN  IF score > 100 THEN 100 ELSE score

AllTools == <<"property_search", "booking_validator", "pricing", "sentiment_analysis",
              "fraud_check">>
\* config/tool_registry.toml names two of the tools; the names of the others in
\* it are of no tool.  A file that cannot be read or parsed enables all.
ConfiguredTools == <<"property_search", "pricing">>

\* The registered tool of highest confidence, None when no tool has any.
Select(d, registry) ==
    LET best == FirstBest([i \in DOMAIN registry |-> Confidence(d, registry[i])])
    IN  IF best = 0 THEN None ELSE registry[best]
-----------------------------------------------------------------------------
(* One request *)

Required(intent) ==
    CASE intent = "booking" -> {"property_id", "check_in", "check_out"}
      [] intent = "payment" -> {"amount"}
      [] intent \in Intents \ {"booking", "payment"} -> {}

\* What process_request returns: whether it could be answered, the inferred
\* intent, and the tool that answered.
ProcessRequest(d, registry) ==
    LET intent == InferIntent(d)
        tool   == IF Required(intent) \subseteq d.keys THEN Select(d, registry) ELSE None
    IN  [ok |-> tool # None, intent |-> intent, tool |-> tool, policy |-> None]
-----------------------------------------------------------------------------
(* Policies *)

\* The place of the first of the best policies at or above the threshold, or 0.
BestPolicy(scores, threshold) ==
    FirstBest([i \in DOMAIN scores |-> IF scores[i] >= threshold THEN scores[i] ELSE 0])

KeywordMatch(file, q) == BestPolicy([i \in DOMAIN file |-> file[i].keyword[q]], 60)
FuzzyMatch(file, q)   == BestPolicy([i \in DOMAIN file |-> file[i].fuzzy[q]], 82)

\* The policy that answers question q, None when the request goes on to a tool.
TryIntercept(file, q) ==
    LET byKeyword == KeywordMatch(file, q)
        match     == IF byKeyword # 0 THEN byKeyword ELSE FuzzyMatch(file, q)
    IN  IF match = 0 THEN None ELSE file[match].id
=============================================================================

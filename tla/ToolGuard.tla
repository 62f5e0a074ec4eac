------------------------------ MODULE ToolGuard -----------------------------
(* The guard against tool loops (app/security/anomaly.py), for one session  *)
(* and one call with its parameters: the entries of the time window, in     *)
(* Redis and in the process, and how often the call was let through.        *)
EXTENDS SessionStore

CONSTANT Threshold        \* TOOL_LOOP_THRESHOLD

ASSUME GuardAssumption == Threshold \in Nat

VARIABLES inRedis, inProcess,
          passed          \* calls let through since the window was last empty

guardVars == <<inRedis, inProcess, passed>>

GuardTypeOK == inRedis \in Nat /\ inProcess \in Nat /\ passed \in Nat

GuardInit == inRedis = 0 /\ inProcess = 0 /\ passed = 0

\* Mutant: the call that reaches the threshold is let through once more.
BeyondByTwo(n) == n > Threshold + 1

\* check_tool_loop
Beyond(n) == n > Threshold

\* _load_history and the count of identical calls
Counts(n) ==
    /\ \/ n = inRedis /\ UNCHANGED faults
       \/ n = inProcess /\ Fault
    /\ UNCHANGED <<remote, local, inRedis, inProcess>>

\* record_tool_call: an entry in Redis clears those of the process.
Records ==
    /\ \/ inRedis' = inRedis + 1 /\ inProcess' = 0 /\ UNCHANGED faults
       \/ inProcess' = inProcess + 1 /\ inRedis' \in {inRedis, inRedis + 1} /\ Fault
    /\ passed' = passed + 1
    /\ UNCHANGED <<remote, local>>

\* TIME_WINDOW_SECONDS without a call
WindowPasses ==
    /\ passed > 0
    /\ inRedis' = 0 /\ inProcess' = 0 /\ passed' = 0
    /\ UNCHANGED storeVars
=============================================================================

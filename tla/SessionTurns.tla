---------------------------- MODULE SessionTurns ---------------------------
(* The turns of one session in one process (app/services/adk_runner/        *)
(* turn.py, handlers.py, session_service.py), which may overlap: a handler  *)
(* loads the snapshot, works and stores it again; an agent run keeps a      *)
(* state of its own, merges it into the stored one with every event and     *)
(* once more at the end.  Every await is the end of a step.                 *)
EXTENDS ToolGuard

CONSTANT MaxEvents        \* runtime_max_adk_events_per_turn

ASSUME TurnAssumption == MaxEvents \in Nat \ {0}

VARIABLES
    pc,        \* where each turn is
    work,      \* what is local to it
    lock,      \* the turn that holds the lock of the session
    met,       \* the turns that were under way at the same time
    saver,     \* the turn that saved last, unless that save was cancelled
    storedBy,  \* the turn that saved last
    copyOf     \* the turn that left the local copy

ghosts == <<met, saver, storedBy, copyOf>>
turnVars == <<pc, work, lock, ghosts>>
vars == <<storeVars, guardVars, turnVars>>

Phases == {"idle", "handling", "settling", "opening", "creating", "created", "append",
           "locked", "running", "checking", "recording", "closing", "closed", "merging",
           "done", "dead"}

Work == [base    : Snapshot,                  \* as loaded, then as saved
         mine    : Snapshot,                  \* of an agent run, then as read at its end
         event   : {"none", "session", "message", "call", "result", "voice"},
         count   : 0..MaxEvents,              \* the events the consumer has seen
         pending : Field \cup {None},         \* pending_soft_state_updates
         failed  : BOOLEAN]                   \* the save under way has failed

Fresh == [base |-> Blank, mine |-> Blank, event |-> "none", count |-> 0,
          pending |-> None, failed |-> FALSE]

UnderWay(t) == pc[t] \notin {"idle", "done", "dead"}

TypeOK ==
    /\ StoreTypeOK /\ GuardTypeOK
    /\ pc \in [Turn -> Phases]
    /\ work \in [Turn -> Work]
    /\ \A t \in Turn : ~UnderWay(t) => work[t] = Fresh
    /\ lock \in Turn \cup {None}
    /\ met \in [Turn -> SUBSET Turn]
    /\ {saver, storedBy, copyOf} \subseteq Turn \cup {None}

Init ==
    /\ StoreInit /\ GuardInit
    /\ pc = [t \in Turn |-> "idle"]
    /\ work = [t \in Turn |-> Fresh]
    /\ lock = None
    /\ met = [t \in Turn |-> {}]
    /\ saver = None /\ storedBy = None /\ copyOf = None
-----------------------------------------------------------------------------
(* Steps shared by all turns *)

\* The turn goes on in a phase, with what is local to it then.
Goes(t, phase, w) == pc' = [pc EXCEPT ![t] = phase] /\ work' = [work EXCEPT ![t] = w]

Ends(t) == Goes(t, "done", Fresh)

\* The turn begins, beside those that are under way.
Begins(t) ==
    LET others == {u \in Turn : UnderWay(u)} IN
    /\ pc[t] = "idle" /\ \A u \in 1..t - 1 : pc[u] # "idle"
    /\ met' = [u \in Turn |-> IF u = t THEN met[u] \cup others
                              ELSE IF u \in others THEN met[u] \cup {t} ELSE met[u]]

LoadBase(t, phase) ==
    \E s \in {remote, Fallback} : Loads(s) /\ Goes(t, phase, [work[t] EXCEPT !.base = s])

Save(t, s) ==
    /\ \E f \in BOOLEAN :
          Sends(s, f) /\ Goes(t, "settling", [work[t] EXCEPT !.base = s, !.failed = f])
    /\ saver' = t /\ storedBy' = t

\* _merge_state and _merge_soft_state: a key that is absent overrides nothing.
Merged(old, new) == [f \in Field |-> IF new[f] # None THEN new[f] ELSE old[f]]

Wrote(s, t, f) == [s EXCEPT ![f] = t]
-----------------------------------------------------------------------------
(* Handlers, among them the answer to a policy question *)

\* A handler that takes the message has loaded the snapshot.
StartHandler(t) ==
    /\ Begins(t) /\ LoadBase(t, "handling")
    /\ UNCHANGED <<guardVars, lock, saver, storedBy, copyOf>>

SaveHandled(t) ==
    /\ pc[t] = "handling"
    /\ \E f \in Field : Save(t, Wrote(work[t].base, t, f))
    /\ UNCHANGED <<guardVars, lock, met, copyOf>>

\* An answer that needs no state, or a tool that failed
AnswerOnly(t) ==
    /\ pc[t] = "handling" /\ Ends(t)
    /\ UNCHANGED <<storeVars, guardVars, lock, ghosts>>
-----------------------------------------------------------------------------
(* Agent runs *)

\* _build_invocation_state_delta: the soft_state the run begins with
StartRun(t) ==
    /\ Begins(t)
    /\ \E s \in {remote, Fallback} :
          Loads(s) /\ Goes(t, "opening", [Fresh EXCEPT !.mine = s, !.event = "session"])
    /\ UNCHANGED <<guardVars, lock, saver, storedBy, copyOf>>

\* _snapshot_has_context: a soft_state, or else anything else that was saved before
MayExist(s) == {exists \in BOOLEAN : s # Blank => exists}

FirstMessage(t) == Goes(t, "append", [work[t] EXCEPT !.event = "message"])

\* The runner asks for the session and creates one that is not there.
OpenSession(t) ==
    /\ pc[t] = "opening"
    /\ \E s \in {remote, Fallback} : \E exists \in MayExist(s) :
          /\ Loads(s)
          /\ IF exists THEN FirstMessage(t) ELSE Goes(t, "creating", work[t])
    /\ UNCHANGED <<guardVars, lock, ghosts>>

\* The loop over the events is left: what its tools have found out remains.
Closes(t) == Goes(t, "closing", [Fresh EXCEPT !.pending = work[t].pending])

\* create_session: a session that is there after all is an error, which ends the run.
CreateLoad(t) ==
    /\ pc[t] = "creating" /\ lock = None
    /\ \E s \in {remote, Fallback} : \E exists \in MayExist(s) :
          /\ Loads(s)
          /\ IF exists THEN Closes(t) /\ UNCHANGED lock
                       ELSE Goes(t, "created", work[t]) /\ lock' = t
    /\ UNCHANGED <<guardVars, ghosts>>

\* The new session is empty, whatever was stored since it was looked for.
CreateSave(t) ==
    /\ pc[t] = "created"
    /\ Save(t, Blank)
    /\ UNCHANGED <<guardVars, lock, met, copyOf>>

\* append_event
AppendLoad(t) ==
    /\ pc[t] = "append" /\ lock = None
    /\ lock' = t
    /\ LoadBase(t, "locked")
    /\ UNCHANGED <<guardVars, ghosts>>

AppendSave(t) ==
    /\ pc[t] = "locked"
    /\ Save(t, Merged(work[t].base, work[t].mine))
    /\ UNCHANGED <<guardVars, lock, met, copyOf>>

\* Mutant: the event after the last is still consumed.
ExceedsByOne(n) == n > MaxEvents + 1

Exceeds(n) == n > MaxEvents

\* What follows a save under the lock: the first message after a session was created,
\* the consumer's turn after an event was appended
Consumes(t) ==
    LET w == work[t]
        seen == [w EXCEPT !.base = Blank, !.failed = FALSE, !.count = @ + 1]
    IN
    \/ w.event = "session" /\ FirstMessage(t)
    \/ w.event = "message" /\ Goes(t, "running", [seen EXCEPT !.count = 0])
    \/ /\ w.event \in {"call", "result", "voice"}
       /\ IF w.event = "voice" \/ Exceeds(w.count + 1) THEN Closes(t)
          ELSE Goes(t, IF w.event = "call" THEN "checking" ELSE "running", seen)

\* Redis has answered a save: the run goes on with its event, or the turn ends.
Settle(t) ==
    /\ pc[t] = "settling"
    /\ Settles(work[t].base, work[t].failed)
    /\ copyOf' = IF work[t].failed THEN t ELSE None
    /\ IF lock = t THEN lock' = None /\ Consumes(t) ELSE UNCHANGED lock /\ Ends(t)
    /\ UNCHANGED <<guardVars, met, saver, storedBy>>

Produce(t, w) ==
    /\ pc[t] = "running"
    /\ Goes(t, "append", w)
    /\ UNCHANGED <<storeVars, guardVars, lock, ghosts>>

\* The triage agent asks for a tool.
CallTool(t) == work[t].event # "call" /\ Produce(t, [work[t] EXCEPT !.event = "call"])

CheckTool(t) ==
    /\ pc[t] = "checking"
    /\ \E n \in {inRedis, inProcess} :
          /\ Counts(n)
          /\ IF Beyond(n) THEN Closes(t) ELSE Goes(t, "recording", work[t])
    /\ UNCHANGED <<passed, lock, ghosts>>

RecordTool(t) ==
    /\ pc[t] = "recording"
    /\ Records
    /\ Goes(t, "running", work[t])
    /\ UNCHANGED <<lock, ghosts>>

\* The tool writes to the state of the run.
RunTool(t) ==
    /\ work[t].event = "call"
    /\ \E f \in Field :
          Produce(t, [work[t] EXCEPT !.event = "result", !.mine = Wrote(@, t, f),
                                     !.pending = f])

\* The voice agent speaks, which is the last event.
Speak(t) ==
    /\ work[t].event # "call"
    /\ Produce(t, [work[t] EXCEPT !.event = "voice"])

\* The run ends with no more events, or in an exception.
EndRun(t) ==
    /\ pc[t] = "running" /\ Closes(t)
    /\ UNCHANGED <<storeVars, guardVars, lock, ghosts>>

\* Mutant: a run is not timed while the model thinks.
TimedStoring(t) == pc[t] \in {"append", "locked"}

\* Where a run may wait
Timed(t) ==
    \/ pc[t] \in {"opening", "creating", "created", "append", "locked", "running", "checking",
                 "recording"}
    \/ pc[t] = "settling" /\ lock = t

\* asyncio.timeout cancels the run wherever it waits, which gives the lock back.
Timeout(t) ==
    /\ Timed(t)
    /\ lock' = IF lock = t THEN None ELSE lock
    /\ saver' = IF pc[t] = "settling" THEN None ELSE saver
    /\ Closes(t)
    /\ UNCHANGED <<storeVars, guardVars, met, storedBy, copyOf>>

\* The session and then the snapshot, as they are stored now
ReadSession(t) ==
    /\ pc[t] = "closing"
    /\ \E s \in {remote, Fallback} :
          Loads(s) /\ Goes(t, "closed", [work[t] EXCEPT !.mine = s])
    /\ UNCHANGED <<guardVars, lock, ghosts>>

ReadSnapshot(t) ==
    /\ pc[t] = "closed" /\ LoadBase(t, "merging")
    /\ UNCHANGED <<guardVars, lock, ghosts>>

\* pending_soft_state_updates
Updates(t) == [f \in Field |-> IF f = work[t].pending THEN t ELSE None]

MergedBack(t) == Merged(Merged(work[t].base, Updates(t)), work[t].mine)

\* A soft_state that is empty is not saved.
MergeBack(t) ==
    /\ pc[t] = "merging"
    /\ IF MergedBack(t) # Blank
       THEN Save(t, MergedBack(t))
       ELSE Ends(t) /\ UNCHANGED <<storeVars, saver, storedBy>>
    /\ UNCHANGED <<guardVars, lock, met, copyOf>>
-----------------------------------------------------------------------------
(* The world around *)

\* Sessions live for hours, turns for seconds.
ExpireSession ==
    /\ \A t \in Turn : ~UnderWay(t)
    /\ Expires
    /\ UNCHANGED <<guardVars, turnVars>>

\* Only a model takes as long as the window.
EmptyWindow ==
    /\ \A t \in Turn : UnderWay(t) => pc[t] = "running"
    /\ WindowPasses
    /\ UNCHANGED turnVars

\* The process starts again: its turns, its lock and its copies are gone.
Restart ==
    /\ \E t \in Turn : UnderWay(t)
    /\ LosesCopy
    /\ pc' = [t \in Turn |-> IF UnderWay(t) THEN "dead" ELSE pc[t]]
    /\ work' = [t \in Turn |-> Fresh]
    /\ lock' = None /\ inProcess' = 0 /\ copyOf' = None
    /\ UNCHANGED <<inRedis, passed, met, saver, storedBy>>
-----------------------------------------------------------------------------
(* What a turn does by itself, and what it waits for a model to do *)
Step(t) ==
    \/ SaveHandled(t) \/ AnswerOnly(t)
    \/ OpenSession(t) \/ CreateLoad(t) \/ CreateSave(t) \/ AppendLoad(t) \/ AppendSave(t)
    \/ Settle(t) \/ CheckTool(t) \/ RecordTool(t) \/ Timeout(t)
    \/ ReadSession(t) \/ ReadSnapshot(t) \/ MergeBack(t)

Think(t) == CallTool(t) \/ RunTool(t) \/ Speak(t) \/ EndRun(t)

Next ==
    \/ \E t \in Turn : StartHandler(t) \/ StartRun(t) \/ Step(t) \/ Think(t)
    \/ ExpireSession \/ EmptyWindow \/ Restart

\* The event loop runs every turn on; Redis and the database answer or time out.
Fairness == \A t \in Turn : WF_vars(Step(t))

Spec == Init /\ [][Next]_vars /\ Fairness
-----------------------------------------------------------------------------
\* The copy in the process is that of the last save, or of a turn beside the one
\* that saved last: when Redis fails after an outage, no turn falls back to a state
\* older than those that ended before it began (redis_store.py:195-232).  A save
\* that the timeout of its run has cancelled does not drop the copy.
CopyIsFresh ==
    local # None /\ saver # None /\ ~UnderWay(saver) => copyOf \in {saver} \cup met[saver]

\* Within a window the same call is let through once more than the threshold says,
\* once more for every further turn, and once more for every failure
\* (anomaly.py:161-228).
LoopBounded == passed <= Threshold + Turns + faults

\* While Redis answers, a turn puts something else than its own writes in the place of
\* what is stored only where a turn beside it has stored that: it overwrites nothing
\* that was stored before it began, nor what it has stored itself
\* (turn.py:479-563, state_helpers.py:57-98, session_service.py:262-315).
LossNeedsOverlap ==
    [][\A t \in Turn, f \in Field :
          LET lost == remote[f] IN
          pc'[t] = "settling" /\ pc[t] # "settling" /\ faults' = 0 /\ lost # None =>
              remote'[f] \in {lost, t} \/ storedBy \in met[t]]_vars

\* Every turn comes to its end, also one that waits for a model that never answers,
\* for the lock of the session or for a store that fails (turn.py:371).
EveryTurnEnds == \A t \in Turn : UnderWay(t) ~> ~UnderWay(t)
=============================================================================

----------------------------- MODULE TurnsProofs -----------------------------
(***************************************************************************)
(* Proofs about turns that overlap, for any number of turns, events and    *)
(* failures: how often the guard against tool loops lets a call through,   *)
(* although its check and its record are apart and its history is kept in  *)
(* two places; that the copy a process falls back to is fresh; and that a  *)
(* turn loses what is stored only if a turn beside it has stored it.       *)
(***************************************************************************)
EXTENDS SessionTurns, FiniteSetTheorems, TLAPS

Recording == {t \in Turn : pc[t] = "recording"}

(* A call that was let through is counted in Redis, unless a call of Redis   *)
(* failed; and those that have passed the check but are not counted yet are  *)
(* no more than the turns.                                                   *)
CountsTyped ==
    /\ pc \in [Turn -> Phases]
    /\ inRedis \in Nat /\ inProcess \in Nat /\ passed \in Nat /\ faults \in Nat

CallsCounted == passed <= inRedis + faults

ChecksBounded == passed + Cardinality(Recording) <= Threshold + Turns + faults

GuardInv == CountsTyped /\ CallsCounted /\ ChecksBounded

\* The constants the bounds are made of.
LEMMA Bounds == Turns \in Nat /\ Threshold \in Nat
  BY StoreAssumption, GuardAssumption

LEMMA FewTurns ==
    \A S : S \subseteq Turn => IsFiniteSet(S) /\ Cardinality(S) \in Nat /\ Cardinality(S) <= Turns
<1>1. IsFiniteSet(Turn) /\ Cardinality(Turn) = Turns
  BY Bounds, FS_Interval DEF Turn
<1>. QED
  BY <1>1, FS_Subset, FS_CardinalityType

LEMMA RecordingCounted ==
    /\ IsFiniteSet(Recording)
    /\ Cardinality(Recording) \in Nat /\ Cardinality(Recording) <= Turns
<1>1. Recording \subseteq Turn
  BY DEF Recording
<1>. QED
  BY <1>1, FewTurns

LEMMA RecordingCountedNext ==
    /\ IsFiniteSet(Recording')
    /\ Cardinality(Recording') \in Nat /\ Cardinality(Recording') <= Turns
<1>1. Recording' \subseteq Turn
  BY DEF Recording
<1>. QED
  BY <1>1, FewTurns

LEMMA LaterSum ==
    ASSUME NEW p \in Nat, NEW r \in Nat, NEW e \in Nat, NEW later \in Nat,
           p <= r + e, e <= later
    PROVE  p <= r + later
  OBVIOUS

LEMMA LaterSums ==
    ASSUME NEW p \in Nat, NEW n \in Nat, NEW m \in Nat, NEW k \in Nat, NEW l \in Nat,
           NEW e \in Nat, NEW later \in Nat,
           p + n <= k + l + e, m <= n, e <= later
    PROVE  p + m <= k + l + later
  OBVIOUS

\* A step that lets no turn past the check, and counts no call, keeps the bounds.
LEMMA QuietStep ==
    ASSUME GuardInv, pc' \in [Turn -> Phases], Recording' \subseteq Recording,
           inRedis' = inRedis, passed' = passed, inProcess' \in Nat,
           faults' \in Nat, faults <= faults'
    PROVE  GuardInv'
<1>1. /\ Cardinality(Recording) \in Nat /\ Cardinality(Recording') \in Nat
      /\ Cardinality(Recording') <= Cardinality(Recording)
  BY RecordingCounted, RecordingCountedNext, FS_Subset
<1>2. /\ passed + Cardinality(Recording) <= Threshold + Turns + faults
      /\ passed <= inRedis + faults
      /\ inRedis \in Nat /\ passed \in Nat /\ faults \in Nat
  BY DEF GuardInv, ChecksBounded, CallsCounted, CountsTyped
<1>3. faults \in Nat /\ faults' \in Nat /\ faults <= faults'
  BY <1>2
<1>4. passed' + Cardinality(Recording') <= Threshold + Turns + faults'
  <2>1. passed + Cardinality(Recording') <= Threshold + Turns + faults'
    BY <1>1, <1>2, <1>3, Bounds, LaterSums
  <2>. QED
    BY <2>1
<1>5. passed' <= inRedis' + faults'
  <2>1. passed <= inRedis + faults'
    BY <1>2, <1>3, LaterSum
  <2>. QED
    BY <2>1
<1>6. CountsTyped'
  BY <1>2 DEF CountsTyped
<1>. QED
  BY <1>4, <1>5, <1>6 DEF GuardInv, ChecksBounded, CallsCounted

LEMMA MoreFaults ==
    ASSUME CountsTyped, UNCHANGED faults \/ Fault
    PROVE  faults' \in Nat /\ faults <= faults'
  BY DEF CountsTyped, Fault

\* A step of a turn that does not touch the guard, and goes anywhere but to the record
Moves(t) == \E phase \in Phases \ {"recording"} : pc' = [pc EXCEPT ![t] = phase]

Quiet(t) == Moves(t) /\ UNCHANGED guardVars /\ (UNCHANGED faults \/ Fault)

LEMMA QuietTurn ==
    ASSUME GuardInv, NEW t \in Turn, Quiet(t)
    PROVE  GuardInv'
<1>1. CountsTyped
  BY DEF GuardInv
<1>2. PICK phase \in Phases \ {"recording"} : pc' = [pc EXCEPT ![t] = phase]
  BY DEF Quiet, Moves
<1>3. pc' \in [Turn -> Phases] /\ Recording' \subseteq Recording
  BY <1>1, <1>2 DEF CountsTyped, Recording
<1>4. faults' \in Nat /\ faults <= faults'
  BY <1>1, MoreFaults DEF Quiet
<1>5. inRedis' = inRedis /\ passed' = passed /\ inProcess' \in Nat
  BY <1>1 DEF Quiet, guardVars, CountsTyped
<1>. QED
  BY <1>3, <1>4, <1>5, QuietStep

\* The steps that only load, save or wait
LEMMA HandlersQuiet ==
    ASSUME NEW t \in Turn, StartHandler(t) \/ SaveHandled(t) \/ AnswerOnly(t)
    PROVE  Quiet(t)
<1>1. CASE StartHandler(t)
  BY <1>1 DEF StartHandler, LoadBase, Loads, Goes, Quiet, Moves, Phases
<1>2. CASE SaveHandled(t)
  BY <1>2 DEF SaveHandled, Save, Sends, Goes, Quiet, Moves, Phases
<1>3. CASE AnswerOnly(t)
  BY <1>3 DEF AnswerOnly, Ends, Goes, Quiet, Moves, Phases, storeVars
<1>. QED
  BY <1>1, <1>2, <1>3

LEMMA OpeningQuiet ==
    ASSUME NEW t \in Turn,
           StartRun(t) \/ OpenSession(t) \/ CreateLoad(t) \/ CreateSave(t)
    PROVE  Quiet(t)
<1>1. CASE StartRun(t)
  BY <1>1 DEF StartRun, Loads, Goes, Quiet, Moves, Phases
<1>2. CASE OpenSession(t)
  BY <1>2 DEF OpenSession, FirstMessage, Loads, Goes, Quiet, Moves, Phases
<1>3. CASE CreateLoad(t)
  BY <1>3 DEF CreateLoad, Closes, Loads, Goes, Quiet, Moves, Phases
<1>4. CASE CreateSave(t)
  BY <1>4 DEF CreateSave, Save, Sends, Goes, Quiet, Moves, Phases
<1>. QED
  BY <1>1, <1>2, <1>3, <1>4

LEMMA ConsumesMoves ==
    ASSUME NEW t \in Turn, Consumes(t)
    PROVE  Moves(t)
  BY DEF Consumes, FirstMessage, Closes, Goes, Moves, Phases

LEMMA AppendsQuiet ==
    ASSUME NEW t \in Turn, AppendLoad(t) \/ AppendSave(t) \/ Settle(t)
    PROVE  Quiet(t)
<1>1. CASE AppendLoad(t)
  BY <1>1 DEF AppendLoad, LoadBase, Loads, Goes, Quiet, Moves, Phases
<1>2. CASE AppendSave(t)
  BY <1>2 DEF AppendSave, Save, Sends, Goes, Quiet, Moves, Phases
<1>3. CASE Settle(t)
  <2>1. Consumes(t) \/ Ends(t)
    BY <1>3 DEF Settle
  <2>2. Moves(t)
    BY <2>1, ConsumesMoves DEF Ends, Goes, Moves, Phases
  <2>. QED
    BY <1>3, <2>2 DEF Settle, Settles, Quiet
<1>. QED
  BY <1>1, <1>2, <1>3

LEMMA RunsQuiet ==
    ASSUME NEW t \in Turn, Think(t) \/ Timeout(t)
    PROVE  Quiet(t)
<1>1. CASE Think(t)
  BY <1>1 DEF Think, CallTool, RunTool, Speak, EndRun, Produce, Closes, Goes, Quiet, Moves,
              Phases, storeVars
<1>2. CASE Timeout(t)
  BY <1>2 DEF Timeout, Closes, Goes, Quiet, Moves, Phases, storeVars
<1>. QED
  BY <1>1, <1>2

LEMMA ClosingQuiet ==
    ASSUME NEW t \in Turn, ReadSession(t) \/ ReadSnapshot(t) \/ MergeBack(t)
    PROVE  Quiet(t)
<1>1. CASE ReadSession(t)
  BY <1>1 DEF ReadSession, Loads, Goes, Quiet, Moves, Phases
<1>2. CASE ReadSnapshot(t)
  BY <1>2 DEF ReadSnapshot, LoadBase, Loads, Goes, Quiet, Moves, Phases
<1>3. CASE MergeBack(t)
  BY <1>3 DEF MergeBack, Save, Sends, Ends, Goes, Quiet, Moves, Phases, storeVars
<1>. QED
  BY <1>1, <1>2, <1>3

\* A turn that passes the check finds few calls, or Redis has failed once more.
LEMMA CheckCounted ==
    ASSUME GuardInv, NEW t \in Turn, CheckTool(t)
    PROVE  GuardInv'
<1>1. CASE Moves(t)
  <2>1. Quiet(t)
    BY <1>1 DEF CheckTool, Counts, guardVars, Quiet
  <2>. QED
    BY <2>1, QuietTurn
<1>2. CASE ~Moves(t)
  <2>1. PICK n \in {inRedis, inProcess} : Counts(n) /\ ~Beyond(n) /\ Goes(t, "recording", work[t])
    BY <1>2 DEF CheckTool, Closes, Goes, Moves, Phases
  <2>2. /\ pc \in [Turn -> Phases]
        /\ inRedis \in Nat /\ inProcess \in Nat /\ passed \in Nat /\ faults \in Nat
        /\ passed <= inRedis + faults
        /\ passed + Cardinality(Recording) <= Threshold + Turns + faults
    BY DEF GuardInv, CountsTyped, CallsCounted, ChecksBounded
  <2>3. inRedis' = inRedis /\ inProcess' = inProcess /\ passed' = passed
    BY <2>1 DEF CheckTool, Counts
  <2>4. pc' = [pc EXCEPT ![t] = "recording"]
    BY <2>1 DEF Goes
  <2>5. pc' \in [Turn -> Phases] /\ Recording' = Recording \cup {t}
    BY <2>2, <2>4 DEF Recording, Phases
  <2>6. CASE n = inRedis /\ UNCHANGED faults
    <3>1. inRedis <= Threshold
      BY <2>2, <2>6, <2>1, Bounds DEF Beyond
    <3>2. passed' + Cardinality(Recording') <= Threshold + Turns + faults'
      BY <3>1, <2>2, <2>3, <2>6, Bounds, RecordingCountedNext
    <3>3. passed' <= inRedis' + faults'
      BY <2>2, <2>3, <2>6
    <3>. QED
      BY <2>2, <2>3, <2>5, <2>6, <3>2, <3>3
         DEF GuardInv, CountsTyped, CallsCounted, ChecksBounded
  <2>7. CASE Fault
    <3>1. faults' = faults + 1
      BY <2>7 DEF Fault
    <3>2. Cardinality(Recording') <= Cardinality(Recording) + 1
      BY <2>5, RecordingCounted, FS_AddElement
    <3>3. passed' + Cardinality(Recording') <= Threshold + Turns + faults'
      BY <3>1, <3>2, <2>2, <2>3, Bounds, RecordingCounted, RecordingCountedNext
    <3>4. passed' <= inRedis' + faults' /\ faults' \in Nat
      BY <3>1, <2>2, <2>3
    <3>. QED
      BY <2>2, <2>3, <2>5, <3>3, <3>4
         DEF GuardInv, CountsTyped, CallsCounted, ChecksBounded
  <2>. QED
    BY <2>1, <2>6, <2>7 DEF Counts
<1>. QED
  BY <1>1, <1>2

LEMMA OneMore ==
    ASSUME NEW p \in Nat, NEW r \in Nat, NEW e \in Nat, NEW r2 \in Nat, NEW e2 \in Nat,
           p <= r + e, r2 + e2 >= r + e + 1
    PROVE  p + 1 \in Nat /\ p + 1 <= r2 + e2
  OBVIOUS

LEMMA OneFault ==
    ASSUME NEW r \in Nat, NEW e \in Nat, NEW r2 \in Nat, NEW e2 \in Nat, e2 = e + 1, r <= r2
    PROVE  e <= e2 /\ r2 + e2 >= r + e + 1
  OBVIOUS

\* A call is recorded: one more was let through, and one turn less is at the record.
LEMMA RecordCounted ==
    ASSUME GuardInv, NEW t \in Turn, RecordTool(t)
    PROVE  GuardInv'
<1>1. /\ pc \in [Turn -> Phases]
      /\ inRedis \in Nat /\ inProcess \in Nat /\ passed \in Nat /\ faults \in Nat
      /\ passed <= inRedis + faults
      /\ passed + Cardinality(Recording) <= Threshold + Turns + faults
  BY DEF GuardInv, CountsTyped, CallsCounted, ChecksBounded
<1>2. pc[t] = "recording" /\ pc' = [pc EXCEPT ![t] = "running"] /\ passed' = passed + 1
  BY DEF RecordTool, Records, Goes
<1>3. pc' \in [Turn -> Phases] /\ Recording' = Recording \ {t} /\ t \in Recording
  BY <1>1, <1>2 DEF Recording, Phases
<1>4. Cardinality(Recording') = Cardinality(Recording) - 1
  BY <1>3, RecordingCounted, FS_RemoveElement
<1>5. /\ inRedis' \in Nat /\ inProcess' \in Nat /\ faults' \in Nat /\ faults <= faults'
      /\ inRedis' + faults' >= inRedis + faults + 1
  <2>1. CASE inRedis' = inRedis + 1 /\ inProcess' = 0 /\ UNCHANGED faults
    BY <2>1, <1>1
  <2>2. CASE inProcess' = inProcess + 1 /\ inRedis' \in {inRedis, inRedis + 1} /\ Fault
    <3>1. faults' = faults + 1 /\ faults' \in Nat /\ inRedis' \in Nat /\ inRedis <= inRedis'
      BY <2>2, <1>1 DEF Fault
    <3>2. faults <= faults' /\ inRedis' + faults' >= inRedis + faults + 1
      BY <3>1, <1>1, OneFault
    <3>3. inProcess' \in Nat
      BY <2>2, <1>1
    <3>. QED
      BY <3>1, <3>2, <3>3
  <2>3. \/ inRedis' = inRedis + 1 /\ inProcess' = 0 /\ UNCHANGED faults
        \/ inProcess' = inProcess + 1 /\ inRedis' \in {inRedis, inRedis + 1} /\ Fault
    BY DEF RecordTool, Records
  <2>. QED
    BY <2>1, <2>2, <2>3
<1>6. passed' \in Nat /\ passed' <= inRedis' + faults'
  BY <1>1, <1>2, <1>5, OneMore
<1>7. passed' + Cardinality(Recording') <= Threshold + Turns + faults'
  BY <1>1, <1>2, <1>4, <1>5, Bounds, RecordingCounted, RecordingCountedNext
<1>. QED
  BY <1>3, <1>5, <1>6, <1>7 DEF GuardInv, CountsTyped, CallsCounted, ChecksBounded

\* The world around
LEMMA WorldCounted ==
    ASSUME GuardInv, ExpireSession \/ EmptyWindow \/ Restart \/ UNCHANGED vars
    PROVE  GuardInv'
<1>1. CASE EmptyWindow
  <2>1. inRedis' = 0 /\ inProcess' = 0 /\ passed' = 0 /\ faults' = faults /\ pc' = pc
    BY <1>1 DEF EmptyWindow, WindowPasses, storeVars, turnVars
  <2>2. faults \in Nat /\ pc \in [Turn -> Phases]
    BY DEF GuardInv, CountsTyped
  <2>3. passed' + Cardinality(Recording') <= Threshold + Turns + faults'
    BY <2>1, <2>2, Bounds, RecordingCountedNext
  <2>. QED
    BY <2>1, <2>2, <2>3 DEF GuardInv, CountsTyped, CallsCounted, ChecksBounded
<1>2. CASE ExpireSession \/ Restart \/ UNCHANGED vars
  <2>1. CountsTyped
    BY DEF GuardInv
  <2>2. UNCHANGED faults \/ Fault
    BY <1>2 DEF ExpireSession, Expires, Restart, LosesCopy, vars, storeVars
  <2>3. inRedis' = inRedis /\ passed' = passed /\ inProcess' \in Nat
    BY <1>2, <2>1 DEF CountsTyped, ExpireSession, Restart, vars, guardVars
  <2>4. pc' = pc \/ pc' = [t \in Turn |-> IF UnderWay(t) THEN "dead" ELSE pc[t]]
    BY <1>2 DEF ExpireSession, Restart, vars, turnVars
  <2>5. pc' \in [Turn -> Phases] /\ Recording' \subseteq Recording
    BY <2>1, <2>4 DEF CountsTyped, Recording, Phases
  <2>. QED
    BY <2>2, <2>3, <2>5, <2>1, MoreFaults, QuietStep
<1>. QED
  BY <1>1, <1>2

LEMMA GuardStep == GuardInv /\ [Next]_vars => GuardInv'
<1>. SUFFICES ASSUME GuardInv, [Next]_vars PROVE GuardInv'
  OBVIOUS
<1>1. CASE \E t \in Turn : StartHandler(t) \/ StartRun(t) \/ Step(t) \/ Think(t)
  <2>1. PICK t \in Turn : StartHandler(t) \/ StartRun(t) \/ Step(t) \/ Think(t)
    BY <1>1
  <2>2. Quiet(t) \/ CheckTool(t) \/ RecordTool(t)
    BY <2>1, HandlersQuiet, OpeningQuiet, AppendsQuiet, RunsQuiet, ClosingQuiet DEF Step
  <2>. QED
    BY <2>2, QuietTurn, CheckCounted, RecordCounted
<1>2. CASE ExpireSession \/ EmptyWindow \/ Restart \/ UNCHANGED vars
  BY <1>2, WorldCounted
<1>. QED
  BY <1>1, <1>2 DEF Next

LEMMA GuardBegins == Init => GuardInv
<1>. SUFFICES ASSUME Init PROVE GuardInv
  OBVIOUS
<1>1. CountsTyped /\ passed = 0 /\ inRedis = 0 /\ faults = 0
  BY DEF Init, StoreInit, GuardInit, CountsTyped, Phases
<1>2. passed + Cardinality(Recording) <= Threshold + Turns + faults
  BY <1>1, Bounds, RecordingCounted
<1>. QED
  BY <1>1, <1>2 DEF GuardInv, CallsCounted, ChecksBounded

\* How often a call was counted, was let through and may yet be let through hangs
\* together whatever turns overlap, fail or restart.
THEOREM GuardInvariance == Spec => []GuardInv
BY GuardBegins, GuardStep, PTL DEF Spec

\* However many turns overlap between the check and the record, and however often Redis
\* fails between them, a call is let through in a window no more often than the
\* threshold, the turns and the failures together say (anomaly.py:161-228).
THEOREM LoopsBounded == Spec => []LoopBounded
<1>1. GuardInv => LoopBounded
  <2>. SUFFICES ASSUME GuardInv PROVE LoopBounded
    OBVIOUS
  <2>1. /\ passed \in Nat /\ faults \in Nat
        /\ passed + Cardinality(Recording) <= Threshold + Turns + faults
    BY DEF GuardInv, CountsTyped, ChecksBounded
  <2>2. passed <= Threshold + Turns + faults
    BY <2>1, Bounds, RecordingCounted
  <2>. QED
    BY <2>2 DEF LoopBounded
<1>. QED
  BY <1>1, GuardInvariance, PTL
-----------------------------------------------------------------------------
(* Types                                                                     *)

LEMMA Snapshots ==
    /\ Blank \in Snapshot
    /\ \A old, new \in Snapshot : Merged(old, new) \in Snapshot
    /\ \A s \in Snapshot, t \in Turn, f \in Field : Wrote(s, t, f) \in Snapshot
    /\ \A t \in Turn : Updates(t) \in Snapshot
<1>1. Blank \in Snapshot
  BY DEF Blank, Snapshot
<1>2. ASSUME NEW old \in Snapshot, NEW new \in Snapshot PROVE Merged(old, new) \in Snapshot
  BY DEF Merged, Snapshot
<1>3. ASSUME NEW s \in Snapshot, NEW t \in Turn, NEW f \in Field PROVE Wrote(s, t, f) \in Snapshot
  BY DEF Wrote, Snapshot
<1>4. ASSUME NEW t \in Turn PROVE Updates(t) \in Snapshot
  BY DEF Updates, Snapshot
<1>. QED
  BY <1>1, <1>2, <1>3, <1>4

LEMMA FreshWork == Fresh \in Work
<1>1. 0 \in 0..MaxEvents
  BY TurnAssumption
<1>. QED
  BY <1>1, Snapshots DEF Fresh, Work

\* What is local to a turn keeps its type, whatever part of it a step changes.
LEMMA WorkUpdated ==
    ASSUME NEW w \in Work
    PROVE  /\ \A s \in Snapshot, failed \in BOOLEAN :
                 [w EXCEPT !.base = s, !.failed = failed] \in Work
           /\ \A s \in Snapshot : /\ [w EXCEPT !.base = s] \in Work
                                  /\ [w EXCEPT !.mine = s] \in Work
           /\ \A e \in {"session", "message", "call", "voice"} : [w EXCEPT !.event = e] \in Work
           /\ \A s \in Snapshot, e \in {"session", "result"} :
                 [Fresh EXCEPT !.mine = s, !.event = e] \in Work
           /\ \A s \in Snapshot, f \in Field :
                 [w EXCEPT !.event = "result", !.mine = s, !.pending = f] \in Work
           /\ [Fresh EXCEPT !.pending = w.pending] \in Work
           /\ \A c \in 0..MaxEvents :
                 [w EXCEPT !.base = Blank, !.failed = FALSE, !.count = c] \in Work
  BY FreshWork, Snapshots DEF Work

Still == {"idle", "done", "dead"}

\* A turn goes on as its types allow.
Typed(t) ==
    \E phase \in Phases, w \in Work : Goes(t, phase, w) /\ (phase \in Still => w = Fresh)

StoreTyped == remote' \in Snapshot /\ local' \in Snapshot \cup {None} /\ faults' \in 0..MaxFaults

LEMMA TypedTurn ==
    ASSUME TypeOK, NEW t \in Turn, Typed(t)
    PROVE  /\ pc' \in [Turn -> Phases] /\ work' \in [Turn -> Work]
           /\ \A u \in Turn : ~UnderWay(u)' => work'[u] = Fresh
<1>1. PICK phase \in Phases, w \in Work :
          Goes(t, phase, w) /\ (phase \in Still => w = Fresh)
  BY DEF Typed
<1>2. pc \in [Turn -> Phases] /\ work \in [Turn -> Work]
  BY DEF TypeOK
<1>3. \A u \in Turn : pc[u] \in Still => work[u] = Fresh
  BY DEF TypeOK, UnderWay, Still
<1>4. pc' = [pc EXCEPT ![t] = phase] /\ work' = [work EXCEPT ![t] = w]
  BY <1>1 DEF Goes
<1>5. \A u \in Turn : pc'[u] \in Still => work'[u] = Fresh
  BY <1>1, <1>2, <1>3, <1>4
<1>. QED
  BY <1>1, <1>2, <1>4, <1>5 DEF UnderWay, Still

LEMMA FaultsTyped ==
    ASSUME TypeOK, UNCHANGED faults \/ Fault
    PROVE  faults' \in 0..MaxFaults /\ faults <= faults' /\ faults \in Nat
  BY StoreAssumption DEF TypeOK, StoreTypeOK, Fault

LEMMA FallbackTyped ==
    ASSUME TypeOK, NEW s \in {remote, Fallback}
    PROVE  s \in Snapshot
  BY Snapshots DEF TypeOK, StoreTypeOK, Fallback

\* What was loaded is what is stored, as long as Redis answers.
LEMMA LoadsTyped ==
    ASSUME TypeOK, NEW s \in {remote, Fallback}, Loads(s)
    PROVE  /\ StoreTyped /\ s \in Snapshot
           /\ faults \in Nat /\ faults' \in Nat /\ faults <= faults'
           /\ UNCHANGED <<remote, local>>
           /\ faults' = 0 => s = remote
<1>1. UNCHANGED faults \/ Fault
  BY DEF Loads
<1>2. faults' \in 0..MaxFaults /\ faults <= faults' /\ faults \in Nat
  BY <1>1, FaultsTyped
<1>3. faults' = 0 => s = remote
  BY <1>2 DEF Loads, Fault
<1>4. remote' = remote /\ local' = local
  BY DEF Loads
<1>. QED
  BY <1>2, <1>3, <1>4, FallbackTyped, StoreAssumption DEF TypeOK, StoreTypeOK, StoreTyped

LEMMA SendsTyped ==
    ASSUME TypeOK, NEW s \in Snapshot, NEW failed \in BOOLEAN, Sends(s, failed)
    PROVE  /\ StoreTyped /\ faults \in Nat /\ faults' \in Nat /\ faults <= faults'
           /\ local' = local
           /\ faults' = 0 => remote' = s
<1>1. UNCHANGED faults \/ Fault
  BY DEF Sends
<1>2. faults' \in 0..MaxFaults /\ faults <= faults' /\ faults \in Nat
  BY <1>1, FaultsTyped
<1>3. faults' = 0 => remote' = s
  BY <1>2 DEF Sends, Fault
<1>. QED
  BY <1>2, <1>3, StoreAssumption DEF Sends, TypeOK, StoreTypeOK, StoreTyped

LEMMA WorkTyped ==
    ASSUME TypeOK, NEW t \in Turn
    PROVE  /\ work[t] \in Work /\ pc[t] \in Phases
           /\ work[t].base \in Snapshot /\ work[t].mine \in Snapshot
           /\ work[t].failed \in BOOLEAN /\ work[t].count \in 0..MaxEvents
           /\ work[t].event \in {"none", "session", "message", "call", "result", "voice"}
  BY DEF TypeOK, Work
-----------------------------------------------------------------------------
(* The inductive invariant                                                   *)

\* Turns that are under way at the same time have met.
Acquainted ==
    \A t \in Turn :
        /\ t \notin met[t]
        /\ \A u \in Turn : UnderWay(t) /\ UnderWay(u) /\ t # u => t \in met[u]

Saving == {t \in Turn : pc[t] = "settling"}

\* While Redis has not answered the turn that saved last, those that wait for an answer
\* are beside it; once it has, the copy is its own or theirs.
CopyLeft ==
    /\ local # None => copyOf \in Turn
    /\ saver # None => Saving \subseteq {saver} \cup met[saver]
    /\ saver # None /\ local # None /\ saver \notin Saving => copyOf \in {saver} \cup met[saver]

\* What a turn carries along: parts of the state it has written, and parts as they are
\* stored; what it has loaded it has loaded as it is.
Current(t) ==
    /\ \A f \in Field : remote[f] # None => work[t].mine[f] \in {None, t, remote[f]}
    /\ pc[t] \in {"handling", "locked", "merging"} => work[t].base = remote
    /\ pc[t] = "created" => remote = Blank
    /\ pc[t] \in {"closed", "merging"} => work[t].mine = remote

\* Redis has answered, and no turn beside this one has stored anything last.
Undisturbed(t) == faults = 0 /\ UnderWay(t) /\ storedBy \notin met[t]

StoredKept ==
    \A t \in Turn : /\ Undisturbed(t) => Current(t)
                    /\ pc[t] = "handling" => work[t].mine = Blank

TurnInv == TypeOK /\ Acquainted /\ CopyLeft /\ StoredKept

LEMMA GoesTo ==
    ASSUME TypeOK, NEW t \in Turn, NEW phase, NEW w, Goes(t, phase, w)
    PROVE  /\ pc'[t] = phase /\ work'[t] = w
           /\ \A u \in Turn \ {t} : pc'[u] = pc[u] /\ work'[u] = work[u]
  BY DEF TypeOK, Goes

LEMMA TypesKept ==
    ASSUME TypeOK, NEW t \in Turn, Typed(t), StoreTyped, GuardTypeOK',
           lock' \in Turn \cup {None}, met' \in [Turn -> SUBSET Turn],
           {saver', storedBy', copyOf'} \subseteq Turn \cup {None}
    PROVE  TypeOK'
  BY TypedTurn, Zenon DEF TypeOK, StoreTyped, StoreTypeOK

\* A step of a turn that stores nothing: what is stored, and who has met whom, remains.
Passes(t) ==
    /\ UnderWay(t) /\ pc[t] # "settling" /\ pc'[t] \notin {"settling", "handling"}
    /\ Typed(t)
    /\ UNCHANGED <<remote, local, met, saver, storedBy, copyOf>>
    /\ StoreTyped /\ faults \in Nat /\ faults' \in Nat /\ faults <= faults'
    /\ lock' \in Turn \cup {None}

LEMMA PassKept ==
    ASSUME TurnInv, GuardTypeOK', NEW t \in Turn, Passes(t),
           Undisturbed(t)' => Current(t)'
    PROVE  TurnInv'
<1>1. PICK phase \in Phases, w \in Work : Goes(t, phase, w)
  BY DEF Passes, Typed
<1>2. /\ pc'[t] = phase /\ work'[t] = w
      /\ \A u \in Turn \ {t} : pc'[u] = pc[u] /\ work'[u] = work[u]
  BY <1>1, GoesTo DEF TurnInv
<1>3. TypeOK'
  BY TypesKept DEF Passes, TurnInv, TypeOK
<1>4. \A u \in Turn : UnderWay(u)' => UnderWay(u)
  BY <1>2 DEF Passes, UnderWay
<1>5. Acquainted'
  BY <1>4 DEF Acquainted, TurnInv, Passes
<1>6. Saving' = Saving
  BY <1>2 DEF Saving, Passes
<1>7. CopyLeft'
  BY <1>6 DEF CopyLeft, TurnInv, Passes
<1>8. StoredKept'
  <2>1. ASSUME NEW u \in Turn \ {t}, Undisturbed(u)' PROVE Current(u)'
    <3>1. UNCHANGED <<remote, storedBy, met>> /\ pc'[u] = pc[u] /\ work'[u] = work[u]
          /\ faults = 0
      BY <1>2, <2>1 DEF Passes, Undisturbed
    <3>2. Undisturbed(u)
      BY <2>1, <3>1 DEF Undisturbed, UnderWay
    <3>3. Current(u)
      BY <3>2 DEF TurnInv, StoredKept
    <3>. QED
      BY <3>1, <3>3 DEF Current
  <2>2. ASSUME NEW u \in Turn, pc'[u] = "handling" PROVE work'[u].mine = Blank
    BY <1>2, <2>2 DEF Passes, TurnInv, StoredKept
  <2>. QED
    BY <2>1, <2>2 DEF StoredKept
<1>. QED
  BY <1>3, <1>5, <1>7, <1>8 DEF TurnInv

\* A turn sends a snapshot to Redis.
Stores(t) ==
    \E s \in Snapshot : /\ UnderWay(t) /\ pc[t] # "settling" /\ Save(t, s)
                        /\ UNCHANGED <<met, copyOf>> /\ lock' \in Turn \cup {None}
                        /\ \A f \in Field : s[f] # None => work[t].mine[f] \in {None, t, s[f]}

LEMMA StoreKept ==
    ASSUME TurnInv, GuardTypeOK', NEW t \in Turn, Stores(t)
    PROVE  TurnInv'
<1>1. PICK s \in Snapshot, failed \in BOOLEAN :
          /\ Sends(s, failed)
          /\ Goes(t, "settling", [work[t] EXCEPT !.base = s, !.failed = failed])
          /\ \A f \in Field : s[f] # None => work[t].mine[f] \in {None, t, s[f]}
          /\ saver' = t /\ storedBy' = t
          /\ UNCHANGED <<met, copyOf>> /\ lock' \in Turn \cup {None}
  BY DEF Stores, Save
<1>2. UnderWay(t) /\ pc[t] # "settling"
  BY DEF Stores
<1>3. work[t] \in Work /\ [work[t] EXCEPT !.base = s, !.failed = failed] \in Work
  BY WorkTyped, WorkUpdated DEF TurnInv
<1>4. [work[t] EXCEPT !.base = s, !.failed = failed].mine = work[t].mine
  BY <1>3 DEF Work
<1>5. /\ pc'[t] = "settling" /\ work'[t].mine = work[t].mine
      /\ \A u \in Turn \ {t} : pc'[u] = pc[u] /\ work'[u] = work[u]
  BY <1>1, <1>4, GoesTo DEF TurnInv
<1>6. StoreTyped /\ local' = local /\ (faults' = 0 => remote' = s)
  BY <1>1, SendsTyped DEF TurnInv
<1>7. TypeOK'
  <2>1. Typed(t)
    BY <1>1, <1>3 DEF Typed, Phases, Still
  <2>. QED
    BY <1>1, <1>6, <2>1, TypesKept DEF TurnInv, TypeOK
<1>8. \A u \in Turn : UnderWay(u)' <=> UnderWay(u)
  BY <1>2, <1>5 DEF UnderWay
<1>9. Acquainted'
  BY <1>1, <1>8 DEF Acquainted, TurnInv
<1>10. \A u \in Turn : u # t /\ UnderWay(u) => u \in met[t] /\ t \in met[u]
  BY <1>2 DEF Acquainted, TurnInv
<1>11. CopyLeft'
  <2>1. Saving' = Saving \cup {t}
    BY <1>5 DEF Saving
  <2>2. \A u \in Saving : UnderWay(u)
    BY DEF Saving, UnderWay
  <2>3. Saving' \subseteq {t} \cup met[t]
    BY <1>10, <2>1, <2>2 DEF Saving
  <2>. QED
    BY <1>1, <1>6, <2>1, <2>3 DEF CopyLeft, TurnInv
<1>12. StoredKept'
  <2>1. ASSUME NEW u \in Turn, Undisturbed(u)' PROVE u = t
    BY <1>1, <1>8, <1>10, <2>1 DEF Undisturbed
  <2>2. ASSUME Undisturbed(t)' PROVE Current(t)'
    BY <1>1, <1>5, <1>6, <2>2 DEF Current, Undisturbed
  <2>3. ASSUME NEW u \in Turn, pc'[u] = "handling" PROVE work'[u].mine = Blank
    BY <1>5, <2>3 DEF TurnInv, StoredKept
  <2>. QED
    BY <2>1, <2>2, <2>3 DEF StoredKept
<1>. QED
  BY <1>7, <1>9, <1>11, <1>12 DEF TurnInv

\* What a turn puts in the place of what is stored
NoLoss(t) ==
    \A f \in Field :
        faults' = 0 /\ remote[f] # None =>
            remote'[f] \in {remote[f], t} \/ storedBy \in met[t]

LEMMA NothingLost ==
    ASSUME TurnInv, NEW t \in Turn, UnderWay(t), NEW s \in Snapshot, Save(t, s),
           Current(t) => \A f \in Field : remote[f] # None => s[f] \in {remote[f], t}
    PROVE  NoLoss(t)
<1>1. PICK failed \in BOOLEAN : Sends(s, failed)
  BY DEF Save
<1>2. faults \in Nat /\ faults <= faults' /\ faults' \in Nat /\ (faults' = 0 => remote' = s)
  BY <1>1, SendsTyped DEF TurnInv
<1>3. faults' = 0 /\ storedBy \notin met[t] => Current(t)
  BY <1>2 DEF TurnInv, StoredKept, Undisturbed
<1>. QED
  BY <1>2, <1>3 DEF NoLoss
-----------------------------------------------------------------------------
(* The steps of a turn                                                       *)

\* A turn begins with what it has loaded.
Enters(t) ==
    \E s \in {remote, Fallback}, phase \in {"handling", "opening"}, w \in Work :
        /\ Begins(t) /\ Loads(s) /\ Goes(t, phase, w)
        /\ w.mine \in {Blank, s}
        /\ phase = "handling" => w.base = s /\ w.mine = Blank
        /\ UNCHANGED <<lock, saver, storedBy, copyOf>>

LEMMA EnterKept ==
    ASSUME TurnInv, GuardTypeOK', NEW t \in Turn, Enters(t)
    PROVE  TurnInv'
<1>1. PICK s \in {remote, Fallback}, phase \in {"handling", "opening"}, w \in Work :
          /\ Begins(t) /\ Loads(s) /\ Goes(t, phase, w)
          /\ w.mine \in {Blank, s}
          /\ phase = "handling" => w.base = s /\ w.mine = Blank
          /\ UNCHANGED <<lock, saver, storedBy, copyOf>>
  BY DEF Enters
<1>2. /\ pc'[t] = phase /\ work'[t] = w
      /\ \A u \in Turn \ {t} : pc'[u] = pc[u] /\ work'[u] = work[u]
  BY <1>1, GoesTo DEF TurnInv
<1>3. /\ StoreTyped /\ UNCHANGED <<remote, local>>
      /\ faults \in Nat /\ faults' \in Nat /\ faults <= faults'
      /\ (faults' = 0 => s = remote)
  BY <1>1, LoadsTyped DEF TurnInv
<1>. DEFINE others == {u \in Turn : UnderWay(u)}
<1>4. /\ pc[t] = "idle" /\ t \notin others
      /\ met' = [u \in Turn |-> IF u = t THEN met[u] \cup others
                                ELSE IF u \in others THEN met[u] \cup {t} ELSE met[u]]
  BY <1>1 DEF Begins, UnderWay
<1>5. met \in [Turn -> SUBSET Turn]
  BY DEF TurnInv, TypeOK
<1>6. TypeOK'
  <2>1. Typed(t)
    BY <1>1 DEF Typed, Phases, Still
  <2>2. met' \in [Turn -> SUBSET Turn]
    BY <1>4, <1>5
  <2>. QED
    BY <1>1, <1>3, <2>1, <2>2, TypesKept DEF TurnInv, TypeOK
<1>7. /\ UnderWay(t)' /\ \A u \in Turn \ {t} : UnderWay(u)' <=> UnderWay(u)
      /\ \A u \in Turn : met[u] \subseteq met'[u]
  BY <1>2, <1>4, <1>5 DEF UnderWay
<1>8. Acquainted'
  <2>1. ASSUME NEW u \in Turn PROVE u \notin met'[u]
    BY <1>4 DEF TurnInv, Acquainted
  <2>2. ASSUME NEW u \in Turn, NEW v \in Turn, UnderWay(u)', UnderWay(v)', u # v
        PROVE  u \in met'[v]
    BY <1>4, <1>7, <2>2 DEF TurnInv, Acquainted
  <2>. QED
    BY <2>1, <2>2 DEF Acquainted
<1>9. CopyLeft'
  <2>1. Saving' = Saving
    BY <1>2, <1>4 DEF Saving
  <2>2. saver # None => saver \in Turn
    BY DEF TurnInv, TypeOK
  <2>. QED
    BY <1>1, <1>3, <1>7, <2>1, <2>2 DEF TurnInv, CopyLeft
<1>10. StoredKept'
  <2>1. ASSUME NEW u \in Turn \ {t}, Undisturbed(u)' PROVE Current(u)'
    <3>1. Undisturbed(u) /\ UNCHANGED <<remote, storedBy>> /\ pc'[u] = pc[u] /\ work'[u] = work[u]
      BY <1>1, <1>2, <1>3, <1>7, <2>1 DEF Undisturbed
    <3>2. Current(u)
      BY <3>1 DEF TurnInv, StoredKept
    <3>. QED
      BY <3>1, <3>2 DEF Current
  <2>2. ASSUME Undisturbed(t)' PROVE Current(t)'
    <3>1. s = remote /\ remote' = remote
      BY <1>3, <2>2 DEF Undisturbed
    <3>. QED
      BY <1>1, <1>2, <3>1 DEF Current, Blank
  <2>3. ASSUME NEW u \in Turn, pc'[u] = "handling" PROVE work'[u].mine = Blank
    BY <1>1, <1>2, <2>3 DEF TurnInv, StoredKept
  <2>. QED
    BY <2>1, <2>2, <2>3 DEF StoredKept
<1>. QED
  BY <1>6, <1>8, <1>9, <1>10 DEF TurnInv

LEMMA BeginningsEnter ==
    ASSUME TypeOK, NEW t \in Turn, StartHandler(t) \/ StartRun(t)
    PROVE  Enters(t)
<1>1. pc[t] = "idle" /\ work[t] = Fresh
  BY DEF StartHandler, StartRun, Begins, TypeOK, UnderWay
<1>2. CASE StartHandler(t)
  <2>1. PICK s \in {remote, Fallback} : Loads(s) /\ Goes(t, "handling", [Fresh EXCEPT !.base = s])
    BY <1>1, <1>2 DEF StartHandler, LoadBase
  <2>2. [Fresh EXCEPT !.base = s] \in Work
    BY FallbackTyped, FreshWork, WorkUpdated
  <2>3. [Fresh EXCEPT !.base = s].base = s /\ [Fresh EXCEPT !.base = s].mine = Blank
    BY DEF Fresh
  <2>. QED
    BY <1>2, <2>1, <2>2, <2>3, Zenon DEF StartHandler, Enters
<1>3. CASE StartRun(t)
  <2>. DEFINE w(s) == [Fresh EXCEPT !.mine = s, !.event = "session"]
  <2>1. PICK s \in {remote, Fallback} : Loads(s) /\ Goes(t, "opening", w(s))
    BY <1>3 DEF StartRun
  <2>2. w(s) \in Work
    BY FallbackTyped, FreshWork, WorkUpdated
  <2>3. w(s).mine = s
    BY DEF Fresh
  <2>. HIDE DEF w
  <2>. QED
    BY <1>3, <2>1, <2>2, <2>3, Zenon DEF StartRun, Enters
<1>. QED
  BY <1>2, <1>3

\* The parts of what is local to a turn that a step leaves alone
LEMMA WorkParts ==
    ASSUME NEW w \in Work
    PROVE  /\ \A e : [w EXCEPT !.event = e].mine = w.mine
           /\ \A s : [w EXCEPT !.base = s].mine = w.mine /\ [w EXCEPT !.base = s].base = s
           /\ \A s : [w EXCEPT !.mine = s].mine = s
  BY DEF Work

\* A turn goes on, in a phase of its own, with what it carries along as it is.
GoesOn(t, phase, w) ==
    /\ UnderWay(t) /\ pc[t] # "settling"
    /\ phase \in Phases \ {"settling", "handling"} /\ w \in Work
    /\ phase \in Still => w = Fresh
    /\ Goes(t, phase, w)
    /\ UNCHANGED <<remote, local, met, saver, storedBy, copyOf>>
    /\ UNCHANGED faults \/ Fault
    /\ lock' \in Turn \cup {None}

CarriesOn(t, phase, w) ==
    /\ \A f \in Field : remote[f] # None => w.mine[f] \in {None, t, remote[f]}
    /\ phase \in {"locked", "merging"} => w.base = remote
    /\ phase = "created" => remote = Blank
    /\ phase \in {"closed", "merging"} => w.mine = remote

LEMMA GoneOn ==
    ASSUME TurnInv, GuardTypeOK', NEW t \in Turn, NEW phase, NEW w, GoesOn(t, phase, w),
           Current(t) /\ faults' = 0 => CarriesOn(t, phase, w)
    PROVE  TurnInv'
<1>1. pc'[t] = phase /\ work'[t] = w
  BY GoesTo DEF GoesOn, TurnInv
<1>2. faults' \in 0..MaxFaults /\ faults <= faults' /\ faults \in Nat /\ faults' \in Nat
  <2>1. faults' \in 0..MaxFaults /\ faults <= faults' /\ faults \in Nat
    BY FaultsTyped DEF GoesOn, TurnInv
  <2>. QED
    BY <2>1, StoreAssumption
<1>3. Passes(t)
  <2>1. Typed(t)
    BY DEF GoesOn, Typed
  <2>2. StoreTyped
    BY <1>2 DEF GoesOn, StoreTyped, TurnInv, TypeOK, StoreTypeOK
  <2>. QED
    BY <1>1, <1>2, <2>1, <2>2 DEF GoesOn, Passes
<1>4. ASSUME Undisturbed(t)' PROVE Current(t)'
  <2>1. Undisturbed(t) /\ faults' = 0
    BY <1>2, <1>4 DEF Undisturbed, GoesOn
  <2>2. CarriesOn(t, phase, w)
    BY <2>1 DEF TurnInv, StoredKept
  <2>3. remote' = remote
    BY DEF GoesOn
  <2>. QED
    BY <1>1, <2>2, <2>3 DEF CarriesOn, Current, GoesOn
<1>. QED
  BY <1>3, <1>4, PassKept

\* The loop over the events is left with nothing in the hand.
LEMMA ClosingGoesOn ==
    ASSUME TurnInv, NEW t \in Turn, Closes(t)
    PROVE  \E w \in Work : Goes(t, "closing", w) /\ CarriesOn(t, "closing", w)
<1>. DEFINE w == [Fresh EXCEPT !.pending = work[t].pending]
<1>1. w \in Work
  BY WorkTyped, WorkUpdated DEF TurnInv
<1>2. w.mine = Blank
  BY DEF Fresh
<1>3. CarriesOn(t, "closing", w)
  BY <1>2 DEF CarriesOn, Blank
<1>4. Goes(t, "closing", w)
  BY DEF Closes
<1>. HIDE DEF w
<1>. QED
  BY <1>1, <1>3, <1>4

LEMMA ClosingKept ==
    ASSUME TurnInv, GuardTypeOK', NEW t \in Turn, UnderWay(t), pc[t] # "settling", Closes(t),
           UNCHANGED <<remote, local, met, saver, storedBy, copyOf>>,
           UNCHANGED faults \/ Fault, lock' \in Turn \cup {None}
    PROVE  TurnInv'
<1>1. PICK w \in Work : Goes(t, "closing", w) /\ CarriesOn(t, "closing", w)
  BY ClosingGoesOn
<1>2. GoesOn(t, "closing", w)
  BY <1>1 DEF GoesOn, Phases, Still
<1>. QED
  BY <1>1, <1>2, GoneOn

LEMMA LockTyped == TurnInv => lock \in Turn \cup {None}
  BY DEF TurnInv, TypeOK

\* The session is opened: the runner asks for it, or creates it.
LEMMA OpenKept ==
    ASSUME TurnInv, GuardTypeOK', NEW t \in Turn, OpenSession(t) \/ CreateLoad(t)
    PROVE  TurnInv'
<1>1. /\ pc[t] \in {"opening", "creating"} /\ UnderWay(t)
      /\ UNCHANGED <<met, saver, storedBy, copyOf>>
      /\ lock' \in Turn \cup {None}
  BY LockTyped DEF OpenSession, CreateLoad, UnderWay, ghosts
<1>2. PICK s \in {remote, Fallback}, exists \in BOOLEAN :
          /\ exists \in MayExist(s) /\ Loads(s)
          /\ \/ FirstMessage(t)
             \/ Goes(t, "creating", work[t])
             \/ Closes(t)
             \/ ~exists /\ Goes(t, "created", work[t])
  BY DEF OpenSession, CreateLoad, MayExist
<1>3. /\ UNCHANGED <<remote, local>> /\ (UNCHANGED faults \/ Fault)
      /\ (faults' = 0 => s = remote)
  BY <1>2, LoadsTyped DEF Loads, TurnInv
<1>4. CASE Closes(t)
  BY <1>1, <1>3, <1>4, ClosingKept
<1>5. CASE FirstMessage(t)
  <2>. DEFINE w == [work[t] EXCEPT !.event = "message"]
  <2>1. w \in Work /\ w.mine = work[t].mine
    <3>1. work[t] \in Work
      BY WorkTyped DEF TurnInv
    <3>2. w \in Work
      BY <3>1, WorkUpdated
    <3>3. w.mine = work[t].mine
      BY <3>1, WorkParts
    <3>. QED
      BY <3>2, <3>3
  <2>2. Goes(t, "append", w)
    BY <1>5 DEF FirstMessage
  <2>. HIDE DEF w
  <2>3. GoesOn(t, "append", w)
    BY <1>1, <1>3, <2>1, <2>2 DEF GoesOn, Phases, Still
  <2>4. Current(t) => CarriesOn(t, "append", w)
    BY <2>1 DEF Current, CarriesOn
  <2>. QED
    BY <2>3, <2>4, GoneOn
<1>6. CASE Goes(t, "creating", work[t])
  <2>1. GoesOn(t, "creating", work[t])
    BY <1>1, <1>3, <1>6, WorkTyped DEF GoesOn, Phases, Still, TurnInv
  <2>2. Current(t) => CarriesOn(t, "creating", work[t])
    BY DEF Current, CarriesOn
  <2>. QED
    BY <2>1, <2>2, GoneOn
<1>7. CASE ~exists /\ Goes(t, "created", work[t])
  <2>1. s = Blank
    BY <1>2, <1>7 DEF MayExist
  <2>2. GoesOn(t, "created", work[t])
    BY <1>1, <1>3, <1>7, WorkTyped DEF GoesOn, Phases, Still, TurnInv
  <2>3. Current(t) /\ faults' = 0 => CarriesOn(t, "created", work[t])
    BY <1>3, <2>1 DEF Current, CarriesOn
  <2>. QED
    BY <2>2, <2>3, GoneOn
<1>. QED
  BY <1>2, <1>4, <1>5, <1>6, <1>7

\* A snapshot is loaded to be saved again, by a run that appends or that merges back.
LEMMA LoadKept ==
    ASSUME TurnInv, GuardTypeOK', NEW t \in Turn, AppendLoad(t) \/ ReadSnapshot(t)
    PROVE  TurnInv'
<1>. DEFINE phase == IF pc[t] = "append" THEN "locked" ELSE "merging"
            w(s)  == [work[t] EXCEPT !.base = s]
<1>1. /\ pc[t] \in {"append", "closed"} /\ UnderWay(t)
      /\ UNCHANGED <<met, saver, storedBy, copyOf>>
      /\ lock' \in Turn \cup {None}
  BY LockTyped DEF AppendLoad, ReadSnapshot, UnderWay, ghosts
<1>2. PICK s \in {remote, Fallback} : Loads(s) /\ Goes(t, phase, w(s))
  BY DEF AppendLoad, ReadSnapshot, LoadBase
<1>3. /\ UNCHANGED <<remote, local>> /\ (UNCHANGED faults \/ Fault)
      /\ s \in Snapshot /\ (faults' = 0 => s = remote)
  BY <1>2, LoadsTyped DEF Loads, TurnInv
<1>4. w(s) \in Work /\ w(s).mine = work[t].mine /\ w(s).base = s
  <2>1. work[t] \in Work
    BY WorkTyped DEF TurnInv
  <2>2. w(s) \in Work
    BY <1>3, <2>1, WorkUpdated
  <2>3. w(s).mine = work[t].mine /\ w(s).base = s
    BY <2>1, WorkParts
  <2>. QED
    BY <2>2, <2>3
<1>. HIDE DEF w
<1>5. GoesOn(t, phase, w(s))
  BY <1>1, <1>2, <1>3, <1>4 DEF GoesOn, Phases, Still
<1>6. Current(t) /\ faults' = 0 => CarriesOn(t, phase, w(s))
  BY <1>1, <1>3, <1>4 DEF Current, CarriesOn
<1>. QED
  BY <1>5, <1>6, GoneOn

LEMMA ReadKept ==
    ASSUME TurnInv, GuardTypeOK', NEW t \in Turn, ReadSession(t)
    PROVE  TurnInv'
<1>. DEFINE w(s) == [work[t] EXCEPT !.mine = s]
<1>1. /\ pc[t] = "closing" /\ UnderWay(t)
      /\ UNCHANGED <<met, saver, storedBy, copyOf>>
      /\ lock' \in Turn \cup {None}
  BY LockTyped DEF ReadSession, UnderWay, ghosts
<1>2. PICK s \in {remote, Fallback} : Loads(s) /\ Goes(t, "closed", w(s))
  BY DEF ReadSession
<1>3. /\ UNCHANGED <<remote, local>> /\ (UNCHANGED faults \/ Fault)
      /\ s \in Snapshot /\ (faults' = 0 => s = remote)
  BY <1>2, LoadsTyped DEF Loads, TurnInv
<1>4. w(s) \in Work /\ w(s).mine = s
  <2>1. work[t] \in Work
    BY WorkTyped DEF TurnInv
  <2>2. w(s) \in Work
    BY <1>3, <2>1, WorkUpdated
  <2>3. w(s).mine = s
    BY <2>1, WorkParts
  <2>. QED
    BY <2>2, <2>3
<1>. HIDE DEF w
<1>5. GoesOn(t, "closed", w(s))
  BY <1>1, <1>2, <1>3, <1>4 DEF GoesOn, Phases, Still
<1>6. faults' = 0 => CarriesOn(t, "closed", w(s))
  BY <1>3, <1>4 DEF CarriesOn
<1>. QED
  BY <1>5, <1>6, GoneOn

\* What a model asks for becomes an event; a tool writes to the state of its run.
LEMMA ProduceKept ==
    ASSUME TurnInv, GuardTypeOK', NEW t \in Turn, CallTool(t) \/ RunTool(t) \/ Speak(t)
    PROVE  TurnInv'
<1>1. PICK w : /\ Produce(t, w)
               /\ \/ \E e \in {"call", "voice"} : w = [work[t] EXCEPT !.event = e]
                  \/ \E f \in Field : w = [work[t] EXCEPT !.event = "result",
                                                          !.mine = Wrote(work[t].mine, t, f),
                                                          !.pending = f]
  <2>1. CASE CallTool(t) \/ Speak(t)
    BY <2>1 DEF CallTool, Speak
  <2>2. CASE RunTool(t)
    <3>1. PICK f \in Field : Produce(t, [work[t] EXCEPT !.event = "result", !.mine = Wrote(@, t, f),
                                                        !.pending = f])
      BY <2>2 DEF RunTool
    <3>. QED
      BY <3>1
  <2>. QED
    BY <2>1, <2>2
<1>2. /\ pc[t] = "running" /\ UnderWay(t) /\ Goes(t, "append", w)
      /\ UNCHANGED <<remote, local, faults, lock, met, saver, storedBy, copyOf>>
  BY <1>1 DEF Produce, UnderWay, storeVars, ghosts
<1>3. work[t] \in Work /\ work[t].mine \in Snapshot
  BY WorkTyped DEF TurnInv
<1>4. CASE \E e \in {"call", "voice"} : w = [work[t] EXCEPT !.event = e]
  <2>1. w \in Work /\ w.mine = work[t].mine
    <3>1. PICK e \in {"call", "voice"} : w = [work[t] EXCEPT !.event = e]
      BY <1>4
    <3>2. w \in Work
      BY <1>3, <3>1, WorkUpdated
    <3>3. w.mine = work[t].mine
      BY <1>3, <3>1, WorkParts
    <3>. QED
      BY <3>2, <3>3
  <2>2. GoesOn(t, "append", w)
    BY <1>2, <2>1, LockTyped DEF GoesOn, Phases, Still
  <2>3. Current(t) => CarriesOn(t, "append", w)
    BY <2>1 DEF Current, CarriesOn
  <2>. QED
    BY <2>2, <2>3, GoneOn
<1>5. ASSUME NEW f \in Field,
             w = [work[t] EXCEPT !.event = "result", !.mine = Wrote(work[t].mine, t, f),
                                 !.pending = f]
      PROVE  TurnInv'
  <2>1. Wrote(work[t].mine, t, f) \in Snapshot
    BY <1>3, Snapshots
  <2>2. w \in Work
    BY <1>3, <1>5, <2>1, WorkUpdated
  <2>3. w.mine = Wrote(work[t].mine, t, f)
    BY <1>3, <1>5 DEF Work
  <2>4. \A g \in Field : w.mine[g] \in {work[t].mine[g], t}
    BY <1>3, <2>3 DEF Wrote, Snapshot
  <2>5. GoesOn(t, "append", w)
    BY <1>2, <2>2, LockTyped DEF GoesOn, Phases, Still
  <2>6. Current(t) => CarriesOn(t, "append", w)
    BY <2>4 DEF Current, CarriesOn
  <2>. QED
    BY <2>5, <2>6, GoneOn
<1>. QED
  BY <1>1, <1>4, <1>5

\* The guard lets a call through, or ends the run.
LEMMA GuardKept ==
    ASSUME TurnInv, GuardTypeOK', NEW t \in Turn, CheckTool(t) \/ RecordTool(t)
    PROVE  TurnInv'
<1>1. /\ pc[t] \in {"checking", "recording"} /\ UnderWay(t)
      /\ UNCHANGED <<remote, local, lock, met, saver, storedBy, copyOf>>
      /\ UNCHANGED faults \/ Fault
      /\ Closes(t) \/ \E phase \in {"recording", "running"} : Goes(t, phase, work[t])
  BY DEF CheckTool, RecordTool, Counts, Records, UnderWay, ghosts
<1>2. CASE Closes(t)
  BY <1>1, <1>2, ClosingKept, LockTyped
<1>3. ASSUME NEW phase \in {"recording", "running"}, Goes(t, phase, work[t]) PROVE TurnInv'
  <2>1. GoesOn(t, phase, work[t])
    BY <1>1, <1>3, WorkTyped, LockTyped DEF GoesOn, Phases, Still, TurnInv
  <2>2. Current(t) => CarriesOn(t, phase, work[t])
    BY DEF Current, CarriesOn
  <2>. QED
    BY <2>1, <2>2, GoneOn
<1>. QED
  BY <1>1, <1>2, <1>3

\* A turn ends without a save.
LEMMA EndKept ==
    ASSUME TurnInv, GuardTypeOK', NEW t \in Turn, UnderWay(t), pc[t] # "settling", Ends(t),
           UNCHANGED <<storeVars, lock, met, saver, storedBy, copyOf>>
    PROVE  TurnInv'
<1>1. GoesOn(t, "done", Fresh)
  BY LockTyped, FreshWork DEF GoesOn, Phases, Still, Ends, storeVars
<1>2. CarriesOn(t, "done", Fresh)
  BY DEF CarriesOn, Fresh, Blank
<1>. QED
  BY <1>1, <1>2, GoneOn
-----------------------------------------------------------------------------
(* Saves                                                                     *)

\* What a save stores agrees with what the turn carries along, and replaces what is
\* stored by it or by what was loaded.
Sound(t, s) ==
    /\ s \in Snapshot
    /\ \A f \in Field : s[f] # None => work[t].mine[f] \in {None, t, s[f]}
    /\ Current(t) => \A f \in Field : remote[f] # None => s[f] \in {remote[f], t}

LEMMA HandledSound ==
    ASSUME TurnInv, NEW t \in Turn, pc[t] = "handling", NEW g \in Field
    PROVE  Sound(t, Wrote(work[t].base, t, g))
<1>1. work[t].base \in Snapshot /\ work[t].mine = Blank
  BY WorkTyped DEF TurnInv, StoredKept
<1>2. Wrote(work[t].base, t, g) \in Snapshot
  BY <1>1, Snapshots
<1>3. \A f \in Field : work[t].mine[f] = None
  BY <1>1 DEF Blank
<1>4. \A f \in Field : Wrote(work[t].base, t, g)[f] \in {work[t].base[f], t}
  BY <1>1 DEF Wrote, Snapshot
<1>5. Current(t) => work[t].base = remote
  BY DEF Current
<1>. QED
  BY <1>2, <1>3, <1>4, <1>5 DEF Sound

LEMMA BlankSound ==
    ASSUME NEW t \in Turn, pc[t] = "created"
    PROVE  Sound(t, Blank)
  BY Snapshots DEF Sound, Current, Blank

LEMMA AppendSound ==
    ASSUME TurnInv, NEW t \in Turn, pc[t] = "locked"
    PROVE  Sound(t, Merged(work[t].base, work[t].mine))
<1>1. work[t].base \in Snapshot /\ work[t].mine \in Snapshot
  BY WorkTyped DEF TurnInv
<1>2. Merged(work[t].base, work[t].mine) \in Snapshot
  BY <1>1, Snapshots
<1>3. \A f \in Field : Merged(work[t].base, work[t].mine)[f]
                       = IF work[t].mine[f] # None THEN work[t].mine[f] ELSE work[t].base[f]
  BY DEF Merged
<1>4. Current(t) => /\ work[t].base = remote
                    /\ \A f \in Field : remote[f] # None => work[t].mine[f] \in {None, t, remote[f]}
  BY DEF Current
<1>. QED
  BY <1>2, <1>3, <1>4 DEF Sound

LEMMA MergeSound ==
    ASSUME TurnInv, NEW t \in Turn, pc[t] = "merging"
    PROVE  Sound(t, MergedBack(t))
<1>. DEFINE found == Merged(work[t].base, Updates(t))
<1>1. work[t].base \in Snapshot /\ work[t].mine \in Snapshot /\ found \in Snapshot
  BY WorkTyped, Snapshots DEF TurnInv
<1>. HIDE DEF found
<1>2. MergedBack(t) = Merged(found, work[t].mine)
  BY DEF MergedBack, found
<1>3. MergedBack(t) \in Snapshot
  BY <1>1, <1>2, Snapshots
<1>4. \A f \in Field : MergedBack(t)[f]
                       = IF work[t].mine[f] # None THEN work[t].mine[f] ELSE found[f]
  BY <1>2 DEF Merged
<1>5. Current(t) => work[t].mine = remote
  BY DEF Current
<1>. QED
  BY <1>3, <1>4, <1>5 DEF Sound

Saves(t) == SaveHandled(t) \/ CreateSave(t) \/ AppendSave(t) \/ (MergeBack(t) /\ ~Ends(t))

\* Every save is of this kind.
LEMMA SavesSound ==
    ASSUME TurnInv, NEW t \in Turn, Saves(t)
    PROVE  \E s : /\ Save(t, s) /\ Sound(t, s) /\ UnderWay(t) /\ pc[t] # "settling"
                  /\ UNCHANGED <<lock, met, copyOf>>
<1>1. CASE SaveHandled(t)
  BY <1>1, HandledSound DEF SaveHandled, UnderWay
<1>2. CASE CreateSave(t)
  BY <1>2, BlankSound DEF CreateSave, UnderWay
<1>3. CASE AppendSave(t)
  BY <1>3, AppendSound DEF AppendSave, UnderWay
<1>4. CASE MergeBack(t) /\ ~Ends(t)
  BY <1>4, MergeSound DEF MergeBack, UnderWay
<1>. QED
  BY <1>1, <1>2, <1>3, <1>4 DEF Saves

LEMMA SavesKept ==
    ASSUME TurnInv, NEW t \in Turn, Saves(t)
    PROVE  NoLoss(t) /\ (GuardTypeOK' => TurnInv')
<1>1. PICK s : /\ Save(t, s) /\ Sound(t, s) /\ UnderWay(t) /\ pc[t] # "settling"
               /\ UNCHANGED <<lock, met, copyOf>>
  BY SavesSound
<1>2. Stores(t)
  BY <1>1, LockTyped DEF Sound, Stores
<1>3. NoLoss(t)
  BY <1>1, NothingLost DEF Sound
<1>. QED
  BY <1>2, <1>3, StoreKept
-----------------------------------------------------------------------------
(* The answer of Redis                                                       *)

\* The turn that waits for Redis goes on, for the answer came or its run is cancelled.
GoesFree(t, phase, w) ==
    /\ pc[t] = "settling"
    /\ phase \in Phases \ {"settling", "handling"} /\ w \in Work
    /\ phase \in Still => w = Fresh
    /\ Goes(t, phase, w)
    /\ Current(t) => CarriesOn(t, phase, w)

Answered(t) ==
    /\ local' \in Snapshot \cup {None} /\ copyOf' \in Turn \cup {None} /\ UNCHANGED saver
    /\ local' # None => copyOf' = t

Cancelled == saver' = None /\ UNCHANGED <<local, copyOf>>

LEMMA FreeKept ==
    ASSUME TurnInv, GuardTypeOK', NEW t \in Turn, NEW phase, NEW w, GoesFree(t, phase, w),
           Answered(t) \/ Cancelled,
           UNCHANGED <<remote, faults, met, storedBy>>, lock' \in Turn \cup {None}
    PROVE  TurnInv'
<1>1. /\ pc'[t] = phase /\ work'[t] = w
      /\ \A u \in Turn \ {t} : pc'[u] = pc[u] /\ work'[u] = work[u]
  BY GoesTo DEF GoesFree, TurnInv
<1>2. UnderWay(t) /\ pc[t] = "settling" /\ phase \notin {"settling", "handling"}
  BY DEF GoesFree, UnderWay
<1>3. TypeOK'
  <2>1. Typed(t)
    BY DEF GoesFree, Typed
  <2>2. StoreTyped
    BY DEF StoreTyped, TurnInv, TypeOK, StoreTypeOK, Answered, Cancelled
  <2>3. {saver', storedBy', copyOf'} \subseteq Turn \cup {None}
    BY DEF TurnInv, TypeOK, Answered, Cancelled
  <2>. QED
    BY <2>1, <2>2, <2>3, TypesKept DEF TurnInv, TypeOK
<1>4. \A u \in Turn : UnderWay(u)' => UnderWay(u)
  BY <1>1, <1>2 DEF UnderWay
<1>5. Acquainted'
  BY <1>4 DEF Acquainted, TurnInv
<1>6. Saving' = Saving \ {t} /\ t \in Saving
  BY <1>1, <1>2 DEF Saving
<1>7. CopyLeft'
  <2>1. CASE Answered(t)
    BY <1>6, <2>1 DEF CopyLeft, TurnInv, Answered
  <2>2. CASE Cancelled
    BY <2>2 DEF CopyLeft, TurnInv, Cancelled
  <2>. QED
    BY <2>1, <2>2
<1>8. StoredKept'
  <2>1. ASSUME NEW u \in Turn, Undisturbed(u)' PROVE Current(u)
    BY <1>4, <2>1 DEF Undisturbed, TurnInv, StoredKept
  <2>2. ASSUME NEW u \in Turn, Undisturbed(u)' PROVE Current(u)'
    <3>1. CASE u = t
      BY <1>1, <1>2, <2>1, <2>2, <3>1 DEF GoesFree, CarriesOn, Current
    <3>2. CASE u # t
      BY <1>1, <2>1, <2>2, <3>2 DEF Current
    <3>. QED
      BY <3>1, <3>2
  <2>3. ASSUME NEW u \in Turn, pc'[u] = "handling" PROVE work'[u].mine = Blank
    BY <1>1, <1>2, <2>3 DEF TurnInv, StoredKept
  <2>. QED
    BY <2>2, <2>3 DEF StoredKept
<1>. QED
  BY <1>3, <1>5, <1>7, <1>8 DEF TurnInv

LEMMA ClosingFree ==
    ASSUME TurnInv, NEW t \in Turn, pc[t] = "settling", Closes(t)
    PROVE  \E phase, w : GoesFree(t, phase, w)
<1>1. PICK w \in Work : Goes(t, "closing", w) /\ CarriesOn(t, "closing", w)
  BY ClosingGoesOn
<1>. QED
  BY <1>1 DEF GoesFree, Phases, Still

\* The consumer counts the event no further than it may.
LEMMA EventCounted ==
    ASSUME NEW n \in 0..MaxEvents, ~Exceeds(n + 1)
    PROVE  n + 1 \in 0..MaxEvents
  BY TurnAssumption DEF Exceeds

LEMMA ConsumesFree ==
    ASSUME TurnInv, NEW t \in Turn, pc[t] = "settling", Consumes(t)
    PROVE  \E phase, w : GoesFree(t, phase, w)
<1>. DEFINE seen(c) == [work[t] EXCEPT !.base = Blank, !.failed = FALSE, !.count = c]
            first   == [work[t] EXCEPT !.event = "message"]
<1>1. work[t] \in Work /\ work[t].count \in 0..MaxEvents
  BY WorkTyped DEF TurnInv
<1>2. 0 \in 0..MaxEvents
  BY TurnAssumption
<1>3. \A c \in 0..MaxEvents : seen(c) \in Work /\ seen(c).mine = work[t].mine
  <2>1. \A c \in 0..MaxEvents : seen(c) \in Work
    BY <1>1, WorkUpdated
  <2>2. \A c : seen(c).mine = work[t].mine
    BY <1>1 DEF Work
  <2>. QED
    BY <2>1, <2>2
<1>4. first \in Work /\ first.mine = work[t].mine
  BY <1>1, WorkUpdated, WorkParts
<1>5. \A c : [seen(c) EXCEPT !.count = 0] = seen(0)
  BY <1>1 DEF Work
<1>6. \/ Closes(t)
      \/ Goes(t, "append", first)
      \/ Goes(t, "running", [seen(work[t].count + 1) EXCEPT !.count = 0])
      \/ ~Exceeds(work[t].count + 1)
         /\ \E phase \in {"checking", "running"} : Goes(t, phase, seen(work[t].count + 1))
  BY DEF Consumes, FirstMessage
<1>. HIDE DEF seen, first
<1>7. CASE Closes(t)
  BY <1>7, ClosingFree
<1>8. ASSUME NEW phase \in {"append", "checking", "running"}, NEW w \in Work,
             w.mine = work[t].mine, Goes(t, phase, w)
      PROVE  GoesFree(t, phase, w)
  BY <1>8 DEF GoesFree, CarriesOn, Current, Phases, Still
<1>9. CASE Goes(t, "append", first)
  BY <1>4, <1>8, <1>9
<1>10. CASE Goes(t, "running", [seen(work[t].count + 1) EXCEPT !.count = 0])
  <2>1. Goes(t, "running", seen(0))
    BY <1>5, <1>10
  <2>. QED
    BY <1>2, <1>3, <1>8, <2>1
<1>11. CASE ~Exceeds(work[t].count + 1)
            /\ \E phase \in {"checking", "running"} : Goes(t, phase, seen(work[t].count + 1))
  <2>1. work[t].count + 1 \in 0..MaxEvents
    BY <1>1, <1>11, EventCounted
  <2>. QED
    BY <1>3, <1>8, <1>11, <2>1
<1>. QED
  BY <1>6, <1>7, <1>9, <1>10, <1>11

LEMMA SettleKept ==
    ASSUME TurnInv, GuardTypeOK', NEW t \in Turn, Settle(t)
    PROVE  TurnInv'
<1>1. pc[t] = "settling" /\ UNCHANGED <<remote, faults, met, saver, storedBy>>
      /\ lock' \in Turn \cup {None}
  BY LockTyped DEF Settle, Settles
<1>2. Answered(t)
  <2>1. work[t].base \in Snapshot
    BY WorkTyped DEF TurnInv
  <2>2. local' = IF work[t].failed THEN work[t].base ELSE None
    BY DEF Settle, Settles
  <2>3. copyOf' = IF work[t].failed THEN t ELSE None
    BY DEF Settle
  <2>. QED
    BY <1>1, <2>1, <2>2, <2>3 DEF Answered
<1>3. \E phase, w : GoesFree(t, phase, w)
  <2>1. CASE Consumes(t)
    BY <1>1, <2>1, ConsumesFree
  <2>2. CASE Ends(t)
    <3>1. CarriesOn(t, "done", Fresh)
      BY DEF CarriesOn, Fresh, Blank
    <3>2. GoesFree(t, "done", Fresh)
      BY <1>1, <2>2, <3>1, FreshWork DEF GoesFree, Ends, Phases, Still
    <3>. QED
      BY <3>2
  <2>. QED
    BY <2>1, <2>2 DEF Settle
<1>. QED
  BY <1>1, <1>2, <1>3, FreeKept

LEMMA TimeoutKept ==
    ASSUME TurnInv, GuardTypeOK', NEW t \in Turn, Timeout(t)
    PROVE  TurnInv'
<1>1. /\ Closes(t) /\ UNCHANGED <<remote, local, faults, met, storedBy, copyOf>>
      /\ lock' \in Turn \cup {None}
      /\ saver' = IF pc[t] = "settling" THEN None ELSE saver
  BY LockTyped DEF Timeout, storeVars
<1>2. CASE pc[t] = "settling"
  <2>1. Cancelled
    BY <1>1, <1>2 DEF Cancelled
  <2>. QED
    BY <1>1, <1>2, <2>1, ClosingFree, FreeKept
<1>3. CASE pc[t] # "settling"
  <2>1. UnderWay(t)
    BY <1>3 DEF Timeout, Timed, UnderWay
  <2>. QED
    BY <1>1, <1>3, <2>1, ClosingKept
<1>. QED
  BY <1>2, <1>3
-----------------------------------------------------------------------------
(* The world around                                                          *)

LEMMA ExpiryKept ==
    ASSUME TurnInv, GuardTypeOK', ExpireSession
    PROVE  TurnInv'
<1>1. /\ \A t \in Turn : ~UnderWay(t)
      /\ remote' = Blank /\ local' \in {local, None} /\ faults' = faults
      /\ UNCHANGED <<pc, work, lock, met, saver, storedBy, copyOf>>
  BY DEF ExpireSession, Expires, turnVars, ghosts
<1>2. \A t \in Turn : ~UnderWay(t)'
  BY <1>1 DEF UnderWay
<1>3. TypeOK'
  BY <1>1, Snapshots DEF TurnInv, TypeOK, StoreTypeOK, UnderWay
<1>4. Acquainted'
  BY <1>1, <1>2 DEF TurnInv, Acquainted
<1>5. CopyLeft'
  <2>1. Saving' = Saving
    BY <1>1 DEF Saving
  <2>. QED
    BY <1>1, <2>1 DEF TurnInv, CopyLeft
<1>6. StoredKept'
  BY <1>1, <1>2 DEF TurnInv, StoredKept, Undisturbed
<1>. QED
  BY <1>3, <1>4, <1>5, <1>6 DEF TurnInv

LEMMA RestartKept ==
    ASSUME TurnInv, GuardTypeOK', Restart
    PROVE  TurnInv'
<1>1. /\ remote' = remote /\ local' = None /\ copyOf' = None /\ lock' = None
      /\ pc' = [t \in Turn |-> IF UnderWay(t) THEN "dead" ELSE pc[t]]
      /\ work' = [t \in Turn |-> Fresh]
      /\ UNCHANGED <<met, saver, storedBy>>
  BY DEF Restart, LosesCopy
<1>2. \A t \in Turn : pc'[t] \in Phases /\ ~UnderWay(t)' /\ work'[t] = Fresh
  BY <1>1 DEF UnderWay, Phases, TurnInv, TypeOK
<1>3. pc' \in [Turn -> Phases] /\ work' \in [Turn -> Work]
  BY <1>1, <1>2, FreshWork
<1>4. faults' \in 0..MaxFaults
  BY FaultsTyped DEF Restart, LosesCopy, TurnInv
<1>5. TypeOK'
  BY <1>1, <1>2, <1>3, <1>4 DEF TurnInv, TypeOK, StoreTypeOK
<1>6. Acquainted'
  BY <1>1, <1>2 DEF TurnInv, Acquainted
<1>7. CopyLeft'
  <2>1. Saving' = {}
    BY <1>2 DEF Saving, UnderWay
  <2>. QED
    BY <1>1, <2>1 DEF CopyLeft
<1>8. StoredKept'
  BY <1>2 DEF StoredKept, Undisturbed, UnderWay
<1>. QED
  BY <1>5, <1>6, <1>7, <1>8 DEF TurnInv

LEMMA UnchangedKept ==
    ASSUME TurnInv, GuardTypeOK', UNCHANGED <<storeVars, turnVars>>
    PROVE  TurnInv'
<1>1. UNCHANGED <<remote, local, faults, pc, work, lock, met, saver, storedBy, copyOf>>
  BY DEF storeVars, turnVars, ghosts
<1>2. TypeOK'
  BY <1>1 DEF TurnInv, TypeOK, StoreTypeOK, UnderWay
<1>3. Acquainted' /\ CopyLeft'
  BY <1>1 DEF TurnInv, Acquainted, CopyLeft, Saving, UnderWay
<1>4. StoredKept'
  BY <1>1 DEF TurnInv, StoredKept, Undisturbed, Current, UnderWay
<1>. QED
  BY <1>2, <1>3, <1>4 DEF TurnInv
-----------------------------------------------------------------------------
(* The steps together                                                        *)

LEMMA TurnsKept ==
    ASSUME TurnInv, GuardTypeOK', NEW t \in Turn,
           StartHandler(t) \/ StartRun(t) \/ Step(t) \/ Think(t), ~Saves(t)
    PROVE  TurnInv'
<1>1. CASE StartHandler(t) \/ StartRun(t)
  BY <1>1, BeginningsEnter, EnterKept DEF TurnInv
<1>2. CASE OpenSession(t) \/ CreateLoad(t)
  BY <1>2, OpenKept
<1>3. CASE AppendLoad(t) \/ ReadSnapshot(t)
  BY <1>3, LoadKept
<1>4. CASE ReadSession(t)
  BY <1>4, ReadKept
<1>5. CASE CheckTool(t) \/ RecordTool(t)
  BY <1>5, GuardKept
<1>6. CASE Settle(t)
  BY <1>6, SettleKept
<1>7. CASE Timeout(t)
  BY <1>7, TimeoutKept
<1>8. CASE CallTool(t) \/ RunTool(t) \/ Speak(t)
  BY <1>8, ProduceKept
<1>9. CASE EndRun(t)
  <2>1. /\ UnderWay(t) /\ pc[t] # "settling" /\ Closes(t)
        /\ UNCHANGED <<remote, local, faults, lock, met, saver, storedBy, copyOf>>
    BY <1>9 DEF EndRun, UnderWay, storeVars, ghosts
  <2>. QED
    BY <2>1, ClosingKept, LockTyped
<1>10. CASE AnswerOnly(t) \/ (MergeBack(t) /\ Ends(t))
  <2>1. /\ UnderWay(t) /\ pc[t] # "settling" /\ Ends(t)
        /\ UNCHANGED <<storeVars, lock, met, saver, storedBy, copyOf>>
    <3>1. CASE AnswerOnly(t)
      BY <3>1 DEF AnswerOnly, UnderWay, ghosts
    <3>2. CASE MergeBack(t) /\ Ends(t)
      <4>1. pc'[t] = "done"
        BY <3>2, GoesTo DEF Ends, TurnInv
      <4>2. ~Save(t, MergedBack(t))
        <5>1. ASSUME Save(t, MergedBack(t)) PROVE FALSE
          <6>1. PICK w : Goes(t, "settling", w)
            BY <5>1 DEF Save
          <6>2. pc'[t] = "settling"
            BY <6>1, GoesTo DEF TurnInv
          <6>. QED
            BY <4>1, <6>2
        <5>. QED
          BY <5>1
      <4>. QED
        BY <3>2, <4>2 DEF MergeBack, UnderWay
    <3>. QED
      BY <1>10, <3>1, <3>2
  <2>. QED
    BY <2>1, EndKept
<1>. QED
  BY <1>1, <1>2, <1>3, <1>4, <1>5, <1>6, <1>7, <1>8, <1>9, <1>10 DEF Step, Think, Saves

LEMMA TurnStep == TurnInv /\ GuardTypeOK' /\ [Next]_vars => TurnInv'
<1>. SUFFICES ASSUME TurnInv, GuardTypeOK', [Next]_vars PROVE TurnInv'
  OBVIOUS
<1>1. CASE \E t \in Turn : StartHandler(t) \/ StartRun(t) \/ Step(t) \/ Think(t)
  <2>1. PICK t \in Turn : StartHandler(t) \/ StartRun(t) \/ Step(t) \/ Think(t)
    BY <1>1
  <2>. QED
    BY <2>1, TurnsKept, SavesKept
<1>2. CASE ExpireSession
  BY <1>2, ExpiryKept
<1>3. CASE Restart
  BY <1>3, RestartKept
<1>4. CASE EmptyWindow \/ UNCHANGED vars
  BY <1>4, UnchangedKept DEF EmptyWindow, WindowPasses, vars
<1>. QED
  BY <1>1, <1>2, <1>3, <1>4 DEF Next

LEMMA TurnBegins == Init => TurnInv
<1>. SUFFICES ASSUME Init PROVE TurnInv
  OBVIOUS
<1>1. /\ remote = Blank /\ local = None /\ faults = 0
      /\ inRedis = 0 /\ inProcess = 0 /\ passed = 0
      /\ pc = [t \in Turn |-> "idle"] /\ work = [t \in Turn |-> Fresh]
      /\ lock = None /\ met = [t \in Turn |-> {}]
      /\ saver = None /\ storedBy = None /\ copyOf = None
  BY DEF Init, StoreInit, GuardInit
<1>2. TypeOK
  <2>1. pc \in [Turn -> Phases] /\ work \in [Turn -> Work]
    BY <1>1, FreshWork DEF Phases
  <2>2. faults \in 0..MaxFaults
    BY <1>1, StoreAssumption
  <2>3. \A t \in Turn : work[t] = Fresh
    BY <1>1
  <2>. QED
    BY <1>1, <2>1, <2>2, <2>3, Snapshots DEF TypeOK, StoreTypeOK, GuardTypeOK
<1>3. \A t \in Turn : ~UnderWay(t) /\ pc[t] = "idle" /\ met[t] = {}
  BY <1>1 DEF UnderWay
<1>4. Acquainted /\ CopyLeft /\ StoredKept
  BY <1>1, <1>3 DEF Acquainted, CopyLeft, StoredKept, Undisturbed
<1>. QED
  BY <1>2, <1>4 DEF TurnInv

\* Whatever turns overlap, fail or restart: who is under way has met, the copy is that of
\* the last save or of a turn beside it, and a turn beside which nobody has stored
\* anything works on what is stored.
THEOREM TurnInvariance == Spec => []TurnInv
<1>1. GuardInv /\ GuardInv' /\ TurnInv /\ [Next]_vars => TurnInv'
  <2>1. GuardInv' => GuardTypeOK'
    BY DEF GuardInv, CountsTyped, GuardTypeOK
  <2>. QED
    BY <2>1, TurnStep
<1>. QED
  BY <1>1, TurnBegins, GuardInvariance, PTL DEF Spec

\* Every turn stays in a phase of its kind, counts no more events than it may consume,
\* and leaves nothing behind when it ends (turn.py:345-575).
THEOREM TurnTypes == Spec => []TypeOK
<1>1. TurnInv => TypeOK
  BY DEF TurnInv
<1>. QED
  BY <1>1, TurnInvariance, PTL

\* Once Redis has answered the turn that saved last, the copy in the process is of that
\* turn or of one beside it, for any number of turns and failures: the next failure
\* brings back no older state (redis_store.py:195-232).
THEOREM CopiesStayFresh == Spec => []CopyIsFresh
<1>1. TurnInv => CopyIsFresh
  <2>1. ASSUME TurnInv, saver # None PROVE saver \in Turn
    BY <2>1 DEF TurnInv, TypeOK
  <2>2. ASSUME TurnInv, saver # None, ~UnderWay(saver) PROVE saver \notin Saving
    BY <2>2 DEF Saving, UnderWay
  <2>. QED
    BY <2>1, <2>2 DEF TurnInv, CopyLeft, CopyIsFresh
<1>. QED
  BY <1>1, TurnInvariance, PTL

\* A step that is no save takes its turn elsewhere.
LEMMA ElsewhereGoes ==
    ASSUME NEW t \in Turn, ~Saves(t),
           StartHandler(t) \/ StartRun(t) \/ Step(t) \/ Think(t)
    PROVE  \E phase, w : Goes(t, phase, w) /\ phase # "settling"
<1>1. CASE StartHandler(t) \/ StartRun(t)
  <2>1. CASE StartHandler(t)
    BY <2>1 DEF StartHandler, LoadBase
  <2>2. CASE StartRun(t)
    BY <2>2 DEF StartRun
  <2>. QED
    BY <1>1, <2>1, <2>2
<1>2. CASE OpenSession(t) \/ CreateLoad(t)
  BY <1>2 DEF OpenSession, CreateLoad, FirstMessage, Closes
<1>3. CASE AppendLoad(t) \/ ReadSession(t) \/ ReadSnapshot(t)
  BY <1>3 DEF AppendLoad, ReadSession, ReadSnapshot, LoadBase
<1>4. CASE CheckTool(t) \/ RecordTool(t)
  BY <1>4 DEF CheckTool, RecordTool, Closes
<1>5. CASE Settle(t)
  <2>1. Consumes(t) \/ Ends(t)
    BY <1>5 DEF Settle
  <2>. QED
    BY <2>1 DEF Consumes, FirstMessage, Closes, Ends
<1>6. CASE Timeout(t) \/ EndRun(t)
  BY <1>6 DEF Timeout, EndRun, Closes
<1>7. CASE CallTool(t) \/ RunTool(t) \/ Speak(t)
  <2>1. \E w : Produce(t, w)
    <3>1. CASE CallTool(t)
      BY <3>1 DEF CallTool
    <3>2. CASE RunTool(t)
      BY <3>2 DEF RunTool
    <3>3. CASE Speak(t)
      BY <3>3 DEF Speak
    <3>. QED
      BY <1>7, <3>1, <3>2, <3>3
  <2>. QED
    BY <2>1 DEF Produce
<1>8. CASE AnswerOnly(t) \/ (MergeBack(t) /\ Ends(t))
  BY <1>8 DEF AnswerOnly, Ends
<1>. QED
  BY <1>1, <1>2, <1>3, <1>4, <1>5, <1>6, <1>7, <1>8 DEF Step, Think, Saves

\* Only its own saves take a turn to the wait for Redis.
LEMMA SettlingSaves ==
    ASSUME TypeOK, NEW t \in Turn, [Next]_vars, pc'[t] = "settling", pc[t] # "settling"
    PROVE  Saves(t)
<1>1. CASE \E u \in Turn : StartHandler(u) \/ StartRun(u) \/ Step(u) \/ Think(u)
  <2>1. PICK u \in Turn : StartHandler(u) \/ StartRun(u) \/ Step(u) \/ Think(u)
    BY <1>1
  <2>2. CASE Saves(u)
    <3>1. \E phase, w : Goes(u, phase, w)
      BY <2>2 DEF Saves, SaveHandled, CreateSave, AppendSave, MergeBack, Save
    <3>2. u = t
      BY <3>1, GoesTo
    <3>. QED
      BY <2>2, <3>2
  <2>3. CASE ~Saves(u)
    <3>1. \E phase, w : Goes(u, phase, w) /\ phase # "settling"
      BY <2>1, <2>3, ElsewhereGoes
    <3>. QED
      BY <3>1, GoesTo
  <2>. QED
    BY <2>2, <2>3
<1>2. CASE ExpireSession \/ EmptyWindow \/ UNCHANGED vars
  BY <1>2 DEF ExpireSession, EmptyWindow, turnVars, vars
<1>3. CASE Restart
  BY <1>3 DEF Restart, UnderWay
<1>. QED
  BY <1>1, <1>2, <1>3 DEF Next

\* For any number of turns, in any order and at any point of each other: while Redis
\* answers, a turn beside which nobody has stored anything keeps what is stored, or puts
\* its own in its place (turn.py:479-563, state_helpers.py:57-98,
\* session_service.py:262-315).
THEOREM LossNeedsOverlapAlways == Spec => LossNeedsOverlap
<1>1. TurnInv /\ [Next]_vars =>
          [\A t \in Turn, f \in Field :
              LET lost == remote[f] IN
              pc'[t] = "settling" /\ pc[t] # "settling" /\ faults' = 0 /\ lost # None =>
                  remote'[f] \in {lost, t} \/ storedBy \in met[t]]_vars
  <2>. SUFFICES ASSUME TurnInv, [Next]_vars, NEW t \in Turn, NEW f \in Field,
                       pc'[t] = "settling", pc[t] # "settling", faults' = 0, remote[f] # None
                PROVE  remote'[f] \in {remote[f], t} \/ storedBy \in met[t]
    OBVIOUS
  <2>1. Saves(t)
    BY SettlingSaves DEF TurnInv
  <2>2. NoLoss(t)
    BY <2>1, SavesKept
  <2>. QED
    BY <2>2 DEF NoLoss
<1>. QED
  BY <1>1, TurnInvariance, PTL DEF Spec, LossNeedsOverlap
=============================================================================

---------------------------- MODULE SessionStore ---------------------------
(* The snapshot of one session (app/services/redis_store.py): the copy in   *)
(* Redis, and the copy the process keeps while Redis does not answer.       *)
(* A call of Redis may fail, a save may fail after Redis has taken it.  The *)
(* snapshot is, per part of the soft_state, the turn that wrote it last.    *)
EXTENDS Integers

CONSTANTS None, Field,
          Turns,          \* the messages of the session, numbered as they arrive
          MaxFaults       \* bound on the calls of Redis that fail, and on restarts

Turn == 1..Turns

ASSUME StoreAssumption == Turns \in Nat /\ MaxFaults \in Nat /\ None \notin Turn

VARIABLES remote,         \* the snapshot in Redis
          local,          \* _LOCAL_FALLBACK, or None
          faults          \* the failures so far

storeVars == <<remote, local, faults>>

Snapshot == [Field -> Turn \cup {None}]

\* _default_snapshot
Blank == [f \in Field |-> None]

StoreTypeOK ==
    /\ remote \in Snapshot
    /\ local \in Snapshot \cup {None}
    /\ faults \in 0..MaxFaults

StoreInit == remote = Blank /\ local = None /\ faults = 0

Fault == faults < MaxFaults /\ faults' = faults + 1

\* _load_local_snapshot
Fallback == IF local = None THEN Blank ELSE local

\* Mutant: the copy in the process is asked first.
LoadsLocally(s) == s = Fallback /\ UNCHANGED storeVars

\* get_session_snapshot
Loads(s) ==
    /\ \/ s = remote /\ UNCHANGED faults
       \/ s = Fallback /\ Fault
    /\ UNCHANGED <<remote, local>>

\* save_session_snapshot, until Redis has answered
Sends(s, failed) ==
    /\ \/ ~failed /\ remote' = s /\ UNCHANGED faults
       \/ failed /\ remote' \in {remote, s} /\ Fault
    /\ UNCHANGED local

\* Mutant: a save that succeeds leaves the copy of an earlier failure behind.
KeepsCopy(s, failed) == local' = (IF failed THEN s ELSE local) /\ UNCHANGED <<remote, faults>>

\* save_session_snapshot, from then on
Settles(s, failed) == local' = (IF failed THEN s ELSE None) /\ UNCHANGED <<remote, faults>>

\* REDIS_SESSION_TTL_SECONDS after the last save; the copy has a timer of its own.
Expires ==
    /\ remote # Blank /\ remote' = Blank
    /\ local' \in {local, None}
    /\ UNCHANGED faults

\* A new process knows nothing of the copy.
LosesCopy == local' = None /\ Fault /\ UNCHANGED remote
=============================================================================

---------------------------- MODULE ResponseCache ---------------------------
(* The response cache of the Rust gateway (backend/rust_gateway/src/cache.rs): *)
(* a bounded map with a time to live per entry.  The methods of the code take *)
(* the lock once each, except that set cleans up under a lock of its own      *)
(* before it inserts.                                                         *)
EXTENDS Naturals, FiniteSets

CONSTANTS Slot,          \* the hashes cache_key can return
          Cached,        \* the values stored
          Lifetime,      \* the times to live
          MaxEntries,    \* capacity
          Empty          \* no entry

VARIABLES now, store

Entry == [value : Cached, at : Nat, ttl : Lifetime]

StoreTypeOK == store \in [Slot -> Entry \cup {Empty}]

EmptyStore == [s \in Slot |-> Empty]

Used(entries) == {s \in Slot : entries[s] # Empty}

Expired(e) == e.at + e.ttl < now

\* Mutant: the age of an entry is not looked at.
Present(s) == store[s] # Empty

\* get
Hit(s) == store[s] # Empty /\ ~Expired(store[s])

\* cleanup
Cleanup ==
    store' = [s \in Slot |-> IF store[s] # Empty /\ Expired(store[s]) THEN Empty
                             ELSE store[s]]

\* Entries stored before which no other was: iteration order picks one of them.
Oldest == {s \in Used(store) : \A t \in Used(store) : store[s].at <= store[t].at}

InsertAt(s, entry) == store' = [store EXCEPT ![s] = entry]

InsertEvicting(s, entry) ==
    \E victim \in Oldest : store' = [store EXCEPT ![victim] = Empty, ![s] = entry]

\* Mutant: off by one at the capacity.
InsertAboveCapacity(s, value, ttl) ==
    LET entry == [value |-> value, at |-> now, ttl |-> ttl]
    IN  IF Cardinality(Used(store)) > MaxEntries THEN InsertEvicting(s, entry)
        ELSE InsertAt(s, entry)

\* The second half of set.  A full cache gives up its oldest entry even when
\* slot s is occupied and the insertion would not grow it.
Insert(s, value, ttl) ==
    LET entry == [value |-> value, at |-> now, ttl |-> ttl]
    IN  IF Cardinality(Used(store)) >= MaxEntries THEN InsertEvicting(s, entry)
        ELSE InsertAt(s, entry)

\* The cache never holds more than MaxEntries entries (cache.rs:56-76), although
\* several requests may have cleaned up before the first of them inserts.
CapacityKept == Cardinality(Used(store)) <= MaxEntries
=============================================================================

----------------------------- MODULE GatewayProofs ---------------------------
(***************************************************************************)
(* Proofs about the Rust gateway as a whole, for every number of clients,  *)
(* concurrent calls, policies and slots of the cache, and for every value  *)
(* of its limits and times to live.                                        *)
(***************************************************************************)
EXTENDS Gateway, FiniteSetTheorems, TLAPS

-----------------------------------------------------------------------------
LEMMA LeastNatural ==
    ASSUME NEW T, T \subseteq Nat, T # {}
    PROVE  \E x \in T : \A y \in T : x <= y
<1>. DEFINE R == {ss \in Nat \X Nat : ss[1] < ss[2]}
<1>1. IsWellFoundedOn(R, Nat)
  BY NatLessThanWellFounded DEF OpToRel
<1>. HIDE DEF R
<1>2. PICK x \in T : \A y \in T : ~(<<y, x>> \in R)
  BY <1>1, WFMin
<1>3. \A y \in T : ~(y < x)
  BY <1>2 DEF R
<1>. QED
  BY <1>3

-----------------------------------------------------------------------------
(* The rate limiter on its own: but for calls that were overtaken, no window *)
(* of a client holds more admitted calls than the limit, and a call is       *)
(* refused only for the calls of its own client.                             *)

USE LimiterAssumption

(* What the limiter relies on: a call has the lock no earlier than it read   *)
(* the clock; the calls of a client are lined up in the order in which they  *)
(* had the lock, each once; and what was popped was too old for a call that  *)
(* came before, or for the eviction task.                                    *)
Clocked == \A k \in Call : /\ stamp[k] <= now /\ passed[k] <= now
                           /\ Remembered(k) => stamp[k] <= passed[k]
Addressed == \A k \in Call :
    verdict[k] \in {"waiting", "admitted", "refused"} => caller[k] \in Client
Lined(c) ==
    /\ dropped[c] <= Len(arrivals[c])
    /\ \A p \in DOMAIN arrivals[c] : Remembered(arrivals[c][p]) /\ caller[arrivals[c][p]] = c
    /\ \A p, q \in DOMAIN arrivals[c] :
          p < q => /\ arrivals[c][p] # arrivals[c][q]
                   /\ passed[arrivals[c][p]] <= passed[arrivals[c][q]]
Placed == \A k \in Call : Remembered(k) =>
              \E p \in DOMAIN arrivals[caller[k]] : arrivals[caller[k]][p] = k

TooOld(c, j) == \/ \E q \in DOMAIN arrivals[c] : stamp[j] + Window < stamp[arrivals[c][q]]
                \/ stamp[j] + Window + EvictionPeriod < now
DroppedForAge(c) == \A p \in DOMAIN arrivals[c] : p <= dropped[c] => TooOld(c, arrivals[c][p])

LimiterInv ==
    /\ LimiterTypeOK /\ Clocked /\ Addressed /\ Placed
    /\ \A c \in Client : Lined(c) /\ DroppedForAge(c)
-----------------------------------------------------------------------------
(* One call *)

\* Purging pops stale stamps from the front, and the next one left is fresh.
LEMMA PurgedFront ==
    ASSUME LimiterInv, NEW c \in Client, NEW t \in Nat, NEW age \in Nat
    PROVE  /\ Purged(c, t, age) \in dropped[c]..Len(arrivals[c])
           /\ \A p \in dropped[c] + 1..Purged(c, t, age) : stamp[arrivals[c][p]] + age < t
           /\ Purged(c, t, age) < Len(arrivals[c]) =>
                 stamp[arrivals[c][Purged(c, t, age) + 1]] + age >= t
<1>. DEFINE d == dropped[c]
            l == Len(arrivals[c])
            Fresh(p) == stamp[arrivals[c][p]] + age >= t
            T == {n \in d..l : n < l => Fresh(n + 1)}
            Ends(n) == /\ \A p \in d + 1..n : stamp[arrivals[c][p]] + age < t
                       /\ n < l => Fresh(n + 1)
<1>1. d \in Nat /\ l \in Nat /\ d <= l
  BY DEF LimiterInv, LimiterTypeOK, Lined
<1>2. \A p \in d + 1..l : arrivals[c][p] \in Call /\ stamp[arrivals[c][p]] \in Nat
  BY <1>1 DEF LimiterInv, LimiterTypeOK
<1>3. l \in T /\ T \subseteq Nat
  BY <1>1
<1>4. PICK n \in T : \A m \in T : n <= m
  BY <1>3, LeastNatural
<1>5. n \in d..l /\ (n < l => Fresh(n + 1))
  BY <1>4
<1>6. ASSUME NEW p \in d + 1..n PROVE stamp[arrivals[c][p]] + age < t
  <2>1. p - 1 \in d..l /\ p - 1 < n /\ p - 1 < l /\ (p - 1) + 1 = p
    BY <1>1, <1>5
  <2>2. p - 1 \notin T
    BY <1>4, <2>1, <1>1
  <2>3. ~Fresh(p)
    BY <2>1, <2>2
  <2>. QED
    BY <1>1, <1>2, <1>5, <2>3
<1>7. \E m \in d..l : Ends(m)
  BY <1>5, <1>6
<1>8. Purged(c, t, age) = CHOOSE m \in d..l : Ends(m)
  BY DEF Purged
<1>. HIDE DEF Ends
<1>9. Purged(c, t, age) \in d..l /\ Ends(Purged(c, t, age))
  BY <1>7, <1>8
<1>. QED
  BY <1>9 DEF Ends

LEMMA CallsFinite ==
    ASSUME NEW S \in SUBSET Call
    PROVE  IsFiniteSet(S) /\ Cardinality(S) \in Nat
  BY FS_Subset, FS_CardinalityType

LEMMA Appended ==
    ASSUME NEW S, NEW s \in Seq(S), NEW e \in S
    PROVE  /\ Append(s, e) \in Seq(S) /\ Len(s) \in Nat
           /\ Len(Append(s, e)) = Len(s) + 1
           /\ DOMAIN s = 1..Len(s) /\ DOMAIN Append(s, e) = DOMAIN s \cup {Len(s) + 1}
           /\ Append(s, e)[Len(s) + 1] = e
           /\ \A p \in DOMAIN s : Append(s, e)[p] = s[p]
  OBVIOUS

\* What stands in the line of a client.
LEMMA InLine ==
    ASSUME LimiterInv, NEW c \in Client
    PROVE  /\ Len(arrivals[c]) \in Nat /\ DOMAIN arrivals[c] = 1..Len(arrivals[c])
           /\ dropped[c] \in Nat /\ dropped[c] <= Len(arrivals[c])
           /\ \A p \in DOMAIN arrivals[c] :
                 /\ arrivals[c][p] \in Call /\ Remembered(arrivals[c][p])
                 /\ caller[arrivals[c][p]] = c
                 /\ stamp[arrivals[c][p]] \in Nat /\ passed[arrivals[c][p]] \in Nat
                 /\ stamp[arrivals[c][p]] <= now
<1>1. arrivals[c] \in Seq(Call)
  BY DEF LimiterInv, LimiterTypeOK
<1>2. Len(arrivals[c]) \in Nat /\ DOMAIN arrivals[c] = 1..Len(arrivals[c])
  BY <1>1
<1>3. \A p \in DOMAIN arrivals[c] : arrivals[c][p] \in Call
  BY <1>1
<1>4. \A k \in Call : stamp[k] \in Nat /\ passed[k] \in Nat /\ stamp[k] <= now
  BY DEF LimiterInv, LimiterTypeOK, Clocked
<1>5. dropped[c] \in Nat
  BY DEF LimiterInv, LimiterTypeOK
<1>6. Lined(c)
  BY DEF LimiterInv
<1>. QED
  BY <1>2, <1>3, <1>4, <1>5, <1>6 DEF Lined

\* What taking the lock does to the line of a client.
LEMMA Recorded ==
    ASSUME LimiterInv, NEW k \in Call, Record(k)
    PROVE  /\ caller[k] \in Client /\ ~Remembered(k) /\ stamp[k] \in Nat
           /\ dropped'[caller[k]] = Purged(caller[k], stamp[k], Window)
           /\ Len(arrivals'[caller[k]]) = Len(arrivals[caller[k]]) + 1
           /\ DOMAIN arrivals'[caller[k]] = DOMAIN arrivals[caller[k]] \cup {Len(arrivals[caller[k]]) + 1}
           /\ arrivals'[caller[k]][Len(arrivals[caller[k]]) + 1] = k
           /\ \A p \in DOMAIN arrivals[caller[k]] :
                 arrivals'[caller[k]][p] = arrivals[caller[k]][p] /\ arrivals[caller[k]][p] # k
           /\ \A c \in Client \ {caller[k]} : arrivals'[c] = arrivals[c] /\ dropped'[c] = dropped[c]
           /\ passed'[k] = now
           /\ \A j \in Call \ {k} : passed'[j] = passed[j]
<1>. DEFINE c == caller[k]
<1>1. c \in Client /\ ~Remembered(k)
  BY DEF LimiterInv, Addressed, Remembered, Record
<1>2. /\ arrivals \in [Client -> Seq(Call)] /\ dropped \in [Client -> Nat]
      /\ passed \in [Call -> Nat] /\ stamp \in [Call -> Nat]
  BY DEF LimiterInv, LimiterTypeOK
<1>3. /\ arrivals'[c] = Append(arrivals[c], k)
      /\ dropped'[c] = Purged(c, stamp[k], Window)
      /\ \A e \in Client \ {c} : arrivals'[e] = arrivals[e] /\ dropped'[e] = dropped[e]
      /\ passed'[k] = now /\ \A j \in Call \ {k} : passed'[j] = passed[j]
  BY <1>1, <1>2 DEF Record
<1>4. \A p \in DOMAIN arrivals[c] : arrivals[c][p] # k
  BY <1>1, InLine
<1>. HIDE DEF c
<1>5. arrivals[c] \in Seq(Call)
  BY <1>1, <1>2
<1>6. /\ Len(arrivals'[c]) = Len(arrivals[c]) + 1
      /\ DOMAIN arrivals'[c] = DOMAIN arrivals[c] \cup {Len(arrivals[c]) + 1}
      /\ arrivals'[c][Len(arrivals[c]) + 1] = k
      /\ \A p \in DOMAIN arrivals[c] : arrivals'[c][p] = arrivals[c][p]
  BY <1>3, <1>5, Appended
<1>. QED
  BY <1>1, <1>2, <1>3, <1>4, <1>6 DEF c

LEMMA RecordedAt ==
    ASSUME LimiterInv, NEW k \in Call, Record(k), NEW c \in Client, caller[k] = c
    PROVE  /\ dropped'[c] = Purged(c, stamp[k], Window)
           /\ Len(arrivals'[c]) = Len(arrivals[c]) + 1
           /\ DOMAIN arrivals'[c] = DOMAIN arrivals[c] \cup {Len(arrivals[c]) + 1}
           /\ arrivals'[c][Len(arrivals[c]) + 1] = k
           /\ \A p \in DOMAIN arrivals[c] : arrivals'[c][p] = arrivals[c][p]
  BY Zenon, Recorded

LEMMA VerdictGiven ==
    ASSUME LimiterInv, NEW k \in Call, Limit(k)
    PROVE  /\ verdict'[k] \in {"admitted", "refused"}
           /\ verdict'[k] = "admitted" <=>
                 Len(arrivals[caller[k]]) + 1 - Purged(caller[k], stamp[k], Window) <= MaxRequests
           /\ \A j \in Call \ {k} : verdict'[j] = verdict[j]
<1>. DEFINE l == Len(arrivals[caller[k]])
            n == Purged(caller[k], stamp[k], Window)
<1>1. /\ Len(arrivals'[caller[k]]) = l + 1 /\ dropped'[caller[k]] = n
      /\ caller[k] \in Client /\ stamp[k] \in Nat
  BY Recorded DEF Limit
<1>2. l \in Nat /\ n \in dropped[caller[k]]..l /\ dropped[caller[k]] \in Nat
  BY <1>1, InLine, PurgedFront
<1>3. verdict \in [Call -> Verdicts]
  BY DEF LimiterInv, LimiterTypeOK
<1>4. verdict' = [verdict EXCEPT ![k] =
         IF Len(arrivals'[caller[k]]) - dropped'[caller[k]] > MaxRequests THEN "refused"
         ELSE "admitted"]
  BY DEF Limit
<1>5. verdict'[k] = (IF Len(arrivals'[caller[k]]) - dropped'[caller[k]] > MaxRequests
                     THEN "refused" ELSE "admitted")
  BY Zenon, <1>3, <1>4
<1>6. \A j \in Call \ {k} : verdict'[j] = verdict[j]
  BY <1>3, <1>4
<1>7. verdict'[k] = (IF l + 1 - n > MaxRequests THEN "refused" ELSE "admitted")
  <2>. HIDE DEF l, n
  <2>1. Len(arrivals'[caller[k]]) - dropped'[caller[k]] = l + 1 - n
    BY <1>1, <1>2
  <2>. QED
    BY Zenon, <1>5, <2>1
<1>8. l + 1 - n \in Int /\ MaxRequests \in Int
  BY <1>2
<1>9. l + 1 - n > MaxRequests <=> ~(l + 1 - n <= MaxRequests)
  BY <1>8
<1>. QED
  BY <1>6, <1>7, <1>9 DEF l, n

LEMMA LimitKeepsLines ==
    ASSUME LimiterInv, NEW k \in Call, Limit(k), NEW c \in Client
    PROVE  Lined(c)' /\ DroppedForAge(c)'
<1>. DEFINE l == Len(arrivals[c])
            n == Purged(c, stamp[k], Window)
<1>1. Record(k) /\ caller[k] \in Client /\ ~Remembered(k)
  BY Recorded DEF Limit
<1>2. /\ verdict'[k] \in {"admitted", "refused"}
      /\ \A j \in Call \ {k} : verdict'[j] = verdict[j]
  BY VerdictGiven
<1>3. UNCHANGED <<now, caller, stamp>>
  BY <1>1 DEF Record
<1>4. \A p \in DOMAIN arrivals[c] : arrivals[c][p] \in Call \ {k}
  BY <1>1, InLine
<1>5. passed'[k] = now /\ \A j \in Call \ {k} : passed'[j] = passed[j]
  BY <1>1, Recorded
<1>6. Lined(c) /\ DroppedForAge(c)
  BY DEF LimiterInv
<1>7. CASE c # caller[k]
  <2>1. arrivals'[c] = arrivals[c] /\ dropped'[c] = dropped[c]
    BY <1>1, <1>7, Recorded
  <2>2. Lined(c)'
    BY <1>2, <1>3, <1>4, <1>5, <1>6, <2>1 DEF Lined, Remembered
  <2>3. DroppedForAge(c)'
    BY <1>3, <1>6, <2>1 DEF DroppedForAge, TooOld
  <2>. QED
    BY <2>2, <2>3
<1>8. CASE c = caller[k]
  <2>1. /\ dropped'[c] = n /\ Len(arrivals'[c]) = l + 1
        /\ DOMAIN arrivals'[c] = DOMAIN arrivals[c] \cup {l + 1}
        /\ arrivals'[c][l + 1] = k
        /\ \A p \in DOMAIN arrivals[c] : arrivals'[c][p] = arrivals[c][p]
    BY <1>1, <1>8, RecordedAt
  <2>2. /\ n \in dropped[c]..l /\ stamp[k] \in Nat
        /\ \A p \in dropped[c] + 1..n : stamp[arrivals[c][p]] + Window < stamp[k]
    BY <1>1, <1>8, Recorded, PurgedFront
  <2>3. l \in Nat /\ DOMAIN arrivals[c] = 1..l /\ dropped[c] \in Nat
    BY InLine
  <2>4. \A p \in DOMAIN arrivals[c] : passed[arrivals[c][p]] <= now
    BY <1>4 DEF LimiterInv, Clocked
  <2>. HIDE DEF l, n
  <2>5. n <= l + 1
    BY <2>2, <2>3
  <2>6. ASSUME NEW p \in DOMAIN arrivals'[c]
        PROVE  Remembered(arrivals[c][p])' /\ caller'[arrivals'[c][p]] = c
    <3>1. CASE p \in DOMAIN arrivals[c]
      <4>1. Remembered(arrivals[c][p]) /\ caller[arrivals[c][p]] = c
        BY <1>6, <3>1 DEF Lined
      <4>. QED
        BY <1>2, <1>3, <1>4, <2>1, <3>1, <4>1 DEF Remembered
    <3>2. CASE p = l + 1
      BY <1>2, <1>3, <1>8, <2>1, <3>2 DEF Remembered
    <3>. QED
      BY <2>1, <3>1, <3>2
  <2>7. ASSUME NEW p \in DOMAIN arrivals'[c], NEW q \in DOMAIN arrivals'[c], p < q
        PROVE  /\ arrivals'[c][p] # arrivals'[c][q]
               /\ passed'[arrivals'[c][p]] <= passed'[arrivals'[c][q]]
    <3>1. p \in DOMAIN arrivals[c]
      BY <2>1, <2>3, <2>7
    <3>2. CASE q \in DOMAIN arrivals[c]
      <4>1. /\ arrivals[c][p] # arrivals[c][q]
            /\ passed[arrivals[c][p]] <= passed[arrivals[c][q]]
        BY <1>6, <2>7, <3>1, <3>2 DEF Lined
      <4>. QED
        BY <1>4, <1>5, <2>1, <3>1, <3>2, <4>1
    <3>3. CASE q = l + 1
      BY <1>4, <1>5, <2>1, <2>4, <3>1, <3>3
    <3>. QED
      BY <2>1, <3>2, <3>3
  <2>8. Lined(c)'
    BY <2>1, <2>5, <2>6, <2>7 DEF Lined
  <2>9. ASSUME NEW p \in DOMAIN arrivals'[c], p <= n PROVE TooOld(c, arrivals[c][p])'
    <3>1. p \in DOMAIN arrivals[c] /\ p \in 1..l /\ arrivals'[c][p] = arrivals[c][p]
      BY <2>1, <2>2, <2>3, <2>9
    <3>2. CASE p <= dropped[c]
      <4>1. TooOld(c, arrivals[c][p])
        BY <1>6, <3>1, <3>2 DEF DroppedForAge
      <4>. QED
        BY <1>3, <2>1, <3>1, <4>1 DEF TooOld
    <3>3. CASE p > dropped[c]
      <4>1. stamp[arrivals[c][p]] + Window < stamp[k]
        BY <2>2, <2>3, <2>9, <3>1, <3>3
      <4>2. l + 1 \in DOMAIN arrivals'[c] /\ stamp'[arrivals'[c][l + 1]] = stamp[k]
        BY <1>3, <2>1
      <4>3. stamp'[arrivals'[c][p]] + Window < stamp'[arrivals'[c][l + 1]]
        BY <1>3, <3>1, <4>1, <4>2
      <4>. QED
        BY <4>2, <4>3 DEF TooOld
    <3>. QED
      BY <2>3, <3>1, <3>2, <3>3
  <2>10. DroppedForAge(c)'
    BY <2>1, <2>9 DEF DroppedForAge
  <2>. QED
    BY <2>8, <2>10
<1>. QED
  BY <1>7, <1>8

LEMMA LimitKeeps ==
    ASSUME LimiterInv, NEW k \in Call, Limit(k)
    PROVE  LimiterInv'
<1>1. Record(k) /\ caller[k] \in Client /\ stamp[k] \in Nat
  BY Recorded DEF Limit
<1>2. /\ verdict'[k] \in {"admitted", "refused"}
      /\ \A j \in Call \ {k} : verdict'[j] = verdict[j]
  BY VerdictGiven
<1>3. UNCHANGED <<now, caller, stamp>>
  BY <1>1 DEF Record
<1>4. LimiterTypeOK'
  <2>. USE DEF LimiterInv, LimiterTypeOK
  <2>1. arrivals' \in [Client -> Seq(Call)]
    <3>1. Append(arrivals[caller[k]], k) \in Seq(Call)
      BY <1>1, Appended
    <3>. QED
      BY <1>1, <3>1 DEF Record
  <2>2. passed' \in [Call -> Nat]
    BY <1>1 DEF Record
  <2>3. dropped' \in [Client -> Nat]
    <3>1. /\ Purged(caller[k], stamp[k], Window) \in dropped[caller[k]]..Len(arrivals[caller[k]])
          /\ dropped[caller[k]] \in Nat
      BY <1>1, PurgedFront
    <3>. QED
      BY <1>1, <3>1 DEF Record
  <2>4. verdict' \in [Call -> Verdicts]
    BY DEF Limit, Verdicts
  <2>. QED
    BY <1>3, <2>1, <2>2, <2>3, <2>4
<1>5. Clocked'
  <2>1. passed'[k] = now /\ \A j \in Call \ {k} : passed'[j] = passed[j]
    BY <1>1, Recorded
  <2>2. now \in Nat
    BY DEF LimiterInv, LimiterTypeOK
  <2>. QED
    BY <1>2, <1>3, <2>1, <2>2 DEF LimiterInv, Clocked, Remembered
<1>6. Addressed'
  BY <1>1, <1>2, <1>3 DEF LimiterInv, Addressed
<1>7. Placed'
  <2>1. ASSUME NEW j \in Call, Remembered(j)'
        PROVE  \E p \in DOMAIN arrivals'[caller[j]] : arrivals'[caller[j]][p] = j
    <3>1. CASE j = k
      BY <1>1, <3>1, Recorded
    <3>2. CASE j # k
      <4>1. Remembered(j) /\ caller[j] \in Client
        BY <1>2, <2>1, <3>2 DEF Remembered, LimiterInv, Addressed
      <4>2. PICK p \in DOMAIN arrivals[caller[j]] : arrivals[caller[j]][p] = j
        BY <4>1 DEF LimiterInv, Placed
      <4>3. p \in DOMAIN arrivals'[caller[j]] /\ arrivals'[caller[j]][p] = j
        BY <1>1, <4>1, <4>2, Recorded
      <4>. QED
        BY <4>3
    <3>. QED
      BY <3>1, <3>2
  <2>. QED
    BY <1>3, <2>1 DEF Placed
<1>. QED
  BY <1>4, <1>5, <1>6, <1>7, LimitKeepsLines DEF LimiterInv

LEMMA ReadClockKeeps ==
    ASSUME LimiterInv, NEW k \in Call, NEW e \in Client, ReadClock(k, e)
    PROVE  LimiterInv'
<1>1. /\ verdict[k] = "none" /\ ~Remembered(k) /\ now \in Nat
      /\ UNCHANGED <<now, arrivals, dropped, passed>>
  BY DEF ReadClock, Remembered, LimiterInv, LimiterTypeOK
<1>2. verdict'[k] = "waiting" /\ caller'[k] = e /\ stamp'[k] = now
  BY DEF ReadClock, LimiterInv, LimiterTypeOK
<1>3. \A j \in Call \ {k} : /\ verdict'[j] = verdict[j] /\ caller'[j] = caller[j]
                            /\ stamp'[j] = stamp[j]
  BY DEF ReadClock, LimiterInv, LimiterTypeOK
<1>4. LimiterTypeOK'
  BY DEF ReadClock, Verdicts, LimiterInv, LimiterTypeOK
<1>5. Clocked'
  BY <1>1, <1>2, <1>3 DEF LimiterInv, Clocked, Remembered
<1>6. Addressed'
  BY <1>2, <1>3 DEF LimiterInv, Addressed
<1>7. Placed'
  BY <1>1, <1>2, <1>3 DEF LimiterInv, Placed, Remembered
<1>8. ASSUME NEW c \in Client PROVE Lined(c)' /\ DroppedForAge(c)'
  <2>1. \A p \in DOMAIN arrivals[c] : arrivals[c][p] \in Call \ {k}
    BY <1>1, InLine
  <2>2. Lined(c) /\ DroppedForAge(c)
    BY DEF LimiterInv
  <2>3. Lined(c)'
    BY <1>1, <1>3, <2>1, <2>2 DEF Lined, Remembered
  <2>4. DroppedForAge(c)'
    BY <1>1, <1>3, <2>1, <2>2 DEF DroppedForAge, TooOld
  <2>. QED
    BY <2>3, <2>4
<1>. QED
  BY <1>4, <1>5, <1>6, <1>7, <1>8 DEF LimiterInv

LEMMA EvictKeeps == ASSUME LimiterInv, Evict PROVE LimiterInv'
<1>1. UNCHANGED <<now, arrivals, caller, stamp, passed, verdict>>
  BY DEF Evict
<1>2. PICK t \in 0..now : dropped' = [c \in Client |-> Purged(c, t, Window + EvictionPeriod)]
  BY DEF Evict
<1>3. now \in Nat /\ t \in Nat /\ t <= now /\ Window + EvictionPeriod \in Nat
  BY DEF LimiterInv, LimiterTypeOK
<1>4. ASSUME NEW c \in Client
      PROVE  /\ dropped'[c] \in dropped[c]..Len(arrivals[c])
             /\ \A p \in dropped[c] + 1..dropped'[c] :
                   stamp[arrivals[c][p]] + (Window + EvictionPeriod) < t
  <2>1. dropped'[c] = Purged(c, t, Window + EvictionPeriod)
    BY <1>2
  <2>. QED
    BY <1>3, <2>1, PurgedFront
<1>5. ASSUME NEW c \in Client PROVE dropped'[c] \in Nat
  BY <1>4, InLine
<1>6. dropped' \in [Client -> Nat]
  BY <1>2, <1>5
<1>7. ASSUME NEW c \in Client PROVE Lined(c)' /\ DroppedForAge(c)'
  <2>1. Lined(c) /\ DroppedForAge(c)
    BY DEF LimiterInv
  <2>2. /\ Len(arrivals[c]) \in Nat /\ DOMAIN arrivals[c] = 1..Len(arrivals[c])
        /\ dropped[c] \in Nat
    BY InLine
  <2>3. dropped'[c] \in Nat /\ dropped'[c] <= Len(arrivals[c])
    BY <1>4, <1>5, <2>2
  <2>4. Lined(c)'
    BY <1>1, <2>1, <2>3 DEF Lined, Remembered
  <2>5. ASSUME NEW p \in DOMAIN arrivals[c], p <= dropped'[c] PROVE TooOld(c, arrivals[c][p])
    <3>1. stamp[arrivals[c][p]] \in Nat /\ p \in 1..Len(arrivals[c])
      BY <2>2, InLine
    <3>2. CASE p <= dropped[c]
      BY <2>1, <3>2 DEF DroppedForAge
    <3>3. CASE p > dropped[c]
      <4>1. p \in dropped[c] + 1..dropped'[c]
        BY <2>2, <2>3, <2>5, <3>1, <3>3
      <4>2. stamp[arrivals[c][p]] + (Window + EvictionPeriod) < t
        BY <1>4, <4>1
      <4>3. stamp[arrivals[c][p]] + Window + EvictionPeriod < now
        BY <1>3, <3>1, <4>2
      <4>. QED
        BY <4>3 DEF TooOld
    <3>. QED
      BY <2>2, <3>1, <3>2, <3>3
  <2>6. DroppedForAge(c)'
    BY <1>1, <2>5 DEF DroppedForAge, TooOld
  <2>. QED
    BY <2>4, <2>6
<1>8. LimiterTypeOK'
  BY <1>1, <1>6 DEF LimiterInv, LimiterTypeOK
<1>9. Clocked' /\ Addressed' /\ Placed'
  BY <1>1 DEF LimiterInv, Clocked, Addressed, Placed, Remembered
<1>. QED
  BY <1>7, <1>8, <1>9 DEF LimiterInv

LEMMA TickKeeps == ASSUME LimiterInv, Tick PROVE LimiterInv'
<1>1. /\ now' = now + 1 /\ now \in Nat
      /\ UNCHANGED <<arrivals, dropped, caller, stamp, passed, verdict>>
  BY DEF Tick, LimiterInv, LimiterTypeOK
<1>2. LimiterTypeOK'
  BY <1>1 DEF LimiterInv, LimiterTypeOK
<1>3. Clocked' /\ Addressed' /\ Placed'
  BY <1>1 DEF LimiterInv, LimiterTypeOK, Clocked, Addressed, Placed, Remembered
<1>4. ASSUME NEW c \in Client PROVE Lined(c)' /\ DroppedForAge(c)'
  <2>1. Lined(c) /\ DroppedForAge(c)
    BY DEF LimiterInv
  <2>2. Lined(c)'
    BY <1>1, <2>1 DEF Lined, Remembered
  <2>3. ASSUME NEW p \in DOMAIN arrivals[c], TooOld(c, arrivals[c][p])
        PROVE  TooOld(c, arrivals[c][p])'
    <3>1. stamp[arrivals[c][p]] \in Nat
      BY InLine
    <3>. QED
      BY <1>1, <2>3, <3>1 DEF TooOld
  <2>4. DroppedForAge(c)'
    BY <1>1, <2>1, <2>3 DEF DroppedForAge
  <2>. QED
    BY <2>2, <2>4
<1>. QED
  BY <1>2, <1>3, <1>4 DEF LimiterInv

LEMMA ForgetKeeps == ASSUME LimiterInv, Forget PROVE LimiterInv'
<1>1. now' = now /\ now \in Nat
  BY DEF Forget, LimiterInv, LimiterTypeOK
<1>2. \A k \in Call : verdict'[k] \in {"none", "forgotten"} /\ stamp'[k] = 0 /\ passed'[k] = 0
  BY DEF Forget
<1>3. \A c \in Client : arrivals'[c] = << >> /\ dropped'[c] = 0
  BY DEF Forget
<1>4. LimiterTypeOK'
  BY <1>1 DEF Forget, Verdicts, LimiterInv, LimiterTypeOK
<1>5. Clocked'
  BY <1>1, <1>2 DEF Clocked, Remembered
<1>6. Addressed' /\ Placed'
  BY <1>2 DEF Addressed, Placed, Remembered
<1>7. \A c \in Client : Lined(c)' /\ DroppedForAge(c)'
  BY <1>3 DEF Lined, DroppedForAge
<1>. QED
  BY <1>4, <1>5, <1>6, <1>7 DEF LimiterInv

LEMMA LimiterInitially == LimiterInit => LimiterInv
  BY DEF LimiterInit, LimiterInv, LimiterTypeOK, Clocked, Addressed, Placed, Lined, DroppedForAge,
         Remembered, Verdicts

LEMMA LimiterStep == LimiterInv /\ [LimiterNext]_limiterVars => LimiterInv'
<1>1. LimiterInv /\ UNCHANGED limiterVars => LimiterInv'
  BY DEF limiterVars, LimiterInv, LimiterTypeOK, Clocked, Addressed, Placed, Lined, DroppedForAge,
         TooOld, Remembered
<1>. QED
  BY <1>1, LimitKeeps, ReadClockKeeps, EvictKeeps, TickKeeps, ForgetKeeps DEF LimiterNext
-----------------------------------------------------------------------------
(* What a call finds counted                                                 *)

\* The calls that a call with the lock finds at the places left in the deque.
Counted(k) == {arrivals[caller[k]][p] :
                  p \in Purged(caller[k], stamp[k], Window) + 1..Len(arrivals[caller[k]])}

\* They are as many as these places, all of them had the lock earlier, and the call
\* is decided by their number.
LEMMA CountedAre ==
    ASSUME LimiterInv, NEW k \in Call, Limit(k)
    PROVE  /\ Counted(k) \in SUBSET (Call \ {k})
           /\ IsFiniteSet(Counted(k)) /\ Cardinality(Counted(k)) \in Nat
           /\ verdict'[k] = "admitted" <=> Cardinality(Counted(k)) + 1 <= MaxRequests
<1>. DEFINE s == arrivals[caller[k]]
            n == Purged(caller[k], stamp[k], Window)
            P == n + 1..Len(s)
            f == [p \in P |-> s[p]]
            S == Counted(k)
<1>1. caller[k] \in Client /\ stamp[k] \in Nat /\ ~Remembered(k)
  BY Recorded DEF Limit
<1>2. /\ n \in dropped[caller[k]]..Len(s) /\ dropped[caller[k]] \in Nat
      /\ Len(s) \in Nat /\ DOMAIN s = 1..Len(s)
  BY <1>1, InLine, PurgedFront
<1>3. \A p \in DOMAIN s : s[p] \in Call \ {k}
  BY <1>1, InLine
<1>4. \A p, q \in DOMAIN s : p < q => s[p] # s[q]
  BY <1>1 DEF LimiterInv, Lined
<1>5. verdict'[k] = "admitted" <=> Len(s) + 1 - n <= MaxRequests
  BY VerdictGiven
<1>6. S = {s[p] : p \in P}
  BY DEF Counted
<1>. HIDE DEF s, n, S
<1>7. \A p \in P : p \in DOMAIN s /\ p \in Nat
  BY <1>2
<1>8. IsFiniteSet(P) /\ Cardinality(P) = Len(s) - n
  <2>1. n \in Nat /\ n + 1 \in Int /\ Len(s) \in Int /\ n <= Len(s)
    BY <1>2
  <2>2. /\ IsFiniteSet(P)
        /\ Cardinality(P) = IF n + 1 > Len(s) THEN 0 ELSE Len(s) - (n + 1) + 1
    BY Zenon, <2>1, FS_Interval
  <2>3. (IF n + 1 > Len(s) THEN 0 ELSE Len(s) - (n + 1) + 1) = Len(s) - n
    BY <2>1
  <2>. HIDE DEF P
  <2>. QED
    BY <2>2, <2>3
<1>. HIDE DEF P
<1>9. f \in Bijection(P, S)
  <2>1. f \in [P -> S]
    BY <1>6
  <2>2. ASSUME NEW p \in P, NEW q \in P, p # q PROVE f[p] # f[q]
    BY <1>4, <1>7, <2>2
  <2>3. \A x \in S : \E p \in P : f[p] = x
    BY <1>6
  <2>. QED
    BY <2>1, <2>2, <2>3 DEF Bijection, Injection, Surjection, IsInjective
<1>. HIDE DEF f
<1>10. IsFiniteSet(S) /\ Cardinality(S) = Len(s) - n
  <2>1. ExistsBijection(P, S)
    BY <1>9 DEF ExistsBijection
  <2>. QED
    BY Zenon, <1>8, <2>1, FS_Bijection
<1>11. S \in SUBSET (Call \ {k})
  BY <1>3, <1>6, <1>7
<1>12. Len(s) + 1 - n = (Len(s) - n) + 1
  BY <1>2
<1>. QED
  BY <1>5, <1>10, <1>11, <1>12, FS_CardinalityType DEF S

\* A call of the client that is not counted any more was too old for a call before, for
\* this one or for the eviction task.
LEMMA NotCounted ==
    ASSUME LimiterInv, NEW k \in Call, Limit(k),
           NEW j \in Call, Remembered(j), caller[j] = caller[k], j \notin Counted(k)
    PROVE  TooOld(caller[k], j) \/ stamp[j] + Window < stamp[k]
<1>. DEFINE c == caller[k]
            l == Len(arrivals[c])
            n == Purged(c, stamp[k], Window)
<1>1. c \in Client /\ l \in Nat /\ DOMAIN arrivals[c] = 1..l /\ dropped[c] \in Nat
  BY Recorded DEF Limit, LimiterInv, LimiterTypeOK
<1>2. /\ n \in dropped[c]..l
      /\ \A p \in dropped[c] + 1..n : stamp[arrivals[c][p]] + Window < stamp[k]
  BY <1>1, PurgedFront DEF LimiterInv, LimiterTypeOK
<1>3. PICK p \in 1..l : arrivals[c][p] = j
  BY <1>1 DEF LimiterInv, Placed
<1>4. p <= n
  BY <1>1, <1>2, <1>3 DEF Counted
<1>5. CASE p <= dropped[c]
  BY <1>1, <1>3, <1>5 DEF LimiterInv, DroppedForAge
<1>6. CASE p > dropped[c]
  BY <1>1, <1>2, <1>3, <1>4, <1>6
<1>. QED
  BY <1>1, <1>3, <1>5, <1>6
-----------------------------------------------------------------------------
(* At most MaxRequests in a window                                           *)

InTime(c, t) == {j \in AdmittedIn(c, t) : ~Overtaken(j)}

\* A call that is let through without being overtaken finds all those of a window it
\* belongs to which were let through in time.
LEMMA WindowCounted ==
    ASSUME LimiterInv, NEW k \in Call, Limit(k), NEW t \in Nat,
           k \in InTime(caller[k], t)',
           NEW j \in InTime(caller[k], t)
    PROVE  j \in Counted(k)
<1>. DEFINE c == caller[k]
            l == Len(arrivals[c])
<1>. USE DEF LimiterInv, LimiterTypeOK
<1>1. /\ c \in Client /\ l \in Nat /\ passed'[k] = now /\ UNCHANGED <<now, caller, stamp>>
      /\ DOMAIN arrivals'[c] = DOMAIN arrivals[c] \cup {l + 1} /\ arrivals'[c][l + 1] = k
      /\ \A p \in DOMAIN arrivals[c] : arrivals'[c][p] = arrivals[c][p] /\ p < l + 1
  <2>1. /\ c \in Client /\ passed'[k] = now /\ UNCHANGED <<now, caller, stamp>>
        /\ DOMAIN arrivals'[c] = DOMAIN arrivals[c] \cup {l + 1} /\ arrivals'[c][l + 1] = k
        /\ \A p \in DOMAIN arrivals[c] : arrivals'[c][p] = arrivals[c][p]
    <3>1. UNCHANGED <<now, caller, stamp>> /\ Record(k)
      BY DEF Limit, Record
    <3>. QED
      BY Zenon, <3>1, Recorded
  <2>2. l \in Nat /\ DOMAIN arrivals[c] = 1..l
    BY <2>1, InLine
  <2>. HIDE DEF c, l
  <2>. QED
    BY <2>1, <2>2
<1>2. /\ j \in Call /\ Remembered(j) /\ caller[j] = c /\ stamp[j] + Window >= t
      /\ stamp[j] \in Nat /\ stamp[k] \in Nat
  BY DEF InTime, AdmittedIn, Remembered
<1>3. stamp[k] <= t /\ ~Overtaken(k)'
  BY <1>1 DEF InTime, AdmittedIn
<1>4. ~(stamp[j] + Window < stamp[k])
  BY <1>2, <1>3
<1>5. ASSUME NEW q \in DOMAIN arrivals[c], stamp[j] + Window < stamp[arrivals[c][q]]
      PROVE  FALSE
  <2>1. stamp[arrivals[c][q]] > stamp[k]
    BY <1>1, <1>2, <1>3, <1>5
  <2>2. /\ q \in DOMAIN arrivals'[c] /\ l + 1 \in DOMAIN arrivals'[c] /\ q < l + 1
        /\ stamp'[arrivals'[c][q]] > stamp'[k]
    BY <1>1, <2>1
  <2>3. Overtaken(k)'
    BY <1>1, <2>2 DEF Overtaken
  <2>. QED
    BY <1>3, <2>3
<1>6. ~(stamp[j] + Window + EvictionPeriod < now)
  <2>1. ~(passed'[k] > stamp'[k] + EvictionPeriod)
    BY <1>3 DEF Overtaken
  <2>. QED
    BY <1>1, <1>2, <1>3, <2>1
<1>7. ~TooOld(c, j)
  BY <1>5, <1>6 DEF TooOld
<1>. QED
  BY <1>2, <1>4, <1>7, NotCounted

\* Who had the lock before stays overtaken or in time, whoever has it next.
LEMMA OvertakenStays ==
    ASSUME LimiterInv, NEW k \in Call, Limit(k), NEW j \in Call, j # k, Remembered(j)
    PROVE  Overtaken(j)' <=> Overtaken(j)
<1>. DEFINE c == caller[j]
<1>1. c \in Client /\ UNCHANGED <<caller, stamp>> /\ passed'[j] = passed[j]
  BY Recorded DEF LimiterInv, LimiterTypeOK, Addressed, Remembered, Limit, Record
<1>2. CASE c # caller[k]
  <2>1. arrivals'[c] = arrivals[c]
    BY <1>1, <1>2, Recorded DEF Limit
  <2>. QED
    BY <1>1, <2>1 DEF Overtaken
<1>3. CASE c = caller[k]
  <2>. DEFINE l == Len(arrivals[c])
  <2>1. /\ l \in Nat /\ DOMAIN arrivals[c] = 1..l
        /\ DOMAIN arrivals'[c] = DOMAIN arrivals[c] \cup {l + 1} /\ arrivals'[c][l + 1] = k
        /\ \A p \in DOMAIN arrivals[c] : arrivals'[c][p] = arrivals[c][p]
    BY <1>1, <1>3, Recorded DEF Limit, LimiterInv, LimiterTypeOK
  <2>. HIDE DEF l
  <2>2. ASSUME NEW p \in DOMAIN arrivals'[c], NEW q \in DOMAIN arrivals'[c],
               p < q, arrivals'[c][q] = j
        PROVE  p \in DOMAIN arrivals[c] /\ q \in DOMAIN arrivals[c]
    BY <2>1, <2>2
  <2>3. (\E p, q \in DOMAIN arrivals'[c] : p < q /\ arrivals'[c][q] = j
                                           /\ stamp[arrivals'[c][p]] > stamp[j])
        <=> \E p, q \in DOMAIN arrivals[c] : p < q /\ arrivals[c][q] = j
                                             /\ stamp[arrivals[c][p]] > stamp[j]
    BY <2>1, <2>2
  <2>. QED
    BY <1>1, <2>3 DEF Overtaken
<1>. QED
  BY <1>2, <1>3

\* Of a window that is still open when the clock has moved on, nothing changes.
WithinLimit(c, t) == Cardinality(InTime(c, t)) <= MaxRequests

LEMMA LimitKeepsWindow ==
    ASSUME LimiterInv, NEW k \in Call, Limit(k), NEW c \in Client, NEW t \in Nat,
           WithinLimit(c, t)
    PROVE  WithinLimit(c, t)'
<1>. USE DEF LimiterInv, LimiterTypeOK
<1>1. UNCHANGED <<caller, stamp>> /\ verdict[k] = "waiting"
  BY DEF Limit, Record
<1>2. \A j \in Call \ {k} : verdict'[j] = verdict[j]
  BY VerdictGiven
<1>3. \A j \in Call \ {k} : j \in InTime(c, t)' <=> j \in InTime(c, t)
  <2>1. ASSUME NEW j \in Call \ {k} PROVE j \in AdmittedIn(c, t)' <=> j \in AdmittedIn(c, t)
    BY <1>1, <1>2 DEF AdmittedIn
  <2>2. ASSUME NEW j \in Call \ {k}, j \in AdmittedIn(c, t)
        PROVE  Overtaken(j)' <=> Overtaken(j)
    BY <2>2, OvertakenStays DEF AdmittedIn, Remembered
  <2>. QED
    BY <2>1, <2>2 DEF InTime
<1>4. k \notin InTime(c, t)
  BY <1>1 DEF InTime, AdmittedIn
<1>5. InTime(c, t)' \in SUBSET Call /\ InTime(c, t) \in SUBSET Call
  BY DEF InTime, AdmittedIn
<1>6. CASE k \notin InTime(c, t)'
  <2>1. \A j \in Call : j \in InTime(c, t)' <=> j \in InTime(c, t)
    BY <1>3, <1>4, <1>6
  <2>2. InTime(c, t)' = InTime(c, t)
    BY Zenon, <1>5, <2>1
  <2>. QED
    BY <2>2 DEF WithinLimit
<1>7. CASE k \in InTime(c, t)'
  <2>1. caller[k] = c /\ verdict'[k] = "admitted"
    BY <1>1, <1>7 DEF InTime, AdmittedIn
  <2>2. InTime(c, t)' \in SUBSET (Counted(k) \cup {k})
    <3>1. k \in InTime(caller[k], t)'
      BY <1>1, <1>7, <2>1
    <3>2. \A j \in InTime(caller[k], t) : j \in Counted(k)
      BY <3>1, WindowCounted
    <3>. QED
      BY <1>3, <1>5, <2>1, <3>2
  <2>3. /\ IsFiniteSet(Counted(k)) /\ k \notin Counted(k) /\ Cardinality(Counted(k)) \in Nat
        /\ Cardinality(Counted(k)) + 1 <= MaxRequests
    BY <2>1, CountedAre
  <2>4. /\ IsFiniteSet(Counted(k) \cup {k})
        /\ Cardinality(Counted(k) \cup {k}) = Cardinality(Counted(k)) + 1
    BY <2>3, FS_AddElement
  <2>5. Cardinality(InTime(c, t)') <= Cardinality(Counted(k) \cup {k})
    BY <2>2, <2>4, FS_Subset
  <2>6. Cardinality(InTime(c, t)') \in Nat
    BY <1>5, CallsFinite
  <2>. QED
    BY <2>3, <2>4, <2>5, <2>6 DEF WithinLimit
<1>. QED
  BY <1>6, <1>7

\* Nothing has been let through yet whose stamp is ahead of the clock.
Bounded == \A c \in Client, t \in Nat : WithinLimit(c, t)

LEMMA EmptyWindow ==
    ASSUME NEW S, S = {} PROVE Cardinality(S) <= MaxRequests
  BY FS_EmptySet

LEMMA StepKeepsWindows ==
    ASSUME LimiterInv, Bounded, [LimiterNext]_limiterVars
    PROVE  Bounded'
<1>. SUFFICES ASSUME NEW c \in Client, NEW t \in Nat PROVE WithinLimit(c, t)'
  BY DEF Bounded
<1>1. WithinLimit(c, t)
  BY DEF Bounded
<1>2. ASSUME NEW k \in Call, Limit(k) PROVE WithinLimit(c, t)'
  BY <1>1, <1>2, LimitKeepsWindow
<1>3. ASSUME NEW k \in Call, NEW e \in Client, ReadClock(k, e) PROVE WithinLimit(c, t)'
  <2>1. /\ verdict[k] = "none" /\ verdict'[k] = "waiting" /\ UNCHANGED <<arrivals, passed>>
        /\ \A j \in Call \ {k} : /\ verdict'[j] = verdict[j] /\ caller'[j] = caller[j]
                                 /\ stamp'[j] = stamp[j]
    BY <1>3 DEF ReadClock, LimiterInv, LimiterTypeOK
  <2>2. AdmittedIn(c, t)' = AdmittedIn(c, t) /\ k \notin AdmittedIn(c, t)
    BY <2>1 DEF AdmittedIn
  <2>3. ASSUME NEW j \in AdmittedIn(c, t) PROVE Overtaken(j)' <=> Overtaken(j)
    <3>1. j \in Call \ {k} /\ caller[j] = c
      BY <2>2 DEF AdmittedIn
    <3>2. \A p \in DOMAIN arrivals[c] : arrivals[c][p] \in Call \ {k}
      BY <2>1, InLine DEF Remembered
    <3>. QED
      BY <2>1, <3>1, <3>2 DEF Overtaken
  <2>4. InTime(c, t)' = InTime(c, t)
    BY <2>2, <2>3 DEF InTime
  <2>. QED
    BY <1>1, <2>4 DEF WithinLimit
<1>4. CASE Forget
  <2>1. \A j \in Call : verdict'[j] # "admitted"
    BY <1>4 DEF Forget
  <2>2. InTime(c, t)' = {}
    BY <2>1 DEF InTime, AdmittedIn
  <2>. QED
    BY <2>2, EmptyWindow DEF WithinLimit
<1>5. CASE Evict \/ Tick \/ UNCHANGED limiterVars
  <2>1. UNCHANGED <<arrivals, caller, stamp, passed, verdict>>
    BY <1>5 DEF Evict, Tick, limiterVars
  <2>2. AdmittedIn(c, t)' = AdmittedIn(c, t) /\ \A j : Overtaken(j)' <=> Overtaken(j)
    BY <2>1 DEF AdmittedIn, Overtaken
  <2>3. InTime(c, t)' = InTime(c, t)
    BY <2>2 DEF InTime
  <2>. QED
    BY <1>1, <2>3 DEF WithinLimit
<1>. QED
  BY <1>2, <1>3, <1>4, <1>5 DEF LimiterNext

\* The invariant of the limiter, in every lifetime of the process and for windows that
\* end at any time.
THEOREM LimiterInvariance == LimiterSpec => [](LimiterInv /\ AdmittedWithinLimit)
<1>1. LimiterInit => Bounded
  <2>. SUFFICES ASSUME LimiterInit, NEW c \in Client, NEW t \in Nat PROVE WithinLimit(c, t)
    BY DEF Bounded
  <2>1. InTime(c, t) = {}
    BY DEF LimiterInit, InTime, AdmittedIn
  <2>. QED
    BY <2>1, EmptyWindow DEF WithinLimit
<1>2. LimiterInv /\ Bounded => AdmittedWithinLimit
  <2>. SUFFICES ASSUME LimiterInv, Bounded, NEW c \in Client, NEW t \in 0..now
                PROVE  Cardinality(InTime(c, t)) <= MaxRequests
    BY DEF AdmittedWithinLimit, InTime
  <2>. QED
    BY DEF Bounded, WithinLimit, LimiterInv, LimiterTypeOK
<1>. QED
  BY <1>1, <1>2, LimiterInitially, LimiterStep, StepKeepsWindows, PTL DEF LimiterSpec
-----------------------------------------------------------------------------
(* Refused for a cause                                                       *)

\* What a call finds counted had the lock no longer than a window before the call read
\* the clock: the foremost is fresh, and those behind it had the lock later.
LEMMA CountedSeen ==
    ASSUME LimiterInv, NEW k \in Call, Limit(k), NEW j \in Counted(k)
    PROVE  j \in SeenInWindow(k)
<1>. DEFINE c == caller[k]
            l == Len(arrivals[c])
            n == Purged(c, stamp[k], Window)
<1>1. c \in Client /\ stamp[k] \in Nat /\ ~Remembered(k)
  BY Recorded DEF Limit
<1>2. /\ n \in dropped[c]..l /\ (n < l => stamp[arrivals[c][n + 1]] + Window >= stamp[k])
      /\ l \in Nat /\ DOMAIN arrivals[c] = 1..l /\ dropped[c] \in Nat
  BY <1>1, InLine, PurgedFront
<1>3. PICK p \in n + 1..l : arrivals[c][p] = j
  BY DEF Counted
<1>4. \A q \in DOMAIN arrivals[c] :
         /\ arrivals[c][q] \in Call /\ Remembered(arrivals[c][q]) /\ caller[arrivals[c][q]] = c
         /\ stamp[arrivals[c][q]] \in Nat /\ passed[arrivals[c][q]] \in Nat
  BY <1>1, InLine
<1>5. \A q, r \in DOMAIN arrivals[c] :
         q < r => passed[arrivals[c][q]] <= passed[arrivals[c][r]]
  BY <1>1 DEF LimiterInv, Lined
<1>. HIDE DEF c, l, n
<1>6. n + 1 \in DOMAIN arrivals[c] /\ p \in DOMAIN arrivals[c] /\ n + 1 <= p /\ n < l /\ p \in Nat
  BY <1>2, <1>3
<1>7. passed[arrivals[c][n + 1]] <= passed[j]
  <2>1. CASE n + 1 = p
    BY <1>3, <1>4, <1>6, <2>1
  <2>2. CASE n + 1 < p
    BY <1>3, <1>5, <1>6, <2>2
  <2>. QED
    BY <1>2, <1>6, <2>1, <2>2
<1>8. stamp[arrivals[c][n + 1]] <= passed[arrivals[c][n + 1]]
  BY <1>4, <1>6 DEF LimiterInv, Clocked
<1>9. j \in Call /\ Remembered(j) /\ caller[j] = c /\ passed[j] \in Nat
  BY <1>3, <1>4, <1>6
<1>10. passed[j] + Window >= stamp[k]
  BY <1>1, <1>2, <1>4, <1>6, <1>7, <1>8, <1>9
<1>. QED
  BY <1>1, <1>9, <1>10 DEF SeenInWindow, c

\* A refused call finds MaxRequests other calls of its client.
LEMMA RefusalHasCause ==
    ASSUME LimiterInv, NEW k \in Call, Limit(k), verdict'[k] = "refused"
    PROVE  Cardinality(SeenInWindow(k)) >= MaxRequests
<1>1. SeenInWindow(k) \in SUBSET Call /\ Counted(k) \in SUBSET SeenInWindow(k)
  BY CountedSeen DEF SeenInWindow
<1>2. IsFiniteSet(SeenInWindow(k)) /\ Cardinality(SeenInWindow(k)) \in Nat
  BY <1>1, CallsFinite
<1>3. /\ Cardinality(Counted(k)) \in Nat
      /\ ~(Cardinality(Counted(k)) + 1 <= MaxRequests)
  BY CountedAre
<1>4. Cardinality(Counted(k)) <= Cardinality(SeenInWindow(k))
  BY <1>1, <1>2, FS_Subset
<1>. QED
  BY <1>2, <1>3, <1>4

LEMMA StepRefusesForCause ==
    ASSUME LimiterInv, [LimiterNext]_limiterVars
    PROVE  [\A k \in Call : verdict[k] = "waiting" /\ verdict'[k] = "refused" =>
               Cardinality(SeenInWindow(k)) >= MaxRequests]_limiterVars
<1>. SUFFICES ASSUME NEW k \in Call, verdict[k] = "waiting", verdict'[k] = "refused"
              PROVE  Cardinality(SeenInWindow(k)) >= MaxRequests
  OBVIOUS
<1>1. Limit(k)
  <2>1. ~UNCHANGED verdict /\ ~Forget
    BY DEF Forget
  <2>2. ~\E j \in Call, c \in Client : ReadClock(j, c)
    BY DEF ReadClock, LimiterInv, LimiterTypeOK
  <2>3. PICK i \in Call : Limit(i)
    BY <2>1, <2>2 DEF LimiterNext, limiterVars, Evict, Tick
  <2>4. i = k
    BY <2>3, VerdictGiven
  <2>. QED
    BY <2>3, <2>4
<1>. QED
  BY <1>1, RefusalHasCause

HIDE LimiterAssumption
-----------------------------------------------------------------------------
(* The limiter inside the gateway                                            *)

\* What a step of the gateway does to the limiter is a step of the limiter: no
\* other part of the gateway touches deques, stamps or verdicts.
LEMMA StepOfLimiter == [Next]_vars => [LimiterNext]_limiterVars
<1>. SUFFICES ASSUME [Next]_vars PROVE [LimiterNext]_limiterVars
  OBVIOUS
<1>1. CASE \E k \in Call : Arrive(k) \/ Admit(k)
  BY <1>1 DEF Arrive, Admit, LimiterNext
<1>2. CASE Restart
  BY <1>2 DEF Restart, LimiterNext
<1>3. CASE Background
  BY <1>3 DEF Background, LimiterNext
<1>4. ASSUME NEW k \in Call, Intercept(k) \/ CachedReply(k) \/ RunTool(k)
                               \/ CleanCache(k) \/ StoreAnswer(k)
      PROVE  UNCHANGED limiterVars
  BY <1>4 DEF Intercept, CachedReply, RunTool, CleanCache, StoreAnswer
<1>5. CASE ReloadCag \/ UNCHANGED vars
  BY <1>5 DEF ReloadCag, vars
<1>. QED
  BY <1>1, <1>2, <1>3, <1>4, <1>5 DEF Next, Execute

\* The gateway runs the limiter (main.rs:44-58): whatever else it does with a
\* call, what happens to deques, stamps and verdicts is a behaviour of the
\* rate limiter on its own.
THEOREM RunsLimiter == Spec => LimiterSpec
<1>1. Init => LimiterInit
  BY DEF Init
<1>. QED
  BY <1>1, StepOfLimiter, PTL DEF Spec, LimiterSpec

\* In the gateway, too, no more than MaxRequests calls of a client are let through in
\* a window, those apart that were overtaken between the clock and the lock
\* (rate_limiter.rs:171-192).
THEOREM AdmissionLimited == Spec => []AdmittedWithinLimit
  BY RunsLimiter, LimiterInvariance, PTL

\* In the gateway, too, a call is refused only for MaxRequests other calls of its
\* client that had the lock in the window before it or later (rate_limiter.rs:179-192).
THEOREM RefusalsJustified == Spec => RefusedForCause
  BY RunsLimiter, LimiterInvariance, StepRefusesForCause, PTL DEF LimiterSpec, RefusedForCause
-----------------------------------------------------------------------------
(* The contract of admission                                                 *)

USE LimiterAssumption

\* The contract counts as the limiter does.
LEMMA SameCount == \A S : Admission!Cardinality(S) = Cardinality(S)
  BY DEF Admission!Cardinality, Cardinality

Served == {[call |-> k, client |-> caller[k], at |-> stamp[k]] :
              k \in {j \in Call : verdict[j] = "admitted"}}

\* What a client was served in the window that ends when a call has the lock is still
\* counted for that call, in whatever order the stamps went into the deque: a stamp that
\* is not too old by now is not too old for any reading of the clock before.
LEMMA ServedAreCounted ==
    ASSUME LimiterInv, NEW k \in Call, Limit(k), NEW c \in Client, caller[k] = c
    PROVE  /\ Cardinality(Admission!Recent(c)) \in Nat
           /\ Cardinality(Admission!Recent(c)) <= Cardinality(Counted(k))
<1>. DEFINE A == {j \in Call : verdict[j] = "admitted" /\ caller[j] = c /\ stamp[j] + Window >= now}
            R == Admission!Recent(c)
            f == [j \in A |-> [call |-> j, client |-> caller[j], at |-> stamp[j]]]
<1>. USE DEF LimiterInv, LimiterTypeOK
<1>1. stamp[k] <= now
  BY DEF Clocked
<1>2. ASSUME NEW j \in A PROVE j \in Counted(k)
  <2>1. j \in Call /\ Remembered(j) /\ caller[j] = c /\ ~(stamp[j] + Window < now)
    BY DEF Remembered
  <2>2. ~(stamp[j] + Window < stamp[k])
    BY <1>1, <2>1
  <2>3. \A q \in DOMAIN arrivals[c] : ~(stamp[j] + Window < stamp[arrivals[c][q]])
    <3>. SUFFICES ASSUME NEW q \in DOMAIN arrivals[c]
                  PROVE  ~(stamp[j] + Window < stamp[arrivals[c][q]])
      OBVIOUS
    <3>1. arrivals[c][q] \in Call
      BY <1>1
    <3>2. stamp[arrivals[c][q]] <= now /\ stamp[arrivals[c][q]] \in Nat
      BY <3>1 DEF Clocked
    <3>. QED
      BY <2>1, <3>2
  <2>4. ~(stamp[j] + Window + EvictionPeriod < now)
    BY <2>1
  <2>5. ~TooOld(c, j)
    BY <2>3, <2>4 DEF TooOld
  <2>. QED
    BY <2>1, <2>2, <2>5, NotCounted
<1>3. \A r \in R : \E j \in A : f[j] = r
  BY DEF Admission!Recent
<1>4. \A j \in A : f[j] \in R
  BY DEF Admission!Recent
<1>5. f \in Surjection(A, R)
  BY <1>3, <1>4 DEF Surjection
<1>6. A \in SUBSET Call /\ A \in SUBSET Counted(k)
  BY <1>2
<1>. HIDE DEF A, R, f
<1>7. IsFiniteSet(A) /\ Cardinality(A) \in Nat
  BY <1>6, CallsFinite
<1>8. IsFiniteSet(R) /\ Cardinality(R) <= Cardinality(A) /\ Cardinality(R) \in Nat
  BY <1>5, <1>7, FS_Surjection, FS_CardinalityType
<1>9. /\ Cardinality(A) <= Cardinality(Counted(k))
      /\ Cardinality(Counted(k)) \in Nat
  BY <1>6, CountedAre, FS_Subset
<1>. QED
  BY <1>7, <1>8, <1>9 DEF R

LEMMA LimitServes ==
    ASSUME LimiterInv, NEW k \in Call, Limit(k), NEW c \in Client, caller[k] = c
    PROVE  Admission!Serve(k, c) \/ UNCHANGED <<now, Served>>
<1>1. UNCHANGED <<now, caller, stamp>> /\ verdict[k] = "waiting"
  BY DEF Limit, Record
<1>2. \A j \in Call \ {k} : verdict'[j] = verdict[j]
  BY VerdictGiven
<1>3. CASE verdict'[k] # "admitted"
  BY <1>1, <1>2, <1>3 DEF Served
<1>4. CASE verdict'[k] = "admitted"
  <2>1. /\ Cardinality(Counted(k)) \in Nat
        /\ Cardinality(Counted(k)) + 1 <= MaxRequests
    BY <1>4, CountedAre
  <2>2. Cardinality(Admission!Recent(c)) < MaxRequests
    BY <2>1, ServedAreCounted
  <2>3. \A s \in Served : s.call # k
    BY <1>1 DEF Served
  <2>4. stamp[k] \in 0..now
    BY DEF LimiterInv, LimiterTypeOK, Clocked
  <2>5. Served' = Served \cup {[call |-> k, client |-> c, at |-> stamp[k]]}
    BY <1>1, <1>2, <1>4 DEF Served
  <2>6. Admission!Cardinality(Admission!Recent(c)) < MaxRequests
    BY <2>2, SameCount
  <2>. QED
    BY Zenon, <1>1, <2>3, <2>4, <2>5, <2>6 DEF Admission!Serve, Served
<1>. QED
  BY <1>3, <1>4

LEMMA StepOfContract ==
    ASSUME LimiterInv, [LimiterNext]_limiterVars
    PROVE  [Admission!Next]_<<now, Served>>
<1>1. ASSUME NEW k \in Call, Limit(k) PROVE [Admission!Next]_<<now, Served>>
  <2>1. caller[k] \in Client
    BY <1>1, Recorded DEF Limit
  <2>2. PICK c \in Client : caller[k] = c
    BY <2>1
  <2>3. Admission!Serve(k, c) \/ UNCHANGED <<now, Served>>
    BY <1>1, <2>2, LimitServes
  <2>. QED
    BY <2>3 DEF Admission!Next
<1>2. ASSUME NEW k \in Call, NEW c \in Client, ReadClock(k, c) PROVE UNCHANGED <<now, Served>>
  <2>1. /\ verdict[k] # "admitted" /\ verdict'[k] # "admitted" /\ now' = now
        /\ \A j \in Call \ {k} : /\ verdict'[j] = verdict[j] /\ caller'[j] = caller[j]
                                 /\ stamp'[j] = stamp[j]
    BY <1>2 DEF ReadClock, LimiterInv, LimiterTypeOK
  <2>. QED
    BY <2>1 DEF Served
<1>3. CASE Evict \/ UNCHANGED limiterVars
  BY <1>3 DEF Evict, limiterVars, Served
<1>4. CASE Tick
  BY <1>4 DEF Tick, Admission!Next, Admission!Advance
<1>5. CASE Forget
  <2>1. Served' = {} /\ now' = now
    BY <1>5 DEF Forget, Served
  <2>2. Admission!Forget
    BY Zenon, <2>1 DEF Admission!Forget, Served
  <2>. QED
    BY <2>2 DEF Admission!Next
<1>. QED
  BY <1>1, <1>2, <1>3, <1>4, <1>5 DEF LimiterNext

HIDE LimiterAssumption

\* The limiter inside the gateway implements the contract of admission
\* (AdmissionContract): the service behind it is given a call only while its
\* client was served fewer than MaxRequests in the last window.
THEOREM AdmissionRefined == Spec => KeepsAdmissionContract
<1>1. LimiterInit => Admission!Init
  BY DEF LimiterInit, Admission!Init
<1>. QED
  BY <1>1, StepOfContract, RunsLimiter, LimiterInvariance, PTL
     DEF LimiterSpec, KeepsAdmissionContract, Admission!Spec, Served
-----------------------------------------------------------------------------
(* Tools and policies answer with what they have                             *)

\* Among bounded scores above zero there is a first of the highest.
LEMMA FirstBestPlace ==
    ASSUME NEW D \in SUBSET Nat, NEW B \in Nat, NEW scores \in [D -> 0..B]
    PROVE  FirstBest(scores) \in D \cup {0}
<1>. DEFINE able  == {i \in D : scores[i] > 0}
            short == {B - scores[i] : i \in able}
            Best(i) == \A j \in able : scores[j] < scores[i] \/ (scores[j] = scores[i] /\ i <= j)
<1>1. CASE able = {}
  BY <1>1 DEF FirstBest
<1>2. CASE able # {}
  <2>1. short # {} /\ short \in SUBSET Nat
    <3>1. \A i \in able : B - scores[i] \in Nat
      OBVIOUS
    <3>. HIDE DEF able
    <3>. QED
      BY <1>2, <3>1
  <2>2. PICK m \in short : \A n \in short : m <= n
    BY <2>1, LeastNatural
  <2>. DEFINE P == {i \in able : B - scores[i] = m}
  <2>3. P # {} /\ P \in SUBSET Nat
    BY <2>2
  <2>4. PICK p \in P : \A i \in P : p <= i
    BY <2>3, LeastNatural
  <2>5. p \in able /\ B - scores[p] = m
    BY <2>4
  <2>6. ASSUME NEW j \in able PROVE scores[j] < scores[p] \/ (scores[j] = scores[p] /\ p <= j)
    <3>1. m <= B - scores[j] /\ scores[j] \in Nat /\ scores[p] \in Nat
      BY <2>2, <2>5
    <3>2. scores[j] <= scores[p]
      BY <2>5, <3>1
    <3>3. scores[j] = scores[p] => p <= j
      BY <2>4, <2>5, <3>1
    <3>. QED
      BY <3>1, <3>2, <3>3
  <2>7. Best(p)
    BY <2>6
  <2>8. FirstBest(scores) = CHOOSE i \in able : Best(i)
    BY <1>2 DEF FirstBest
  <2>. HIDE DEF Best, able
  <2>9. FirstBest(scores) \in able
    BY <2>5, <2>7, <2>8
  <2>. QED
    BY <2>9 DEF able
<1>. QED
  BY <1>1, <1>2

\* The keys of a request can be counted.
LEMMA ThreeFinite == ASSUME NEW a, NEW b, NEW c PROVE IsFiniteSet({a, b, c})
<1>1. IsFiniteSet({a})
  BY FS_Singleton
<1>2. IsFiniteSet({a} \cup {b})
  BY <1>1, FS_AddElement
<1>3. IsFiniteSet(({a} \cup {b}) \cup {c})
  BY <1>2, FS_AddElement
<1>4. ({a} \cup {b}) \cup {c} = {a, b, c}
  OBVIOUS
<1>. QED
  BY <1>3, <1>4

LEMMA KeysCounted == \A d \in Data : \A given : Cardinality(d.keys \cap given) \in Nat
<1>. DEFINE A == {"location", "city", "budget"}       B == {"beds", "amenities", "property_type"}
            C == {"query_text", "property_id", "check_in"}  D == {"check_out", "user_id", "guests"}
            E == {"name", "email", "phone"}           F == {"booking_id", "status", "tracking"}
            G == {"amount", "currency", "payment_method"}
            H == {"payment_id", "check_fraud", "analyze_sentiment"}
            I == {"review", "feedback", "text"}       J == {"message", "price_per_night", "nights"}
            K == {"tax_rate", "max_results", "summary_mode_threshold"}
            L == {"properties", "properties", "properties"}
            keys == A \cup B \cup C \cup D \cup E \cup F \cup G \cup H \cup I \cup J \cup K \cup L
<1>1. \A d \in Data : d.keys \subseteq keys
  BY DEF Data, SearchKeys, BookingKeys, StatusKeys, PaymentKeys
<1>2. /\ IsFiniteSet(A) /\ IsFiniteSet(B) /\ IsFiniteSet(C) /\ IsFiniteSet(D)
      /\ IsFiniteSet(E) /\ IsFiniteSet(F) /\ IsFiniteSet(G) /\ IsFiniteSet(H)
      /\ IsFiniteSet(I) /\ IsFiniteSet(J) /\ IsFiniteSet(K) /\ IsFiniteSet(L)
  BY ThreeFinite
<1>. HIDE DEF A, B, C, D, E, F, G, H, I, J, K, L
<1>3. IsFiniteSet(A \cup B \cup C \cup D)
  BY <1>2, FS_Union
<1>4. IsFiniteSet(A \cup B \cup C \cup D \cup E \cup F \cup G)
  BY <1>2, <1>3, FS_Union
<1>5. IsFiniteSet(keys)
  BY <1>2, <1>4, FS_Union
<1>. HIDE DEF keys
<1>. SUFFICES ASSUME NEW d \in Data, NEW given PROVE Cardinality(d.keys \cap given) \in Nat
  OBVIOUS
<1>6. d.keys \cap given \in SUBSET keys
  BY <1>1
<1>. QED
  BY <1>5, <1>6, FS_Subset, FS_CardinalityType

LEMMA PointsCounted ==
    ASSUME NEW d \in Data, NEW given, NEW weight \in Nat
    PROVE  Points(d, given, weight) \in Nat
  BY KeysCounted DEF Points

LEMMA IntentInferred == ASSUME NEW d \in Data PROVE InferIntent(d) \in Intents
<1>. DEFINE ranked == <<"search", "booking", "status", "payment", "faq">>
            scores == [i \in DOMAIN ranked |-> IntentScore(d, ranked[i])]
            best   == FirstBest(scores)
<1>1. /\ IntentScore(d, "search") \in Nat /\ IntentScore(d, "booking") \in Nat
      /\ IntentScore(d, "status") \in Nat /\ IntentScore(d, "payment") \in Nat
  BY PointsCounted DEF IntentScore
<1>2. IntentScore(d, "faq") \in Nat
  BY ToolsAssumption DEF IntentScore, Data
<1>. DEFINE bound == IntentScore(d, "search") + IntentScore(d, "booking")
                       + IntentScore(d, "status") + IntentScore(d, "payment")
                       + IntentScore(d, "faq")
<1>3. DOMAIN ranked = 1..5 /\ bound \in Nat
  BY <1>1, <1>2
<1>4. \A i \in 1..5 : IntentScore(d, ranked[i]) \in 0..bound
  BY <1>1, <1>2
<1>5. scores \in [1..5 -> 0..bound]
  BY <1>3, <1>4
<1>. HIDE DEF bound, scores
<1>6. best \in 1..5 \cup {0}
  BY <1>3, <1>5, FirstBestPlace
<1>7. best # 0 => ranked[best] \in Intents
  BY <1>6 DEF Intents
<1>8. CASE d.intent # None
  BY <1>8 DEF InferIntent, Data
<1>9. CASE d.intent = None
  <2>1. InferIntent(d) \in {"fraud_check", "sentiment",
                            IF best = 0 THEN "unknown" ELSE ranked[best]}
    BY <1>9 DEF InferIntent, scores
  <2>. QED
    BY <1>7, <2>1 DEF Intents
<1>. QED
  BY <1>8, <1>9

LEMMA ConfidenceBounded ==
    ASSUME NEW d \in Data, NEW tool \in ToolNames
    PROVE  Confidence(d, tool) \in 0..100
<1>1. SearchConfidence(d) \in Nat /\ ValidatorConfidence(d) \in Nat
  BY PointsCounted DEF SearchConfidence, ValidatorConfidence
<1>2. PricingConfidence(d) \in Nat
  BY PointsCounted DEF PricingConfidence
<1>3. SentimentConfidence(d) \in Nat
  BY DEF SentimentConfidence
<1>4. FraudConfidence(d) \in Nat
  BY PointsCounted DEF FraudConfidence
<1>5. tool \in {"property_search", "booking_validator", "pricing", "sentiment_analysis",
                "fraud_check"}
  BY DEF ToolNames, AllTools
<1>. QED
  BY <1>1, <1>2, <1>3, <1>4, <1>5 DEF Confidence

LEMMA SelectsTool ==
    ASSUME NEW d \in Data, NEW r \in Registries
    PROVE  Select(d, r) \in ToolNames \cup {None}
<1>. DEFINE scores == [i \in DOMAIN r |-> Confidence(d, r[i])]
<1>1. DOMAIN r \in SUBSET Nat /\ \A i \in DOMAIN r : r[i] \in ToolNames /\ i # 0
  BY GatewayAssumption DEF ToolNames, AllTools, ConfiguredTools
<1>2. scores \in [DOMAIN r -> 0..100]
  BY <1>1, ConfidenceBounded
<1>. HIDE DEF scores
<1>3. FirstBest(scores) \in DOMAIN r \cup {0}
  BY <1>1, <1>2, FirstBestPlace
<1>. QED
  BY <1>1, <1>3 DEF Select, scores

LEMMA ToolAnswers ==
    ASSUME NEW d \in Request, NEW r \in Registries
    PROVE  ProcessRequest(d, r) \in Answers
<1>. d \in Data
  BY GatewayAssumption
<1>1. InferIntent(d) \in Intents /\ Select(d, r) \in ToolNames \cup {None}
  BY IntentInferred, SelectsTool
<1>. QED
  BY <1>1 DEF ProcessRequest, Answers

LEMMA PolicyFound ==
    ASSUME NEW file \in Policies, NEW score \in [DOMAIN file -> 0..100],
           NEW threshold \in Nat
    PROVE  BestPolicy(score, threshold) \in DOMAIN file \cup {0}
<1>. DEFINE kept == [i \in DOMAIN score |-> IF score[i] >= threshold THEN score[i] ELSE 0]
<1>1. kept \in [DOMAIN file -> 0..100]
  OBVIOUS
<1>2. DOMAIN file \in SUBSET Nat
  BY ToolsAssumption
<1>. HIDE DEF kept
<1>3. FirstBest(kept) \in DOMAIN file \cup {0}
  BY <1>1, <1>2, FirstBestPlace
<1>. QED
  BY <1>3 DEF BestPolicy, kept

LEMMA PolicyAnswers ==
    ASSUME NEW file \in Policies, NEW q \in Question, TryIntercept(file, q) # None
    PROVE  FromPolicy(TryIntercept(file, q)) \in Answers
<1>. DEFINE byKeyword == [i \in DOMAIN file |-> file[i].keyword[q]]
            byWording == [i \in DOMAIN file |-> file[i].fuzzy[q]]
<1>1. byKeyword \in [DOMAIN file -> 0..100] /\ byWording \in [DOMAIN file -> 0..100]
  BY ToolsAssumption
<1>. HIDE DEF byKeyword, byWording
<1>2. /\ BestPolicy(byKeyword, 60) \in DOMAIN file \cup {0}
      /\ BestPolicy(byWording, 82) \in DOMAIN file \cup {0}
  BY <1>1, PolicyFound
<1>3. KeywordMatch(file, q) \in DOMAIN file \cup {0} /\ FuzzyMatch(file, q) \in DOMAIN file \cup {0}
  BY <1>2 DEF KeywordMatch, FuzzyMatch, byKeyword, byWording
<1>4. \E i \in DOMAIN file : TryIntercept(file, q) = file[i].id
  BY <1>3 DEF TryIntercept
<1>5. TryIntercept(file, q) \in PolicyIds
  BY <1>4 DEF PolicyIds
<1>. QED
  BY <1>5 DEF FromPolicy, Answers, Intents

-----------------------------------------------------------------------------
(* Types                                                                     *)

CallTypes ==
    /\ Cache!StoreTypeOK
    /\ policies \in Policies
    /\ registry \in Registries
    /\ data \in [Call -> Request \cup {None}]
    /\ stage \in [Call -> Stages]
    /\ answer \in [Call -> Answers]
    /\ source \in [Call -> {"none", "limiter", "policy", "cache", "tool"}]
    /\ storedAt \in [Call -> Nat \cup {None}]
    /\ inForce \in [Call -> SUBSET Policies]

\* Every call past the gateway's door has data.
DataGiven == \A k \in Call : stage[k] # "idle" => data[k] \in Request

LEMMA LifetimeOfIntent == \A intent : intent \in Intents => Ttl(intent) \in Lifetimes
  BY DEF Ttl, Lifetimes, Intents

LEMMA InsertTypes ==
    ASSUME CallTypes, now \in Nat, NEW s \in Slot, NEW a \in Answers, NEW ttl \in Lifetimes,
           Cache!Insert(s, a, ttl)
    PROVE  Cache!StoreTypeOK'
<1>. DEFINE e == [value |-> a, at |-> now, ttl |-> ttl]
<1>1. e \in Cache!Entry
  BY DEF Cache!Entry
<1>2. store' = [store EXCEPT ![s] = e]
         \/ \E victim \in Slot : store' = [store EXCEPT ![victim] = None, ![s] = e]
  BY DEF Cache!Insert, Cache!InsertAt, Cache!InsertEvicting, Cache!Oldest, Cache!Used
<1>. HIDE DEF e
<1>. QED
  BY <1>1, <1>2 DEF CallTypes, Cache!StoreTypeOK

LEMMA StepTypes ==
    ASSUME CallTypes, DataGiven, now \in Nat, [Next]_vars
    PROVE  CallTypes' /\ DataGiven'
<1>. USE DEF CallTypes, DataGiven, Stages
<1>1. ASSUME NEW k \in Call, Arrive(k) PROVE CallTypes' /\ DataGiven'
  BY <1>1 DEF Arrive, Becomes, Cache!StoreTypeOK
<1>2. ASSUME NEW k \in Call, Admit(k) PROVE CallTypes' /\ DataGiven'
  <2>1. NoAnswer \in Answers
    BY DEF NoAnswer, Answers, Intents
  <2>. QED
    BY <1>2, <2>1 DEF Admit, Answered, Becomes, Cache!StoreTypeOK
<1>3. ASSUME NEW k \in Call, Intercept(k) PROVE CallTypes' /\ DataGiven'
  <2>1. data[k] \in Request /\ data[k].question \in Question \cup {None}
    BY <1>3, GatewayAssumption DEF Intercept, Data
  <2>2. CASE Becomes(k, "missed") /\ UNCHANGED <<source, answer>>
    BY <1>3, <2>2 DEF Intercept, Becomes, Cache!StoreTypeOK
  <2>3. CASE \E a \in Answers : Answered(k, "policy", a)
    BY <1>3, <2>3 DEF Intercept, Answered, Becomes, Cache!StoreTypeOK
  <2>. QED
    BY <1>3, <2>1, <2>2, <2>3, PolicyAnswers DEF Intercept, Consulted
<1>4. ASSUME NEW k \in Call, CachedReply(k) PROVE CallTypes' /\ DataGiven'
  <2>1. CacheKey[data[k]] \in Slot
    BY <1>4, GatewayAssumption DEF CachedReply
  <2>2. store[CacheKey[data[k]]].value \in Answers
    BY <1>4, <2>1 DEF CachedReply, Cache!Hit, Cache!StoreTypeOK, Cache!Entry
  <2>. QED
    BY <1>4, <2>2 DEF CachedReply, Answered, Becomes, Cache!StoreTypeOK
<1>5. ASSUME NEW k \in Call, RunTool(k) PROVE CallTypes' /\ DataGiven'
  <2>1. ProcessRequest(data[k], registry) \in Answers
    BY <1>5, ToolAnswers DEF RunTool
  <2>. QED
    BY <1>5, <2>1 DEF RunTool, Becomes, Cache!StoreTypeOK
<1>6. ASSUME NEW k \in Call, CleanCache(k) PROVE CallTypes' /\ DataGiven'
  BY <1>6 DEF CleanCache, Becomes, Cache!StoreTypeOK, Cache!Cleanup
<1>7. ASSUME NEW k \in Call, StoreAnswer(k) PROVE CallTypes' /\ DataGiven'
  <2>1. CacheKey[data[k]] \in Slot /\ Ttl(answer[k].intent) \in Lifetimes
    BY <1>7, GatewayAssumption, LifetimeOfIntent DEF StoreAnswer, Answers
  <2>2. Cache!StoreTypeOK'
    BY <1>7, <2>1, InsertTypes DEF StoreAnswer
  <2>. QED
    BY <1>7, <2>2 DEF StoreAnswer, Becomes
<1>8. CASE ReloadCag
  BY <1>8 DEF ReloadCag, Cache!StoreTypeOK
<1>9. CASE Restart
  BY <1>9 DEF Restart, UnderWay, Cache!StoreTypeOK, Cache!EmptyStore
<1>10. CASE Background \/ UNCHANGED vars
  BY <1>10 DEF Background, vars, callVars, Cache!StoreTypeOK
<1>. QED
  BY <1>1, <1>2, <1>3, <1>4, <1>5, <1>6, <1>7, <1>8, <1>9, <1>10 DEF Next, Execute

LEMMA InitialTypes == Init => CallTypes /\ DataGiven
<1>1. NoAnswer \in Answers
  BY DEF NoAnswer, Answers, Intents
<1>. QED
  BY <1>1 DEF Init, CallTypes, DataGiven, Stages, Cache!StoreTypeOK, Cache!EmptyStore

LEMMA ClockCounts == LimiterInv => now \in Nat
  BY DEF LimiterInv, LimiterTypeOK

\* Types hold in every state, and no step of a call looks at data that is not there
\* (main.rs:33-114).
THEOREM GatewayTypes == Spec => [](LimiterInv /\ CallTypes /\ DataGiven)
<1>1. LimiterInv /\ CallTypes /\ DataGiven /\ [Next]_vars => CallTypes' /\ DataGiven'
  BY ClockCounts, StepTypes
<1>. QED
  BY <1>1, InitialTypes, RunsLimiter, LimiterInvariance, PTL DEF Spec

\* Every tool and every policy answers with an answer of its kind (TypeOK;
\* gateway.rs, cag.rs).
THEOREM TypesKept == Spec => []TypeOK
<1>1. LimiterInv /\ CallTypes => TypeOK
  BY DEF LimiterInv, CallTypes, TypeOK
<1>. QED
  BY <1>1, GatewayTypes, PTL
-----------------------------------------------------------------------------
(* The capacity of the cache                                                 *)

LEMMA SameCountInCache == \A S : Cache!Cardinality(S) = Cardinality(S)
  BY DEF Cache!Cardinality, Cardinality

LEMMA SlotsCounted == \A S \in SUBSET Slot : IsFiniteSet(S) /\ Cardinality(S) \in Nat
  BY GatewayAssumption, FS_Subset, FS_CardinalityType

LEMMA OneMore ==
    ASSUME NEW S, IsFiniteSet(S), NEW x
    PROVE  IsFiniteSet(S \cup {x}) /\ Cardinality(S \cup {x}) <= Cardinality(S) + 1
<1>1. Cardinality(S) \in Nat
  BY FS_CardinalityType
<1>2. /\ IsFiniteSet(S \cup {x})
      /\ Cardinality(S \cup {x}) = IF x \in S THEN Cardinality(S) ELSE Cardinality(S) + 1
  BY FS_AddElement
<1>. QED
  BY <1>1, <1>2

\* An entry more, and one less when the cache was full
LEMMA InsertKeepsCapacity ==
    ASSUME CallTypes, CapacityKept, NEW s \in Slot, NEW a, NEW ttl, Cache!Insert(s, a, ttl)
    PROVE  CapacityKept'
<1>. DEFINE U == Cache!Used(store)
            e == [value |-> a, at |-> now, ttl |-> ttl]
<1>1. U \in SUBSET Slot /\ Cache!Used(store') \in SUBSET Slot
  BY DEF Cache!Used
<1>2. Cardinality(U) <= MaxEntries /\ Cardinality(U) \in Nat /\ IsFiniteSet(U)
  BY <1>1, SlotsCounted, SameCountInCache DEF CapacityKept, Cache!CapacityKept
<1>3. MaxEntries \in Nat
  BY GatewayAssumption
<1>. SUFFICES Cardinality(Cache!Used(store')) <= MaxEntries
  BY SameCountInCache DEF CapacityKept, Cache!CapacityKept, Cache!Used
<1>4. CASE Cardinality(U) >= MaxEntries
  <2>1. PICK victim \in U : store' = [store EXCEPT ![victim] = None, ![s] = e]
    BY <1>4, SameCountInCache DEF Cache!Insert, Cache!InsertEvicting, Cache!Oldest
  <2>. DEFINE V == U \ {victim}
  <2>2. Cache!Used(store') \in SUBSET (V \cup {s})
    BY <2>1, <1>1 DEF Cache!Used, CallTypes, Cache!StoreTypeOK
  <2>3. IsFiniteSet(V) /\ Cardinality(V) = Cardinality(U) - 1
    BY <1>2, <2>1, FS_RemoveElement
  <2>. HIDE DEF U, V
  <2>4. IsFiniteSet(V \cup {s}) /\ Cardinality(V \cup {s}) <= Cardinality(U)
    <3>1. IsFiniteSet(V \cup {s}) /\ Cardinality(V \cup {s}) <= Cardinality(V) + 1
      BY <2>3, OneMore
    <3>. QED
      BY <1>2, <2>3, <3>1
  <2>5. Cardinality(Cache!Used(store')) <= Cardinality(V \cup {s})
    BY <2>2, <2>4, FS_Subset
  <2>6. Cardinality(Cache!Used(store')) \in Nat /\ Cardinality(V \cup {s}) \in Nat
    BY <1>1, <2>4, SlotsCounted, FS_CardinalityType
  <2>. QED
    BY <1>2, <1>3, <2>4, <2>5, <2>6
<1>5. CASE ~(Cardinality(U) >= MaxEntries)
  <2>1. store' = [store EXCEPT ![s] = e]
    BY <1>5, SameCountInCache DEF Cache!Insert, Cache!InsertAt
  <2>2. Cache!Used(store') \in SUBSET (U \cup {s})
    BY <2>1, <1>1 DEF Cache!Used, CallTypes, Cache!StoreTypeOK
  <2>. HIDE DEF U
  <2>3. IsFiniteSet(U \cup {s}) /\ Cardinality(U \cup {s}) <= Cardinality(U) + 1
    BY <1>2, OneMore
  <2>4. Cardinality(Cache!Used(store')) <= Cardinality(U \cup {s})
    BY <2>2, <2>3, FS_Subset
  <2>5. Cardinality(Cache!Used(store')) \in Nat /\ Cardinality(U \cup {s}) \in Nat
    BY <1>1, <2>3, SlotsCounted, FS_CardinalityType
  <2>. QED
    BY <1>2, <1>3, <1>5, <2>3, <2>4, <2>5
<1>. QED
  BY <1>4, <1>5

LEMMA FewerEntries ==
    ASSUME CapacityKept, Cache!Used(store') \in SUBSET Cache!Used(store)
    PROVE  CapacityKept'
<1>. DEFINE U == Cache!Used(store)  V == Cache!Used(store')
<1>1. U \in SUBSET Slot /\ V \in SUBSET U
  BY DEF Cache!Used
<1>2. Cardinality(U) <= MaxEntries
  BY SameCountInCache DEF CapacityKept, Cache!CapacityKept
<1>3. Cache!CapacityKept' <=> Cardinality(V) <= MaxEntries
  BY SameCountInCache DEF Cache!CapacityKept, Cache!Used
<1>. HIDE DEF U, V
<1>4. Cardinality(V) <= Cardinality(U) /\ Cardinality(V) \in Nat /\ Cardinality(U) \in Nat
  BY <1>1, SlotsCounted, FS_Subset
<1>. QED
  BY <1>2, <1>3, <1>4, GatewayAssumption DEF CapacityKept

LEMMA StepKeepsCapacity ==
    ASSUME CallTypes, DataGiven, CapacityKept, [Next]_vars
    PROVE  CapacityKept'
<1>1. CASE UNCHANGED store
  BY <1>1, FewerEntries DEF Cache!Used
<1>2. ASSUME NEW k \in Call, CleanCache(k) PROVE CapacityKept'
  <2>1. Cache!Used(store') \in SUBSET Cache!Used(store)
    BY <1>2 DEF CleanCache, Cache!Cleanup, Cache!Used
  <2>. QED
    BY <2>1, FewerEntries
<1>3. ASSUME NEW k \in Call, StoreAnswer(k) PROVE CapacityKept'
  <2>1. CacheKey[data[k]] \in Slot
    BY <1>3, GatewayAssumption DEF StoreAnswer, DataGiven
  <2>. QED
    BY <1>3, <2>1, InsertKeepsCapacity DEF StoreAnswer
<1>4. CASE Restart
  <2>1. Cache!Used(store') \in SUBSET Cache!Used(store)
    BY <1>4 DEF Restart, Cache!EmptyStore, Cache!Used
  <2>. QED
    BY <2>1, FewerEntries
<1>. QED
  BY <1>1, <1>2, <1>3, <1>4
     DEF Next, Execute, Arrive, Admit, Intercept, CachedReply, RunTool, ReloadCag, Background, vars

\* The cache never outgrows its capacity (cache.rs:56-76), although several calls may
\* have cleaned up before the first of them inserts.
THEOREM CacheBounded == Spec => []CapacityKept
<1>1. Init => CapacityKept
  <2>. SUFFICES ASSUME Init PROVE CapacityKept
    OBVIOUS
  <2>1. Cache!Used(store) = {}
    BY DEF Init, Cache!Used, Cache!EmptyStore
  <2>2. Cardinality(Cache!Used(store)) = 0
    BY <2>1, FS_EmptySet
  <2>3. Cache!Cardinality(Cache!Used(store)) = 0
    BY <2>2, SameCountInCache
  <2>. QED
    BY <2>3, GatewayAssumption DEF CapacityKept, Cache!CapacityKept
<1>. QED
  BY <1>1, StepKeepsCapacity, GatewayTypes, PTL DEF Spec
-----------------------------------------------------------------------------
(* Policies decide                                                           *)

\* Until a question was looked at, the policies loaded are among those in force; a
\* call that went past them was let past by one of these, and no call has an answer
\* before that.
Passed(k) == data[k].question # None =>
                 \E file \in inForce[k] : TryIntercept(file, data[k].question) = None
Decided(k) ==
    source[k] \in {"policy", "cache", "tool"} /\ data[k].question # None =>
        \E file \in inForce[k] :
            TryIntercept(file, data[k].question)
                = IF source[k] = "policy" THEN answer[k].policy ELSE None
PolicyInv(k) ==
    /\ Open(k) => policies \in inForce[k]
    /\ stage[k] \in {"idle", "arrived", "admitted", "missed"} => source[k] = "none"
    /\ stage[k] = "missed" => Passed(k)
    /\ Decided(k)

PolicyInvariant == \A k \in Call : PolicyInv(k)

\* A step leaves alone the calls it is not about.
LEMMA OthersKeepPolicy ==
    ASSUME NEW j \in Call, PolicyInv(j),
           data'[j] = data[j], stage'[j] = stage[j], source'[j] = source[j],
           answer'[j] = answer[j], inForce'[j] = inForce[j], policies' = policies
    PROVE  PolicyInv(j)'
  BY DEF PolicyInv, Open, Passed, Decided

LEMMA StepKeepsPolicy ==
    ASSUME CallTypes, DataGiven, PolicyInvariant, [Next]_vars
    PROVE  PolicyInvariant'
<1>. SUFFICES ASSUME NEW j \in Call PROVE PolicyInv(j)'
  BY DEF PolicyInvariant
<1>. PolicyInv(j)
  BY DEF PolicyInvariant
<1>. USE DEF CallTypes
<1>1. ASSUME NEW k \in Call, Arrive(k) PROVE PolicyInv(j)'
  <2>1. CASE j # k
    BY <1>1, <2>1, OthersKeepPolicy DEF Arrive, Becomes
  <2>2. CASE j = k
    BY <1>1, <2>2 DEF Arrive, Becomes, PolicyInv, Open, Passed, Decided
  <2>. QED
    BY <2>1, <2>2
<1>2. ASSUME NEW k \in Call, Admit(k) PROVE PolicyInv(j)'
  <2>1. CASE j # k
    BY <1>2, <2>1, OthersKeepPolicy DEF Admit, Answered, Becomes
  <2>2. CASE j = k
    BY <1>2, <2>2 DEF Admit, Answered, Becomes, PolicyInv, Open, Passed, Decided
  <2>. QED
    BY <2>1, <2>2
<1>3. ASSUME NEW k \in Call, Intercept(k) PROVE PolicyInv(j)'
  <2>1. CASE j # k
    BY <1>3, <2>1, OthersKeepPolicy DEF Intercept, Answered, Becomes
  <2>2. CASE j = k /\ data[k].question = None
    BY <1>3, <2>2 DEF Intercept, Becomes, PolicyInv, Open, Passed, Decided
  <2>3. CASE j = k /\ data[k].question # None
    <3>. DEFINE hit == TryIntercept(policies, data[k].question)
    <3>1. policies \in inForce[k] /\ source[k] = "none"
      BY <1>3, <2>3 DEF Intercept, PolicyInv, Open
    <3>2. CASE hit = None
      <4>1. Becomes(k, "missed") /\ UNCHANGED <<source, answer, data, inForce>>
        BY <1>3, <2>3, <3>2 DEF Intercept, Consulted
      <4>. QED
        BY <2>3, <3>1, <3>2, <4>1 DEF Becomes, PolicyInv, Open, Passed, Decided
    <3>3. CASE hit # None
      <4>1. Answered(k, "policy", FromPolicy(hit)) /\ UNCHANGED <<data, inForce>>
        BY <1>3, <2>3, <3>3 DEF Intercept, Consulted
      <4>2. /\ stage'[k] = "answered" /\ source'[k] = "policy"
            /\ answer'[k].policy = hit
        BY <4>1 DEF Answered, Becomes, FromPolicy
      <4>. QED
        BY <2>3, <3>1, <4>1, <4>2 DEF PolicyInv, Open, Passed, Decided
    <3>. QED
      BY <3>2, <3>3
  <2>. QED
    BY <2>1, <2>2, <2>3
<1>4. ASSUME NEW k \in Call, CachedReply(k) \/ RunTool(k) PROVE PolicyInv(j)'
  <2>1. CASE j # k
    BY <1>4, <2>1, OthersKeepPolicy DEF CachedReply, RunTool, Answered, Becomes
  <2>2. CASE j = k
    <3>1. Passed(k)
      BY <1>4, <2>2 DEF CachedReply, RunTool, PolicyInv
    <3>2. /\ stage'[k] \in {"computed", "answered"} /\ source'[k] \in {"cache", "tool"}
          /\ UNCHANGED <<data, inForce>>
      BY <1>4 DEF CachedReply, RunTool, Answered, Becomes
    <3>. QED
      BY <2>2, <3>1, <3>2 DEF PolicyInv, Open, Passed, Decided
  <2>. QED
    BY <2>1, <2>2
<1>5. ASSUME NEW k \in Call, CleanCache(k) \/ StoreAnswer(k) PROVE PolicyInv(j)'
  <2>1. CASE j # k
    BY <1>5, <2>1, OthersKeepPolicy DEF CleanCache, StoreAnswer, Becomes
  <2>2. CASE j = k
    BY <1>5, <2>2 DEF CleanCache, StoreAnswer, Becomes, PolicyInv, Open, Passed, Decided
  <2>. QED
    BY <2>1, <2>2
<1>6. CASE ReloadCag
  <2>1. /\ inForce'[j] = IF Open(j) THEN inForce[j] \cup {policies'} ELSE inForce[j]
        /\ UNCHANGED <<data, stage, answer, source>>
    BY <1>6 DEF ReloadCag
  <2>. QED
    BY <2>1 DEF PolicyInv, Open, Passed, Decided
<1>7. CASE Restart
  BY <1>7 DEF Restart, UnderWay, PolicyInv, Open, Passed, Decided
<1>8. CASE Background \/ UNCHANGED vars
  BY <1>8, OthersKeepPolicy DEF Background, callVars, vars
<1>. QED
  BY <1>1, <1>2, <1>3, <1>4, <1>5, <1>6, <1>7, <1>8 DEF Next, Execute

\* A question that policies answer is answered by policies in force at some time
\* before they were consulted for it, and by nothing else (main.rs:60-86).
THEOREM PoliciesRule == Spec => []PoliciesDecide
<1>1. Init => PolicyInvariant
  BY DEF Init, PolicyInvariant, PolicyInv, Open, Passed, Decided
<1>2. PolicyInvariant => PoliciesDecide
  BY DEF PolicyInvariant, PolicyInv, Decided, PoliciesDecide
<1>. QED
  BY <1>1, <1>2, StepKeepsPolicy, GatewayTypes, PTL DEF Spec
-----------------------------------------------------------------------------
(* What the cache holds                                                      *)

\* Entry e of slot s was stored by call j.
StoredBy(j, s, e) ==
    /\ storedAt[j] # None /\ storedAt[j] = e.at
    /\ CacheKey[data[j]] = s
    /\ answer[j] = e.value
    /\ Ttl(answer[j].intent) = e.ttl

CacheSound == \A s \in Slot : store[s] # None => \E j \in Call : StoredBy(j, s, store[s])
StoredLast == \A k \in Call : storedAt[k] # None => stage[k] = "answered"

LEMMA StillStored ==
    ASSUME NEW j, NEW s, NEW e, StoredBy(j, s, e),
           storedAt'[j] = storedAt[j], data'[j] = data[j], answer'[j] = answer[j]
    PROVE  /\ storedAt'[j] # None /\ storedAt'[j] = e.at
           /\ CacheKey[data'[j]] = s /\ answer'[j] = e.value
           /\ Ttl(answer'[j].intent) = e.ttl
  BY Zenon DEF StoredBy

LEMMA CacheStaysSound ==
    ASSUME CacheSound,
           \A s \in Slot : store'[s] # None => store'[s] = store[s],
           \A j \in Call : storedAt[j] # None => /\ storedAt'[j] = storedAt[j]
                                                 /\ data'[j] = data[j]
                                                 /\ answer'[j] = answer[j]
    PROVE  CacheSound'
<1>. SUFFICES ASSUME NEW s \in Slot, store'[s] # None
              PROVE  \E j \in Call : StoredBy(j, s, store[s])'
  BY DEF CacheSound
<1>1. PICK j \in Call : StoredBy(j, s, store[s])
  BY DEF CacheSound
<1>2. store'[s] = store[s]
  OBVIOUS
<1>3. storedAt'[j] = storedAt[j] /\ data'[j] = data[j] /\ answer'[j] = answer[j]
  BY <1>1 DEF StoredBy
<1>. QED
  BY <1>1, <1>2, <1>3, StillStored DEF StoredBy

LEMMA StoringKeepsSound ==
    ASSUME CallTypes, DataGiven, CacheSound, StoredLast, now \in Nat,
           NEW k \in Call, StoreAnswer(k)
    PROVE  CacheSound'
<1>. DEFINE s == CacheKey[data[k]]
            e == [value |-> answer[k], at |-> now, ttl |-> Ttl(answer[k].intent)]
<1>1. s \in Slot
  BY GatewayAssumption DEF StoreAnswer, DataGiven
<1>2. store' = [store EXCEPT ![s] = e]
         \/ \E victim \in Slot : store' = [store EXCEPT ![victim] = None, ![s] = e]
  BY DEF StoreAnswer, Cache!Insert, Cache!InsertAt, Cache!InsertEvicting, Cache!Oldest, Cache!Used
<1>3. store'[s] = e /\ \A t \in Slot \ {s} : store'[t] # None => store'[t] = store[t]
  BY <1>1, <1>2 DEF CallTypes, Cache!StoreTypeOK
<1>4. storedAt'[k] = now /\ UNCHANGED <<data, answer>>
  BY DEF StoreAnswer, CallTypes
<1>5. ASSUME NEW t \in Slot, t = s
      PROVE  \E j \in Call : StoredBy(j, t, store[t])'
  <2>1. StoredBy(k, t, store[t])'
    BY <1>3, <1>4, <1>5, ToolsAssumption DEF StoredBy
  <2>. QED
    BY <2>1
<1>6. ASSUME NEW t \in Slot \ {s}, store'[t] # None
      PROVE  \E j \in Call : StoredBy(j, t, store[t])'
  <2>1. store'[t] = store[t]
    BY <1>3, <1>6
  <2>2. PICK j \in Call : StoredBy(j, t, store[t])
    BY <1>6, <2>1 DEF CacheSound
  <2>3. storedAt'[j] = storedAt[j]
    BY <2>2 DEF StoredBy, StoredLast, StoreAnswer, CallTypes
  <2>. QED
    BY <1>4, <2>1, <2>2, <2>3, StillStored DEF StoredBy
<1>. HIDE DEF s
<1>7. ASSUME NEW t \in Slot, store'[t] # None
      PROVE  \E j \in Call : StoredBy(j, t, store[t])'
  BY <1>5, <1>6, <1>7
<1>. QED
  BY <1>7 DEF CacheSound

LEMMA StepKeepsCacheSound ==
    ASSUME CallTypes, DataGiven, CacheSound, StoredLast, now \in Nat, [Next]_vars
    PROVE  CacheSound' /\ StoredLast'
<1>. USE DEF CallTypes
<1>1. ASSUME NEW k \in Call, Arrive(k) \/ Admit(k) \/ Intercept(k) \/ CachedReply(k) \/ RunTool(k)
      PROVE  CacheSound' /\ StoredLast'
  <2>1. /\ stage[k] # "answered" /\ UNCHANGED <<store, storedAt>>
        /\ \A j \in Call \ {k} : /\ data'[j] = data[j] /\ answer'[j] = answer[j]
                                 /\ stage'[j] = stage[j]
    BY <1>1 DEF Arrive, Admit, Intercept, CachedReply, RunTool, Answered, Becomes
  <2>2. storedAt[k] = None
    BY <2>1 DEF StoredLast
  <2>3. StoredLast'
    BY <2>1, <2>2 DEF StoredLast
  <2>. QED
    BY <2>1, <2>2, <2>3, CacheStaysSound
<1>2. ASSUME NEW k \in Call, CleanCache(k) PROVE CacheSound' /\ StoredLast'
  <2>1. \A s \in Slot : store'[s] # None => store'[s] = store[s]
    BY <1>2 DEF CleanCache, Cache!Cleanup
  <2>2. StoredLast'
    BY <1>2 DEF CleanCache, Becomes, StoredLast
  <2>. QED
    BY <1>2, <2>1, <2>2, CacheStaysSound DEF CleanCache
<1>3. ASSUME NEW k \in Call, StoreAnswer(k) PROVE CacheSound' /\ StoredLast'
  <2>1. StoredLast'
    BY <1>3 DEF StoreAnswer, Becomes, StoredLast
  <2>. QED
    BY <1>3, <2>1, StoringKeepsSound
<1>4. CASE Restart
  <2>1. \A s \in Slot : store'[s] = None
    BY <1>4 DEF Restart, Cache!EmptyStore
  <2>2. StoredLast'
    BY <1>4 DEF Restart, UnderWay, StoredLast
  <2>. QED
    BY <2>1, <2>2 DEF CacheSound
<1>5. CASE ReloadCag \/ Background \/ UNCHANGED vars
  <2>1. UNCHANGED <<store, storedAt, data, answer, stage>>
    BY <1>5 DEF ReloadCag, Background, callVars, vars
  <2>2. StoredLast'
    BY <2>1 DEF StoredLast
  <2>. QED
    BY <2>1, <2>2, CacheStaysSound
<1>. QED
  BY <1>1, <1>2, <1>3, <1>4, <1>5 DEF Next, Execute

\* What a hit returns was stored for the same key no longer ago than its time to live.
LEMMA HitStands ==
    ASSUME CallTypes, DataGiven, CacheSound, StoredLast, now \in Nat, [Next]_vars,
           NEW k \in Call, source[k] # "cache", source'[k] = "cache"
    PROVE  \E j \in Call \ {k} :
               /\ storedAt[j] # None
               /\ storedAt[j] + Ttl(answer[j].intent) >= now
               /\ CacheKey[data[j]] = CacheKey[data[k]]
               /\ answer[j] = answer'[k]
<1>1. CachedReply(k)
  <2>1. ASSUME NEW i \in Call, Execute(i) \/ Arrive(i) PROVE CachedReply(k)
    <3>1. i = k
      BY <2>1 DEF CallTypes, Execute, Arrive, Admit, Intercept, CachedReply, RunTool, CleanCache,
                  StoreAnswer, Answered
    <3>. QED
      BY <2>1, <3>1 DEF CallTypes, Execute, Arrive, Admit, Intercept, RunTool, CleanCache,
                        StoreAnswer, Answered
  <2>2. ~(ReloadCag \/ Restart \/ Background \/ UNCHANGED vars)
    BY DEF ReloadCag, Restart, Background, callVars, vars
  <2>. QED
    BY <2>1, <2>2 DEF Next
<1>. DEFINE s == CacheKey[data[k]]
<1>2. s \in Slot /\ stage[k] = "missed" /\ store[s] # None /\ answer'[k] = store[s].value
  BY <1>1, GatewayAssumption DEF CachedReply, Cache!Hit, Answered, CallTypes, DataGiven
<1>3. PICK j \in Call : StoredBy(j, s, store[s])
  BY <1>2 DEF CacheSound
<1>4. j # k
  BY <1>2, <1>3 DEF StoredBy, StoredLast
<1>5. store[s].at \in Nat /\ store[s].ttl \in Nat
  BY <1>2, GatewayAssumption DEF CallTypes, Cache!StoreTypeOK, Cache!Entry
<1>6. store[s].at + store[s].ttl >= now
  BY <1>1, <1>5 DEF CachedReply, Cache!Hit, Cache!Expired
<1>. QED
  BY <1>2, <1>3, <1>4, <1>6 DEF StoredBy

\* A cached answer is one that another call with the same key computed and stored, no
\* longer ago than its time to live, however inserts, cleanups, evictions, reloads and
\* restarts come in between (main.rs:88-110, cache.rs:34-76).
THEOREM CacheAnswersStand == Spec => CachedAnswerStands
<1>1. Init => CacheSound /\ StoredLast
  BY DEF Init, CacheSound, StoredLast, Cache!EmptyStore
<1>2. LimiterInv /\ CallTypes /\ DataGiven /\ CacheSound /\ StoredLast /\ [Next]_vars
          => CacheSound' /\ StoredLast'
  BY ClockCounts, StepKeepsCacheSound
<1>. DEFINE A == \A k \in Call : source[k] # "cache" /\ source'[k] = "cache" =>
                     \E j \in Call \ {k} :
                         /\ storedAt[j] # None
                         /\ storedAt[j] + Ttl(answer[j].intent) >= now
                         /\ CacheKey[data[j]] = CacheKey[data[k]]
                         /\ answer[j] = answer'[k]
<1>3. LimiterInv /\ CallTypes /\ DataGiven /\ CacheSound /\ StoredLast /\ [Next]_vars
          => [A]_vars
  BY ClockCounts, HitStands
<1>4. CachedAnswerStands <=> [][A]_vars
  BY DEF CachedAnswerStands
<1>. HIDE DEF A
<1>. QED
  BY <1>1, <1>2, <1>3, <1>4, GatewayTypes, PTL DEF Spec
=============================================================================

-------------------------- MODULE CountCache_proofs --------------------------
(***************************************************************************)
(* Theorems about CountCache, for every number of requests, threads, syncs *)
(* and batches.                                                            *)
(***************************************************************************)
EXTENDS CountCache, FiniteSetTheorems, WellFoundedInduction, TLAPS

USE CountAssumption DEF CountAssumption

-----------------------------------------------------------------------------
(* MAX(completed_at)                                                       *)

LEMMA LessIsWellFounded == IsWellFoundedOn({r \in Nat \X Nat : r[1] < r[2]}, Nat)
BY NatLessThanWellFounded DEF OpToRel

LEMMA Least == ASSUME NEW T \in SUBSET Nat, T # {} PROVE \E x \in T : \A y \in T : x <= y
<1> DEFINE less == {r \in Nat \X Nat : r[1] < r[2]}
<1>1. IsWellFoundedOn(less, Nat)
  BY LessIsWellFounded
<1>2. \A x, y \in Nat : <<x, y>> \in less <=> x < y
  OBVIOUS
<1> HIDE DEF less
<1>3. T \subseteq Nat
  OBVIOUS
<1>4. PICK x \in T : \A y \in T : ~(<<y, x>> \in less)
  BY <1>1, <1>3, WFMin
<1>5. ASSUME NEW y \in T PROVE x <= y
  <2>1. x \in Nat /\ y \in Nat
    BY <1>3
  <2>2. ~(y < x)
    BY <1>2, <1>4, <2>1
  <2> QED
    BY <2>1, <2>2
<1> QED
  BY <1>5

(* A set of bounded numbers has a greatest one: the least upper bound.     *)
LEMMA Greatest ==
  ASSUME NEW n \in Nat, NEW S \in SUBSET (1 .. n), S # {}
  PROVE  \E m \in S : \A k \in S : k <= m
<1> DEFINE Bounds == {m \in Nat : \A k \in S : k <= m}
<1>1. n \in Bounds /\ Bounds \in SUBSET Nat
  OBVIOUS
<1>2. PICK m \in Bounds : \A b \in Bounds : m <= b
  BY <1>1, Least
<1>3. m \in S
  <2> SUFFICES ASSUME m \notin S PROVE FALSE
    OBVIOUS
  <2>1. PICK k \in S : TRUE
    OBVIOUS
  <2>2. k >= 1 /\ k < m /\ m - 1 \in Nat
    BY <1>2, <2>1
  <2>3. m - 1 \in Bounds
    BY <1>2, <2>2
  <2> QED
    BY <1>2, <2>3
<1> QED
  BY <1>2, <1>3

(* The freshness key is a sync that has completed, or 0.                   *)
LEMMA KeyIsPast ==
  ASSUME TypeOK
  PROVE  FreshnessKey \in Keys /\ FreshnessKey <= syncs
<1>1. syncs \in Nat /\ syncs <= MaxSyncs /\ completed \in SUBSET (1 .. syncs)
  BY DEF TypeOK, Keys
<1>2. CASE completed = {}
  BY <1>1, <1>2 DEF FreshnessKey, Keys
<1>3. CASE completed # {}
  <2>1. \E m \in completed : \A k \in completed : k <= m
    BY <1>1, <1>3, Greatest
  <2>2. FreshnessKey \in completed
    BY <1>3, <2>1 DEF FreshnessKey
  <2> QED
    BY <1>1, <2>2 DEF Keys
<1> QED
  BY <1>2, <1>3

-----------------------------------------------------------------------------
(* The inductive invariant                                                 *)

Active(t) == thread[t].at # "none"

(* One refresh thread at a time, under the key that is taken: what makes   *)
(* OneRefresh inductive.                                                   *)
Refreshing ==
  /\ \A t \in Threads : Active(t) => thread[t].key = refreshKey
  /\ \A t, u \in Threads : Active(t) /\ Active(u) => t = u
  /\ refreshKey # None => \E t \in Threads : Active(t)
  /\ \A t \in Threads : ~Active(t) => thread[t] = NoThread
  /\ \A t \in Threads : thread[t].at = "count" => thread[t].counts = None

(* A key stands for a sync that has completed, whose entry of doneAt is    *)
(* final.                                                                  *)
Past ==
  /\ \A k \in Keys : doneAt[k] <= batches
  /\ \A q \in Requests : request[q] # None => request[q] <= syncs
  /\ \A t \in Threads : thread[t].key <= syncs
  /\ cache # None => cache.key <= syncs
  /\ answer # None => answer.key <= syncs

(* Counts cover the sync of the key they are filed under, and the counts a *)
(* thread brings are not older than the entry they replace.                *)
Covered ==
  /\ cache # None => doneAt[cache.key] <= cache.counts /\ cache.counts <= batches
  /\ \A t \in Threads : thread[t].counts # None =>
       /\ doneAt[thread[t].key] <= thread[t].counts /\ thread[t].counts <= batches
       /\ cache # None => cache.counts <= thread[t].counts
  /\ CountsCoverSync

IInv == TypeOK /\ Refreshing /\ Past /\ Covered

(* The numbers among the variables.                                        *)
LEMMA Numbers ==
  ASSUME TypeOK
  PROVE  /\ batches \in Nat /\ syncs \in Nat /\ syncs \in Keys
         /\ \A k \in Keys : k \in Nat /\ doneAt[k] \in Nat
         /\ cache # None => cache.key \in Keys /\ cache.counts \in Nat
         /\ \A t \in Threads : /\ thread[t].key \in Keys
                               /\ thread[t].counts # None => thread[t].counts \in Nat
         /\ answer # None => /\ answer.key \in Keys
                             /\ answer.counts # None => answer.counts \in Nat
<1>1. (\A k \in Keys : k \in Nat) /\ (\A n \in Counts : n \in Nat)
  BY DEF Keys, Counts
<1>2. \A t \in Threads : thread[t].key \in Keys /\ thread[t].counts \in Counts \cup {None}
  BY DEF TypeOK
<1> QED
  BY <1>1, <1>2 DEF TypeOK, Entry

LEMMA Initially == Init => IInv
<1> SUFFICES ASSUME Init PROVE IInv
  OBVIOUS
<1>1. NoThread \in [at : {"none", "count", "publish"}, key : Keys, counts : Counts \cup {None}]
  BY DEF NoThread, Keys
<1>2. TypeOK
  BY <1>1 DEF Init, TypeOK, Keys, Counts
<1>3. \A t \in Threads : thread[t] = NoThread
  BY DEF Init
<1>4. NoThread.at = "none" /\ NoThread.key = 0 /\ NoThread.counts = None
  BY DEF NoThread
<1>5. Refreshing
  BY <1>3, <1>4 DEF Refreshing, Active, Init
<1>6. Past
  BY <1>3, <1>4 DEF Past, Init, Keys
<1>7. Covered
  BY <1>3, <1>4 DEF Covered, CountsCoverSync, Init
<1> QED
  BY <1>2, <1>5, <1>6, <1>7 DEF IInv

(* The sync goes on: more batches, and a sync that completes under a       *)
(* number no key has yet.                                                  *)
LEMMA SyncSteps ==
  ASSUME IInv, Batch \/ Complete \/ \E n \in Keys : Reset(n)
  PROVE  IInv'
<1>0. TypeOK
  BY DEF IInv
<1>1. UNCHANGED <<cache, refreshKey, thread, request, answer, faults>>
  BY DEF Batch, Complete, Reset
<1>2. Refreshing'
  BY <1>1 DEF IInv, Refreshing, Active
<1>3. TypeOK'
  <2>1. CASE Batch
    BY <1>0, <1>1, <2>1 DEF TypeOK, Batch, Counts
  <2>2. CASE Complete
    BY <1>0, <1>1, <2>2 DEF TypeOK, Complete, Keys
  <2>3. CASE \E n \in Keys : Reset(n)
    BY <1>0, <1>1, <2>3 DEF TypeOK, Reset
  <2> QED
    BY <2>1, <2>2, <2>3
<1>4. /\ batches <= batches' /\ syncs <= syncs' /\ syncs \in Nat /\ syncs' \in Nat
      /\ batches \in Nat /\ batches' \in Nat
      /\ \A k \in Keys : k <= syncs => doneAt'[k] = doneAt[k]
      /\ \A k \in Keys : doneAt'[k] = doneAt[k] \/ doneAt'[k] = batches
  <2>1. batches \in Nat /\ syncs \in Nat /\ \A k \in Keys : k \in Nat
    BY <1>0, Numbers
  <2>2. CASE Batch \/ \E n \in Keys : Reset(n)
    BY <2>1, <2>2 DEF Batch, Reset
  <2>3. CASE Complete
    <3>1. syncs + 1 \in Keys /\ doneAt \in [Keys -> Counts]
      BY <1>0, <2>1, <2>3 DEF Complete, TypeOK, Keys
    <3>2. \A k \in Keys : doneAt'[k] = IF k = syncs + 1 THEN batches ELSE doneAt[k]
      BY <2>3, <3>1 DEF Complete
    <3> QED
      BY <2>1, <2>3, <3>2 DEF Complete
  <2> QED
    BY <2>2, <2>3
<1>5. Past'
  <2>1. Past
    BY DEF IInv
  <2>2. \A k \in Keys : doneAt'[k] <= batches'
    BY <1>0, <1>4, <2>1, Numbers DEF Past
  <2>3. ASSUME NEW k \in Keys, k <= syncs PROVE k <= syncs'
    BY <1>4, <2>3 DEF Keys
  <2> QED
    BY <1>0, <1>1, <2>1, <2>2, <2>3 DEF Past, TypeOK, Entry
<1>6. Covered'
  <2>1. Covered /\ Past
    BY DEF IInv
  <2>2. cache # None => /\ doneAt'[cache.key] = doneAt[cache.key]
                        /\ cache.counts \in Nat /\ cache.counts <= batches'
    BY <1>0, <1>4, <2>1, Numbers DEF Past, Covered
  <2>3. \A t \in Threads : /\ doneAt'[thread[t].key] = doneAt[thread[t].key]
                           /\ thread[t].counts # None =>
                                thread[t].counts \in Nat /\ thread[t].counts <= batches'
    BY <1>0, <1>4, <2>1, Numbers DEF Past, Covered
  <2>4. answer # None => doneAt'[answer.key] = doneAt[answer.key]
    BY <1>0, <1>4, <2>1, Numbers DEF Past
  <2> QED
    BY <1>1, <2>1, <2>2, <2>3, <2>4 DEF Covered, CountsCoverSync
<1> QED
  BY <1>2, <1>3, <1>5, <1>6 DEF IInv

LEMMA ReadKeyStep ==
  ASSUME IInv, NEW q \in Requests, ReadKey(q)
  PROVE  IInv'
<1>1. FreshnessKey \in Keys /\ FreshnessKey <= syncs
  BY KeyIsPast DEF IInv
<1>2. /\ request' = [request EXCEPT ![q] = FreshnessKey]
      /\ UNCHANGED <<batches, completed, doneAt, syncs, cache, refreshKey, thread, answer, faults>>
  BY DEF ReadKey, catalogue
<1> HIDE DEF FreshnessKey
<1>3. TypeOK'
  BY <1>1, <1>2 DEF IInv, TypeOK
<1>4. Past'
  <2>1. \A r \in Requests : request'[r] = IF r = q THEN FreshnessKey ELSE request[r]
    BY <1>2 DEF IInv, TypeOK
  <2> QED
    BY <1>1, <1>2, <2>1 DEF IInv, Past
<1>5. Refreshing' /\ Covered'
  BY <1>2 DEF IInv, Refreshing, Active, Covered, CountsCoverSync
<1> QED
  BY <1>3, <1>4, <1>5 DEF IInv

(* A request answers from the cache and may start a refresh.               *)
LEMMA CurrentCountsStep ==
  ASSUME IInv, NEW q \in Requests, CurrentCounts(q)
  PROVE  IInv'
<1>0. TypeOK /\ Refreshing /\ Past /\ Covered
  BY DEF IInv
<1>1. PICK key \in Keys : key = request[q] /\ key <= syncs /\ key # None
  <2>1. request[q] \in Keys /\ request[q] # None
    BY <1>0 DEF CurrentCounts, TypeOK
  <2> QED
    BY <1>0, <2>1 DEF Past
<1>2. /\ request' = [request EXCEPT ![q] = None]
      /\ answer' = [key |-> key, counts |-> IF Cached(key) THEN cache.counts ELSE None]
      /\ UNCHANGED <<batches, completed, doneAt, syncs, cache>>
  BY <1>1 DEF CurrentCounts, Answer, catalogue
<1>3. answer'.key = key /\ answer'.counts = IF Cached(key) THEN cache.counts ELSE None
  BY <1>2
<1>4. answer'.counts # None => answer'.counts \in Counts /\ answer'.counts >= doneAt[key]
  BY <1>0, <1>3, Numbers DEF Cached, Covered, TypeOK, Entry
<1>5. /\ answer' \in [key : Keys, counts : Counts \cup {None}]
      /\ request' \in [Requests -> Keys \cup {None}]
  <2>1. (IF Cached(key) THEN cache.counts ELSE None) \in Counts \cup {None}
    BY <1>3, <1>4
  <2>2. request' \in [Requests -> Keys \cup {None}]
    BY <1>0, <1>2 DEF TypeOK
  <2> QED
    BY <1>2, <2>1, <2>2
<1>6. /\ \A r \in Requests : request'[r] # None => request'[r] <= syncs
      /\ answer'.key <= syncs
  BY <1>0, <1>1, <1>2, <1>3 DEF TypeOK, Past
<1>7. CASE UNCHANGED <<refreshKey, thread, faults>>
  <2>1. TypeOK'
    BY <1>0, <1>2, <1>5, <1>7 DEF TypeOK
  <2>2. Refreshing' /\ Past'
    BY <1>0, <1>2, <1>6, <1>7 DEF Refreshing, Active, Past
  <2>3. Covered'
    BY <1>0, <1>2, <1>3, <1>4, <1>7 DEF Covered, CountsCoverSync
  <2> QED
    BY <2>1, <2>2, <2>3 DEF IInv
<1>8. CASE StartRefresh(key) /\ refreshKey = None
  <2>1. \A t \in Threads : ~Active(t) /\ thread[t] = NoThread
    <3>1. \A t \in Threads : thread[t].key # None
      BY <1>0, Numbers
    <3> QED
      BY <1>0, <1>8, <3>1 DEF Refreshing
  <2>2. NoThread.at = "none" /\ NoThread.key = 0 /\ NoThread.counts = None
    BY DEF NoThread
  <2>3. CASE refreshKey' = None /\ thread' = thread /\ faults' \in 0 .. MaxFaults
    <3>1. TypeOK'
      BY <1>0, <1>2, <1>5, <2>3 DEF TypeOK
    <3>2. Refreshing' /\ Past'
      BY <1>0, <1>2, <1>6, <1>8, <2>3 DEF Refreshing, Active, Past
    <3>3. Covered'
      BY <1>0, <1>2, <1>3, <1>4, <2>3 DEF Covered, CountsCoverSync
    <3> QED
      BY <3>1, <3>2, <3>3 DEF IInv
  <2>4. ASSUME NEW t \in Threads, UNCHANGED faults, refreshKey' = key,
               thread' = [thread EXCEPT ![t] = [at |-> "count", key |-> key, counts |-> None]]
        PROVE  IInv'
    <3> DEFINE n == [at |-> "count", key |-> key, counts |-> None]
    <3>1. /\ thread'[t] = n /\ n.at = "count" /\ n.key = key /\ n.counts = None
          /\ n \in [at : {"none", "count", "publish"}, key : Keys, counts : Counts \cup {None}]
          /\ \A u \in Threads : u # t => thread'[u] = NoThread
      BY <1>0, <2>1, <2>4 DEF TypeOK
    <3> HIDE DEF n
    <3>2. TypeOK'
      BY <1>0, <1>2, <1>5, <2>4, <3>1 DEF TypeOK, n
    <3>3. Refreshing'
      BY <2>2, <2>4, <3>1 DEF Refreshing, Active
    <3>4. Past'
      BY <1>0, <1>1, <1>2, <1>6, <2>2, <3>1, Numbers DEF Past
    <3>5. Covered'
      BY <1>0, <1>2, <1>3, <1>4, <2>2, <3>1 DEF Covered, CountsCoverSync
    <3> QED
      BY <3>2, <3>3, <3>4, <3>5 DEF IInv
  <2>5. faults < MaxFaults /\ faults' = faults + 1 => faults' \in 0 .. MaxFaults
    BY <1>0 DEF TypeOK
  <2> QED
    BY <1>8, <2>3, <2>4, <2>5 DEF StartRefresh
<1> QED
  BY <1>1, <1>7, <1>8 DEF CurrentCounts, MayRefresh

LEMMA ExpireStep ==
  ASSUME IInv, Expire
  PROVE  IInv'
<1>0. TypeOK /\ cache # None /\ cache \in Entry
  BY DEF IInv, TypeOK, Expire
<1>1. /\ cache' \in Entry /\ cache'.key = cache.key /\ cache'.counts = cache.counts
      /\ UNCHANGED <<batches, completed, doneAt, syncs, refreshKey, thread, request, answer, faults>>
  BY <1>0 DEF Expire, Entry, catalogue
<1>2. TypeOK' /\ Refreshing'
  BY <1>1 DEF IInv, TypeOK, Refreshing, Active
<1>3. Past' /\ Covered'
  BY <1>0, <1>1 DEF IInv, Past, Covered, CountsCoverSync
<1> QED
  BY <1>2, <1>3 DEF IInv

(* The aggregate is taken: it is as new as the catalogue.                  *)
LEMMA CountStep ==
  ASSUME IInv, NEW t \in Threads, Count(t)
  PROVE  IInv'
<1>0. TypeOK /\ Refreshing /\ Past /\ Covered /\ Active(t)
  BY DEF IInv, Count, Active
<1>1. /\ UNCHANGED <<batches, completed, doneAt, syncs, cache, refreshKey, request, answer>>
      /\ faults' \in 0 .. MaxFaults
  BY <1>0 DEF Count, catalogue, TypeOK
<1>2. PICK n \in Counts \cup {None} :
        /\ n = None \/ n = batches
        /\ thread'[t] = [at |-> "publish", key |-> thread[t].key, counts |-> n]
        /\ thread' = [thread EXCEPT ![t] = thread'[t]]
  <2>1. thread[t] \in [at : {"none", "count", "publish"}, key : Keys,
                       counts : Counts \cup {None}]
    BY <1>0 DEF TypeOK
  <2>2. thread[t].counts = None
    BY <1>0 DEF Refreshing, Count
  <2>3. \/ thread' = [thread EXCEPT ![t].at = "publish", ![t].counts = batches]
        \/ thread' = [thread EXCEPT ![t].at = "publish"]
    BY DEF Count
  <2> DEFINE Counted(n) == [at |-> "publish", key |-> thread[t].key, counts |-> n]
  <2>4. CASE thread' = [thread EXCEPT ![t].at = "publish", ![t].counts = batches]
    <3>1. thread'[t] = [thread[t] EXCEPT !.at = "publish", !.counts = batches]
      BY <1>0, <2>4 DEF TypeOK
    <3>2. thread'[t] = Counted(batches) /\ batches \in Counts
      BY <1>0, <2>1, <3>1 DEF TypeOK
    <3>3. thread' = [thread EXCEPT ![t] = thread'[t]]
      BY <1>0, <2>4, <3>1 DEF TypeOK
    <3> QED
      BY <3>2, <3>3
  <2>5. CASE thread' = [thread EXCEPT ![t].at = "publish"]
    <3>1. thread'[t] = [thread[t] EXCEPT !.at = "publish"]
      BY <1>0, <2>5 DEF TypeOK
    <3>2. thread'[t] = Counted(None)
      BY <2>1, <2>2, <3>1
    <3>3. thread' = [thread EXCEPT ![t] = thread'[t]]
      BY <1>0, <2>5, <3>1 DEF TypeOK
    <3> QED
      BY <3>2, <3>3
  <2> QED
    BY <2>3, <2>4, <2>5
<1>3. /\ thread'[t].at = "publish" /\ thread'[t].key = thread[t].key /\ thread'[t].counts = n
      /\ \A u \in Threads : u # t => thread'[u] = thread[u]
  BY <1>0, <1>2 DEF TypeOK
<1>4. TypeOK'
  <2>1. thread'[t] \in [at : {"none", "count", "publish"}, key : Keys,
                        counts : Counts \cup {None}]
    BY <1>0, <1>2, Numbers
  <2>2. thread' \in [Threads -> [at : {"none", "count", "publish"}, key : Keys,
                                counts : Counts \cup {None}]]
    BY <1>0, <1>2, <2>1 DEF TypeOK
  <2> QED
    BY <1>0, <1>1, <2>2 DEF TypeOK
<1>5. Refreshing' /\ Past'
  BY <1>0, <1>1, <1>3 DEF Refreshing, Active, Past
<1>6. Covered'
  <2>1. n # None => /\ doneAt[thread[t].key] <= n /\ n <= batches
                    /\ cache # None => cache.counts <= n
    BY <1>0, <1>2, Numbers DEF Past, Covered
  <2> QED
    BY <1>0, <1>1, <1>3, <2>1 DEF Covered, CountsCoverSync
<1> QED
  BY <1>4, <1>5, <1>6 DEF IInv

(* The entry is replaced by a newer one, and the key is free again.        *)
LEMMA PublishStep ==
  ASSUME IInv, NEW t \in Threads, Publish(t)
  PROVE  /\ IInv'
         /\ cache # None /\ cache' # None => cache'.counts >= cache.counts
<1>0. TypeOK /\ Refreshing /\ Past /\ Covered /\ Active(t) /\ refreshKey = thread[t].key
  BY DEF IInv, Publish, Active, Refreshing
<1>1. /\ UNCHANGED <<batches, completed, doneAt, syncs, request, answer, faults>>
      /\ refreshKey' = None
      /\ thread' = [thread EXCEPT ![t] = NoThread]
      /\ IF thread[t].counts = None THEN cache' = cache
         ELSE cache' = [key |-> thread[t].key, counts |-> thread[t].counts, fresh |-> TRUE]
  BY <1>0 DEF Publish, GiveBack, EntryKey, catalogue
<1>2. \A u \in Threads : thread'[u] = NoThread
  BY <1>0, <1>1 DEF TypeOK, Refreshing
<1>3. /\ NoThread.at = "none" /\ NoThread.key = 0 /\ NoThread.counts = None
      /\ NoThread \in [at : {"none", "count", "publish"}, key : Keys,
                        counts : Counts \cup {None}]
  BY DEF NoThread, Keys
<1>4. \/ cache' = cache
      \/ /\ thread[t].counts # None
         /\ cache'.key = thread[t].key /\ cache'.counts = thread[t].counts
         /\ cache' \in Entry
  <2>1. /\ thread[t].key \in Keys
        /\ thread[t].counts # None => thread[t].counts \in Counts
    BY <1>0 DEF TypeOK
  <2>2. CASE thread[t].counts = None
    BY <1>1, <2>2
  <2>3. CASE thread[t].counts # None
    <3>1. cache' = [key |-> thread[t].key, counts |-> thread[t].counts, fresh |-> TRUE]
      BY <1>1, <2>3
    <3> QED
      BY <2>1, <2>3, <3>1 DEF Entry
  <2> QED
    BY <2>2, <2>3
<1>5. TypeOK'
  <2>1. thread' \in [Threads -> [at : {"none", "count", "publish"}, key : Keys,
                                counts : Counts \cup {None}]]
    BY <1>0, <1>1, <1>3 DEF TypeOK
  <2> QED
    BY <1>0, <1>1, <1>4, <2>1 DEF TypeOK
<1>6. Refreshing'
  BY <1>1, <1>2, <1>3 DEF Refreshing, Active
<1>7. Past'
  BY <1>0, <1>1, <1>2, <1>3, <1>4, Numbers DEF Past
<1>8. Covered'
  BY <1>0, <1>1, <1>2, <1>3, <1>4 DEF Covered, CountsCoverSync
<1>9. cache # None /\ cache' # None => cache'.counts >= cache.counts
  BY <1>0, <1>4, Numbers DEF Covered
<1> QED
  BY <1>5, <1>6, <1>7, <1>8, <1>9 DEF IInv

LEMMA RestartStep ==
  ASSUME IInv, Restart
  PROVE  IInv'
<1>0. TypeOK /\ Past /\ Covered
  BY DEF IInv
<1>1. /\ UNCHANGED <<batches, completed, doneAt, syncs, answer>>
      /\ cache' = None /\ refreshKey' = None /\ faults' \in 0 .. MaxFaults
      /\ thread' = [t \in Threads |-> NoThread]
      /\ request' = [q \in Requests |-> None]
  BY <1>0 DEF Restart, catalogue, TypeOK
<1>2. /\ NoThread.at = "none" /\ NoThread.key = 0 /\ NoThread.counts = None
      /\ NoThread \in [at : {"none", "count", "publish"}, key : Keys,
                        counts : Counts \cup {None}]
  BY DEF NoThread, Keys
<1>3. TypeOK'
  BY <1>0, <1>1, <1>2 DEF TypeOK
<1>4. \A t \in Threads : thread'[t] = NoThread
  BY <1>1
<1>5. Refreshing'
  BY <1>1, <1>2, <1>4 DEF Refreshing, Active
<1>6. Past'
  BY <1>0, <1>1, <1>2, <1>4, Numbers DEF Past
<1>7. Covered'
  BY <1>0, <1>1, <1>2, <1>4 DEF Covered, CountsCoverSync
<1> QED
  BY <1>3, <1>5, <1>6, <1>7 DEF IInv

LEMMA StepInv ==
  ASSUME IInv, [Next]_vars
  PROVE  IInv'
<1>1. CASE UNCHANGED vars
  BY <1>1 DEF vars, catalogue, IInv, TypeOK, Refreshing, Active, Past, Covered, CountsCoverSync
<1> QED
  BY <1>1, SyncSteps, ReadKeyStep, CurrentCountsStep, ExpireStep, CountStep, PublishStep,
     RestartStep DEF Next

LEMMA InvHolds == Spec => []IInv
<1>1. IInv /\ [Next]_vars => IInv'
  BY StepInv
<1> QED
  BY <1>1, Initially, PTL DEF Spec

-----------------------------------------------------------------------------
(* The theorems                                                            *)

(* Every variable of the count cache has its type.                         *)
THEOREM CacheTyped == Spec => []TypeOK
<1>1. IInv => TypeOK
  BY DEF IInv
<1> QED
  BY <1>1, InvHolds, PTL

(* Counts returned with the time of a completed sync include what it       *)
(* imported (current_collection_counts, _refresh_collection_counts).       *)
THEOREM CountsCover == Spec => []CountsCoverSync
<1>1. IInv => CountsCoverSync
  BY DEF IInv, Covered
<1> QED
  BY <1>1, InvHolds, PTL

(* One aggregate at a time, and exactly while the key is taken: neither a  *)
(* failed start nor a failed count leaves the key behind.                  *)
THEOREM RefreshesAlone == Spec => []OneRefresh
<1>1. IInv => OneRefresh
  <2> SUFFICES ASSUME IInv PROVE OneRefresh
    OBVIOUS
  <2> DEFINE A == {t \in Threads : thread[t].at # "none"}
  <2>1. Refreshing /\ \A t \in Threads : thread[t].key # None
    BY Numbers DEF IInv
  <2>2. CASE refreshKey = None
    <3>1. A = {}
      BY <2>1, <2>2 DEF Refreshing, Active
    <3>2. Cardinality(A) = 0
      BY <3>1, FS_EmptySet
    <3> QED
      BY <2>1, <2>2, <3>2 DEF OneRefresh, Refreshing, Active
  <2>3. CASE refreshKey # None
    <3>1. PICK t \in Threads : A = {t}
      BY <2>1, <2>3 DEF Refreshing, Active
    <3>2. Cardinality(A) = 1
      BY <3>1, FS_Singleton
    <3> QED
      BY <2>1, <2>3, <3>2 DEF OneRefresh, Refreshing, Active
  <2> QED
    BY <2>2, <2>3
<1> QED
  BY <1>1, InvHolds, PTL

NeverBack == cache # None /\ cache' # None => cache'.counts >= cache.counts

LEMMA NeverBackStep ==
  ASSUME IInv, Next
  PROVE  NeverBack
<1>1. ASSUME cache' = cache PROVE NeverBack
  BY <1>1, Numbers DEF IInv, NeverBack
<1>2. CASE \E t \in Threads : Publish(t)
  BY <1>2, PublishStep DEF NeverBack
<1>3. CASE Restart
  BY <1>3 DEF Restart, NeverBack
<1>4. CASE Expire
  <2>1. cache \in Entry /\ cache.counts \in Nat
    BY <1>4, Numbers DEF IInv, TypeOK, Expire
  <2>2. cache'.counts = cache.counts
    BY <1>4, <2>1 DEF Expire, Entry
  <2> QED
    BY <2>1, <2>2 DEF NeverBack
<1>5. CASE \/ Batch \/ Complete \/ \E n \in Keys : Reset(n)
           \/ \E q \in Requests : ReadKey(q) \/ CurrentCounts(q)
           \/ \E t \in Threads : Count(t)
  BY <1>1, <1>5 DEF Batch, Complete, Reset, ReadKey, CurrentCounts, Count
<1> QED
  BY <1>2, <1>3, <1>4, <1>5 DEF Next

(* An entry is never replaced by an older count, whichever request started *)
(* the refresh (_refresh_collection_counts).                               *)
THEOREM CountsGrow == Spec => CountsNeverGoBack
<1>1. IInv /\ [Next]_vars => [NeverBack]_vars
  BY NeverBackStep
<1> QED
  BY <1>1, InvHolds, PTL DEF Spec, CountsNeverGoBack, NeverBack
=============================================================================

---------------------------- MODULE Payload_proofs ----------------------------
(***************************************************************************)
(* Theorems about Payload, for every number of releases, every finite set  *)
(* of pieces, every choice of the limits and every bound.                  *)
(***************************************************************************)
EXTENDS Payload, FiniteSetTheorems, TLAPS

LEMMA Parameters ==
  /\ MaxRel \in Nat /\ Base \in Nat /\ At90 \in Nat /\ At95 \in Nat /\ At99 \in Nat
  /\ Grace \in Nat /\ Base <= At90 /\ At90 <= At95
  /\ None \notin Inodes /\ Prev \in Names /\ Prev \notin Releases
  /\ \A i \in Releases : i \in Names /\ i \in Nat
BY PayloadAssumption DEF PayloadAssumption, Inodes, Prev, Names, Releases

-----------------------------------------------------------------------------
(* Inodes                                                                  *)

FileType == [Pieces -> 0 .. MaxRel]

(* Every name refers to a file with something in it; without hard links no *)
(* two names refer to one file.                                            *)
Files ==
  /\ name \in [Names -> Inodes \cup {None}]
  /\ data \in [Inodes -> FileType]
  /\ \A n \in Names : Exists(n) => File(n) # Empty

Apart == \A m, n \in Names : m # n /\ Exists(m) => name[m] # name[n]

(* The name n refers to the same file as before, with the same content.    *)
Untouched(n) == name'[n] = name[n] /\ (Exists(n) => data'[name'[n]] = File(n))

LEMMA FileFacts ==
  ASSUME Files, NEW n \in Names, Exists(n)
  PROVE  name[n] \in Inodes /\ File(n) \in FileType
BY DEF Files, Exists, File

(* There are as many inodes as names.                                      *)
LEMMA FreeInode ==
  ASSUME Files, NEW i \in Names, ~Exists(i)
  PROVE  Free \in Inodes /\ \A n \in Names : name[n] # Free
<1>1. ASSUME \A x \in Inodes : \E n \in Names : name[n] = x
      PROVE  FALSE
  <2> DEFINE S == {n \in Names : name[n] \in Inodes}
             f == [n \in S |-> name[n]]
  <2>1. Names = 0 .. MaxRel /\ MaxRel \in Nat
    BY Parameters DEF Names, Releases, Prev
  <2>2. IsFiniteSet(Names) /\ Cardinality(Names) = MaxRel + 1
    BY <2>1, FS_Interval
  <2>3. IsFiniteSet(Names \ {i}) /\ Cardinality(Names \ {i}) = MaxRel
    <3>1. IsFiniteSet(Names \ {i}) /\ Cardinality(Names \ {i}) = Cardinality(Names) - 1
      BY <2>2, FS_RemoveElement
    <3> QED
      BY <2>1, <2>2, <3>1
  <2>4. S \in SUBSET (Names \ {i})
    BY Parameters DEF Exists
  <2>5. IsFiniteSet(S) /\ Cardinality(S) <= MaxRel
    BY <2>3, <2>4, FS_Subset
  <2>6. f \in Surjection(S, Inodes)
    BY <1>1 DEF Surjection
  <2>7. Cardinality(Inodes) <= Cardinality(S)
    BY <2>5, <2>6, FS_Surjection
  <2>8. Cardinality(Inodes) = MaxRel + 1
    BY <2>1, FS_Interval DEF Inodes
  <2>9. Cardinality(S) \in Nat
    BY <2>5, FS_CardinalityType
  <2> HIDE DEF S
  <2> QED
    BY <2>1, <2>5, <2>7, <2>8, <2>9
<1>2. \E x \in Inodes : \A n \in Names : name[n] # x
  BY <1>1
<1> QED
  BY <1>2 DEF Free

-----------------------------------------------------------------------------
(* Changes of the disk                                                     *)

LEMMA StoreFacts ==
  ASSUME NEW nm \in [Names -> Inodes \cup {None}], NEW dt \in [Inodes -> FileType],
         Store(nm, dt)
  PROVE  /\ name' = nm /\ data' \in [Inodes -> FileType]
         /\ \A n \in Names : nm[n] # None => data'[nm[n]] = dt[nm[n]]
<1>1. Empty \in FileType
  BY Parameters DEF Empty, FileType
<1> QED
  BY <1>1 DEF Store

LEMMA UnlinkStep ==
  ASSUME Files, NEW m \in Names, Unlink(m)
  PROVE  /\ Files' /\ (Apart => Apart') /\ name'[m] = None
         /\ \A n \in Names \ {m} : Untouched(n)
<1> DEFINE nm == [name EXCEPT ![m] = None]
<1>1. /\ nm \in [Names -> Inodes \cup {None}] /\ nm[m] = None
      /\ \A n \in Names \ {m} : nm[n] = name[n]
  BY DEF Files
<1>2. data \in [Inodes -> FileType] /\ Store(nm, data)
  BY DEF Files, Unlink
<1> HIDE DEF nm
<1>3. /\ name' = nm /\ data' \in [Inodes -> FileType]
      /\ \A n \in Names : nm[n] # None => data'[nm[n]] = data[nm[n]]
  BY <1>1, <1>2, StoreFacts
<1>4. \A n \in Names \ {m} : Untouched(n)
  BY <1>1, <1>3 DEF Untouched, Exists, File
<1>5. Files'
  BY <1>1, <1>3, <1>4 DEF Files, Untouched, Exists, File
<1> QED
  BY <1>1, <1>3, <1>4, <1>5 DEF Apart, Exists

(* The new name is a second one for the retained file, or a copy of it.    *)
LEMMA LinkStep ==
  ASSUME Files, NEW i \in Releases, Exists(Prev), ~Exists(i), SeedLink(i)
  PROVE  /\ Files' /\ (~canLink /\ Apart => Apart')
         /\ \A n \in Names \ {i} : Untouched(n)
<1>1. /\ i \in Names /\ Prev \in Names /\ i # Prev /\ None \notin Inodes
      /\ name[Prev] \in Inodes /\ File(Prev) \in FileType
      /\ name \in [Names -> Inodes \cup {None}] /\ data \in [Inodes -> FileType]
      /\ File(Prev) # Empty
  BY Parameters, FileFacts DEF Files
<1>2. ASSUME NEW x \in Inodes, NEW dt \in [Inodes -> FileType],
             Store([name EXCEPT ![i] = x], dt),
             dt[x] = File(Prev),
             \A n \in Names \ {i} : Exists(n) => dt[name[n]] = File(n)
      PROVE  /\ Files' /\ \A n \in Names \ {i} : Untouched(n)
             /\ name'[i] = x /\ \A n \in Names \ {i} : name'[n] = name[n]
  <2> DEFINE nm == [name EXCEPT ![i] = x]
  <2>1. /\ nm \in [Names -> Inodes \cup {None}] /\ nm[i] = x
        /\ \A n \in Names \ {i} : nm[n] = name[n]
    BY <1>1
  <2>2. Store(nm, dt)
    BY <1>2
  <2> HIDE DEF nm
  <2>3. /\ name' = nm /\ data' \in [Inodes -> FileType]
        /\ \A n \in Names : nm[n] # None => data'[nm[n]] = dt[nm[n]]
    BY <2>1, <2>2, StoreFacts
  <2>4. \A n \in Names \ {i} : Untouched(n)
    BY <1>2, <2>1, <2>3 DEF Untouched, Exists, File
  <2>5. \A n \in Names : name'[n] # None => data'[name'[n]] # Empty
    BY <1>1, <1>2, <2>1, <2>3, <2>4 DEF Files, Untouched, Exists
  <2>6. Files'
    BY <2>1, <2>3, <2>5 DEF Files, Exists, File, Empty
  <2> QED
    BY <2>1, <2>3, <2>4, <2>6
<1>3. CASE canLink
  <2>1. Store([name EXCEPT ![i] = name[Prev]], data)
    BY <1>3 DEF SeedLink
  <2>2. data[name[Prev]] = File(Prev) /\ \A n \in Names : data[name[n]] = File(n)
    BY DEF File
  <2> QED
    BY <1>1, <1>2, <1>3, <2>1, <2>2
<1>4. CASE ~canLink
  <2>1. Free \in Inodes /\ \A n \in Names : name[n] # Free
    BY <1>1, FreeInode
  <2> DEFINE x == Free
             dt == [data EXCEPT ![x] = File(Prev)]
  <2>2. /\ dt \in [Inodes -> FileType] /\ dt[x] = File(Prev)
        /\ \A y \in Inodes \ {x} : dt[y] = data[y]
    BY <1>1, <2>1
  <2>3. Store([name EXCEPT ![i] = x], dt)
    BY <1>4 DEF SeedLink
  <2>4. \A n \in Names \ {i} : Exists(n) => name[n] \in Inodes \ {x}
    BY <2>1, FileFacts
  <2> HIDE DEF x, dt
  <2>5. \A n \in Names \ {i} : Exists(n) => dt[name[n]] = File(n)
    BY <2>2, <2>4 DEF File
  <2>6. /\ Files' /\ \A n \in Names \ {i} : Untouched(n)
        /\ name'[i] = x /\ \A n \in Names \ {i} : name'[n] = name[n]
    BY <1>2, <2>1, <2>2, <2>3, <2>5 DEF x
  <2>7. Apart => Apart'
    BY <1>1, <2>1, <2>6 DEF Apart, Exists, x
  <2> QED
    BY <2>6, <2>7
<1> QED
  BY <1>3, <1>4

(* A piece is written into the file of the release, or into a new one.     *)
LEMMA ReceiveStep ==
  ASSUME Files, rel \in Releases, NEW k \in Pieces, Receive(k)
  PROVE  /\ Files' /\ (Apart => Apart')
         /\ name'[rel] # None /\ data'[name'[rel]][k] = Content(rel)[k]
         /\ Exists(rel) => \A p \in Pieces \ {k} : data'[name'[rel]][p] = File(rel)[p]
         /\ \A n \in Names \ {rel} : name'[n] = name[n]
         /\ \A n \in Names \ {rel} : name[n] # name[rel] => Untouched(n)
<1>1. PICK i \in Releases : i = rel
  OBVIOUS
<1>2. PICK x : x = IF Exists(i) THEN name[i] ELSE Free
  OBVIOUS
<1>3. /\ i \in Names /\ None \notin Inodes
      /\ name \in [Names -> Inodes \cup {None}] /\ data \in [Inodes -> FileType]
  BY Parameters DEF Files
<1>4. /\ x \in Inodes /\ x # None
      /\ ~Exists(i) => \A n \in Names : name[n] # x
      /\ Exists(i) => x = name[i]
  BY <1>2, <1>3, FileFacts, FreeInode
<1>5. PICK v \in 1 .. MaxRel : v = Content(i)[k]
  <2>1. Content(i)[k] \in {1, i}
    BY DEF Content
  <2> QED
    BY <2>1, Parameters DEF Releases
<1> DEFINE dt == [data EXCEPT ![x][k] = v]
           nm == [name EXCEPT ![i] = x]
<1>6. /\ dt \in [Inodes -> FileType] /\ dt[x][k] = v
      /\ \A p \in Pieces \ {k} : dt[x][p] = data[x][p]
      /\ \A y \in Inodes \ {x} : dt[y] = data[y]
  <2>1. data[x] \in FileType /\ v \in 0 .. MaxRel
    BY <1>3, <1>4
  <2> QED
    BY <1>3, <1>4, <2>1 DEF FileType
<1>7. /\ nm \in [Names -> Inodes \cup {None}] /\ nm[i] = x
      /\ \A n \in Names \ {i} : nm[n] = name[n]
  BY <1>3, <1>4
<1>8. Store(nm, dt)
  BY <1>1, <1>2, <1>5 DEF Receive
<1> HIDE DEF nm, dt
<1>9. /\ name' = nm /\ data' \in [Inodes -> FileType]
      /\ \A n \in Names : nm[n] # None => data'[nm[n]] = dt[nm[n]]
  BY <1>6, <1>7, <1>8, StoreFacts
<1>10. name'[i] = x /\ data'[x][k] = v /\ \A n \in Names \ {i} : name'[n] = name[n]
  BY <1>3, <1>4, <1>6, <1>7, <1>9
<1>11. \A n \in Names \ {i} : name[n] # name[i] => Untouched(n)
  <2> SUFFICES ASSUME NEW n \in Names \ {i}, name[n] # name[i] PROVE Untouched(n)
    OBVIOUS
  <2>1. CASE Exists(n)
    <3>1. name[n] \in Inodes \ {x}
      BY <1>2, <1>3, <1>4, <2>1, FileFacts
    <3> QED
      BY <1>6, <1>7, <1>9, <2>1, <3>1 DEF Untouched, Exists, File
  <2>2. CASE ~Exists(n)
    BY <1>10, <2>2 DEF Untouched
  <2> QED
    BY <2>1, <2>2
<1>12. Exists(i) => \A p \in Pieces \ {k} : data'[name'[i]][p] = File(i)[p]
  BY <1>3, <1>4, <1>6, <1>7, <1>9 DEF File
<1>13. ASSUME NEW n \in Names, name'[n] # None
       PROVE  data'[name'[n]] # Empty
  <2>1. CASE name'[n] = x
    <3>1. data'[x][k] # 0 /\ Empty[k] = 0
      BY <1>5, <1>10 DEF Empty
    <3> QED
      BY <2>1, <3>1
  <2>2. CASE name'[n] # x
    <3>1. n # i /\ name[n] = name'[n] /\ Exists(n)
      BY <1>10, <1>13, <2>2 DEF Exists
    <3>2. name[n] \in Inodes \ {x}
      BY <2>2, <3>1, FileFacts
    <3> QED
      BY <1>6, <1>7, <1>9, <3>1, <3>2 DEF Files, Exists, File
  <2> QED
    BY <2>1, <2>2
<1>14. Files'
  BY <1>7, <1>9, <1>13 DEF Files, Exists, File, Empty
<1>15. Apart => Apart'
  BY <1>3, <1>4, <1>7, <1>9 DEF Apart, Exists
<1> QED
  BY <1>1, <1>4, <1>5, <1>10, <1>11, <1>12, <1>14, <1>15

(* The file of a release becomes the retained one.                         *)
LEMMA ReplaceStep ==
  ASSUME Files, NEW i \in Releases, Exists(i), Replace(i)
  PROVE  /\ Files' /\ (Apart => Apart')
         /\ name'[Prev] # None /\ data'[name'[Prev]] = File(i)
         /\ \A n \in Names \ {i, Prev} : Untouched(n)
<1>1. /\ i \in Names /\ Prev \in Names /\ i # Prev
      /\ name \in [Names -> Inodes \cup {None}] /\ data \in [Inodes -> FileType]
  BY Parameters DEF Files
<1>2. CASE name[i] = name[Prev]
  <2>1. UNCHANGED disk
    BY <1>2 DEF Replace
  <2> QED
    BY <1>2, <2>1 DEF disk, Files, Apart, Exists, File, Untouched, Empty
<1>3. CASE name[i] # name[Prev]
  <2> DEFINE nm == [name EXCEPT ![Prev] = name[i], ![i] = None]
  <2>1. /\ nm \in [Names -> Inodes \cup {None}] /\ nm[i] = None /\ nm[Prev] = name[i]
        /\ \A n \in Names \ {i, Prev} : nm[n] = name[n]
    BY <1>1
  <2>2. Store(nm, data)
    BY <1>3 DEF Replace
  <2> HIDE DEF nm
  <2>3. /\ name' = nm /\ data' \in [Inodes -> FileType]
        /\ \A n \in Names : nm[n] # None => data'[nm[n]] = data[nm[n]]
    BY <1>1, <2>1, <2>2, StoreFacts
  <2>4. \A n \in Names \ {i, Prev} : Untouched(n)
    BY <2>1, <2>3 DEF Untouched, Exists, File
  <2>5. data'[name'[Prev]] = File(i) /\ name'[Prev] # None
    BY <1>1, <2>1, <2>3 DEF Exists, File
  <2>6. Files'
    BY <1>1, <2>1, <2>3, <2>4, <2>5 DEF Files, Untouched, Exists, File, Empty
  <2>7. Apart => Apart'
    BY <1>1, <2>1, <2>3 DEF Apart, Exists
  <2> QED
    BY <2>4, <2>5, <2>6, <2>7
<1> QED
  BY <1>2, <1>3

-----------------------------------------------------------------------------
(* The run and its handle                                                  *)

Control ==
  /\ canLink \in BOOLEAN
  /\ phase \in {"idle", "fetch", "poll", "full", "partial", "error", "keep"}
  /\ rel \in 0 .. MaxRel /\ (phase # "idle" => rel \in Releases)
  /\ url \in [torrent : BOOLEAN, magnet : BOOLEAN]
  /\ runs \in 0 .. MaxRuns /\ faults \in 0 .. MaxFaults

Handle ==
  /\ attempt \in {"none", "torrent", "magnet"}
  /\ have \in SUBSET Pieces /\ checking \in BOOLEAN /\ band \in Bands
  /\ lastDone \in -1 .. Cardinality(Pieces)
  /\ silent \in 0 .. MaxSilent /\ quiet \in 0 .. silent

(* While total_done stands still, quiet polls never exceed the stall limit *)
(* and checking hides at most the grace period of them, near completion    *)
(* none.                                                                   *)
Timers ==
  phase = "poll" =>
    /\ lastDone <= Cardinality(have)
    /\ lastDone = Cardinality(have) =>
         /\ quiet <= StallLimit(band) /\ silent <= Grace + quiet
         /\ band = "99" => silent <= quiet

LEMMA PieceFacts ==
  /\ Cardinality(Pieces) \in Nat /\ Cardinality({}) = 0
  /\ \A S \in SUBSET Pieces : Cardinality(S) \in Nat /\ Cardinality(S) <= Cardinality(Pieces)
  /\ \A S \in SUBSET Pieces : \A k \in Pieces \ S : Cardinality(S \cup {k}) = Cardinality(S) + 1
<1>1. IsFiniteSet(Pieces)
  BY PayloadAssumption DEF PayloadAssumption
<1>2. \A S \in SUBSET Pieces : IsFiniteSet(S) /\ Cardinality(S) <= Cardinality(Pieces)
  BY <1>1, FS_Subset
<1>3. Cardinality(Pieces) \in Nat /\ \A S \in SUBSET Pieces : Cardinality(S) \in Nat
  BY <1>1, <1>2, FS_CardinalityType
<1>4. \A S \in SUBSET Pieces : \A k \in Pieces \ S : Cardinality(S \cup {k}) = Cardinality(S) + 1
  BY <1>2, FS_AddElement
<1> QED
  BY <1>2, <1>3, <1>4, FS_EmptySet

LEMMA LimitFacts ==
  /\ MaxSilent \in Nat
  /\ \A b \in Bands : StallLimit(b) \in Nat /\ StallLimit(b) < MaxSilent
<1>1. MaxSilent \in Nat
  BY Parameters DEF MaxSilent
<1>2. StallLimit("99") \in Nat /\ StallLimit("99") < MaxSilent
  BY Parameters DEF StallLimit, AtLeast, MaxSilent
<1>3. StallLimit("95") \in Nat /\ StallLimit("95") < MaxSilent
  BY Parameters DEF StallLimit, AtLeast, MaxSilent
<1>4. StallLimit("90") \in Nat /\ StallLimit("90") < MaxSilent
  BY Parameters DEF StallLimit, AtLeast, MaxSilent
<1>5. StallLimit("low") \in Nat /\ StallLimit("low") < MaxSilent
  BY Parameters DEF StallLimit, AtLeast, MaxSilent
<1> QED
  BY <1>1, <1>2, <1>3, <1>4, <1>5 DEF Bands

(* A handle that is new, or gone, has nothing and has not been silent.     *)
Fresh == have' = {} /\ lastDone' = -1 /\ Handle' /\ Timers'

LEMMA FreshIs ==
  ASSUME attempt' \in {"none", "torrent", "magnet"}, have' = {}, checking' \in BOOLEAN,
         band' = "low", lastDone' = -1, silent' = 0, quiet' = 0
  PROVE  Fresh
<1>1. Handle'
  BY PieceFacts, LimitFacts DEF Handle, Bands
<1>2. Timers'
  BY PieceFacts DEF Timers
<1> QED
  BY <1>1, <1>2 DEF Fresh

LEMMA AddFacts ==
  ASSUME NEW a \in {"torrent", "magnet"}, AddTorrent(a)
  PROVE  Fresh /\ phase' = "poll"
BY FreshIs DEF AddTorrent

LEMMA NoHandleFacts == NoHandle => Fresh
BY FreshIs DEF NoHandle

(* The end of an attempt: another one, what is on disk, or an error.       *)
LEMMA StalledFacts ==
  ASSUME Stalled \/ FirstFailed
  PROVE  Fresh /\ phase' \in {"poll", "error", "partial"} /\ (phase' = "partial" => Exists(rel))
<1>1. CASE Stalled
  BY <1>1, NoHandleFacts DEF Stalled
<1>2. CASE FirstFailed
  BY <1>1, <1>2, AddFacts DEF FirstFailed
<1> QED
  BY <1>1, <1>2

(* The loop that neither finishes nor gives up.                            *)
Waits ==
  /\ phase = "poll" /\ ~Finished
  /\ lastDone' = Cardinality(have) /\ UNCHANGED <<phase, attempt, have, checking, band>>

LEMMA PollCases ==
  ASSUME Poll
  PROVE  \/ Finished /\ phase' = "full" /\ NoHandle
         \/ Stalled \/ FirstFailed
         \/ Waits
BY DEF Poll, Waits

LEMMA WaitStep ==
  ASSUME Handle, Timers, Poll, Waits
  PROVE  Handle' /\ Timers'
<1> DEFINE changed == Cardinality(have) # lastDone
           s == IF changed THEN 0 ELSE IF silent < MaxSilent THEN silent + 1 ELSE silent
           q == IF changed \/ Activity(s) THEN 0 ELSE quiet + 1
<1>1. /\ Cardinality(have) \in Nat /\ Cardinality(have) <= Cardinality(Pieces)
      /\ Cardinality(Pieces) \in Nat
      /\ StallLimit(band) \in Nat /\ StallLimit(band) < MaxSilent /\ MaxSilent \in Nat
      /\ Grace \in Nat /\ silent \in 0 .. MaxSilent /\ quiet \in 0 .. silent
  BY PieceFacts, LimitFacts, Parameters DEF Handle
<1>2. q <= StallLimit(band) /\ silent' = s /\ quiet' = q
  <2>1. ~(Finished /\ phase' = "full" /\ NoHandle)
    BY DEF Waits
  <2>2. ~(q > StallLimit(band))
    <3> SUFFICES ASSUME q > StallLimit(band) PROVE FALSE
      OBVIOUS
    <3>0. ~(q <= StallLimit(band))
      <4>1. q \in Nat
        BY <1>1
      <4> HIDE DEF q
      <4> QED
        BY <1>1, <4>1
    <3>1. FirstFailed \/ Stalled
      BY <3>0 DEF Poll, Waits
    <3>2. lastDone' = -1
      BY <3>1, StalledFacts DEF Fresh
    <3> QED
      BY <1>1, <3>2 DEF Waits
  <2> QED
    BY <2>1, <2>2 DEF Poll
<1>3. CASE changed
  <2>1. s = 0 /\ q = 0
    BY <1>3
  <2> HIDE DEF s, q
  <2> QED
    BY <1>1, <1>2, <2>1 DEF Handle, Timers, Waits
<1>4. CASE ~changed
  <2>1. /\ quiet <= StallLimit(band) /\ silent <= Grace + quiet
        /\ band = "99" => silent <= quiet
    BY <1>4 DEF Timers, Waits
  <2>2. s \in 0 .. MaxSilent /\ s <= silent + 1 /\ (s = silent + 1 \/ s = MaxSilent)
    BY <1>1, <1>4
  <2>3. CASE Activity(s)
    <3>1. q = 0 /\ s <= Grace /\ band # "99"
      BY <1>4, <2>3 DEF Activity
    <3> HIDE DEF s, q
    <3> QED
      BY <1>1, <1>2, <2>2, <3>1 DEF Handle, Timers, Waits
  <2>4. CASE ~Activity(s)
    <3>1. q = quiet + 1
      BY <1>4, <2>4
    <3> HIDE DEF s, q
    <3>2. q \in 0 .. s
      BY <1>1, <1>2, <2>2, <3>1
    <3>3. s <= Grace + q /\ (band = "99" => s <= q)
      BY <1>1, <2>1, <2>2, <3>1
    <3> QED
      BY <1>1, <1>2, <2>2, <3>2, <3>3 DEF Handle, Timers, Waits
  <2> QED
    BY <2>3, <2>4
<1> QED
  BY <1>3, <1>4

(* A piece more.                                                           *)
LEMMA PieceStep ==
  ASSUME Handle, Timers, phase = "poll", NEW k \in Pieces \ have, have' = have \cup {k},
         band' \in Bands, UNCHANGED <<phase, attempt, checking, lastDone, silent, quiet>>
  PROVE  Handle' /\ Timers'
<1>1. /\ Cardinality(have) \in Nat /\ Cardinality(have') = Cardinality(have) + 1
      /\ lastDone <= Cardinality(have) /\ lastDone \in -1 .. Cardinality(Pieces)
      /\ Cardinality(Pieces) \in Nat
  BY PieceFacts DEF Handle, Timers
<1>2. lastDone' < Cardinality(have')
  BY <1>1
<1>3. have' \in SUBSET Pieces /\ Cardinality(have') \in Nat
  BY <1>1 DEF Handle
<1>4. Handle'
  BY <1>3 DEF Handle, MaxSilent
<1> QED
  BY <1>1, <1>2, <1>3, <1>4 DEF Timers

-----------------------------------------------------------------------------
(* The inductive invariant                                                 *)

(* What is to be imported is there; and what the handle has is on disk.    *)
Held == phase \in {"full", "partial", "keep"} => Exists(rel)

Had ==
  phase = "poll" => \A k \in have : Exists(rel) /\ File(rel)[k] = Content(rel)[k]

Inv ==
  /\ Control /\ Handle /\ Timers
  /\ Files /\ kept \in FileType /\ (~canLink => Apart)
  /\ Held /\ Had /\ FullIsExact /\ RetainedIntact

LEMMA RelFacts ==
  ASSUME Inv, phase # "idle"
  PROVE  rel \in Releases /\ rel \in Names /\ rel # Prev
BY Parameters DEF Inv, Control

LEMMA FaultFacts == Inv /\ Fault => faults' \in 0 .. MaxFaults
BY PayloadAssumption DEF PayloadAssumption, Inv, Control, Fault

(* A step that leaves the disk alone.                                      *)
LEMMA DiskQuiet ==
  ASSUME Inv, UNCHANGED <<disk, canLink, kept, job>>, Control', Handle', Timers',
         phase' \in {"full", "partial", "keep"} => Exists(rel),
         phase' = "poll" => \A k \in have' : Exists(rel) /\ File(rel)[k] = Content(rel)[k],
         phase' = "full" => File(rel) = Content(rel)
  PROVE  Inv'
<1>1. UNCHANGED <<name, data, rel, kept, canLink>>
  BY DEF disk, job
<1>2. Files' /\ kept' \in FileType /\ (~canLink' => Apart')
  BY <1>1 DEF Inv, Files, Apart, Exists, File, Empty
<1>3. Held' /\ Had' /\ FullIsExact' /\ RetainedIntact'
  BY <1>1 DEF Inv, Held, Had, FullIsExact, RetainedIntact, Exists, File, Content
<1> QED
  BY <1>2, <1>3 DEF Inv

(* A step after which nothing is downloaded: the handle stays or goes.     *)
LEMMA HandleQuiet ==
  ASSUME Inv, UNCHANGED handle \/ NoHandle, phase' # "poll"
  PROVE  Handle' /\ Timers'
<1>1. CASE UNCHANGED handle
  BY <1>1 DEF Inv, Handle, Timers, handle, MaxSilent
<1>2. CASE NoHandle
  BY <1>2, NoHandleFacts DEF Fresh
<1> QED
  BY <1>1, <1>2

-----------------------------------------------------------------------------
(* Steps that leave the disk alone                                         *)

(* An attempt ends and another begins, or none.                            *)
LEMMA AttemptStep ==
  ASSUME Inv, phase # "idle", UNCHANGED <<disk, canLink, kept, job, runs>>,
         faults' \in 0 .. MaxFaults, Fresh,
         phase' \in {"poll", "error", "partial"}, phase' = "partial" => Exists(rel)
  PROVE  Inv'
<1>1. Control'
  BY DEF Inv, Control, job
<1> QED
  BY <1>1, DiskQuiet DEF Fresh

LEMMA FetchStep ==
  ASSUME Inv, Fetch
  PROVE  Inv'
<1>1. Fresh /\ phase' \in {"poll", "error", "partial"} /\ (phase' = "partial" => Exists(rel))
  BY AddFacts, StalledFacts DEF Fetch
<1>2. phase # "idle" /\ faults' \in 0 .. MaxFaults
  BY DEF Fetch, Inv, Control
<1> QED
  BY <1>1, <1>2, AttemptStep DEF Fetch

LEMMA PollStep ==
  ASSUME Inv, Poll
  PROVE  Inv'
<1>1. /\ UNCHANGED <<disk, canLink, kept, job, runs, faults>> /\ phase = "poll"
      /\ faults' \in 0 .. MaxFaults
  BY DEF Poll, Inv, Control
<1>2. CASE Finished /\ phase' = "full" /\ NoHandle
  <2>1. rel \in Names /\ Pieces # {}
    BY <1>1, RelFacts, PayloadAssumption DEF PayloadAssumption
  <2>2. Exists(rel) /\ \A k \in Pieces : File(rel)[k] = Content(rel)[k]
    BY <1>1, <1>2, <2>1 DEF Finished, Inv, Had
  <2>3. File(rel) = Content(rel)
    <3>1. File(rel) \in FileType
      BY <2>1, <2>2, FileFacts DEF Inv
    <3> QED
      BY <2>2, <3>1 DEF FileType, Content
  <2>4. Control' /\ Handle' /\ Timers'
    BY <1>1, <1>2, HandleQuiet DEF Inv, Control, job
  <2> QED
    BY <1>1, <1>2, <2>2, <2>3, <2>4, DiskQuiet
<1>3. CASE Stalled \/ FirstFailed
  BY <1>1, <1>3, StalledFacts, AttemptStep
<1>4. CASE Waits
  <2>1. Control' /\ Handle' /\ Timers' /\ UNCHANGED <<phase, have>>
    BY <1>1, <1>4, WaitStep DEF Inv, Control, job, Waits
  <2> QED
    BY <1>1, <2>1, DiskQuiet DEF Inv, Had
<1> QED
  BY <1>2, <1>3, <1>4, PollCases

LEMMA PollFailsStep ==
  ASSUME Inv, PollFails
  PROVE  Inv'
<1>1. Fresh /\ phase' \in {"poll", "error", "partial"} /\ (phase' = "partial" => Exists(rel))
  BY StalledFacts, NoHandleFacts DEF PollFails
<1>2. phase # "idle" /\ faults' \in 0 .. MaxFaults
  BY FaultFacts DEF PollFails
<1> QED
  BY <1>1, <1>2, AttemptStep DEF PollFails

LEMMA VerifyStep ==
  ASSUME Inv, NEW k \in Pieces, Verify(k)
  PROVE  Inv'
<1>1. Handle' /\ Timers'
  BY PieceStep DEF Verify, Inv
<1>2. Control'
  BY DEF Verify, Inv, Control, job
<1> QED
  BY <1>1, <1>2, DiskQuiet DEF Verify, Inv, Had

LEMMA CheckDoneStep ==
  ASSUME Inv, CheckDone
  PROVE  Inv'
<1>1. Handle' /\ Timers'
  BY DEF CheckDone, Inv, Handle, Timers, MaxSilent
<1>2. Control'
  BY DEF CheckDone, Inv, Control, job
<1> QED
  BY <1>1, <1>2, DiskQuiet DEF CheckDone, Inv, Had

LEMMA QuietStep ==
  ASSUME Inv, Import \/ Interrupt \/ Crash
  PROVE  Inv'
<1>1. faults' \in 0 .. MaxFaults
  BY FaultFacts DEF Import, Interrupt, Crash, Inv, Control
<1>2. /\ UNCHANGED <<disk, canLink, kept, job, runs>>
      /\ UNCHANGED handle \/ NoHandle
      /\ \/ phase' = "idle"
         \/ phase' = "keep" /\ phase \in {"full", "partial"}
  BY DEF Import, Interrupt, Crash
<1>3. Control' /\ Handle' /\ Timers'
  BY <1>1, <1>2, HandleQuiet DEF Inv, Control, job
<1> QED
  BY <1>2, <1>3, DiskQuiet DEF Inv, Held

-----------------------------------------------------------------------------
(* Steps that change the disk                                              *)

(* What the retained payload needs to stay intact.                         *)
LEMMA RetainedKept ==
  ASSUME Inv, ~canLink => Untouched(Prev), UNCHANGED <<canLink, kept>>
  PROVE  RetainedIntact'
BY DEF Inv, RetainedIntact, Untouched, Exists, File

LEMMA BeginStep ==
  ASSUME Inv, NEW i \in Releases, Begin(i)
  PROVE  Inv'
<1>1. Files /\ (~canLink => Apart) /\ i \in Names /\ i # Prev /\ Prev \in Names
  BY Parameters DEF Inv
<1>2. UNCHANGED disk \/ (Exists(Prev) /\ ~Exists(i) /\ SeedLink(i))
  BY DEF Begin, LinkSeedBase
<1>3. Files' /\ (~canLink => Apart') /\ Untouched(Prev)
  <2>1. CASE UNCHANGED disk
    BY <1>1, <2>1 DEF disk, Files, Apart, Exists, File, Empty, Untouched
  <2>2. CASE Exists(Prev) /\ ~Exists(i) /\ SeedLink(i)
    BY <1>1, <2>2, LinkStep
  <2> QED
    BY <1>2, <2>1, <2>2
<1>4. UNCHANGED <<canLink, kept, faults>> /\ rel' = i
  BY DEF Begin
<1>5. /\ phase' \in {"fetch", "poll", "error"}
      /\ (phase' = "poll" => have' = {}) /\ Handle' /\ Timers'
  <2>1. CASE phase' # "poll" /\ UNCHANGED handle
    BY <2>1, HandleQuiet DEF Begin, AddTorrent
  <2>2. CASE AddTorrent("magnet")
    BY <2>2, AddFacts DEF Fresh
  <2> QED
    BY <2>1, <2>2 DEF Begin
<1>6. runs' \in 0 .. MaxRuns
  BY PayloadAssumption DEF PayloadAssumption, Begin, Inv, Control
<1>7. url' \in [torrent : BOOLEAN, magnet : BOOLEAN]
  BY DEF Begin
<1>8. Control'
  BY <1>4, <1>5, <1>6, <1>7, Parameters DEF Inv, Control, Releases
<1>9. Held' /\ Had' /\ FullIsExact'
  BY <1>5 DEF Held, Had, FullIsExact
<1> QED
  BY <1>3, <1>4, <1>5, <1>8, <1>9, RetainedKept DEF Inv

LEMMA ReceivePieceStep ==
  ASSUME Inv, NEW k \in Pieces, Receive(k)
  PROVE  Inv'
<1>1. /\ phase = "poll" /\ rel \in Releases /\ rel \in Names /\ rel # Prev /\ Prev \in Names
      /\ Files /\ (~canLink => Apart)
      /\ UNCHANGED <<canLink, kept, phase, job, runs, faults, rel>> /\ have' = have \cup {k}
  BY RelFacts, Parameters DEF Receive, Inv, job
<1>2. /\ Files' /\ (Apart => Apart')
      /\ name'[rel] # None /\ data'[name'[rel]][k] = Content(rel)[k]
      /\ Exists(rel) => \A p \in Pieces \ {k} : data'[name'[rel]][p] = File(rel)[p]
      /\ \A n \in Names \ {rel} : name'[n] = name[n]
      /\ \A n \in Names \ {rel} : name[n] # name[rel] => Untouched(n)
  BY <1>1, ReceiveStep
<1>3. Control' /\ Handle' /\ Timers'
  <2>1. Handle' /\ Timers'
    BY PieceStep DEF Receive, Inv
  <2> QED
    BY <1>1, <2>1 DEF Inv, Control, job
<1>4. Had'
  <2>1. \A p \in have \cup {k} : data'[name'[rel]][p] = Content(rel)[p]
    <3>1. \A p \in have \ {k} : p \in Pieces /\ Exists(rel) /\ File(rel)[p] = Content(rel)[p]
      BY <1>1 DEF Inv, Had, Handle
    <3> QED
      BY <1>2, <3>1
  <2> QED
    BY <1>1, <1>2, <2>1 DEF Had, Exists, File, Content
<1>5. RetainedIntact'
  <2>1. ~canLink => Untouched(Prev)
    BY <1>1, <1>2 DEF Apart, Untouched, Exists
  <2> QED
    BY <1>1, <2>1, RetainedKept
<1>6. Held' /\ FullIsExact'
  BY <1>1 DEF Held, FullIsExact
<1> QED
  BY <1>1, <1>2, <1>3, <1>4, <1>5, <1>6 DEF Inv

LEMMA FailedStep ==
  ASSUME Inv, DownloadFailed \/ ImportFails
  PROVE  Inv'
<1>1. faults' \in 0 .. MaxFaults
  BY FaultFacts DEF DownloadFailed, ImportFails, Inv, Control
<1>2. /\ phase # "idle" /\ phase' = "idle" /\ Unlink(rel)
      /\ UNCHANGED <<canLink, kept, job, handle, runs>>
  BY DEF DownloadFailed, ImportFails, Failed, DeletePayload
<1>3. rel \in Names /\ rel # Prev /\ Prev \in Names /\ Files /\ (~canLink => Apart)
  BY <1>2, RelFacts, Parameters DEF Inv
<1>4. Files' /\ (Apart => Apart') /\ Untouched(Prev)
  BY <1>2, <1>3, UnlinkStep
<1>5. Control' /\ Handle' /\ Timers'
  BY <1>1, <1>2, HandleQuiet DEF Inv, Control, job
<1>6. Held' /\ Had' /\ FullIsExact'
  BY <1>2 DEF Held, Had, FullIsExact
<1> QED
  BY <1>2, <1>3, <1>4, <1>5, <1>6, RetainedKept DEF Inv

LEMMA KeepStep ==
  ASSUME Inv, Keep
  PROVE  Inv'
<1>1. PICK i \in Releases : i = rel
  BY RelFacts DEF Keep
<1>2. /\ phase' = "idle" /\ Replace(i) /\ kept' = File(i) /\ Exists(i)
      /\ UNCHANGED <<canLink, job, handle, runs, faults>>
  BY <1>1 DEF Keep, Inv, Held
<1>3. i \in Names /\ Files /\ (~canLink => Apart)
  BY Parameters DEF Inv
<1>4. /\ Files' /\ (Apart => Apart')
      /\ data'[name'[Prev]] = File(i)
  BY <1>2, <1>3, ReplaceStep
<1>5. Control' /\ Handle' /\ Timers'
  BY <1>2, HandleQuiet DEF Inv, Control, job
<1>6. Held' /\ Had' /\ FullIsExact'
  BY <1>2 DEF Held, Had, FullIsExact
<1>7. RetainedIntact'
  BY <1>2, <1>4 DEF RetainedIntact, File
<1>8. kept' \in FileType
  BY <1>2, <1>3, FileFacts
<1> QED
  BY <1>2, <1>3, <1>4, <1>5, <1>6, <1>7, <1>8 DEF Inv

LEMMA DeleteStep ==
  ASSUME Inv, DeleteRetained
  PROVE  Inv'
<1>1. /\ Unlink(Prev) /\ faults' \in 0 .. MaxFaults
      /\ UNCHANGED <<canLink, kept, phase, job, handle, runs>>
  BY FaultFacts DEF DeleteRetained
<1>2. /\ Files' /\ (~canLink => Apart') /\ name'[Prev] = None
      /\ \A n \in Names \ {Prev} : Untouched(n)
  BY <1>1, UnlinkStep, Parameters DEF Inv
<1>3. Control' /\ Handle' /\ Timers'
  BY <1>1 DEF Inv, Control, Handle, Timers, job, handle, MaxSilent
<1>4. UNCHANGED <<rel, phase, have>>
  BY <1>1 DEF job, handle
<1>5. Held' /\ Had' /\ FullIsExact'
  <2>1. phase # "idle" => Untouched(rel)
    BY <1>2, RelFacts
  <2> QED
    BY <1>4, <2>1, Zenon DEF Inv, Held, Had, FullIsExact, Untouched, Exists, File, Content
<1>6. RetainedIntact'
  BY <1>2 DEF RetainedIntact, Exists
<1> QED
  BY <1>1, <1>2, <1>3, <1>5, <1>6 DEF Inv

LEMMA Step == Inv /\ [Next]_vars => Inv'
<1> SUFFICES ASSUME Inv, [Next]_vars PROVE Inv'
  OBVIOUS
<1>1. CASE UNCHANGED vars
  <2>1. UNCHANGED <<disk, canLink, kept, job>> /\ UNCHANGED <<phase, handle, runs, faults>>
    BY <1>1 DEF vars
  <2>2. Control' /\ Handle' /\ Timers' /\ UNCHANGED <<phase, have>>
    BY <2>1 DEF Inv, Control, Handle, Timers, job, handle, MaxSilent
  <2> QED
    BY <2>1, <2>2, DiskQuiet DEF Inv, Held, Had, FullIsExact
<1> QED
  BY <1>1, BeginStep, FetchStep, VerifyStep, ReceivePieceStep, CheckDoneStep, PollStep,
     PollFailsStep, FailedStep, QuietStep, KeepStep, DeleteStep DEF Next

LEMMA Initially == Init => Inv
<1> SUFFICES ASSUME Init PROVE Inv
  OBVIOUS
<1>1. Empty \in FileType
  BY Parameters DEF Empty, FileType
<1>2. Files /\ Apart /\ kept \in FileType
  BY <1>1 DEF Init, Files, Apart, Exists
<1>3. canLink \in BOOLEAN
  BY Zenon DEF Init
<1>4. Control
  BY <1>3, Parameters, PayloadAssumption DEF PayloadAssumption, Init, Control
<1>5. Handle /\ Timers
  <2>1. /\ attempt = "none" /\ have = {} /\ checking = FALSE /\ band = "low"
        /\ lastDone = -1 /\ silent = 0 /\ quiet = 0 /\ phase = "idle"
    BY DEF Init
  <2>2. Timers
    BY <2>1 DEF Timers
  <2>3. lastDone \in -1 .. Cardinality(Pieces) /\ silent \in 0 .. MaxSilent
        /\ quiet \in 0 .. silent
    BY <2>1, PieceFacts, LimitFacts
  <2> QED
    BY <2>1, <2>2, <2>3 DEF Handle, Bands
<1>6. Held /\ Had /\ FullIsExact /\ RetainedIntact
  BY Parameters DEF Init, Held, Had, FullIsExact, RetainedIntact, Exists
<1> QED
  BY <1>2, <1>4, <1>5, <1>6 DEF Inv

-----------------------------------------------------------------------------
(* What is on disk of a release                                            *)

LEMMA SameCorrect ==
  ASSUME NEW i \in Releases, Untouched(i)
  PROVE  Correct(i) \subseteq Correct(i)'
BY DEF Untouched, Correct, Exists, File, Content

(* A step keeps the good pieces of every release but the one that is being *)
(* imported or has failed, and those that share its file.                  *)
LEMMA PiecesStep ==
  ASSUME Inv, Next, NEW i \in Releases,
         ~(i = rel /\ phase \in {"error", "full", "partial", "keep"}),
         ~(i # rel /\ canLink)
  PROVE  Correct(i) \subseteq Correct(i)'
<1>1. i \in Names /\ i # Prev /\ Prev \in Names /\ Files /\ (~canLink => Apart)
  BY Parameters DEF Inv
<1>2. CASE UNCHANGED disk
  <2>1. Untouched(i)
    BY <1>2 DEF disk, Untouched, File
  <2> QED
    BY <2>1, SameCorrect
<1>3. ASSUME NEW j \in Releases, Begin(j), ~UNCHANGED disk
      PROVE  Correct(i) \subseteq Correct(i)'
  <2>1. Exists(Prev) /\ ~Exists(j) /\ SeedLink(j)
    BY <1>3 DEF Begin, LinkSeedBase
  <2>2. CASE i = j
    BY <2>1, <2>2 DEF Correct
  <2>3. CASE i # j
    BY <1>1, <2>1, <2>3, LinkStep, SameCorrect
  <2> QED
    BY <2>2, <2>3
<1>4. ASSUME NEW k \in Pieces, Receive(k)
      PROVE  Correct(i) \subseteq Correct(i)'
  <2>1. phase = "poll" /\ rel \in Releases /\ rel \in Names
    BY <1>4, RelFacts DEF Receive
  <2>2. /\ name'[rel] # None /\ data'[name'[rel]][k] = Content(rel)[k]
        /\ Exists(rel) => \A p \in Pieces \ {k} : data'[name'[rel]][p] = File(rel)[p]
        /\ \A n \in Names \ {rel} : name'[n] = name[n]
        /\ \A n \in Names \ {rel} : name[n] # name[rel] => Untouched(n)
    BY <1>1, <1>4, <2>1, ReceiveStep
  <2>3. CASE i = rel
    <3>1. \A p \in Correct(i) : p \in Pieces /\ Exists(i) /\ File(i)[p] = Content(i)[p]
      BY DEF Correct
    <3>2. \A p \in Correct(i) : data'[name'[i]][p] = Content(i)[p]
      BY <2>2, <2>3, <3>1
    <3>3. name'[i] # None
      BY <2>2, <2>3
    <3> QED
      BY <3>1, <3>2, <3>3 DEF Correct, Exists, File, Content
  <2>4. CASE i # rel /\ Exists(i)
    BY <1>1, <2>1, <2>2, <2>4, SameCorrect DEF Apart
  <2>5. CASE ~Exists(i)
    BY <2>5 DEF Correct
  <2> QED
    BY <2>3, <2>4, <2>5
<1>5. CASE DownloadFailed \/ ImportFails
  <2>1. phase \in {"error", "full", "partial", "keep"} /\ Unlink(rel) /\ rel \in Names
    BY <1>5, RelFacts DEF DownloadFailed, ImportFails, Failed, DeletePayload
  <2> QED
    BY <1>1, <2>1, UnlinkStep, SameCorrect
<1>6. CASE Keep
  <2>1. phase = "keep" /\ Replace(rel) /\ rel \in Releases /\ Exists(rel)
    BY <1>6, RelFacts DEF Keep, Inv, Held
  <2> QED
    BY <1>1, <2>1, ReplaceStep, SameCorrect
<1>7. CASE DeleteRetained
  BY <1>1, <1>7, UnlinkStep, SameCorrect DEF DeleteRetained
<1>8. CASE \/ Fetch \/ \E k \in Pieces : Verify(k)
           \/ CheckDone \/ Poll \/ PollFails \/ Import \/ Interrupt \/ Crash
  BY <1>2, <1>8 DEF Fetch, Verify, CheckDone, Poll, PollFails, Import, Interrupt, Crash
<1> QED
  BY <1>2, <1>3, <1>4, <1>5, <1>6, <1>7, <1>8 DEF Next

-----------------------------------------------------------------------------
(* The theorems                                                            *)

(* The types of files, handle and run; every name refers to an inode with  *)
(* something in it.                                                        *)
THEOREM PayloadTyped == Spec => []TypeOK
<1>1. Inv => TypeOK
  BY Zenon DEF Inv, Control, Handle, Files, FileType, TypeOK
<1> QED
  BY Initially, Step, <1>1, PTL DEF Spec

(* When a download ends well (_download_with_handle), the file under the   *)
(* target name is the payload of its release, with any seed base and after *)
(* any failed, stalled or killed attempts.                                 *)
THEOREM DownloadExact == Spec => []FullIsExact
<1>1. Inv => FullIsExact
  BY DEF Inv
<1> QED
  BY Initially, Step, <1>1, PTL DEF Spec

(* The stall timers of _download_with_handle bound the silence of a        *)
(* handle, and near completion a state of checking does not extend it.     *)
THEOREM SilenceBounded == Spec => []SilenceIsBounded
<1>1. Inv => SilenceIsBounded
  <2> SUFFICES ASSUME Inv, phase = "poll", lastDone = Cardinality(have)
               PROVE  /\ silent <= Grace + StallLimit(band)
                      /\ band = "99" => silent <= StallLimit(band)
    BY DEF SilenceIsBounded
  <2>1. /\ quiet <= StallLimit(band) /\ silent <= Grace + quiet
        /\ band = "99" => silent <= quiet
    BY DEF Inv, Timers
  <2>2. StallLimit(band) \in Nat /\ Grace \in Nat /\ silent \in Int /\ quiet \in Int
    BY LimitFacts, Parameters DEF Inv, Handle
  <2> QED
    BY <2>1, <2>2
<1> QED
  BY Initially, Step, <1>1, PTL DEF Spec

(* Where _link_seed_base copies, no later download writes into the payload *)
(* that was retained.                                                      *)
THEOREM RetainedUntouched == Spec => []RetainedIntact
<1>1. Inv => RetainedIntact
  BY DEF Inv
<1> QED
  BY Initially, Step, <1>1, PTL DEF Spec

(* No step loses a good piece of a release, but the import or the failure  *)
(* handler that deals with its file.                                       *)
THEOREM PiecesKept == Spec => PiecesAreKept
<1>1. Inv /\ [Next]_vars =>
        [\A i \in Releases :
           \/ Correct(i) \subseteq Correct(i)'
           \/ i = rel /\ phase \in {"error", "full", "partial", "keep"}
           \/ i # rel /\ canLink]_vars
  BY PiecesStep
<1> QED
  BY Initially, Step, <1>1, PTL DEF Spec, PiecesAreKept
=============================================================================

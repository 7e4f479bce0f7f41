---------------------------- MODULE SyncService ----------------------------
(***************************************************************************)
(* What the synchronisation promises to the readers of the database,       *)
(* whatever runs, crashes, interruptions and operator requests produce it: *)
(* one process at a time owns the catalogue; it takes up one payload, adds *)
(* the records of that payload and of nothing else; records are never      *)
(* taken away; and a release is declared completed only by the owner and   *)
(* only when every record of the payload it took up is in the catalogue.   *)
(***************************************************************************)
EXTENDS Naturals

CONSTANTS Procs, Collections, MaxRel, Chunks, None

VARIABLES
  owner,   \* the process that may write the catalogue, or None
  goal,    \* the payload the owner has taken up
  loaded,  \* loaded[c][i]: the records of release i in the catalogue
  done     \* done[c][i]: release i is declared completed

vars == <<owner, goal, loaded, done>>

Releases == 1 .. MaxRel

NoGoal == [coll |-> None, rel |-> 0, chunks |-> {}]

Goals == [coll : Collections, rel : Releases, chunks : SUBSET Chunks] \cup {NoGoal}

Init ==
  /\ owner = None /\ goal = NoGoal
  /\ loaded = [c \in Collections |-> [i \in Releases |-> {}]]
  /\ done = [c \in Collections |-> [i \in Releases |-> FALSE]]

Begin(p) ==
  /\ owner = None
  /\ owner' = p
  /\ UNCHANGED <<goal, loaded, done>>

(* The owner ends its pass or is gone; its goal is given up.               *)
End ==
  /\ owner # None
  /\ owner' = None /\ goal' = NoGoal
  /\ UNCHANGED <<loaded, done>>

Load(k) ==
  /\ owner # None /\ k \in goal.chunks
  /\ loaded' = [loaded EXCEPT ![goal.coll][goal.rel] = @ \cup {k}]
  /\ UNCHANGED <<owner, goal, done>>

(* The release named i takes its content from the goal, which is the       *)
(* payload of that release or the retained payload believed to be it.      *)
Declare(i) ==
  /\ owner # None
  /\ goal.chunks # {} /\ goal.chunks \subseteq loaded[goal.coll][goal.rel]
  /\ done' = [done EXCEPT ![goal.coll][i] = TRUE]
  /\ UNCHANGED <<owner, goal, loaded>>

Reopened(c, i) == done' = [done EXCEPT ![c][i] = FALSE]

(* The owner takes up a payload for release i of the same collection.      *)
TakeUp(g, i) ==
  /\ owner # None /\ goal = NoGoal
  /\ goal' = g
  /\ Reopened(g.coll, i)
  /\ UNCHANGED <<owner, loaded>>

(* It puts the goal aside, and may have to reopen the release.             *)
PutAside ==
  /\ goal # NoGoal
  /\ goal' = NoGoal
  /\ done' = done \/ \E i \in Releases : Reopened(goal.coll, i)
  /\ UNCHANGED <<owner, loaded>>

(* A release is imported again, by the owner or on an operator's request.  *)
Reopen(c, i) ==
  /\ Reopened(c, i)
  /\ UNCHANGED <<owner, goal, loaded>>

Next ==
  \/ \E p \in Procs : Begin(p)
  \/ End \/ PutAside
  \/ \E k \in Chunks : Load(k)
  \/ \E i \in Releases : Declare(i)
  \/ \E g \in Goals \ {NoGoal}, i \in Releases : TakeUp(g, i)
  \/ \E c \in Collections, i \in Releases : Reopen(c, i)

Spec == Init /\ [][Next]_vars
=============================================================================

------------------------------ MODULE Payload ------------------------------
(***************************************************************************)
(* The download of one collection's payload and the file it leaves behind: *)
(* sync/torrent_client.py with the parts of sync/run.py that handle the    *)
(* file, and DELETE /sync/payloads.  SyncRun has the same run as one step  *)
(* FetchFull / FetchPartial / FetchError; here are the two attempts, the   *)
(* stall timers of the polling loop and the hard link of the seed base.    *)
(*                                                                         *)
(* Data abstraction: a payload is a function from Pieces to versions; the  *)
(* releases agree on the pieces in Shared.  A piece is written whole.      *)
(* Time is the number of polls, in an arbitrary unit; Limits are in that   *)
(* unit.  Status rows and the database are in SyncRun.                     *)
(***************************************************************************)
EXTENDS Integers, FiniteSets

CONSTANTS
  MaxRel,      \* bound: releases of the collection
  Pieces,      \* torrent pieces of a payload
  Shared,      \* the common prefix of all releases
  Base,        \* stall limit of an incomplete download
  At90, At95,  \* stall limits from 90 % and from 95 % on
  At99,        \* SYNC_STALL_AT_99_MIN
  Grace,       \* SYNC_CHECKING_GRACE_MIN
  MaxRuns,     \* bound: downloads started
  MaxFaults,   \* bound: crashes, failures, interruptions, DELETE requests
  None

ASSUME PayloadAssumption ==
  /\ MaxRel \in Nat /\ IsFiniteSet(Pieces) /\ Pieces # {} /\ Shared \subseteq Pieces
  /\ {Base, At90, At95, At99, Grace} \subseteq Nat /\ Base <= At90 /\ At90 <= At95
  /\ MaxRuns \in Nat /\ MaxFaults \in Nat
  /\ None \notin Int

Releases == 1 .. MaxRel
Prev == 0                                  \* .prev/<collection>.payload
Names == Releases \cup {Prev}              \* work/<identifier>, and .prev
Inodes == 1 .. MaxRel + 1
Bands == {"low", "90", "95", "99"}

VARIABLES
  name,      \* name[n]: the inode a name refers to, or None
  data,      \* data[x][k]: version of piece k in inode x, 0: a hole
  canLink,   \* the file system of the work directory has hard links
  kept,      \* history: the content of the last payload moved to .prev
  phase,     \* where the current download or import is
  rel,       \* its release
  url,       \* what the manifest offers: [torrent, magnet]
  attempt,   \* the handle polled: "torrent" or "magnet"
  have,      \* pieces the handle has verified or downloaded
  checking,  \* state of the handle is checking_files
  band,      \* progress of the handle, 100 % is have = Pieces
  lastDone,  \* last_total_done, in pieces
  silent,    \* now - last_check_start: polls since total_done changed
  quiet,     \* now - last_progress_change
  runs, faults

disk == <<name, data>>
handle == <<attempt, have, checking, band, lastDone, silent, quiet>>
job == <<rel, url>>
vars == <<disk, canLink, kept, phase, job, handle, runs, faults>>

Empty == [k \in Pieces |-> 0]
Content(i) == [k \in Pieces |-> IF k \in Shared THEN 1 ELSE i]
File(n) == data[name[n]]
Exists(n) == name[n] # None
Free == CHOOSE x \in Inodes : \A n \in Names : name[n] # x

Init ==
  /\ name = [n \in Names |-> None]
  /\ data = [x \in Inodes |-> Empty]
  /\ canLink \in BOOLEAN
  /\ kept = Empty
  /\ phase = "idle" /\ rel = 0
  /\ url = [torrent |-> FALSE, magnet |-> FALSE]
  /\ attempt = "none" /\ have = {} /\ checking = FALSE /\ band = "low"
  /\ lastDone = -1 /\ silent = 0 /\ quiet = 0
  /\ runs = 0 /\ faults = 0

-----------------------------------------------------------------------------
(* Files                                                                   *)

(* The content of an inode no name refers to is gone.                      *)
Store(nm, dt) ==
  /\ name' = nm
  /\ data' = [x \in Inodes |-> IF \E n \in Names : nm[n] = x THEN dt[x] ELSE Empty]

Unlink(n) == Store([name EXCEPT ![n] = None], data)

(* A symbolic link as the fallback.                                        *)
SeedLink_Symbolic(i) == Store([name EXCEPT ![i] = name[Prev]], data)

(* os.link, or shutil.copy2 where hard links are not supported.            *)
SeedLink(i) ==
  IF canLink THEN Store([name EXCEPT ![i] = name[Prev]], data)
  ELSE Store([name EXCEPT ![i] = Free], [data EXCEPT ![Free] = File(Prev)])

(* A seed base that replaces what an earlier attempt has downloaded.       *)
LinkSeedBase_Overwrite(i) == IF Exists(Prev) THEN SeedLink(i) ELSE UNCHANGED disk

(* _link_seed_base: nothing without a retained payload, nothing over a     *)
(* file that is already there.                                             *)
LinkSeedBase(i) ==
  IF Exists(Prev) /\ ~Exists(i) THEN SeedLink(i) ELSE UNCHANGED disk

(* os.replace: rename does nothing when both names are the same file.      *)
Replace(i) ==
  IF name[i] = name[Prev] THEN UNCHANGED disk
  ELSE Store([name EXCEPT ![Prev] = name[i], ![i] = None], data)

Fault == faults < MaxFaults /\ faults' = faults + 1

-----------------------------------------------------------------------------
(* TorrentClient.download                                                  *)

(* The stall timer of the first attempt goes on in the second.             *)
AddTorrent_KeepTimer(a) ==
  /\ phase' = "poll"
  /\ attempt' = a /\ have' = {} /\ checking' = TRUE /\ band' = "low"
  /\ lastDone' = -1 /\ silent' = 0 /\ UNCHANGED quiet

(* add_torrent: libtorrent first checks whatever is under the name.        *)
AddTorrent(a) ==
  /\ phase' = "poll"
  /\ attempt' = a /\ have' = {} /\ checking' = TRUE /\ band' = "low"
  /\ lastDone' = -1 /\ silent' = 0 /\ quiet' = 0

NoHandle ==
  /\ attempt' = "none" /\ have' = {} /\ checking' = FALSE /\ band' = "low"
  /\ lastDone' = -1 /\ silent' = 0 /\ quiet' = 0

(* Without data the magnet link is tried again.                            *)
Stalled_Again == IF Exists(rel) THEN phase' = "partial" /\ NoHandle ELSE AddTorrent("magnet")

(* What is on disk is imported resiliently, else the error is raised.      *)
Stalled == phase' = (IF Exists(rel) THEN "partial" ELSE "error") /\ NoHandle

(* The second attempt starts only after a torrent file that could be had.  *)
FirstFailed == IF url.magnet THEN AddTorrent("magnet") ELSE Stalled

Begin(i) ==
  /\ phase = "idle" /\ runs < MaxRuns
  /\ runs' = runs + 1
  /\ rel' = i
  /\ LinkSeedBase(i)
  /\ url' \in [torrent : BOOLEAN, magnet : BOOLEAN]
  /\ IF url'.torrent THEN phase' = "fetch" /\ UNCHANGED handle
     ELSE IF url'.magnet THEN AddTorrent("magnet")
     ELSE phase' = "error" /\ UNCHANGED handle
  /\ UNCHANGED <<canLink, kept, faults>>

(* _fetch_torrent_bytes, which tries three times, and lt.torrent_info.     *)
Fetch ==
  /\ phase = "fetch"
  /\ AddTorrent("torrent") \/ FirstFailed
  /\ UNCHANGED <<disk, canLink, kept, job, runs, faults>>

(* libtorrent (external): a piece that hashes right counts as had; when    *)
(* every piece was looked at the rest is downloaded, in place.             *)
Verify(k) ==
  /\ phase = "poll" /\ checking /\ Exists(rel)
  /\ k \notin have /\ File(rel)[k] = Content(rel)[k]
  /\ have' = have \cup {k} /\ band' \in Bands
  /\ UNCHANGED <<disk, canLink, kept, phase, job, attempt, checking,
                 lastDone, silent, quiet, runs, faults>>

CheckDone ==
  /\ phase = "poll" /\ checking
  /\ Exists(rel) => \A k \in Pieces \ have : File(rel)[k] # Content(rel)[k]
  /\ checking' = FALSE
  /\ UNCHANGED <<disk, canLink, kept, phase, job, attempt, have, band,
                 lastDone, silent, quiet, runs, faults>>

Receive(k) ==
  LET x == IF Exists(rel) THEN name[rel] ELSE Free IN
  /\ phase = "poll" /\ ~checking /\ k \notin have
  /\ Store([name EXCEPT ![rel] = x], [data EXCEPT ![x][k] = Content(rel)[k]])
  /\ have' = have \cup {k} /\ band' \in Bands
  /\ UNCHANGED <<canLink, kept, phase, job, attempt, checking, lastDone,
                 silent, quiet, runs, faults>>

AtLeast(a, b) == IF a > b THEN a ELSE b

(* _adaptive_stall_timeout                                                 *)
StallLimit(b) ==
  CASE b = "99" -> AtLeast(Base, At99)
    [] b = "95" -> AtLeast(Base, At95)
    [] b = "90" -> AtLeast(Base, At90)
    [] OTHER -> Base

(* Checking counts as activity near completion, too.                       *)
Activity_AnyProgress(s) == checking /\ s <= Grace

(* Checking counts as activity below 99 %, for the grace period.           *)
Activity(s) == checking /\ band # "99" /\ s <= Grace

(* A progress that rounds to 100 %.                                        *)
Finished_Rounded == have = Pieces \/ band = "99"

Finished == have = Pieces

(* Bound of the model: the loop compares silent with Grace only.           *)
MaxSilent == Grace + Base + At95 + At99 + 1

(* One turn of the loop in _download_with_handle.                          *)
Poll ==
  LET changed == Cardinality(have) # lastDone
      s == IF changed THEN 0 ELSE IF silent < MaxSilent THEN silent + 1 ELSE silent
      q == IF changed \/ Activity(s) THEN 0 ELSE quiet + 1
  IN
  /\ phase = "poll"
  /\ \/ /\ Finished
        /\ phase' = "full" /\ NoHandle
     \/ /\ ~Finished /\ q > StallLimit(band)
        /\ IF attempt = "torrent" THEN FirstFailed ELSE Stalled
     \/ /\ ~Finished /\ q <= StallLimit(band)
        /\ lastDone' = Cardinality(have) /\ silent' = s /\ quiet' = q
        /\ UNCHANGED <<phase, attempt, have, checking, band>>
  /\ UNCHANGED <<disk, canLink, kept, job, runs, faults>>

(* Any other exception: the second attempt, or an error, never a partial   *)
(* payload.                                                                *)
PollFails ==
  /\ phase = "poll" /\ Fault
  /\ IF attempt = "torrent" THEN FirstFailed ELSE phase' = "error" /\ NoHandle
  /\ UNCHANGED <<disk, canLink, kept, job, runs>>

-----------------------------------------------------------------------------
(* _import_payload and the handlers around it                              *)

(* The handlers of a failure remove the file, a hard link with it.         *)
DeletePayload(i) == Unlink(i)

Failed ==
  /\ DeletePayload(rel)
  /\ phase' = "idle"

DownloadFailed ==
  /\ phase = "error"
  /\ Failed
  /\ UNCHANGED <<canLink, kept, job, handle, runs, faults>>

Import ==
  /\ phase \in {"full", "partial"}
  /\ phase' = "keep"
  /\ UNCHANGED <<disk, canLink, kept, job, handle, runs, faults>>

ImportFails ==
  /\ phase \in {"full", "partial", "keep"} /\ Fault
  /\ Failed
  /\ UNCHANGED <<canLink, kept, job, handle, runs>>

(* GracefulShutdown: the file stays for the next run.                      *)
Interrupt ==
  /\ phase \in {"full", "partial"} /\ Fault
  /\ phase' = "idle"
  /\ UNCHANGED <<disk, canLink, kept, job, handle, runs>>

Keep ==
  /\ phase = "keep"
  /\ Replace(rel)
  /\ kept' = File(rel)
  /\ phase' = "idle"
  /\ UNCHANGED <<canLink, job, handle, runs, faults>>

Crash ==
  /\ phase # "idle" /\ Fault
  /\ phase' = "idle" /\ NoHandle
  /\ UNCHANGED <<disk, canLink, kept, job, runs>>

(* DELETE /sync/payloads/{collection}                                      *)
DeleteRetained ==
  /\ Exists(Prev) /\ Fault
  /\ Unlink(Prev)
  /\ UNCHANGED <<canLink, kept, phase, job, handle, runs>>

Next ==
  \/ \E i \in Releases : Begin(i)
  \/ Fetch
  \/ \E k \in Pieces : Verify(k) \/ Receive(k)
  \/ CheckDone \/ Poll \/ PollFails
  \/ DownloadFailed \/ Import \/ ImportFails \/ Interrupt \/ Keep
  \/ Crash \/ DeleteRetained

(* The download thread goes on polling and the main thread goes on         *)
(* importing; nothing is assumed of libtorrent or of the peers.            *)
Fairness ==
  /\ WF_vars(Fetch) /\ WF_vars(Poll)
  /\ WF_vars(DownloadFailed) /\ WF_vars(Import) /\ WF_vars(Keep)

Spec == Init /\ [][Next]_vars /\ Fairness

-----------------------------------------------------------------------------
(* Types; a name refers to an inode with at least one piece in it.         *)
TypeOK ==
  /\ name \in [Names -> Inodes \cup {None}]
  /\ data \in [Inodes -> [Pieces -> 0 .. MaxRel]]
  /\ \A n \in Names : Exists(n) => File(n) # Empty
  /\ canLink \in BOOLEAN
  /\ kept \in [Pieces -> 0 .. MaxRel]
  /\ phase \in {"idle", "fetch", "poll", "full", "partial", "error", "keep"}
  /\ rel \in 0 .. MaxRel /\ url \in [torrent : BOOLEAN, magnet : BOOLEAN]
  /\ attempt \in {"none", "torrent", "magnet"}
  /\ have \in SUBSET Pieces /\ checking \in BOOLEAN /\ band \in Bands
  /\ lastDone \in -1 .. Cardinality(Pieces) /\ silent \in 0 .. MaxSilent /\ quiet \in 0 .. silent
  /\ runs \in 0 .. MaxRuns /\ faults \in 0 .. MaxFaults

(* A download that ends well left exactly the payload of its release under *)
(* the target name, whatever the seed base, an earlier attempt, a crashed  *)
(* run or a failed import had left there before.                           *)
FullIsExact == phase = "full" => File(rel) = Content(rel)

(* No handle is polled for longer than the checking grace and the stall    *)
(* limit without a change of total_done, however libtorrent reports its    *)
(* state; and from 99 % on the stall limit alone bounds the silence, even  *)
(* when the handle claims to be checking.                                  *)
SilenceIsBounded ==
  phase = "poll" /\ lastDone = Cardinality(have) =>
    /\ silent <= Grace + StallLimit(band)
    /\ band = "99" => silent <= StallLimit(band)

(* What a stalled attempt, a crash or an interruption has left of a        *)
(* release is never lost before an import or a failure handler has dealt   *)
(* with it: the next attempt downloads only what is missing.  (With hard   *)
(* links the name of a release that is not downloaded may be the same file *)
(* as that of the one that is.)                                            *)
Correct(i) == IF Exists(i) THEN {k \in Pieces : File(i)[k] = Content(i)[k]} ELSE {}

PiecesAreKept ==
  [][ \A i \in Releases :
        \/ Correct(i) \subseteq Correct(i)'
        \/ i = rel /\ phase \in {"error", "full", "partial", "keep"}
        \/ i # rel /\ canLink ]_vars

(* Where the seed base is copied, the retained payload stays what it was   *)
(* when it was kept, through any number of failed, stalled or killed       *)
(* downloads of the next release.                                          *)
RetainedIntact == ~canLink /\ Exists(Prev) => File(Prev) = kept

(* Every download and every import comes to an end, whether or not peers   *)
(* ever deliver a piece and whatever state libtorrent is stuck in.         *)
DownloadsEnd == phase # "idle" ~> phase = "idle"
=============================================================================

------------------------ MODULE PackageInstallProof ------------------------
(***************************************************************************)
(* Proofs about PackageInstall, for any packages, shared files and events: *)
(* its types, that installs are serial, that jobs match their workers,     *)
(* that a manifest is written of a whole package, and that the inventory   *)
(* that is served is true of the disk.                                     *)
(*                                                                         *)
(* The inductive invariant says of every package where its files are at    *)
(* each step of its install: on disk, staged, or still to do.  It needs    *)
(* the lock, which keeps its siblings away from the disk, and the history  *)
(* variable disturbed, which tells the installs that a clean or a remove   *)
(* took files from.  Of the inventory it says that a scan that is still    *)
(* current has read what is there now, unless a file was changed since and *)
(* the change is yet to be announced.                                      *)
(***************************************************************************)
EXTENDS PackageInstall, TLAPS

-----------------------------------------------------------------------------
(* The inductive invariant *)

Critical(p) == worker[p].at \notin {"none", "begin", "lock", "report"}

\* A live worker has an active job; a package without one has no record.
JobFits(p) ==
  /\ Active(p) <=> ~At(p, "none")
  /\ At(p, "none") => worker[p] = NoWorker

\* A worker inside install's transaction holds the directory's lock.
LockFits(p) == Critical(p) => lock = p

\* Only an install that downloads, publishes or unwinds has a staging directory,
\* and there are no staged files without one.
StagingFits(p) ==
  /\ p \in dirs => worker[p].at \in {"download", "publish", "unwind"}
  /\ staging[p] # {} => p \in dirs

\* Where the files of a package are at each step of its install.
FilesFit(p) ==
  p \notin disturbed =>
    /\ worker[p].at \in {"stage", "publish"} => FilesOf[p] \subseteq disk \cup worker[p].todo
    /\ At(p, "download") => FilesOf[p] \subseteq disk \cup worker[p].todo \cup staging[p]
    /\ At(p, "manifest") => Installed(p)

\* A package fits its job, its worker and the files.
Fits(p) == JobFits(p) /\ LockFits(p) /\ StagingFits(p) /\ FilesFit(p)

\* A clean or a remove is of a package without an active job.
CallFits ==
  handler.op # "none" => handler.package \in Packages /\ ~Active(handler.package)

\* No file has changed without the inventory being told.
Clean ==
  /\ ~unannounced /\ handler.op # "remove"
  /\ \A p \in Packages : ~worker[p].touched

\* What is listed, and what a current scan has read so far, is what is on disk.
InventoryFits ==
  /\ scan.unread \cap scan.found = {}
  /\ Clean =>
       /\ sizeState = "complete" => listing = {p \in Packages : Installed(p)}
       /\ scan.on /\ scan.current =>
            \A p \in Packages \ scan.unread : p \in scan.found <=> Installed(p)

\* The inductive invariant.
Inv == TypeOK /\ CallFits /\ InventoryFits /\ \A p \in Packages : Fits(p)

-----------------------------------------------------------------------------
(* Lemmas *)

\* The records of a worker, a call and a scan, as in TypeOK.
Worker == [at : Places, overwrite : BOOLEAN, todo : SUBSET Files,
           fetching : Files \cup {Nobody}, ok : BOOLEAN, touched : BOOLEAN]
Call == [op : {"none", "clean", "remove"}, package : Packages \cup {Nobody},
         todo : SUBSET (Packages \cup Files)]
Scan == [on : BOOLEAN, current : BOOLEAN, unread : SUBSET Packages, found : SUBSET Packages]

\* The empty records are records.
LEMMA EmptyRecords ==
  /\ NoWorker \in Worker /\ NoCall \in Call /\ NoScan \in Scan
  /\ NoWorker.at = "none" /\ ~NoWorker.touched /\ NoWorker.todo = {}
  /\ NoWorker.fetching = Nobody /\ NoCall.op = "none" /\ ~NoScan.on /\ NoScan.unread = {}
  BY DEF NoWorker, NoCall, NoScan, Worker, Call, Scan, Places

\* The files of a package are files.
LEMMA FilesAreFiles == \A p \in Packages : FilesOf[p] \subseteq Files
  BY DEF Files

\* A worker that goes somewhere keeps the rest of its record.
LEMMA GoesProps ==
  ASSUME worker \in [Packages -> Worker], NEW p \in Packages, NEW place \in Places,
         Goes(p, place)
  PROVE  /\ worker' \in [Packages -> Worker]
         /\ \A q \in Packages \ {p} : worker'[q] = worker[q]
         /\ worker'[p].at = place /\ worker'[p].overwrite = worker[p].overwrite
         /\ worker'[p].todo = worker[p].todo /\ worker'[p].fetching = worker[p].fetching
         /\ worker'[p].ok = worker[p].ok /\ worker'[p].touched = worker[p].touched
<1>1. worker[p] \in Worker
  OBVIOUS
<1>2. worker'[p] = [worker[p] EXCEPT !.at = place]
  BY DEF Goes
<1>3. QED
  BY DEF Goes, Worker

\* A worker that throws unwinds.
LEMMA ThrowsProps ==
  ASSUME worker \in [Packages -> Worker], NEW p \in Packages, Throws(p)
  PROVE  /\ worker' \in [Packages -> Worker]
         /\ \A q \in Packages \ {p} : worker'[q] = worker[q]
         /\ worker'[p].at = "unwind" /\ worker'[p].touched = worker[p].touched
<1>1. worker[p] \in Worker
  OBVIOUS
<1>2. worker'[p] = [worker[p] EXCEPT !.at = "unwind", !.fetching = Nobody]
  BY DEF Throws
<1>3. [worker[p] EXCEPT !.at = "unwind", !.fetching = Nobody] \in Worker
  BY <1>1 DEF Worker, Places
<1>4. QED
  BY <1>3 DEF Throws

\* What holds of a package and its worker before a step.
LEMMA Before ==
  ASSUME Inv, NEW p \in Packages
  PROVE  /\ worker \in [Packages -> Worker] /\ worker[p] \in Worker
         /\ Nobody \notin Packages \cup Files /\ FilesOf[p] \subseteq Files
         /\ JobFits(p) /\ LockFits(p) /\ StagingFits(p) /\ FilesFit(p)
         /\ worker[p].at \in Places
  BY PackagesAssumption DEF Inv, TypeOK, Fits, Files, Worker

\* What a step leaves alone fits of a package as before.
Spares(q) ==
  /\ worker'[q] = worker[q] /\ Active(q)' = Active(q)
  /\ Critical(q) /\ lock = q => lock' = q
  /\ q \in dirs' <=> q \in dirs
  /\ staging'[q] = staging[q]
  /\ q \in disturbed => q \in disturbed'
  /\ Critical(q) /\ q \notin disturbed' => FilesOf[q] \cap disk \subseteq disk'

\* A package that a step spares fits after it.
LEMMA OthersFit ==
  ASSUME Inv, NEW q \in Packages, Spares(q)
  PROVE  Fits(q)'
<1>1. (JobFits(q) /\ LockFits(q) /\ StagingFits(q))'
  BY Before DEF JobFits, LockFits, StagingFits, Critical, Spares, At
<1>2. FilesFit(q)'
  BY Before DEF FilesFit, Critical, Spares, At, Installed
<1>3. QED
  BY <1>1, <1>2 DEF Fits

\* The inventory stays true while the disk does not change, and when an
\* announcement drops it.
LEMMA InventoryKept ==
  ASSUME InventoryFits, UNCHANGED <<disk, sizeState, listing, scan>>, Clean' => Clean
  PROVE  InventoryFits'
  BY DEF InventoryFits, Installed

\* An announced change drops the inventory and outdates the scan.
LEMMA InventoryDropped ==
  ASSUME InventoryFits, scan \in Scan, AnnounceChange
  PROVE  InventoryFits'
  BY DEF InventoryFits, AnnounceChange

\* A step keeps to p: to its record, its job, its staging directory and, while
\* it holds the lock, to the disk.
KeepsTo(p) ==
  /\ \A q \in Packages \ {p} :
       /\ worker'[q] = worker[q] /\ job'[q] = job[q] /\ staging'[q] = staging[q]
       /\ q \in dirs' <=> q \in dirs
  /\ Active(p)' => Active(p)
  /\ \/ lock' = lock
     \/ lock = Nobody /\ lock' = p
     \/ lock = p /\ lock' = Nobody
  /\ disk' = disk \/ (lock = p /\ worker'[p].touched)
  /\ worker[p].touched => worker'[p].touched
  /\ Elsewhere

\* A step that keeps to p keeps the invariant if p fits afterwards.
LEMMA InstallStep ==
  ASSUME Inv, NEW p \in Packages, KeepsTo(p), TypeOK', Fits(p)'
  PROVE  Inv'
<1>1. ASSUME NEW q \in Packages \ {p} PROVE Spares(q)
  <2>1. Nobody \notin Packages /\ (Critical(q) => lock = q)
    BY Before DEF LockFits
  <2>2. QED
    BY <2>1 DEF KeepsTo, Spares, Active, Elsewhere
<1>2. \A q \in Packages : Fits(q)'
  BY <1>1, OthersFit
<1>3. CallFits'
  BY DEF Inv, CallFits, KeepsTo, Elsewhere, Active
<1>4. InventoryFits'
  <2>1. CASE disk' = disk
    <3>1. Clean' => Clean
      BY DEF Clean, KeepsTo, Elsewhere, sizeVars
    <3>2. QED
      BY <2>1, <3>1, InventoryKept DEF Inv, KeepsTo, Elsewhere, sizeVars
  <2>2. CASE worker'[p].touched
    BY <2>2 DEF Inv, InventoryFits, Clean, KeepsTo, Elsewhere, sizeVars
  <2>3. QED
    BY <2>1, <2>2 DEF KeepsTo
<1>5. QED
  BY <1>2, <1>3, <1>4 DEF Inv

-----------------------------------------------------------------------------
(* One lemma for each action *)

\* A worker that begins has an active job, and still has.
LEMMA BeginInv ==
  ASSUME Inv, NEW p \in Packages, Begin(p)
  PROVE  Inv'
<1>1. /\ At(p, "begin")
      /\ Goes(p, "lock") /\ Elsewhere
      /\ job' = [job EXCEPT ![p] = IF Cancelled(p) THEN job[p] ELSE "running"]
      /\ UNCHANGED <<lock, fileVars>>
  BY DEF Begin
<1>2. /\ worker' \in [Packages -> Worker] /\ \A q \in Packages \ {p} : worker'[q] = worker[q]
      /\ worker'[p].at = "lock" /\ worker'[p].todo = worker[p].todo
      /\ worker'[p].touched = worker[p].touched
  BY <1>1, Before, GoesProps DEF Places
<1>3. TypeOK'
  BY <1>1, <1>2 DEF Inv, TypeOK, Worker, Elsewhere, fileVars, sizeVars, Places
<1>4. Fits(p)'
  <2>1. JobFits(p)'
    BY <1>1, <1>2, Before DEF JobFits, Active, At
  <2>2. LockFits(p)' /\ StagingFits(p)'
    BY <1>1, <1>2, Before DEF LockFits, StagingFits, Critical, At, fileVars
  <2>3. FilesFit(p)'
    BY <1>2 DEF FilesFit, At
  <2>4. QED
    BY <2>1, <2>2, <2>3 DEF Fits
<1>5. KeepsTo(p)
  BY <1>1, <1>2, Before DEF KeepsTo, fileVars, At, JobFits
<1>6. QED
  BY <1>3, <1>4, <1>5, InstallStep

\* A worker takes the lock when it is free.
LEMMA TakeLockInv ==
  ASSUME Inv, NEW p \in Packages, TakeLock(p)
  PROVE  Inv'
<1>1. /\ At(p, "lock") /\ lock = Nobody /\ lock' = p
      /\ Goes(p, "plan") /\ Elsewhere
      /\ UNCHANGED <<job, fileVars>>
  BY DEF TakeLock
<1>2. /\ worker' \in [Packages -> Worker] /\ \A q \in Packages \ {p} : worker'[q] = worker[q]
      /\ worker'[p].at = "plan" /\ worker'[p].todo = worker[p].todo
      /\ worker'[p].touched = worker[p].touched
  BY <1>1, Before, GoesProps DEF Places
<1>3. TypeOK'
  BY <1>1, <1>2 DEF Inv, TypeOK, Worker, Elsewhere, fileVars, sizeVars
<1>4. Fits(p)'
  <2>1. JobFits(p)'
    BY <1>1, <1>2, Before DEF JobFits, Active, At
  <2>2. LockFits(p)' /\ StagingFits(p)'
    BY <1>1, Before DEF LockFits, StagingFits, Critical, fileVars
  <2>3. FilesFit(p)'
    BY <1>2 DEF FilesFit, At
  <2>4. QED
    BY <2>1, <2>2, <2>3 DEF Fits
<1>5. KeepsTo(p)
  BY <1>1, <1>2 DEF KeepsTo, Active, fileVars
<1>6. QED
  BY <1>3, <1>4, <1>5, InstallStep

\* A worker cancelled while it waits has no lock to give back.
LEMMA CancelledWaitingInv ==
  ASSUME Inv, NEW p \in Packages, CancelledWaiting(p)
  PROVE  Inv'
<1>1. /\ At(p, "lock")
      /\ Goes(p, "report") /\ Elsewhere
      /\ UNCHANGED <<job, lock, fileVars>>
  BY DEF CancelledWaiting
<1>2. /\ worker' \in [Packages -> Worker] /\ \A q \in Packages \ {p} : worker'[q] = worker[q]
      /\ worker'[p].at = "report" /\ worker'[p].todo = worker[p].todo
      /\ worker'[p].touched = worker[p].touched
  BY <1>1, Before, GoesProps DEF Places
<1>3. TypeOK'
  BY <1>1, <1>2 DEF Inv, TypeOK, Worker, Elsewhere, fileVars, sizeVars
<1>4. Fits(p)'
  <2>1. JobFits(p)'
    BY <1>1, <1>2, Before DEF JobFits, Active, At
  <2>2. LockFits(p)' /\ StagingFits(p)'
    BY <1>1, <1>2, Before DEF LockFits, StagingFits, Critical, At, fileVars
  <2>3. FilesFit(p)'
    BY <1>2 DEF FilesFit, At
  <2>4. QED
    BY <2>1, <2>2, <2>3 DEF Fits
<1>5. KeepsTo(p)
  BY <1>1, <1>2 DEF KeepsTo, Active, fileVars
<1>6. QED
  BY <1>3, <1>4, <1>5, InstallStep

\* A worker makes its staging directory inside the lock.
LEMMA MakeStagingInv ==
  ASSUME Inv, NEW p \in Packages, MakeStaging(p)
  PROVE  Inv'
<1>1. /\ At(p, "stage")
      /\ Goes(p, "download") /\ Elsewhere
      /\ dirs' = dirs \cup {p} /\ UNCHANGED <<job, lock, disk, staging, manifests>>
  BY DEF MakeStaging
<1>2. /\ worker' \in [Packages -> Worker] /\ \A q \in Packages \ {p} : worker'[q] = worker[q]
      /\ worker'[p].at = "download" /\ worker'[p].todo = worker[p].todo
      /\ worker'[p].touched = worker[p].touched
  BY <1>1, Before, GoesProps DEF Places
<1>3. TypeOK'
  BY <1>1, <1>2 DEF Inv, TypeOK, Worker, Elsewhere, sizeVars
<1>4. Fits(p)'
  <2>1. JobFits(p)'
    BY <1>1, <1>2, Before DEF JobFits, Active, At
  <2>2. LockFits(p)' /\ StagingFits(p)'
    BY <1>1, <1>2, Before DEF LockFits, StagingFits, Critical, At
  <2>3. FilesFit(p)'
    BY <1>1, <1>2, Before DEF FilesFit, At, Elsewhere
  <2>4. QED
    BY <2>1, <2>2, <2>3 DEF Fits
<1>5. KeepsTo(p)
  BY <1>1, <1>2 DEF KeepsTo, Active
<1>6. QED
  BY <1>3, <1>4, <1>5, InstallStep

\* An install whose files are all published drops its staging directory.
LEMMA RemoveStagingInv ==
  ASSUME Inv, NEW p \in Packages, RemoveStaging(p)
  PROVE  Inv'
<1>1. /\ At(p, "publish") /\ worker[p].todo = {}
      /\ Goes(p, "manifest") /\ Elsewhere
      /\ dirs' = dirs \ {p} /\ staging' = [staging EXCEPT ![p] = {}]
      /\ UNCHANGED <<job, lock, disk, manifests>>
  BY DEF RemoveStaging
<1>2. /\ worker' \in [Packages -> Worker] /\ \A q \in Packages \ {p} : worker'[q] = worker[q]
      /\ worker'[p].at = "manifest" /\ worker'[p].todo = worker[p].todo
      /\ worker'[p].touched = worker[p].touched
  BY <1>1, Before, GoesProps DEF Places
<1>3. TypeOK'
  BY <1>1, <1>2 DEF Inv, TypeOK, Worker, Elsewhere, fileVars, sizeVars, Places
<1>4. Fits(p)'
  <2>1. JobFits(p)'
    BY <1>1, <1>2, Before DEF JobFits, Active, At
  <2>2. LockFits(p)' /\ StagingFits(p)'
    BY <1>1, Before DEF Inv, TypeOK, LockFits, StagingFits, Critical, At
  <2>3. FilesFit(p)'
    BY <1>1, Before DEF FilesFit, At, Installed, Elsewhere
  <2>4. QED
    BY <2>1, <2>2, <2>3 DEF Fits
<1>5. KeepsTo(p)
  BY <1>1, <1>2 DEF KeepsTo, Active
<1>6. QED
  BY <1>3, <1>4, <1>5, InstallStep

\* An install that throws drops its staging directory.
LEMMA UnwindInv ==
  ASSUME Inv, NEW p \in Packages, Unwind(p)
  PROVE  Inv'
<1>1. /\ At(p, "unwind")
      /\ Goes(p, "release") /\ Elsewhere
      /\ dirs' = dirs \ {p} /\ staging' = [staging EXCEPT ![p] = {}]
      /\ UNCHANGED <<job, lock, disk, manifests>>
  BY DEF Unwind
<1>2. /\ worker' \in [Packages -> Worker] /\ \A q \in Packages \ {p} : worker'[q] = worker[q]
      /\ worker'[p].at = "release" /\ worker'[p].todo = worker[p].todo
      /\ worker'[p].touched = worker[p].touched
  BY <1>1, Before, GoesProps DEF Places
<1>3. TypeOK'
  BY <1>1, <1>2 DEF Inv, TypeOK, Worker, Elsewhere, fileVars, sizeVars, Places
<1>4. Fits(p)'
  <2>1. JobFits(p)'
    BY <1>1, <1>2, Before DEF JobFits, Active, At
  <2>2. LockFits(p)' /\ StagingFits(p)'
    BY <1>1, Before DEF Inv, TypeOK, LockFits, StagingFits, Critical, At
  <2>3. FilesFit(p)'
    BY <1>2 DEF FilesFit, At
  <2>4. QED
    BY <2>1, <2>2, <2>3 DEF Fits
<1>5. KeepsTo(p)
  BY <1>1, <1>2 DEF KeepsTo, Active
<1>6. QED
  BY <1>3, <1>4, <1>5, InstallStep

\* The lock is given back by the worker that holds it, without a staging
\* directory.
LEMMA ReleaseLockInv ==
  ASSUME Inv, NEW p \in Packages, ReleaseLock(p)
  PROVE  Inv'
<1>1. /\ At(p, "release") /\ lock' = Nobody
      /\ Goes(p, "report") /\ Elsewhere
      /\ UNCHANGED <<job, fileVars>>
  BY DEF ReleaseLock
<1>2. /\ worker' \in [Packages -> Worker] /\ \A q \in Packages \ {p} : worker'[q] = worker[q]
      /\ worker'[p].at = "report" /\ worker'[p].todo = worker[p].todo
      /\ worker'[p].touched = worker[p].touched
  BY <1>1, Before, GoesProps DEF Places
<1>3. TypeOK'
  BY <1>1, <1>2 DEF Inv, TypeOK, Worker, Elsewhere, fileVars, sizeVars
<1>4. Fits(p)'
  <2>1. JobFits(p)'
    BY <1>1, <1>2, Before DEF JobFits, Active, At
  <2>2. LockFits(p)' /\ StagingFits(p)'
    BY <1>1, <1>2, Before DEF LockFits, StagingFits, Critical, At, fileVars
  <2>3. FilesFit(p)'
    BY <1>2 DEF FilesFit, At
  <2>4. QED
    BY <2>1, <2>2, <2>3 DEF Fits
<1>5. KeepsTo(p)
  BY <1>1, <1>2, Before DEF KeepsTo, Active, fileVars, At, LockFits, Critical
<1>6. QED
  BY <1>3, <1>4, <1>5, InstallStep

\* The plan leaves nothing out: what is not to download is on disk.
LEMMA PlanInv ==
  ASSUME Inv, NEW p \in Packages, Plan(p)
  PROVE  Inv'
<1>. DEFINE all == FilesOf[p]
           unexpected == (all \cap disk) \ Shared(p)
<1>1. At(p, "plan") /\ UNCHANGED <<job, lock, fileVars>> /\ Elsewhere
  BY DEF Plan
<1>2. /\ worker' \in [Packages -> Worker] /\ \A q \in Packages \ {p} : worker'[q] = worker[q]
      /\ worker'[p].touched = worker[p].touched
      /\ \/ worker'[p].at = "stage" /\ FilesOf[p] \subseteq disk \cup worker'[p].todo
         \/ worker'[p].at = "release"
  <2>. USE Before
  <2>1. CASE worker[p].overwrite
    <3>1. worker' = [worker EXCEPT ![p] = [worker[p] EXCEPT !.at = "stage", !.todo = all]]
      BY <2>1 DEF Plan
    <3>2. [worker[p] EXCEPT !.at = "stage", !.todo = all] \in Worker
      BY DEF Worker, Places
    <3>3. QED
      BY <3>1, <3>2
  <2>2. CASE ~worker[p].overwrite /\ unexpected = {}
    <3>1. worker' = [worker EXCEPT ![p] =
                    [worker[p] EXCEPT !.at = "stage", !.todo = all \ disk]]
      BY <2>2 DEF Plan
    <3>2. [worker[p] EXCEPT !.at = "stage", !.todo = all \ disk] \in Worker
      BY DEF Worker, Places
    <3>3. QED
      BY <3>1, <3>2
  <2>3. CASE ~worker[p].overwrite /\ unexpected # {}
    <3>1. worker' = [worker EXCEPT ![p] =
                    [worker[p] EXCEPT !.at = "release", !.ok = Installed(p)]]
      BY <2>3 DEF Plan
    <3>2. [worker[p] EXCEPT !.at = "release", !.ok = Installed(p)] \in Worker
      BY ZenonT(30) DEF Worker, Places, Installed
    <3>3. QED
      BY <3>1, <3>2
  <2>4. QED
    BY <2>1, <2>2, <2>3
<1>3. TypeOK'
  BY <1>1, <1>2 DEF Inv, TypeOK, Worker, Elsewhere, fileVars, sizeVars
<1>4. Fits(p)'
  <2>1. JobFits(p)'
    BY <1>1, <1>2, Before DEF JobFits, Active, At
  <2>2. LockFits(p)' /\ StagingFits(p)'
    BY <1>1, Before DEF LockFits, StagingFits, Critical, At, fileVars
  <2>3. FilesFit(p)'
    BY <1>1, <1>2 DEF FilesFit, At, fileVars
  <2>4. QED
    BY <2>1, <2>2, <2>3 DEF Fits
<1>5. KeepsTo(p)
  BY <1>1, <1>2 DEF KeepsTo, Active, fileVars
<1>6. QED
  BY <1>3, <1>4, <1>5, InstallStep

\* A file that is no longer to do is staged.
LEMMA OpenDownloadInv ==
  ASSUME Inv, NEW p \in Packages, OpenDownload(p)
  PROVE  Inv'
<1>1. /\ At(p, "download") /\ UNCHANGED <<job, lock, disk, manifests>> /\ Elsewhere
      /\ dirs' = dirs \cup {p}
  BY DEF OpenDownload
<1>2. /\ worker' \in [Packages -> Worker] /\ \A q \in Packages \ {p} : worker'[q] = worker[q]
      /\ worker'[p].touched = worker[p].touched /\ worker'[p].at = "download"
      /\ staging' \in [Packages -> SUBSET Files]
      /\ \A q \in Packages \ {p} : staging'[q] = staging[q]
      /\ worker[p].todo \cup staging[p] \subseteq worker'[p].todo \cup staging'[p]
  <2>1. PICK f \in worker[p].todo :
          /\ worker' = [worker EXCEPT ![p].fetching = f, ![p].todo = @ \ {f}]
          /\ staging' = [staging EXCEPT ![p] = @ \cup {f}]
    BY DEF OpenDownload
  <2>2. [worker[p] EXCEPT !.fetching = f, !.todo = @ \ {f}] \in Worker /\ f \in Files
    BY Before DEF Worker
  <2>3. staging \in [Packages -> SUBSET Files]
    BY DEF Inv, TypeOK
  <2>4. QED
    BY <2>1, Before DEF Worker
<1>3. TypeOK'
  BY <1>1, <1>2 DEF Inv, TypeOK, Worker, Elsewhere, sizeVars
<1>4. Fits(p)'
  <2>1. JobFits(p)'
    BY <1>1, <1>2, Before DEF JobFits, Active, At
  <2>2. LockFits(p)' /\ StagingFits(p)'
    BY <1>1, <1>2, Before DEF LockFits, StagingFits, Critical, At
  <2>3. FilesFit(p)'
    BY <1>1, <1>2, Before DEF FilesFit, At, Elsewhere
  <2>4. QED
    BY <2>1, <2>2, <2>3 DEF Fits
<1>5. KeepsTo(p)
  BY <1>1, <1>2 DEF KeepsTo, Active
<1>6. QED
  BY <1>3, <1>4, <1>5, InstallStep

\* A download ends, or throws.
LEMMA EndDownloadInv ==
  ASSUME Inv, NEW p \in Packages, EndDownload(p)
  PROVE  Inv'
<1>1. At(p, "download") /\ UNCHANGED <<job, lock, fileVars>> /\ Elsewhere
  BY DEF EndDownload
<1>2. /\ worker' \in [Packages -> Worker] /\ \A q \in Packages \ {p} : worker'[q] = worker[q]
      /\ worker'[p].touched = worker[p].touched
      /\ \/ worker'[p].at = "download" /\ worker'[p].todo = worker[p].todo
         \/ worker'[p].at = "unwind"
  <2>1. CASE worker[p].fetching \in staging[p] /\ ~Cancelled(p)
    <3>1. worker' = [worker EXCEPT ![p] = [worker[p] EXCEPT !.fetching = Nobody]]
      BY <2>1 DEF EndDownload
    <3>2. [worker[p] EXCEPT !.fetching = Nobody] \in Worker
      BY Before DEF Worker
    <3>3. QED
      BY <1>1, <3>1, <3>2, Before DEF At
  <2>2. CASE ~(worker[p].fetching \in staging[p] /\ ~Cancelled(p))
    BY <2>2, Before, ThrowsProps DEF EndDownload
  <2>3. QED
    BY <2>1, <2>2
<1>3. TypeOK'
  BY <1>1, <1>2 DEF Inv, TypeOK, Worker, Elsewhere, fileVars, sizeVars
<1>4. Fits(p)'
  <2>1. JobFits(p)'
    BY <1>1, <1>2, Before DEF JobFits, Active, At
  <2>2. LockFits(p)' /\ StagingFits(p)'
    BY <1>1, <1>2, Before DEF LockFits, StagingFits, Critical, At, fileVars
  <2>3. FilesFit(p)'
    BY <1>1, <1>2, Before DEF FilesFit, At, fileVars, Elsewhere
  <2>4. QED
    BY <2>1, <2>2, <2>3 DEF Fits
<1>5. KeepsTo(p)
  BY <1>1, <1>2 DEF KeepsTo, Active, fileVars
<1>6. QED
  BY <1>3, <1>4, <1>5, InstallStep

\* Publishing begins when all files are staged or on disk.
LEMMA StartPublishInv ==
  ASSUME Inv, NEW p \in Packages, StartPublish(p)
  PROVE  Inv'
<1>1. At(p, "download") /\ UNCHANGED <<job, lock, fileVars>> /\ Elsewhere
  BY DEF StartPublish
<1>2. /\ worker' \in [Packages -> Worker] /\ \A q \in Packages \ {p} : worker'[q] = worker[q]
      /\ worker'[p].touched = worker[p].touched
      /\ \/ worker'[p].at = "publish" /\ worker[p].todo = {} /\ worker'[p].todo = staging[p]
         \/ worker'[p].at = "unwind"
  <2>1. CASE p \in dirs /\ ~Cancelled(p)
    <3>1. worker' = [worker EXCEPT ![p] =
                    [worker[p] EXCEPT !.at = "publish", !.todo = staging[p]]]
      BY <2>1 DEF StartPublish
    <3>2. staging[p] \in SUBSET Files
      BY DEF Inv, TypeOK
    <3>3. [worker[p] EXCEPT !.at = "publish", !.todo = staging[p]] \in Worker
      BY <3>2, Before DEF Worker, Places
    <3>4. worker[p].todo = {}
      BY <2>1 DEF StartPublish
    <3>5. QED
      BY <3>1, <3>3, <3>4, Before
  <2>2. CASE ~(p \in dirs /\ ~Cancelled(p))
    BY <2>2, Before, ThrowsProps DEF StartPublish
  <2>3. QED
    BY <2>1, <2>2
<1>3. TypeOK'
  BY <1>1, <1>2 DEF Inv, TypeOK, Worker, Elsewhere, fileVars, sizeVars
<1>4. Fits(p)'
  <2>1. JobFits(p)'
    BY <1>1, <1>2, Before DEF JobFits, Active, At
  <2>2. LockFits(p)' /\ StagingFits(p)'
    BY <1>1, <1>2, Before DEF LockFits, StagingFits, Critical, At, fileVars
  <2>3. FilesFit(p)'
    BY <1>1, <1>2, Before DEF FilesFit, At, fileVars, Elsewhere
  <2>4. QED
    BY <2>1, <2>2, <2>3 DEF Fits
<1>5. KeepsTo(p)
  BY <1>1, <1>2 DEF KeepsTo, Active, fileVars
<1>6. QED
  BY <1>3, <1>4, <1>5, InstallStep

\* A file that is removed to be replaced is still to publish.
LEMMA RemoveOldInv ==
  ASSUME Inv, NEW p \in Packages, RemoveOld(p)
  PROVE  Inv'
<1>1. /\ At(p, "publish") /\ UNCHANGED <<job, lock, dirs, staging, manifests>> /\ Elsewhere
  BY DEF RemoveOld
<1>2. /\ worker' \in [Packages -> Worker] /\ \A q \in Packages \ {p} : worker'[q] = worker[q]
      /\ worker'[p].touched /\ worker'[p].at = "publish" /\ disk' \subseteq Files
      /\ disk \cup worker[p].todo \subseteq disk' \cup worker'[p].todo
  <2>1. PICK f \in worker[p].todo \cap disk :
          /\ worker' = [worker EXCEPT ![p] =
                       [worker[p] EXCEPT !.fetching = f, !.touched = TRUE]]
          /\ disk' = disk \ {f}
    BY DEF RemoveOld
  <2>2. [worker[p] EXCEPT !.fetching = f, !.touched = TRUE] \in Worker
    BY Before DEF Worker
  <2>3. disk \subseteq Files
    BY DEF Inv, TypeOK
  <2>4. QED
    BY <1>1, <2>1, <2>2, <2>3, Before DEF At
<1>3. TypeOK'
  BY <1>1, <1>2 DEF Inv, TypeOK, Worker, Elsewhere, sizeVars
<1>4. Fits(p)'
  <2>1. JobFits(p)'
    BY <1>1, <1>2, Before DEF JobFits, Active, At
  <2>2. LockFits(p)' /\ StagingFits(p)'
    BY <1>1, <1>2, Before DEF LockFits, StagingFits, Critical, At
  <2>3. FilesFit(p)'
    BY <1>1, <1>2, Before DEF FilesFit, At, Elsewhere
  <2>4. QED
    BY <2>1, <2>2, <2>3 DEF Fits
<1>5. KeepsTo(p)
  BY <1>1, <1>2, Before DEF KeepsTo, Active, At, LockFits, Critical
<1>6. QED
  BY <1>3, <1>4, <1>5, InstallStep

\* A file that is no longer to publish is on disk.
LEMMA PublishInv ==
  ASSUME Inv, NEW p \in Packages, Publish(p)
  PROVE  Inv'
<1>1. /\ At(p, "publish") /\ UNCHANGED <<job, lock, dirs, manifests>> /\ Elsewhere
  BY DEF Publish
<1>2. /\ worker' \in [Packages -> Worker] /\ \A q \in Packages \ {p} : worker'[q] = worker[q]
      /\ worker[p].touched => worker'[p].touched
      /\ staging' \in [Packages -> SUBSET Files] /\ staging'[p] \subseteq staging[p]
      /\ \A q \in Packages \ {p} : staging'[q] = staging[q]
      /\ disk' \subseteq Files /\ (disk' = disk \/ worker'[p].touched)
      /\ \/ /\ worker'[p].at = "publish"
            /\ disk \cup worker[p].todo \subseteq disk' \cup worker'[p].todo
         \/ worker'[p].at = "unwind"
  <2>1. disk \subseteq Files /\ staging \in [Packages -> SUBSET Files]
    BY DEF Inv, TypeOK
  <2>2. PICK f \in worker[p].todo :
          IF f \in staging[p] \ disk
            THEN /\ disk' = disk \cup {f}
                 /\ staging' = [staging EXCEPT ![p] = @ \ {f}]
                 /\ worker' = [worker EXCEPT ![p].todo = @ \ {f}, ![p].fetching = Nobody,
                                             ![p].touched = TRUE]
            ELSE Throws(p) /\ UNCHANGED <<disk, staging>>
    BY DEF Publish
  <2>3. CASE f \in staging[p] \ disk
    <3>1. /\ disk' = disk \cup {f} /\ staging' = [staging EXCEPT ![p] = @ \ {f}]
          /\ worker' = [worker EXCEPT ![p] =
                       [worker[p] EXCEPT !.todo = @ \ {f}, !.fetching = Nobody,
                                                               !.touched = TRUE]]
      BY <2>2, <2>3
    <3>2. /\ [worker[p] EXCEPT !.todo = @ \ {f}, !.fetching = Nobody,
                               !.touched = TRUE] \in Worker
          /\ f \in Files
      BY Before DEF Worker
    <3>3. QED
      BY <1>1, <2>1, <3>1, <3>2, Before DEF At
  <2>4. CASE f \notin staging[p] \ disk
    BY <2>1, <2>2, <2>4, Before, ThrowsProps
  <2>5. QED
    BY <2>3, <2>4
<1>3. TypeOK'
  BY <1>1, <1>2 DEF Inv, TypeOK, Worker, Elsewhere, sizeVars
<1>4. Fits(p)'
  <2>1. JobFits(p)'
    BY <1>1, <1>2, Before DEF JobFits, Active, At
  <2>2. LockFits(p)' /\ StagingFits(p)'
    BY <1>1, <1>2, Before DEF LockFits, StagingFits, Critical, At
  <2>3. FilesFit(p)'
    BY <1>1, <1>2, Before DEF FilesFit, At, Elsewhere
  <2>4. QED
    BY <2>1, <2>2, <2>3 DEF Fits
<1>5. KeepsTo(p)
  BY <1>1, <1>2, Before DEF KeepsTo, Active, At, LockFits, Critical
<1>6. QED
  BY <1>3, <1>4, <1>5, InstallStep

\* The manifest is written inside the lock.
LEMMA WriteManifestInv ==
  ASSUME Inv, NEW p \in Packages, WriteManifest(p)
  PROVE  Inv'
<1>1. /\ At(p, "manifest") /\ UNCHANGED <<job, lock, disk, dirs, staging>> /\ Elsewhere
      /\ manifests' = manifests \cup {p}
  BY DEF WriteManifest
<1>2. /\ worker' \in [Packages -> Worker] /\ \A q \in Packages \ {p} : worker'[q] = worker[q]
      /\ worker'[p].touched = worker[p].touched /\ worker'[p].at = "release"
  <2>1. worker' = [worker EXCEPT ![p] = [worker[p] EXCEPT !.at = "release", !.ok = TRUE]]
    BY DEF WriteManifest
  <2>2. [worker[p] EXCEPT !.at = "release", !.ok = TRUE] \in Worker
    BY Before DEF Worker, Places
  <2>3. QED
    BY <2>1, <2>2, Before
<1>3. TypeOK'
  BY <1>1, <1>2 DEF Inv, TypeOK, Worker, Elsewhere, sizeVars
<1>4. Fits(p)'
  <2>1. JobFits(p)'
    BY <1>1, <1>2, Before DEF JobFits, Active, At
  <2>2. LockFits(p)' /\ StagingFits(p)'
    BY <1>1, Before DEF LockFits, StagingFits, Critical, At
  <2>3. FilesFit(p)'
    BY <1>2 DEF FilesFit, At
  <2>4. QED
    BY <2>1, <2>2, <2>3 DEF Fits
<1>5. KeepsTo(p)
  BY <1>1, <1>2 DEF KeepsTo, Active
<1>6. QED
  BY <1>3, <1>4, <1>5, InstallStep

\* A failure unwinds, or has nothing to unwind.
LEMMA FailsInv ==
  ASSUME Inv, NEW p \in Packages, Fails(p)
  PROVE  Inv'
<1>1. /\ worker[p].at \in {"stage", "download", "publish", "manifest"}
      /\ UNCHANGED <<job, lock, fileVars>> /\ Elsewhere
  BY DEF Fails
<1>2. /\ worker' \in [Packages -> Worker] /\ \A q \in Packages \ {p} : worker'[q] = worker[q]
      /\ worker'[p].touched = worker[p].touched
      /\ \/ worker'[p].at = "release" /\ At(p, "stage")
         \/ worker'[p].at = "unwind"
  <2>1. CASE At(p, "stage")
    <3>1. Goes(p, "release")
      BY <2>1 DEF Fails
    <3>2. QED
      BY <2>1, <3>1, Before, GoesProps DEF Places
  <2>2. CASE ~At(p, "stage")
    BY <2>2, Before, ThrowsProps DEF Fails
  <2>3. QED
    BY <2>1, <2>2
<1>3. TypeOK'
  BY <1>1, <1>2 DEF Inv, TypeOK, Worker, Elsewhere, fileVars, sizeVars
<1>4. Fits(p)'
  <2>1. JobFits(p)'
    BY <1>1, <1>2, Before DEF JobFits, Active, At
  <2>2. LockFits(p)' /\ StagingFits(p)'
    BY <1>1, <1>2, Before DEF LockFits, StagingFits, Critical, At, fileVars
  <2>3. FilesFit(p)'
    BY <1>2 DEF FilesFit, At
  <2>4. QED
    BY <2>1, <2>2, <2>3 DEF Fits
<1>5. KeepsTo(p)
  BY <1>1, <1>2 DEF KeepsTo, Active, fileVars
<1>6. QED
  BY <1>3, <1>4, <1>5, InstallStep

\* A worker that reports has given everything back; the inventory is dropped,
\* or the change it made is kept quiet.
LEMMA ReportInv ==
  ASSUME Inv, NEW p \in Packages, Report(p)
  PROVE  Inv'
<1>. DEFINE outcome == IF Cancelled(p) THEN "cancelled"
                       ELSE IF worker[p].ok THEN "complete" ELSE "failed"
<1>1. /\ At(p, "report") /\ UNCHANGED <<lock, fileVars, handler, disturbed>>
      /\ job' = [job EXCEPT ![p] = outcome] /\ worker' = [worker EXCEPT ![p] = NoWorker]
      /\ IF job'[p] = "complete" THEN AnnounceChange
         ELSE /\ unannounced' = (unannounced \/ worker[p].touched)
              /\ UNCHANGED <<sizeState, listing, scan>>
  BY DEF Report
<1>2. outcome \in {"cancelled", "complete", "failed"}
  OBVIOUS
<1>. HIDE DEF outcome
<1>3. /\ job' \in [Packages -> {"none", "queued", "running", "cancelling",
                                "cancelled", "complete", "failed"}]
      /\ \A q \in Packages \ {p} : worker'[q] = worker[q] /\ job'[q] = job[q]
      /\ worker'[p] = NoWorker /\ job'[p] = outcome
      /\ worker' \in [Packages -> Worker]
  BY <1>1, <1>2, Before, EmptyRecords DEF Inv, TypeOK
<1>4. ASSUME NEW q \in Packages \ {p} PROVE Spares(q)
  BY <1>1 DEF Spares, Active, fileVars
<1>5. Fits(p)'
  BY <1>1, <1>2, <1>3, Before, EmptyRecords DEF Fits, JobFits, LockFits, StagingFits,
         FilesFit, Active, At, Critical, fileVars
<1>6. \A q \in Packages : Fits(q)'
  BY <1>4, <1>5, OthersFit
<1>7. CallFits'
  BY <1>1, <1>2 DEF Inv, CallFits, Active
<1>8. TypeOK' /\ InventoryFits'
  <2>1. CASE job'[p] = "complete"
    <3>1. AnnounceChange /\ scan \in Scan
      BY <1>1, <2>1 DEF Inv, TypeOK, Scan
    <3>2. TypeOK'
      BY <1>1, <1>3, <3>1 DEF Inv, TypeOK, Worker, AnnounceChange, Scan, fileVars
    <3>3. QED
      BY <3>1, <3>2, InventoryDropped DEF Inv
  <2>2. CASE job'[p] # "complete"
    <3>1. /\ unannounced' = (unannounced \/ worker[p].touched)
          /\ UNCHANGED <<sizeState, listing, scan>>
      BY <1>1, <2>2
    <3>2. worker[p].touched \in BOOLEAN /\ unannounced \in BOOLEAN
      BY DEF Inv, TypeOK
    <3>3. TypeOK'
      BY <1>1, <1>3, <3>1 DEF Inv, TypeOK, Worker, fileVars
    <3>4. Clean' => Clean
      BY <1>1, <3>1, <3>2 DEF Clean
    <3>5. QED
      BY <1>1, <3>1, <3>3, <3>4, InventoryKept DEF Inv, fileVars
  <2>3. QED
    BY <2>1, <2>2
<1>9. QED
  BY <1>6, <1>7, <1>8 DEF Inv

\* A package that is started has no worker and no call of its own.
LEMMA StartInv ==
  ASSUME Inv, NEW p \in Packages, Start(p)
  PROVE  Inv'
<1>1. PICK overwrite \in BOOLEAN :
        /\ handler = NoCall /\ ~Active(p)
        /\ worker' = [worker EXCEPT ![p] = [NoWorker EXCEPT !.at = "begin",
                                                            !.overwrite = overwrite]]
        /\ job' = [job EXCEPT ![p] = "queued"] /\ disturbed' = disturbed \ {p}
        /\ UNCHANGED <<lock, fileVars, handler, sizeVars>>
  BY DEF Start
<1>. DEFINE r == [NoWorker EXCEPT !.at = "begin", !.overwrite = overwrite]
<1>2. r \in Worker /\ r.at = "begin" /\ ~r.touched
  BY DEF Worker, NoWorker, Places
<1>3. worker' = [worker EXCEPT ![p] = r]
  BY <1>1
<1>. HIDE DEF r
<1>4. /\ worker' \in [Packages -> Worker] /\ worker'[p] = r
      /\ \A q \in Packages \ {p} : worker'[q] = worker[q]
  BY <1>2, <1>3, Before
<1>5. /\ job' \in [Packages -> {"none", "queued", "running", "cancelling",
                                "cancelled", "complete", "failed"}]
      /\ job'[p] = "queued" /\ \A q \in Packages \ {p} : job'[q] = job[q]
  BY <1>1 DEF Inv, TypeOK
<1>6. worker[p] = NoWorker /\ ~worker[p].touched
  BY <1>1, Before, EmptyRecords DEF JobFits
<1>7. ASSUME NEW q \in Packages \ {p} PROVE Spares(q)
  BY <1>1 DEF Spares, Active, fileVars
<1>8. Fits(p)'
  BY <1>1, <1>5, Before DEF Fits, JobFits, LockFits, StagingFits, FilesFit, Active, At,
         Critical, fileVars
<1>9. \A q \in Packages : Fits(q)'
  BY <1>7, <1>8, OthersFit
<1>10. TypeOK'
  BY <1>1, <1>4 DEF Inv, TypeOK, Worker, fileVars, sizeVars
<1>11. CallFits'
  BY <1>1, EmptyRecords DEF CallFits
<1>12. InventoryFits'
  <2>1. Clean' => Clean
    BY <1>1, <1>6 DEF Clean, sizeVars
  <2>2. QED
    BY <1>1, <2>1, InventoryKept DEF Inv, fileVars, sizeVars
<1>13. QED
  BY <1>9, <1>10, <1>11, <1>12 DEF Inv

\* A step that leaves the workers and their files alone keeps what fits.
LEMMA CallStart ==
  ASSUME Inv, UNCHANGED <<worker, lock, disk, dirs, staging>>, disturbed \subseteq disturbed',
         \A q \in Packages : Active(q)' = Active(q)
  PROVE  \A q \in Packages : Fits(q)'
<1>1. ASSUME NEW q \in Packages PROVE Spares(q)
  BY DEF Spares
<1>2. QED
  BY <1>1, OthersFit

\* A stop changes the state of an active job, which stays active.
LEMMA StopInv ==
  ASSUME Inv, NEW p \in Packages, Stop(p)
  PROVE  Inv'
<1>1. /\ handler = NoCall /\ Active(p) /\ job' = [job EXCEPT ![p] = "cancelling"]
      /\ UNCHANGED <<worker, lock, fileVars, handler, sizeVars, disturbed>>
  BY DEF Stop
<1>2. ASSUME NEW q \in Packages PROVE Active(q)' = Active(q)
  BY <1>1 DEF Active
<1>3. \A q \in Packages : Fits(q)'
  BY <1>1, <1>2, CallStart DEF fileVars
<1>4. TypeOK'
  BY <1>1 DEF Inv, TypeOK, fileVars, sizeVars
<1>5. CallFits'
  BY <1>1, EmptyRecords DEF CallFits
<1>6. InventoryFits'
  <2>1. Clean' => Clean
    BY <1>1 DEF Clean, sizeVars
  <2>2. QED
    BY <1>1, <2>1, InventoryKept DEF Inv, fileVars, sizeVars
<1>7. QED
  BY <1>3, <1>4, <1>5, <1>6 DEF Inv

\* A clean or a remove begins for a package without an active job.
LEMMA StartCallInv ==
  ASSUME Inv, NEW p \in Packages, StartClean(p) \/ StartRemove(p)
  PROVE  Inv'
<1>1. PICK op \in {"clean", "remove"}, todo \in SUBSET (Packages \cup Files) :
        /\ handler = NoCall /\ ~Active(p)
        /\ handler' = [op |-> op, package |-> p, todo |-> todo]
        /\ UNCHANGED <<jobVars, fileVars, sizeVars, disturbed>>
  <2>1. /\ dirs \in SUBSET (Packages \cup Files)
        /\ FilesOf[p] \ Shared(p) \in SUBSET (Packages \cup Files)
    BY Before DEF Inv, TypeOK
  <2>2. CASE StartClean(p)
    BY <2>1, <2>2 DEF StartClean
  <2>3. CASE StartRemove(p)
    BY <2>1, <2>3 DEF StartRemove
  <2>4. QED
    BY <2>2, <2>3
<1>2. \A q \in Packages : Active(q)' = Active(q)
  BY <1>1 DEF Active, jobVars
<1>3. \A q \in Packages : Fits(q)'
  BY <1>1, <1>2, CallStart DEF fileVars, jobVars
<1>4. TypeOK'
  BY <1>1 DEF Inv, TypeOK, fileVars, sizeVars, jobVars
<1>5. CallFits'
  BY <1>1, <1>2 DEF CallFits
<1>6. InventoryFits'
  <2>1. Clean' => Clean
    BY <1>1, EmptyRecords DEF Clean, sizeVars, jobVars
  <2>2. QED
    BY <1>1, <2>1, InventoryKept DEF Inv, fileVars, sizeVars
<1>7. QED
  BY <1>3, <1>4, <1>5, <1>6 DEF Inv

\* An install whose staging directory is removed is disturbed; one that has none
\* has nothing staged.
LEMMA CleanOneInv ==
  ASSUME Inv, CleanOne
  PROVE  Inv'
<1>1. PICK d \in handler.todo :
        /\ handler.op = "clean" /\ handler' = [handler EXCEPT !.todo = @ \ {d}]
        /\ dirs' = dirs \ {d} /\ staging' = [staging EXCEPT ![d] = {}]
        /\ disturbed' = disturbed \cup (dirs \cap {d})
        /\ UNCHANGED <<jobVars, disk, manifests, sizeVars>>
  BY DEF CleanOne
<1>2. handler \in Call /\ handler' \in Call /\ handler'.op = "clean"
      /\ handler'.package = handler.package
  BY <1>1 DEF Inv, TypeOK, Call
<1>3. staging \in [Packages -> SUBSET Files] /\ dirs \subseteq Packages
  BY DEF Inv, TypeOK
<1>4. ASSUME NEW q \in Packages PROVE Fits(q)'
  <2>1. CASE q = d /\ q \in dirs
    <3>1. q \in disturbed' /\ staging'[q] = {} /\ q \notin dirs'
      BY <1>1, <1>3, <2>1
    <3>2. QED
      BY <1>1, <3>1, Before DEF Fits, JobFits, LockFits, StagingFits, FilesFit,
             Critical, Active, At, jobVars
  <2>2. CASE ~(q = d /\ q \in dirs)
    <3>1. staging'[q] = staging[q]
      BY <1>1, <1>3, <2>2, Before DEF StagingFits
    <3>2. Spares(q)
      BY <1>1, <2>2, <3>1 DEF Spares, Active, jobVars
    <3>3. QED
      BY <3>2, OthersFit
  <2>3. QED
    BY <2>1, <2>2
<1>5. TypeOK'
  <2>1. staging' \in [Packages -> SUBSET Files] /\ disturbed' \subseteq Packages
    BY <1>1, <1>3 DEF Inv, TypeOK
  <2>2. QED
    BY <1>1, <2>1 DEF Inv, TypeOK, sizeVars, jobVars
<1>6. CallFits'
  BY <1>1 DEF Inv, CallFits, Active, jobVars
<1>7. InventoryFits'
  <2>1. Clean' => Clean
    BY <1>1 DEF Clean, sizeVars, jobVars
  <2>2. QED
    BY <1>1, <2>1, InventoryKept DEF Inv, sizeVars
<1>8. QED
  BY <1>4, <1>5, <1>6, <1>7 DEF Inv

\* A clean erases a job that is not active.
LEMMA EndCleanInv ==
  ASSUME Inv, EndClean
  PROVE  Inv'
<1>1. /\ handler.op = "clean" /\ job' = [job EXCEPT ![handler.package] = "none"]
      /\ handler' = NoCall
      /\ UNCHANGED <<worker, lock, fileVars, sizeVars, disturbed>>
  BY DEF EndClean
<1>2. handler.package \in Packages /\ ~Active(handler.package)
  BY <1>1 DEF Inv, CallFits
<1>3. \A q \in Packages : Active(q)' = Active(q)
  BY <1>1, <1>2 DEF Active
<1>4. \A q \in Packages : Fits(q)'
  BY <1>1, <1>3, CallStart DEF fileVars
<1>5. TypeOK'
  BY <1>1, EmptyRecords DEF Inv, TypeOK, Call, fileVars, sizeVars
<1>6. CallFits'
  BY <1>1, EmptyRecords DEF CallFits
<1>7. InventoryFits'
  <2>1. Clean' => Clean
    BY <1>1 DEF Clean, sizeVars
  <2>2. QED
    BY <1>1, <2>1, InventoryKept DEF Inv, fileVars, sizeVars
<1>8. QED
  BY <1>4, <1>5, <1>6, <1>7 DEF Inv

\* An install whose file is removed is disturbed.
LEMMA RemoveOneInv ==
  ASSUME Inv, RemoveOne
  PROVE  Inv'
<1>1. PICK f \in handler.todo :
        /\ handler.op = "remove" /\ handler' = [handler EXCEPT !.todo = @ \ {f}]
        /\ disk' = disk \ {f}
        /\ disturbed' =
             disturbed \cup {q \in Packages : ~At(q, "none") /\ f \in FilesOf[q]}
        /\ UNCHANGED <<jobVars, dirs, staging, manifests, sizeVars>>
  BY DEF RemoveOne
<1>2. handler' \in Call /\ handler'.op = "remove" /\ handler'.package = handler.package
  BY <1>1 DEF Inv, TypeOK, Call
<1>3. ASSUME NEW q \in Packages PROVE Spares(q)
  BY <1>1 DEF Spares, Critical, At, Active, jobVars
<1>4. \A q \in Packages : Fits(q)'
  BY <1>3, OthersFit
<1>5. TypeOK'
  BY <1>1 DEF Inv, TypeOK, sizeVars, jobVars
<1>6. CallFits'
  BY <1>1 DEF Inv, CallFits, Active, jobVars
<1>7. InventoryFits'
  BY <1>1 DEF Inv, InventoryFits, Clean, sizeVars
<1>8. QED
  BY <1>4, <1>5, <1>6, <1>7 DEF Inv

\* A remove erases a job that is not active, and drops the inventory.
LEMMA EndRemoveInv ==
  ASSUME Inv, EndRemove
  PROVE  Inv'
<1>1. /\ handler.op = "remove" /\ job' = [job EXCEPT ![handler.package] = "none"]
      /\ handler' = NoCall /\ manifests' = manifests \ {handler.package} /\ AnnounceChange
      /\ UNCHANGED <<worker, lock, disk, dirs, staging, disturbed>>
  BY DEF EndRemove
<1>2. handler.package \in Packages /\ ~Active(handler.package) /\ scan \in Scan
  BY <1>1 DEF Inv, CallFits, TypeOK, Scan
<1>3. \A q \in Packages : Active(q)' = Active(q)
  BY <1>1, <1>2 DEF Active
<1>4. \A q \in Packages : Fits(q)'
  BY <1>1, <1>3, CallStart
<1>5. TypeOK'
  BY <1>1, <1>2, EmptyRecords DEF Inv, TypeOK, Call, Scan, AnnounceChange
<1>6. CallFits'
  BY <1>1, EmptyRecords DEF CallFits
<1>7. InventoryFits'
  BY <1>1, <1>2, InventoryDropped DEF Inv
<1>8. QED
  BY <1>4, <1>5, <1>6, <1>7 DEF Inv

\* A step of the inventory's thread, or of what starts it, touches only the scan.
LEMMA ScanStepInv ==
  ASSUME Inv, UNCHANGED <<jobVars, fileVars, handler, unannounced, disturbed>>,
         sizeState' \in {"idle", "running", "complete", "failed"}, listing' \subseteq Packages,
         scan' \in Scan, InventoryFits'
  PROVE  Inv'
<1>1. \A q \in Packages : Fits(q)'
  BY CallStart DEF Active, jobVars, fileVars
<1>2. TypeOK'
  BY DEF Inv, TypeOK, Scan, jobVars, fileVars
<1>3. CallFits'
  BY DEF Inv, CallFits, Active, jobVars
<1>4. QED
  BY <1>1, <1>2, <1>3 DEF Inv

\* A scan that starts has read nothing.
LEMMA PackageSizesInv ==
  ASSUME Inv, PackageSizes
  PROVE  Inv'
<1>1. /\ sizeState' = "running"
      /\ scan' = [on |-> TRUE, current |-> TRUE, unread |-> Packages, found |-> {}]
      /\ UNCHANGED <<jobVars, fileVars, handler, listing, unannounced, disturbed>>
  BY DEF PackageSizes
<1>2. scan' \in Scan /\ scan'.unread = Packages
  BY <1>1 DEF Scan
<1>3. InventoryFits'
  BY <1>1 DEF InventoryFits
<1>4. QED
  BY <1>1, <1>2, <1>3, ScanStepInv DEF Inv, TypeOK

\* A scan reads of a package what is there.
LEMMA ReadPackageInv ==
  ASSUME Inv, ReadPackage
  PROVE  Inv'
<1>1. PICK p \in scan.unread :
        /\ scan' = [scan EXCEPT !.unread = @ \ {p},
                                !.found = IF Installed(p) THEN @ \cup {p} ELSE @]
        /\ UNCHANGED <<jobVars, fileVars, handler, sizeState, listing, unannounced, disturbed>>
  BY DEF ReadPackage
<1>. DEFINE found == IF Installed(p) THEN scan.found \cup {p} ELSE scan.found
<1>2. scan \in Scan /\ p \in Packages
  BY DEF Inv, TypeOK, Scan
<1>3. /\ p \in found <=> Installed(p) \/ p \in scan.found
      /\ \A q \in Packages \ {p} : q \in found <=> q \in scan.found
      /\ found \subseteq Packages
      /\ Installed(p) \/ found = scan.found
  BY <1>2 DEF Scan
<1>4. scan' = [scan EXCEPT !.unread = @ \ {p}, !.found = found]
  BY <1>1
<1>. HIDE DEF found
<1>5. /\ scan' \in Scan /\ scan'.unread = scan.unread \ {p} /\ scan'.found = found
      /\ scan'.on = scan.on /\ scan'.current = scan.current
  BY <1>2, <1>3, <1>4 DEF Scan
<1>6. InventoryFits'
  <2>1. Clean' = Clean /\ \A q \in Packages : Installed(q)' = Installed(q)
    BY <1>1 DEF Clean, Installed, fileVars, jobVars
  <2>2. ASSUME Clean, scan.on, scan.current, NEW q \in Packages \ scan'.unread
        PROVE  q \in scan'.found <=> Installed(q)
    <3>1. CASE q = p
      <4>1. p \notin scan.found
        BY DEF Inv, InventoryFits
      <4>2. QED
        BY <1>3, <1>5, <3>1, <4>1
    <3>2. CASE q # p
      <4>1. q \notin scan.unread
        BY <1>5, <3>2
      <4>2. QED
        BY <1>3, <1>5, <2>2 DEF Inv, InventoryFits
    <3>3. QED
      BY <3>1, <3>2
  <2>3. Clean => (sizeState' = "complete" => listing' = {q \in Packages : Installed(q)})
    BY <1>1 DEF Inv, InventoryFits
  <2>4. scan'.unread \cap scan'.found = {}
    BY <1>3, <1>5 DEF Inv, InventoryFits
  <2>5. QED
    BY <1>5, <2>1, <2>2, <2>3, <2>4 DEF InventoryFits
<1>7. QED
  BY <1>1, <1>5, <1>6, ScanStepInv DEF Inv, TypeOK

\* A scan that is current when it ends has read all packages.
LEMMA EndScanInv ==
  ASSUME Inv, EndScan \/ FailScan
  PROVE  Inv'
<1>1. /\ scan' = NoScan /\ scan' \in Scan /\ ~scan'.on /\ scan'.unread = {} /\ scan \in Scan
      /\ UNCHANGED <<jobVars, fileVars, handler, unannounced, disturbed>>
  BY EmptyRecords DEF EndScan, FailScan, Inv, TypeOK, Scan
<1>2. Clean' = Clean /\ \A q \in Packages : Installed(q)' = Installed(q)
  BY <1>1 DEF Clean, Installed, fileVars, jobVars
<1>3. CASE EndScan /\ scan.current
  <2>1. scan.on /\ scan.unread = {} /\ sizeState' = "complete" /\ listing' = scan.found
    BY <1>3 DEF EndScan
  <2>2. listing' \subseteq Packages
    BY <1>1, <2>1 DEF Scan
  <2>3. Clean => \A q \in Packages : q \in scan.found <=> Installed(q)
    BY <1>3, <2>1 DEF Inv, InventoryFits
  <2>4. InventoryFits'
    BY <1>1, <1>2, <2>1, <2>2, <2>3 DEF InventoryFits
  <2>5. QED
    BY <1>1, <2>1, <2>2, <2>4, ScanStepInv
<1>4. CASE EndScan /\ ~scan.current
  <2>1. UNCHANGED <<sizeState, listing>>
    BY <1>4 DEF EndScan
  <2>2. InventoryFits'
    BY <1>1, <1>2, <2>1 DEF Inv, InventoryFits
  <2>3. QED
    BY <1>1, <2>1, <2>2, ScanStepInv DEF Inv, TypeOK
<1>5. CASE FailScan
  <2>1. listing' = listing /\ (sizeState' = "failed" \/ sizeState' = sizeState)
    BY <1>5 DEF FailScan
  <2>2. InventoryFits'
    BY <1>1, <1>2, <2>1 DEF Inv, InventoryFits
  <2>3. QED
    BY <1>1, <2>1, <2>2, ScanStepInv DEF Inv, TypeOK
<1>6. QED
  BY <1>3, <1>4, <1>5

\* With no jobs, no calls and no inventory, whatever is on disk fits.
LEMMA StartsFresh ==
  ASSUME job = [p \in Packages |-> "none"], worker = [p \in Packages |-> NoWorker],
         lock = Nobody, dirs = {}, staging = [p \in Packages |-> {}], handler = NoCall,
         sizeState = "idle", listing = {}, scan = NoScan, disturbed = {},
         unannounced = FALSE, disk \subseteq Files, manifests \subseteq Packages
  PROVE  Inv
<1>1. TypeOK
  BY EmptyRecords DEF TypeOK, Worker, Call, Scan
<1>2. CallFits /\ InventoryFits
  BY EmptyRecords DEF CallFits, InventoryFits
<1>3. \A p \in Packages : Fits(p)
  BY EmptyRecords DEF Fits, JobFits, LockFits, StagingFits, FilesFit, Active, At,
         Critical
<1>4. QED
  BY <1>1, <1>2, <1>3 DEF Inv

\* A server that starts over has the files and manifests of the one that died.
LEMMA CrashInv ==
  ASSUME Inv, Crash
  PROVE  Inv'
<1>1. TypeOK'
  BY EmptyRecords DEF Crash, Inv, TypeOK, Worker, Call, Scan
<1>2. CallFits' /\ InventoryFits'
  BY EmptyRecords DEF Crash, CallFits, InventoryFits
<1>3. ASSUME NEW p \in Packages PROVE Fits(p)'
  <2>1. /\ job'[p] = "none" /\ worker'[p] = NoWorker /\ p \notin dirs' /\ staging'[p] = {}
    BY DEF Crash
  <2>2. QED
    BY <2>1, EmptyRecords DEF Fits, JobFits, LockFits, StagingFits, FilesFit, Active,
           At, Critical
<1>4. QED
  BY <1>1, <1>2, <1>3 DEF Inv

\* At start nothing runs.
LEMMA InitInv == Init => Inv
  BY StartsFresh DEF Init

\* Every step keeps the invariant.
LEMMA NextInv == Inv /\ [Next]_vars => Inv'
<1>. SUFFICES ASSUME Inv, [Next]_vars
              PROVE  Inv'
  OBVIOUS
<1>1. ASSUME NEW p \in Packages, Start(p) \/ Stop(p) \/ StartClean(p) \/ StartRemove(p)
      PROVE  Inv'
  BY <1>1, StartInv, StopInv, StartCallInv
<1>2. ASSUME NEW p \in Packages, WorkerStep(p) \/ Fails(p)
      PROVE  Inv'
  BY <1>2, BeginInv, TakeLockInv, CancelledWaitingInv, PlanInv, MakeStagingInv,
     OpenDownloadInv, EndDownloadInv, StartPublishInv, RemoveOldInv, PublishInv,
     RemoveStagingInv, WriteManifestInv, UnwindInv, ReleaseLockInv, ReportInv, FailsInv
     DEF WorkerStep
<1>3. CASE CallStep
  BY <1>3, CleanOneInv, EndCleanInv, RemoveOneInv, EndRemoveInv DEF CallStep
<1>4. CASE PackageSizes \/ ScanStep \/ FailScan
  BY <1>4, PackageSizesInv, ReadPackageInv, EndScanInv DEF ScanStep
<1>5. CASE Crash
  BY <1>5, CrashInv
<1>6. CASE UNCHANGED vars
  <2>1. \A q \in Packages : Fits(q)'
    BY <1>6, CallStart DEF vars, jobVars, fileVars, Active
  <2>2. TypeOK' /\ CallFits'
    BY <1>6 DEF vars, jobVars, fileVars, sizeVars, Inv, TypeOK, CallFits, Active
  <2>3. Clean' => Clean
    BY <1>6 DEF vars, jobVars, sizeVars, Clean
  <2>4. InventoryFits'
    BY <1>6, <2>3, InventoryKept DEF vars, fileVars, sizeVars, Inv
  <2>5. QED
    BY <2>1, <2>2, <2>4 DEF Inv
<1>7. QED
  BY <1>1, <1>2, <1>3, <1>4, <1>5, <1>6 DEF Next

-----------------------------------------------------------------------------
(* Theorems *)

\* In every state the files of every package are where its install left them,
\* its worker has its job and its lock, and the inventory knows what it missed.
THEOREM Invariance == Spec => []Inv
  BY InitInv, NextInv, PTL DEF Spec

\* Every variable keeps its type.
THEOREM TypeCorrectness == Spec => []TypeOK
<1>1. Inv => TypeOK
  BY DEF Inv
<1>2. QED
  BY <1>1, Invariance, PTL

\* Between taking the directory's lock and giving it back an install is alone
\* there, and no staging directory outlives that, however the install ends
\* (manager.cpp:697-821).
THEOREM InstallsSerialized == Spec => []InstallsAreSerial
<1>1. ASSUME Inv PROVE InstallsAreSerial
  <2>1. \A p \in Packages : Critical(p) => lock = p
    BY <1>1, Before DEF LockFits
  <2>2. \A p \in Packages : p \in dirs => Critical(p)
    BY <1>1, Before DEF StagingFits, Critical
  <2>3. dirs \subseteq Packages
    BY <1>1 DEF Inv, TypeOK
  <2>4. QED
    BY <2>1, <2>2, <2>3 DEF InstallsAreSerial, Critical
<1>2. QED
  BY <1>1, Invariance, PTL

\* A worker's job is never erased or replaced while it lives, and a job that
\* claims to be active has a worker (model_installer.cpp:353-443).
THEOREM JobsHaveWorkers == Spec => []JobsMatchWorkers
<1>1. Inv => JobsMatchWorkers
  BY Before DEF JobsMatchWorkers, JobFits
<1>2. QED
  BY <1>1, Invariance, PTL

\* The manifest is written of a package whose files are all there, through
\* failures, crashes and siblings that share a file, unless a clean or a remove
\* took one from under the install (manager.cpp:770-816).
THEOREM ManifestsAreWhole == Spec => []ManifestWhole
<1>1. Inv => ManifestWhole
  BY Before DEF ManifestWhole, FilesFit
<1>2. QED
  BY <1>1, Invariance, PTL

\* The inventory that is served when nothing runs is true of the disk, unless an
\* install changed files and did not say so (model_installer.cpp:380-393,
\* 582-588, 627-638).
THEOREM InventoryIsTrue == Spec => []InventoryMatchesDisk
<1>1. ASSUME Inv PROVE InventoryMatchesDisk
  <2>1. Quiet /\ ~unannounced => Clean
    BY <1>1, Before, EmptyRecords DEF Quiet, Clean, JobFits
  <2>2. QED
    BY <1>1, <2>1 DEF Inv, InventoryFits, InventoryMatchesDisk
<1>2. QED
  BY <1>1, Invariance, PTL
=============================================================================

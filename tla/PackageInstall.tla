--------------------------- MODULE PackageInstall ---------------------------
(***************************************************************************)
(* The packages of one target directory: app/server/model_installer.cpp    *)
(* (jobs, one detached worker thread each, and the size inventory) over    *)
(* framework/package_manager/manager.cpp (install, clean and remove).      *)
(*                                                                         *)
(* Packages of a directory may declare the same file (a sidecar).  The     *)
(* server runs every installer call under model_installer_mutex_, so two   *)
(* calls never overlap, but workers and the inventory's thread run between *)
(* any two steps of a call.  Directories are independent of each other.    *)
(***************************************************************************)
EXTENDS Integers, FiniteSets

CONSTANTS
  Packages,   \* the packages whose target_directory this is
  FilesOf,    \* the files each declares
  Nobody,     \* nobody, and no file
  Events      \* what may happen besides installing

ASSUME PackagesAssumption ==
  /\ IsFiniteSet(Packages) /\ Packages # {}
  /\ \A p \in Packages : IsFiniteSet(FilesOf[p]) /\ FilesOf[p] # {}
  /\ Nobody \notin Packages \cup UNION {FilesOf[p] : p \in Packages}
  /\ Events \subseteq {"overwrite", "stop", "clean", "remove", "sizes", "fail", "crash"}

Files == UNION {FilesOf[p] : p \in Packages}

VARIABLES
  job,        \* per package: the state of its entry in jobs, or "none"
  worker,     \* per package: the thread that installs it
  lock,       \* the package whose install holds the directory's InstallLock
  disk,       \* files in the target directory
  dirs,       \* packages whose running install has a staging directory
  staging,    \* per package: what is in that directory
  manifests,  \* packages with a .audiocpp-package-<id>.json
  handler,    \* the clean or remove that holds model_installer_mutex_
  sizeState,  \* size_state
  listing,    \* what a complete inventory reports installed
  scan,       \* the thread that reads the inventory
  disturbed,  \* history: installs whose files a clean or remove deleted
  unannounced \* history: an install ended after changing files, and kept quiet

jobVars == <<job, worker, lock>>
fileVars == <<disk, dirs, staging, manifests>>
sizeVars == <<sizeState, listing, scan, unannounced>>
vars == <<jobVars, fileVars, handler, sizeVars, disturbed>>

(* at: the next thing install() does.  todo: files still to download or to  *)
(* publish.  fetching: the file being downloaded.  ok: it returned.         *)
(* touched: it changed a file of the target directory.                      *)
NoWorker == [at |-> "none", overwrite |-> FALSE, todo |-> {}, fetching |-> Nobody,
             ok |-> FALSE, touched |-> FALSE]
NoCall == [op |-> "none", package |-> Nobody, todo |-> {}]
NoScan == [on |-> FALSE, current |-> FALSE, unread |-> {}, found |-> {}]

Places == {"none", "begin", "lock", "plan", "stage", "download", "list", "publish",
           "finish", "manifest", "unwind", "release", "report"}

TypeOK ==
  /\ job \in [Packages -> {"none", "queued", "running", "cancelling",
                           "cancelled", "complete", "failed"}]
  /\ worker \in [Packages -> [at : Places, overwrite : BOOLEAN, todo : SUBSET Files,
                              fetching : Files \cup {Nobody},
                              ok : BOOLEAN, touched : BOOLEAN]]
  /\ lock \in Packages \cup {Nobody}
  /\ disk \subseteq Files
  /\ dirs \subseteq Packages
  /\ staging \in [Packages -> SUBSET Files]
  /\ manifests \subseteq Packages
  /\ handler \in [op : {"none", "clean", "remove"}, package : Packages \cup {Nobody},
                  todo : SUBSET (Packages \cup Files)]
  /\ sizeState \in {"idle", "running", "complete", "failed"}
  /\ listing \subseteq Packages
  /\ scan \in [on : BOOLEAN, current : BOOLEAN, unread : SUBSET Packages,
               found : SUBSET Packages]
  /\ disturbed \subseteq Packages
  /\ unannounced \in BOOLEAN

\* A server starts over whatever an earlier one left in the directory; here, nothing.
Init ==
  /\ job = [p \in Packages |-> "none"]
  /\ worker = [p \in Packages |-> NoWorker]
  /\ lock = Nobody
  /\ disk = {}
  /\ dirs = {}
  /\ staging = [p \in Packages |-> {}]
  /\ manifests = {}
  /\ handler = NoCall
  /\ sizeState = "idle"
  /\ listing = {}
  /\ scan = NoScan
  /\ disturbed = {}
  /\ unannounced = FALSE

Active(p) == job[p] \in {"queued", "running", "cancelling"}
Cancelled(p) == job[p] = "cancelling"
Installed(p) == FilesOf[p] \subseteq disk

\* shared_outputs: files of p that another installed package declares too.
Shared(p) ==
  {f \in FilesOf[p] : \E q \in Packages \ {p} : Installed(q) /\ f \in FilesOf[q]}

----------------------------------------------------------------------------
(* Calls that finish in one step *)

Start(p) ==
  /\ handler = NoCall
  /\ ~Active(p)
  /\ \E overwrite \in {FALSE} \cup {e = "overwrite" : e \in Events} :
       worker' = [worker EXCEPT ![p] = [NoWorker EXCEPT !.at = "begin",
                                                        !.overwrite = overwrite]]
  /\ job' = [job EXCEPT ![p] = "queued"]
  /\ disturbed' = disturbed \ {p}
  /\ UNCHANGED <<lock, fileVars, handler, sizeVars>>

Stop(p) ==
  /\ "stop" \in Events
  /\ handler = NoCall
  /\ Active(p)
  /\ job' = [job EXCEPT ![p] = "cancelling"]
  /\ UNCHANGED <<worker, lock, fileVars, handler, sizeVars, disturbed>>

(* package_sizes starts one scan for each generation; the bound here is one *)
(* scan at a time, so an outdated one ends before the next starts.          *)
PackageSizes ==
  /\ "sizes" \in Events
  /\ handler = NoCall
  /\ sizeState = "idle"
  /\ ~scan.on
  /\ sizeState' = "running"
  /\ scan' = [on |-> TRUE, current |-> TRUE, unread |-> Packages, found |-> {}]
  /\ UNCHANGED <<jobVars, fileVars, handler, listing, unannounced, disturbed>>

\* ++size_generation, and the inventory is read again when next asked for.
AnnounceChange ==
  /\ sizeState' = "idle"
  /\ listing' = {}
  /\ scan' = [scan EXCEPT !.current = FALSE]
  /\ unannounced' = FALSE

----------------------------------------------------------------------------
(* PackageManager::install, by the worker of p *)

At(p, place) == worker[p].at = place
Goes(p, place) == worker' = [worker EXCEPT ![p].at = place]
Throws(p) == worker' = [worker EXCEPT ![p].at = "unwind", ![p].fetching = Nobody]
Elsewhere == UNCHANGED <<handler, sizeVars, disturbed>>

\* Seeded fault: a job state the others do not know.
Begin_Unknown(p) ==
  /\ At(p, "begin")
  /\ job' = [job EXCEPT ![p] = IF Cancelled(p) THEN @ ELSE "downloading"]
  /\ Goes(p, "lock")
  /\ UNCHANGED <<lock, fileVars>> /\ Elsewhere

Begin(p) ==
  /\ At(p, "begin")
  /\ job' = [job EXCEPT ![p] = IF Cancelled(p) THEN @ ELSE "running"]
  /\ Goes(p, "lock")
  /\ UNCHANGED <<lock, fileVars>> /\ Elsewhere

\* Seeded fault: the wait for a sibling's install is skipped.
TakeLock_NoWait(p) ==
  /\ At(p, "lock") /\ ~Cancelled(p)
  /\ lock' = p
  /\ Goes(p, "plan")
  /\ UNCHANGED <<job, fileVars>> /\ Elsewhere

TakeLock(p) ==
  /\ At(p, "lock") /\ lock = Nobody /\ ~Cancelled(p)
  /\ lock' = p
  /\ Goes(p, "plan")
  /\ UNCHANGED <<job, fileVars>> /\ Elsewhere

\* The wait looks at the flag every 50 ms.
CancelledWaiting(p) ==
  /\ At(p, "lock") /\ Cancelled(p)
  /\ Goes(p, "report")
  /\ UNCHANGED <<job, lock, fileVars>> /\ Elsewhere

(* Without overwrite, a file already there is reused when an installed      *)
(* package shares it; any other means the package is there, or half there.  *)
Plan(p) ==
  /\ At(p, "plan")
  /\ LET all == FilesOf[p]
         unexpected == (all \cap disk) \ Shared(p)
     IN  worker' = IF worker[p].overwrite
                   THEN [worker EXCEPT ![p].at = "stage", ![p].todo = all]
                   ELSE IF unexpected = {}
                   THEN [worker EXCEPT ![p].at = "stage", ![p].todo = all \ disk]
                   ELSE [worker EXCEPT ![p].at = "release", ![p].ok = Installed(p)]
  /\ UNCHANGED <<job, lock, fileVars>> /\ Elsewhere

\* Seeded fault: the lock protects the plan only, not the whole transaction.
MakeStaging_Unlocks(p) ==
  /\ At(p, "stage")
  /\ dirs' = dirs \cup {p}
  /\ lock' = Nobody
  /\ Goes(p, "download")
  /\ UNCHANGED <<job, disk, staging, manifests>> /\ Elsewhere

MakeStaging(p) ==
  /\ At(p, "stage")
  /\ dirs' = dirs \cup {p}
  /\ Goes(p, "download")
  /\ UNCHANGED <<job, lock, disk, staging, manifests>> /\ Elsewhere

\* Opening the output creates the staging directory again if it is gone.
OpenDownload(p) ==
  /\ At(p, "download") /\ worker[p].fetching = Nobody /\ ~Cancelled(p)
  /\ \E f \in worker[p].todo :
       /\ worker' = [worker EXCEPT ![p].fetching = f, ![p].todo = @ \ {f}]
       /\ staging' = [staging EXCEPT ![p] = @ \cup {f}]
  /\ dirs' = dirs \cup {p}
  /\ UNCHANGED <<job, lock, disk, manifests>> /\ Elsewhere

EndDownload(p) ==
  /\ At(p, "download") /\ worker[p].fetching # Nobody
  /\ IF worker[p].fetching \in staging[p] /\ ~Cancelled(p)
     THEN worker' = [worker EXCEPT ![p].fetching = Nobody]
     ELSE Throws(p)
  /\ UNCHANGED <<job, lock, fileVars>> /\ Elsewhere

\* The last look at the cancel flag, then the list of files to publish.
StartPublish(p) ==
  /\ At(p, "download") /\ worker[p].fetching = Nobody
  /\ worker[p].todo = {} \/ Cancelled(p)
  /\ IF p \in dirs /\ ~Cancelled(p)
     THEN worker' = [worker EXCEPT ![p].at = "publish", ![p].todo = staging[p]]
     ELSE Throws(p)
  /\ UNCHANGED <<job, lock, fileVars>> /\ Elsewhere

RemoveOld(p) ==
  /\ At(p, "publish") /\ worker[p].overwrite /\ worker[p].fetching = Nobody
  /\ \E f \in worker[p].todo \cap disk :
       /\ disk' = disk \ {f}
       /\ worker' = [worker EXCEPT ![p].fetching = f, ![p].touched = TRUE]
  /\ UNCHANGED <<job, lock, dirs, staging, manifests>> /\ Elsewhere

\* It throws on a file to replace without overwrite and on a staged file that
\* is gone.
Publish(p) ==
  /\ At(p, "publish")
  /\ \E f \in worker[p].todo :
       /\ worker[p].fetching \in {Nobody, f}
       /\ f \in disk => ~worker[p].overwrite
       /\ IF f \in staging[p] \ disk
          THEN /\ disk' = disk \cup {f}
               /\ staging' = [staging EXCEPT ![p] = @ \ {f}]
               /\ worker' = [worker EXCEPT ![p].todo = @ \ {f}, ![p].fetching = Nobody,
                                           ![p].touched = TRUE]
          ELSE Throws(p) /\ UNCHANGED <<disk, staging>>
  /\ UNCHANGED <<job, lock, dirs, manifests>> /\ Elsewhere

RemoveStaging(p) ==
  /\ At(p, "publish") /\ worker[p].todo = {}
  /\ dirs' = dirs \ {p}
  /\ staging' = [staging EXCEPT ![p] = {}]
  /\ Goes(p, "manifest")
  /\ UNCHANGED <<job, lock, disk, manifests>> /\ Elsewhere

WriteManifest(p) ==
  /\ At(p, "manifest")
  /\ manifests' = manifests \cup {p}
  /\ worker' = [worker EXCEPT ![p].at = "release", ![p].ok = TRUE]
  /\ UNCHANGED <<job, lock, disk, dirs, staging>> /\ Elsewhere

(* The network, or the file system; before there is a staging directory     *)
(* there is nothing to unwind.                                              *)
Fails(p) ==
  /\ "fail" \in Events
  /\ worker[p].at \in {"stage", "download", "publish", "manifest"}
  /\ IF At(p, "stage") THEN Goes(p, "release") ELSE Throws(p)
  /\ UNCHANGED <<job, lock, fileVars>> /\ Elsewhere

Unwind(p) ==
  /\ At(p, "unwind")
  /\ dirs' = dirs \ {p}
  /\ staging' = [staging EXCEPT ![p] = {}]
  /\ Goes(p, "release")
  /\ UNCHANGED <<job, lock, disk, manifests>> /\ Elsewhere

\* Seeded fault: an install that throws does not release the lock.
ReleaseLock_OnSuccess(p) ==
  /\ At(p, "release")
  /\ lock' = IF worker[p].ok THEN Nobody ELSE lock
  /\ Goes(p, "report")
  /\ UNCHANGED <<job, fileVars>> /\ Elsewhere

ReleaseLock(p) ==
  /\ At(p, "release")
  /\ lock' = Nobody
  /\ Goes(p, "report")
  /\ UNCHANGED <<job, fileVars>> /\ Elsewhere

\* A stop that came too late to be seen by install() still decides the state.
Report(p) ==
  /\ At(p, "report")
  /\ job' = [job EXCEPT ![p] = IF Cancelled(p) THEN "cancelled"
                               ELSE IF worker[p].ok THEN "complete" ELSE "failed"]
  /\ worker' = [worker EXCEPT ![p] = NoWorker]
  /\ IF job'[p] = "complete" THEN AnnounceChange
     ELSE /\ unannounced' = (unannounced \/ worker[p].touched)
          /\ UNCHANGED <<sizeState, listing, scan>>
  /\ UNCHANGED <<lock, fileVars, handler, disturbed>>

WorkerStep(p) ==
  \/ Begin(p) \/ TakeLock(p) \/ CancelledWaiting(p) \/ Plan(p) \/ MakeStaging(p)
  \/ OpenDownload(p) \/ EndDownload(p) \/ StartPublish(p)
  \/ RemoveOld(p) \/ Publish(p) \/ RemoveStaging(p)
  \/ WriteManifest(p) \/ Unwind(p) \/ ReleaseLock(p) \/ Report(p)

----------------------------------------------------------------------------
(* clean_partial and remove, whose file operations take no install lock *)

\* Seeded fault: clean_partial does not look for an active job.
StartClean_AnyTime(p) ==
  /\ "clean" \in Events
  /\ handler = NoCall
  /\ handler' = [op |-> "clean", package |-> p, todo |-> dirs]
  /\ UNCHANGED <<jobVars, fileVars, sizeVars, disturbed>>

StartClean(p) ==
  /\ "clean" \in Events
  /\ handler = NoCall /\ ~Active(p)
  /\ handler' = [op |-> "clean", package |-> p, todo |-> dirs]
  /\ UNCHANGED <<jobVars, fileVars, sizeVars, disturbed>>

\* Any directory named after the target directory goes, whoever is filling it.
CleanOne ==
  /\ handler.op = "clean"
  /\ \E q \in handler.todo :
       /\ handler' = [handler EXCEPT !.todo = @ \ {q}]
       /\ dirs' = dirs \ {q}
       /\ staging' = [staging EXCEPT ![q] = {}]
       /\ disturbed' = disturbed \cup (dirs \cap {q})
  /\ UNCHANGED <<jobVars, disk, manifests, sizeVars>>

EndClean ==
  /\ handler.op = "clean" /\ handler.todo = {}
  /\ job' = [job EXCEPT ![handler.package] = "none"]
  /\ handler' = NoCall
  /\ UNCHANGED <<worker, lock, fileVars, sizeVars, disturbed>>

StartRemove(p) ==
  /\ "remove" \in Events
  /\ handler = NoCall /\ ~Active(p) /\ Installed(p)
  /\ handler' = [op |-> "remove", package |-> p, todo |-> FilesOf[p] \ Shared(p)]
  /\ UNCHANGED <<jobVars, fileVars, sizeVars, disturbed>>

RemoveOne ==
  /\ handler.op = "remove"
  /\ \E f \in handler.todo :
       /\ handler' = [handler EXCEPT !.todo = @ \ {f}]
       /\ disk' = disk \ {f}
       /\ disturbed' =
            disturbed \cup {q \in Packages : ~At(q, "none") /\ f \in FilesOf[q]}
  /\ UNCHANGED <<jobVars, dirs, staging, manifests, sizeVars>>

EndRemove ==
  /\ handler.op = "remove" /\ handler.todo = {}
  /\ manifests' = manifests \ {handler.package}
  /\ job' = [job EXCEPT ![handler.package] = "none"]
  /\ handler' = NoCall
  /\ AnnounceChange
  /\ UNCHANGED <<worker, lock, disk, dirs, staging, disturbed>>

CallStep == CleanOne \/ EndClean \/ RemoveOne \/ EndRemove

----------------------------------------------------------------------------
(* The inventory's thread *)

ReadPackage ==
  /\ \E p \in scan.unread :
       scan' = [scan EXCEPT !.unread = @ \ {p},
                            !.found = IF Installed(p) THEN @ \cup {p} ELSE @]
  /\ UNCHANGED <<jobVars, fileVars, handler, sizeState, listing, unannounced, disturbed>>

\* Seeded fault: the generation is not compared.
EndScan_AnyGeneration ==
  /\ scan.on /\ scan.unread = {}
  /\ sizeState' = "complete" /\ listing' = scan.found
  /\ scan' = NoScan
  /\ UNCHANGED <<jobVars, fileVars, handler, unannounced, disturbed>>

\* An inventory of an earlier generation is dropped.
EndScan ==
  /\ scan.on /\ scan.unread = {}
  /\ IF scan.current
     THEN sizeState' = "complete" /\ listing' = scan.found
     ELSE UNCHANGED <<sizeState, listing>>
  /\ scan' = NoScan
  /\ UNCHANGED <<jobVars, fileVars, handler, unannounced, disturbed>>

\* inventory(true) throws.
FailScan ==
  /\ scan.on
  /\ sizeState' = IF scan.current THEN "failed" ELSE sizeState
  /\ scan' = NoScan
  /\ UNCHANGED <<jobVars, fileVars, handler, listing, unannounced, disturbed>>

ScanStep == ReadPackage \/ EndScan

(* The process dies: files, manifests and abandoned staging directories stay.*)
(* The latter are no longer anyone's, and clean_partial removes them too.    *)
Crash ==
  /\ "crash" \in Events
  /\ job' = [p \in Packages |-> "none"]
  /\ worker' = [p \in Packages |-> NoWorker]
  /\ lock' = Nobody
  /\ dirs' = {}
  /\ staging' = [p \in Packages |-> {}]
  /\ handler' = NoCall
  /\ sizeState' = "idle" /\ listing' = {} /\ scan' = NoScan
  /\ disturbed' = {} /\ unannounced' = FALSE
  /\ UNCHANGED <<disk, manifests>>

----------------------------------------------------------------------------
Next ==
  \/ \E p \in Packages : Start(p) \/ Stop(p) \/ StartClean(p) \/ StartRemove(p)
  \/ \E p \in Packages : WorkerStep(p) \/ Fails(p)
  \/ CallStep
  \/ PackageSizes \/ ScanStep \/ FailScan
  \/ Crash

Spec == Init /\ [][Next]_vars

(* Threads run; a worker waiting for the lock is not promised to win it.    *)
FairSpec ==
  /\ Spec
  /\ \A p \in Packages : WF_vars(WorkerStep(p))
  /\ WF_vars(CallStep)
  /\ WF_vars(ScanStep)

----------------------------------------------------------------------------
(* Properties *)

\* "Serialize their full install transactions": between taking the directory's
\* lock and giving it back a worker is alone there, and nobody's staging
\* directory outlives that, however the install ended (manager.cpp:697-821).
InstallsAreSerial ==
  /\ \A p \in Packages :
       worker[p].at \notin {"none", "begin", "lock", "report"} => lock = p
  /\ dirs \subseteq {lock}

\* A worker looks its job up with jobs.at(), also in its exception handler, so
\* nothing may erase or replace the job of a live worker; and a job that claims
\* to be active has a worker that will end it (model_installer.cpp:353-443).
JobsMatchWorkers == \A p \in Packages : Active(p) <=> ~At(p, "none")

\* The manifest, which marks a package as installed at a revision, is written
\* only when all its files are in place, through failures, crashes and siblings
\* that replace or reuse the sidecar; a clean or a remove that deletes files
\* under a running install is the exception (manager.cpp:770-816).
ManifestWhole ==
  \A p \in Packages \ disturbed : At(p, "manifest") => Installed(p)

\* When no install and no call runs, the inventory being served is true of the
\* disk, unless an install ended after changing files and did not say so: late
\* cancellations and failures while publishing (model_installer.cpp:380-393,
\* 582-588, 627-638).
Quiet == handler = NoCall /\ \A p \in Packages : At(p, "none")
InventoryMatchesDisk ==
  (Quiet /\ ~unannounced /\ sizeState = "complete") =>
     listing = {p \in Packages : Installed(p)}

\* A stopped install ends, even one that waits behind a sibling
\* (manager.cpp:705, 753, 769).
StoppedJobsEnd == \A p \in Packages : Cancelled(p) ~> ~Active(p)

\* The directory is not locked for ever by an install that throws
\* (manager.cpp:710-716).
LockIsReleased == lock # Nobody ~> lock = Nobody

\* Whatever happens to it, an install ends, and lets the next one in.
InstallsEnd == StoppedJobsEnd /\ LockIsReleased

(* What the documentation and the tests say, and the code does not do. *)

\* "The manager ... keeps it until the last package that declares it is
\* removed" (docs/model_manager.md:262-264): with nothing running, the files of
\* a package that is installed and was not removed are there.
SidecarKept ==
  Quiet => \A p \in manifests : FilesOf[p] \subseteq disk

=============================================================================

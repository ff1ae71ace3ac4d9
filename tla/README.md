# audio.cpp in TLA+

Specifications of the parts of audio.cpp whose correctness depends on the order
of events: the two servers that run models for many clients, the path of live
audio through them, the package manager behind the model installer, the thread
team of the ARM CPU backend, and the key/value caches of its decoders. TLC model-checks each of
them on small instances; TLAPS proves the most important results for all
instances. Paths below are relative to the repository.

About nine tenths of the repository are neural networks (`src/models`,
`src/community_models`) and vendored libraries. What can go wrong there is
numeric. What can go wrong in the order of events lives in a few thousand lines
of `app/server`, `src/framework/package_manager`, `src/framework/neon`,
`src/framework/core` and `src/framework/runtime`; these are the subject.

## The system

| part | source | state it keeps | who calls it |
| --- | --- | --- | --- |
| admission | `app/server/model_slots.h` | per model: slots, exclusive lease, one queue, counters | every handler that runs or manages a model |
| model lifecycle | `app/server/parallel_runtime.cpp` | the registry, each model's sessions and configuration, residency | worker threads of the HTTP server, the idle thread |
| HTTP listener | `app/server/parallel_http.cpp` | the worker threads and their sockets | clients; it calls the lifecycle's handlers |
| installer | `app/server/model_installer.cpp` | one job per package, the cached inventory | the handlers of the model endpoints |
| package manager | `src/framework/package_manager/manager.cpp` | the directory on disk, a lock per target directory | the installer's threads, the `model_manager` tool |
| worker team | `src/framework/neon/worker_team.cpp` | the job, the barrier, the threads | `ExecutionPlan::run` |
| single-run server | `app/server/runtime.cpp`, `http.cpp`, `busy_guard.h` | the registry, per model one timed mutex, a metadata mutex and a session | detached connection threads, the idle thread |
| live ingest | `ChunkedSocketStreambuf` in `app/server/parallel_http.cpp`, `app/streaming`, `src/framework/runtime/partial_text.cpp` | the received and the de-framed bytes, the block being read, the published text | the handler of a live request, under its lease |
| decode caches | `src/framework/runtime/kv_cache.cpp`, `bounded_static_kv_decode.cpp`, `cached_decode.h` | the rows of a decoder, a cursor, a mask | the decoders of the model families |
| disk experts | `src/framework/core/disk_expert_weight_store.cpp` | an LRU cache of expert weights per group | the graph executor's callback |
| load progress | `src/framework/core/load_progress.cpp` | a process-wide counter | loaders |

A client's connection gets a thread (listener). Its handler finds the model in
the registry, waits for a lease (admission), loads the model if it has to
(lifecycle), which may unload others, runs a session, and writes the response,
a streamed one while it still holds the lease. Management requests take the
same queue for an exclusive lease. Installs run on threads of their own and
touch only the disk, the job table and the inventory.

Hard behaviours: time-outs that race grants, hand-over of slots, loads that
evict models in use, bulk operations that need many models at once, clients that
stall, shutdown with threads in every state, installs that share a directory and
are stopped, cleaned or removed under way, crashes between two renames, locks
taken inside locks in different orders, a body that ends or stalls anywhere, rings
that wrap while they grow or are copied, and the reset of a spinning barrier. `PROJECT.json` lists them as hazards with their
lines, and the property that would catch each, or why there is none yet.

## Modules

| module | models | notes |
| --- | --- | --- |
| `Admission` | what one model's lock promises: requests share, a manager is alone, first come first served | abstract |
| `ModelSlots` | `model_slots.h` operation by operation, with the mutex released in waits, the dispatch loop one grant at a time, deadlines as ages | implements `Admission` |
| `ModelResidency` | the lifecycle of all models; each model's lock is an `Admission` | `UsesAdmission` checks that it is used as the abstract lock allows |
| `PackageInstall` | the installer and the package manager over one shared target directory | |
| `HttpServer` | the listener, its workers and a model with one slot | |
| `SingleRunServer` | the server without `--parallel-jobs`: its lifecycle, its four kinds of locks and the busy guard | |
| `ChunkedBody` | the chunked body of a live request and its bounds | actions |
| `PartialText` | the publisher of running transcripts | pure operators |
| `LiveIngest` | a live request from the socket to the published text | extends `ChunkedBody` and `PartialText` |
| `KvCache` | `TransformerKVCache`, plain and ring | pure operators |
| `CachedDecode` | three decoders over such a cache: voxtral_realtime, personaplex, vibevoice_asr | extends `KvCache` |
| `Barrier` | the spinning barrier, one atomic operation a step | |
| `WorkerTeam` | the team around it | extends `Barrier` |
| `ModelSlotsProof`, `ModelResidencyProof`, `PackageInstallProof`, `HttpServerProof`, `SingleRunServerProof`, `WorkerTeamProof`, `CachedDecodeProof`, `LiveIngestProof` | the theorems | each extends the module it is about |
| `MC...` | model values, sets of files and symmetries for TLC | |

Definitions keep the names of the functions they translate; `PROJECT.json`
`map` gives the lines of each. Operators named `X_Y` under a comment "Seeded
fault" are `X` with a plausible mistake; no specification uses them. They show
that the properties are sensitive: with `X` replaced by `X_Y` TLC finds the
property violated. `mutants` lists one for each property; `Window_Whole` of `ChunkedBody`
is a second one for `BoundsHold`, which breaks its deadline where `OverCap_Never` breaks its cap.

### ModelSlots

`pc` says where a thread is (outside, pending, blocked, holding), `waiter` is
its queue entry and later its lease, `since` the slots, `queue`, `count` and the
two counters are the fields of the class. The mutex is a variable only because
`dispatch()` is a loop of several steps: while it runs (`mutex = "dispatch"`)
nobody else enters. Clocks are ages counted to `MaxTimeout`, a deadline may pass
at any `Tick`, and a thread whose wait is over by time-out needs the mutex again,
so a grant can come first.

### ModelResidency

`Callers` are request and management threads, `Idlers` the idle sweep (empty
when it is off), `Limit` is `max_loaded_models` (0: none). A handler's step is a
stretch between two acquisitions: waiting for admission, the initialization
mutex, the load mutex (taken only when `Limit` is on), the eviction of one victim
by `try_acquire`, the load that succeeds or throws, and the unwinding that
releases what it holds. Simplified: any resident victim may come first, because
the last-use times can tie and change; the memory guard is one of the reasons a
load throws; loading and teardown are one step each, between the steps that start
and publish them; `models_mutex_` protects lookups that are single steps.
Residency here is the server's bookkeeping: during a teardown the memory of the
old model is still in use, which `app/server/README.md` says as well.

### PackageInstall

Two packages share a directory and a sidecar file. Handlers of the server are
serialized by `model_installer_mutex_`; each install runs on its own thread, goes
through lock, plan, downloads into its staging directory, publication file by
file, and the manifest. `Events` chooses which of overwrite, stop, clean, remove,
sizes, fail, crash can happen. A crash loses the threads, the jobs and the
inventory and keeps files and manifests. `disturbed` (a clean or a remove hit a
running install) and `unannounced` (an install changed files and ended as
cancelled or failed) are history variables that name the exceptions of the
properties. Simplified: an install looks at the whole directory in one step where the code checks file
by file. Not modelled: the legacy Python conversion, `set_models_root`, a
second scan while one runs, a remove that throws midway, and abandoned staging directories after a crash.

### HttpServer

A worker goes receive, (lease, run, write or pull live audio, ...), reply, close,
done; a client may send, read, stall and hang up as it likes. `main` serves,
reaps, then drains: signal each worker and shut its socket down under
`socket_mutex`, then join. Kinds of requests: plain, event stream (`sse`, written
under the lease, no send time-out) and live (`live`, with the idle, total and send
time-outs of `http.h`). `accept` is one step with the `select` before it; parsing
is abstracted to "arrives or fails". The store of `stopping` and the shutdown of a socket are
one step, because a worker acts on either only where it waits.

### Barrier and WorkerTeam

`left`, `generation`, `seen` and the position `at` in `wait()` of every thread,
one step per atomic operation. `Width` is the number of values of the wrapping
counter: 2^32 in the code, at least 2 for the proof, 2 in the run, which is the
hardest case. The team's critical sections are one step each; condition variables
are sets of sleepers that a notification, or nothing at all, wakes. A job crosses
`Waits` barriers, as `ExecutionPlan::run` does after each kernel. The kernels are
taken not to throw, since `validate_values` runs before; a throw on the calling
thread would leave `run()` without waiting (a hazard listed for `WorkOutlivesUse`).

### SingleRunServer

A connection thread does one job: run, load or register, unload, bulk unload, or
list, as one of the `Workloads` has it; a sweeper is one pass of the idle thread. Each lock that is held across
another wait is a variable: the guards (`holder`, with `stamped` for
`busy_since_ms_`), the `metadata` mutexes, `modelsMutex` and `loadMutex`. Handlers
that take `models_mutex_` for a lookup only take it in one step, when nobody holds
it. Simplified: whether the holder has overrun and when a wait times out is left
open (no clock); the victims of an eviction come in any order; the time is stored
in the step that locks the guard; a load of a new id works on an object of its own
until it is registered. Bulk unloads read the registry without its mutex, a data
race that the model takes for an atomic read.

### ChunkedBody, PartialText and LiveIngest

What the client sends is a sequence of tokens: size lines, numbered bytes, ends of
chunks, trailer lines, stray bytes; limits are counted in tokens. A receive takes
any number of them, and at every wait the client may fail to send the next. A
sample is named by its first byte, so that a sample made of the wrong bytes shows.
The line of a chunk's size is well-formed or too large: stray bytes only replace the end of
a chunk, where the reader fails as it would at a malformed size. The session is external: it may decode any prefix, in bytes, of any of a few texts
at each block. The streambuf's exceptions pass through `istream::read`, because
`handle_client` sets `exceptions(badbit)`.

### KvCache and CachedDecode

All layers move together, so a row is one value: the position it was computed for.
`seen` is what the last append attended to: the contents of the slots its mask
shows, after the append has written its rows, as the graph does. `Step` is a whole
step of the decoder: growth with export and import, the mask, the row, the cursor
and the cache's counters. A suffix longer than the unpinned part of a ring, which
would write one slot twice in one graph operation, is excluded by the constants;
a computation that fails is not modelled (the request ends).

## Runs

| run | instance | shows |
| --- | --- | --- |
| `slots_all` | 3 callers, 1 or 2 slots, time-outs 0 (none) or 1, fair | no lease lost or shared, exact queue and counters, no idle slot beside an admissible caller, the refinement of `Admission`; bounded waits return, unbounded ones are served if holders release again and again |
| `residency_safety` | 2 models, 3 callers and the sweep, three of them at work at a time, limit 1, 1 or 2 slots | the limit holds, runs keep their sessions, lifecycle steps are alone, every lock is used and resized as `Admission` allows |
| `residency_liveness` | 2 models, 2 callers and the sweep, limit 1, 2 slots, fair | claims are released; every handler returns: no deadlock of evictions, loads, bulk unloads and the idle thread |
| `packages_safety` | 2 packages, all events but sizes | installs in one directory are serial, jobs match threads, manifests are written only over complete packages |
| `packages_liveness` | stop, remove and scans, fair | installs end and give their lock back, the inventory served is true of the disk |
| `packages_sidecar` | remove only | finding: a shared file is deleted under an install |
| `http_all` | 2 clients, 3 kinds, 2 events, fair | threads and sockets are never leaked or used after their end; live clients cannot pin a model; the server stops |
| `single_run` | 2 configured models and a new id, 2 or 3 connections and a sweep, limit 1, fair | runs keep their sessions under a stamped guard, the limit holds, every request and sweep that begins ends unless a listing meets a load |
| `single_bounded` | 1 model, 3 connections, limit 1, fair | finding: the deadlock of a listing and a load |
| `live_ingest` | 5 ways to cut a body, a cap of 19 tokens, windows of 3 bytes, blocks of 1 or 2 stereo frames, 3 texts with two-byte characters | nothing is lost or cut, nothing ends early without an error, deadline and cap hold, pieces add up |
| `cached_decode` | windows of 5 and 3, prompts of 1 to 6, ends to 14, a model of 9 positions | attention to exactly the window; exports in order |
| `worker_team` | 4 threads, 3 jobs of 3 barriers, fair | nobody leaves a barrier early, jobs are complete and outlived by their closure, every `run()` and destructor returns |

Why the bounds are enough to be interesting: three callers fill two slots or leave
a request and a manager waiting in either order behind one; two models and a limit of one make
every load an eviction and let two loads want each other's model; two packages are
the least that share a file; two clients are one that holds the only slot and one
that waits for it; four threads and three barriers let a fast thread be at the
second barrier while a slow one has not left the first, and three jobs let the
next job start in that position. A window of 5 is no power of two, so the graph
grows 2, 4, 5 before it wraps, 14 positions wrap every ring at least twice, and a
prompt of 6 exceeds the window; 9 positions are no multiple of the step by which
vibevoice's graph grows, so its capacity is rounded up, cut to the positions, and refused. Bodies of up to 20 bytes end in the middle of a frame,
exceed the cap of 19 tokens in a receive, in the bytes that came with the headers and only by their
framing, exceed the largest chunk or the trailer, and hold windows, blocks and chunks
that end in each other's middle. `residency_safety` has the idle sweep meet two callers
and three callers each other; `ThreeAtWork` leaves out the four of them together.

In `single_run` two connections ask for every pair of kinds of requests, and three for a
load, a listing and a load or a run; `Workloads` names these mixes, because three
connections that each ask for anything are too many states. Every circle of waiting that the
code has is among them: the theorem `DeadlocksAreListings`, which has no such bound, shows
that a circle takes a listing and a load, and at most one more thread between them. The third connection of `single_bounded`
is the bounded run that finds the two others so. Caller threads of the other runs start again after they finish, so
runs are not limited in length but by the state's bounds.

Fairness. Operating-system threads run (weak fairness of their steps); a thread
that wants a mutex others keep taking gets it in the end (strong fairness, where
the code blocks on `std::mutex`); clocks tick. Nothing is assumed of clients, of
holders of a lease in `ModelSlots`, of anybody to start an operation, of spurious
wakeups, nor that a waiting install wins its lock. `residency_liveness`
and `single_run` assume that runs and loads end; `http_all` assumes it of model
steps: a hung GPU call cannot be ended by the program. In `single_run` each thread
does one job, so weak fairness of all threads together suffices: some thread that can go on does.
`live_ingest` and `cached_decode` state no fairness.

Deadlock is checked except in `http_all`, `worker_team`, `single_run`,
`single_bounded`, `live_ingest` and `cached_decode`, which end: the server has
stopped, the team is destroyed, the connections are served, the body has ended or
failed, the bound on positions is reached.

## Findings

Each is a statement of the documentation or of a comment that the code
does not keep; `PROJECT.json` quotes it.

* A `remove` during a sibling's install deletes the sidecar the install has decided to
  reuse, and the install reports success without it (`packages_sidecar`).
* On the single-run server with `max_loaded_models`, a listing of the models or voices
  can meet the load of a registered model: the listing holds `models_mutex_` and waits
  for the model's `metadata_mutex`, the load holds that and waits for `models_mutex_`.
  The server answers no request for a model any more, with a busy time-out or without
  (`single_bounded`). There is a longer circle of the same kind: the load waits for
  `model_load_mutex_` (`runtime.cpp:673`), and the load or first run of another model, which
  has it, waits for `models_mutex_` (622). `ListingMeetsLoad` names both; `ThreadsEnd` on the
  instance and the theorem `DeadlocksAreListings` for any number of threads show that there
  is no other.

Seen while modelling, and not stated as a run:

* `clean` of one package removes the staging directories of siblings whose installs
  run, which then publish a part of their files as complete (the step is in
  `PackageInstall`; `docs/model_manager.md` says that it is for one package).
* Live requests are not the only ones whose client can pin a model, as a comment in
  `parallel_http.cpp` has it: every streamed response is written under its lease, and
  the others have no send time-out (`HttpServer`, kind `sse`).
* A model that is loaded under a new id is not counted by evictions before it is
  registered, so that `max_loaded_models` can be exceeded by it (`ResidentLimit` of
  `SingleRunServer` speaks of the configured models).
* A bounded request of the single-run server reads its time-out under the
  `metadata_mutex`, which a load keeps until it ends: it may wait longer than it says.
* The earlier rows of a suffix that wraps around a history window attend to rows that
  come after them (`AttendsWindow` speaks of the last one).
* A block of samples that is no whole number of frames loses the rest of a frame
  without an error (`HearsWholeBody` speaks of whole frames).

## Proofs

Assumptions are the named ASSUMEs of the modules (finite sets, positive bounds);
TLC evaluates them in the runs.

`ModelSlotsProof`: the conjunction of type correctness, `LeaseOwnership`,
`Exclusion`, `WorkConserving` and the two parts of `QueueMatchesWaiters`
(`QueueHoldsWaiters` and `CountersMatchQueue`) is inductive. Ownership needs the exclusion of managers and requests (a grant tests only
the first free slot), the queue needs the counters' agreement, and conservation
needs that a thread in the dispatch loop is about to look at the front. One lemma
per operation; leases and queue changes are lemmas of their own.

Its second part is the refinement: under the mapping that forgets slots and clocks, every
step is a step of `Admission` or a stutter; it uses the invariant above.

`WorkerTeamProof`: first the barrier by itself. left_ is the number of threads not yet
arrived, except between the last arrival and the opening, when exactly one thread is at
work; a waiter of an older generation lags one crossing behind and can only leave. The
property alone is not inductive: it does not exclude that somebody else opens the barrier
while such a waiter is still inside. Then the team: each of its steps is a barrier step or
leaves it alone, so the barrier's theorem holds in the team; and `pending_` is always the
number of workers that have not finished the published job, from which it follows that
`run()` returns only when all of it is done and no worker holds a dead closure.

`ModelResidencyProof`: type correctness, `ResidentLimit`, `SessionsAreOwned`,
`ClaimsMatchHandlers` and `UsesAdmission`, for any models, callers and slot counts.
The inductive invariant says of every thread what its handler still has to do
(`ShapeFits`, `RetireFits`, `ListFits`), the leases and places in line it has for that
(`ClaimsFit`), its mutexes (`MutexFits`), the sessions it relies on (`SessionFits`) and
the room it has made (`RoomFits`); of every model, that a manager is alone in its lock
(`LockFits`) and when its pool is filled (`PoolFits`). The limit alone is not inductive: what makes
it so is that the thread inside `model_load_mutex_` has a set of models, those still to be
visited and those resident, that is too large by exactly the evictions it still needs.
`ClaimsMatchHandlers` needs the lists of a bulk unload to be disjoint and without
repetitions, or it would queue twice for one model. `UsesAdmission` is an action
property: from the invariant each action that touches a lock is matched with an action
of `Admission`, so what is proved of the one lock in `ModelSlots` carries over to all of
them.

`PackageInstallProof`: type correctness, `InstallsAreSerial`, `JobsMatchWorkers`,
`ManifestWhole` and `InventoryMatchesDisk`, for any packages and files. A worker
between taking the lock and giving it back has it (`LockFits`), and its files are on the
disk or staged or still to be fetched unless somebody disturbed it (`FilesFit`); of the
packages a scan has read it has found exactly those that are installed, as long as nobody
changes the disk, and it has found none that it has yet to read (`InventoryFits`).

`HttpServerProof`: type correctness, `ThreadsAreOwned`, `InterruptsOpenSockets`, and that
the lease is with exactly the worker that uses the model (`LeaseIsUsed`). The invariant adds that the
line holds exactly the waiting workers, each once, that a socket is open until its worker
closes it, and that the listener holds a `socket_mutex` only while it interrupts.

`SingleRunServerProof`: type correctness, `RunsAreGuarded`, `ResidentLimit`, and that a
thread that has ended holds none of the four kinds of locks (`LocksAreReturned`). The
invariant says for each thread which guards, mutexes and stamps it has at each step
(`GuardsFit`, `LocksFit`, `StampsFit`), and which models it may rely on being registered
and loaded; the room for a load is bounded as above.

Its last theorem, `DeadlocksAreListings`, is about who waits for whom (`WaitsFor`). Guards,
metadata mutexes, `model_load_mutex_` and `models_mutex_` are taken in this order, except that
a listing asks for metadata mutexes inside `models_mutex_`. Among threads of which each waits for
another of them, one that waits for something leads, lock by lock, to one that waits for
`models_mutex_`, hence to a listing that has it, hence to the owner of a metadata mutex; that one is a load,
which waits for `models_mutex_` itself or for the owner of `model_load_mutex_`, which does.

The last four share an argument: each invariant is a conjunction over threads (or packages)
of what fits one of them, a step of one is shown to *spare* the others, and each action
is left with its own thread.

`CachedDecodeProof`: type correctness, `AttendsWindow` and `ExportIsChronological`, for any
windows, capacities, prompts and lengths of an append. All three decoders use their cache as
a ring, a plain one being a ring that never wraps. The inductive invariant is that the ring
*holds* the end of its sequence: each position it should still keep lies in the slot of that
position (`Holds`); around it, that the cursor and the cache agree until the cache is full
(`BoundedFits`, `ContextFits`, `VibevoiceFits`), and that `seen` is a window (`SeenFits`). The properties alone are not
inductive: which rows are seen says nothing of where they lie, and so nothing of which one
the next append overwrites. Exporting, importing, growing and writing keep `Holds` by facts
about remainders; that the slots of a window are distinct, and that two positions in one slot
are a whole ring apart, are lemmas. The library's induction theorems cannot be
used; where a least or greatest element is needed, it is taken from the well-foundedness of
the order on the naturals.

`LiveIngestProof`: type correctness, `HearsWholeBody`, `BoundsHold` and `PiecesAddUp`, for
any body, framing, window, block, format and texts. The invariant says that what is pending
and what is arriving are two consecutive parts of the one body of the client, from a position
that is the head of a chunk whenever the reader is between chunks (`Consumed`, `Between`);
that the read under way, the window and the chunk are one run of numbered bytes that begins
where the samples end (`Fed`); that with these bytes the cap is kept, and with the window
the deadline (`BoundsFit`); and that what was published is whole characters (`TextFits`).
`HearsWholeBody` alone is not inductive: nothing in it says which bytes come next, and a stray
byte after a chunk, or one line of trailer too many, must keep the reader from the end. For
the text the crucial lemma is `AgreedProps`: the window of bytes that is compared holds the
whole last character of what was published, so a transcript that agrees there cannot go on
with the rest of another one.

Assumed of the constants there: that the session decodes UTF-8 of which at most the last
character is cut, and that the compared window (256 bytes in the code) is no shorter than a
character. TLC evaluates both in `live_ingest`.

Every invariant and every action property that a passing run checks is stated by a theorem.
Only model-checked: the liveness properties (`WaitersReturn`, `EveryHandlerReturns`,
`InstallsEnd`, `LiveClientsCannotPin`, `ShutdownCompletes`, `CallersReturn`, `ThreadsEnd`),
because the prover does not handle fairness and ENABLED. The two runs that expect a
violation state what is false.

Some definitions have the form they have for the proofs. `Admission` writes out how a
waiter is removed from the line instead of taking the operator of `SequencesExt`, because
the prover cannot instantiate that library with parameters. `TypeOK` of
`SingleRunServer` bounds `excess` by the limit and the number of models instead of
counting it among the integers. `ChunkedBody` gives each token of a body by its position
instead of gluing chunks together with a fold, which only an induction over data could
reason about. For the same reason `CachedDecode` takes the next capacity from the set of
powers of two instead of doubling in a loop.

## Plan

1. Core (done): admission and its refinement, lifecycle, installs, listener, team.
2. Further components (done): the single-run server with its busy guard, live
   ingest with chunked bodies and partial transcripts, the bounded decode caches.
3. Proofs of the safety of admission, lifecycle, installs, listener, single-run server,
   team, decode caches and live ingest (done).
4. If there is room: file versions in `PackageInstall`, the disk expert cache with
   failing reads and asynchronous uploads, load progress under concurrent loads.

## Not modelled

Model code, kernels, tokenizers and audio codecs (numeric), request
parsing and response formatting, the web UI, vendored libraries.

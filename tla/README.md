# RemoteFS in TLA+

RemoteFS mounts a directory tree that lives in a content-addressed store (CAS,
the Remote Execution API) as a read-only, lazily loaded FUSE filesystem. This
directory holds a model of it: TLA+ modules translated from the Rust crates,
TLC configurations that check them on small instances, and proofs, checked by
TLAPS, of the main safety properties for every value of the constants.

Paths below are relative to the repository (`src/` here). `PROJECT.json` gives,
for each definition, the lines it models; for each property, a mutant of the
code that breaks it; and the hazards the properties were chosen for.

## The system

| Part | Code | State | Operations | Hard behaviour |
|---|---|---|---|---|
| Verified cache | `rfs-common/src/session/cache.rs` | cache directory; per-digest download locks with participant counts | `read_blob`, `read_range`, `ensure_cached` | readers joining and leaving a cohort; two processes on one directory; power loss around the rename; a panic under the gate |
| Session | `rfs-common/src/session.rs` | inode locks, counters, the store | `get_inode`, `lookup_child`, `list_directory`, `read_range`, `close` | two loads of one directory; close during a load; failure with a lock held |
| Session store | `rfs-common/src/session/store.rs` | SQLite metadata row and inode table, `active`/`closed` | create, materialise children, lookups, close, inspect | a transaction that fails half way; numbering of inodes; columns that are validated each time they are read; a daemon that dies while it creates the database |
| Directory messages | `rfs-common/src/tree.rs`, `digest.rs` | none | build, encode, decode, validate | one tree must have one digest; what is encoded must pass validations written in three other places |
| FUSE adapter, filesystem service | `rfsd/src/fuse.rs`, `filesystem.rs` | mount, readiness; (in the kernel) entries and directory offsets | one handler per request | paging of listings; readiness timeout; errno of a failed load; times before 1970 |
| Control service | `rfsd/src/control_service.rs` | resources in a slot, a channel or `serve` | `check_protocol`, `status`, `snapshot`, `shutdown`; release | requests, a signal and the server's end race for the resources; cancelled requests; failing release |
| Home life cycle | `rfsd/src/lib.rs`, `session.rs`, `rfs/src/cli.rs`, `daemon_client.rs` | `flock`, session tree, socket, mounts, processes | daemon start and stop; `rfs mount`, `rfs unmount` | overlapping commands, crashes, deadlines, another daemon answering |
| CAS client | `rfs-common/src/cas.rs` | none across calls; batch, attempt and stream of a call | upload, download | retries, timeouts, per-blob refusals, files that change, other clients |
| Upload | `rfs-common/src/upload.rs` | scanned tree, hash workers, encoded directories | scan, hash, encode, upload | the tree changes under the upload; bounded workers; partial upload |

They interact as follows. `rfs mount` spawns `rfsd`, which opens a session
under the home's lock, mounts FUSE over it, binds a control socket and serves
until it is told to stop. FUSE requests become session calls; the session loads
directories and files through the cache, and the cache streams what it misses
from the CAS client. `rfs upload` fills the store the mounts read from: the
messages it encodes are decoded by the session and kept as rows of its store.

## The modules

| Module | Models | Correspondence |
|---|---|---|
| `BlobService` | what the cache promises | A call returns bytes with the digest asked for, from an entry available at that moment, or fails. No mechanism. |
| `CachedBlobStore` | the cache | `pc[t]` is where a thread is in `ensure_cached` and the read after it; `locks`, `participants`, `gate` are `download_locks`, the counter and the mutex; `cache` is the directory, each file with the bytes and whether they are durable. The relaxed atomics are always touched under the map's mutex, so joining and leaving are single steps. `Kill` and `PowerLoss` are external. |
| `SessionStore` | the inode table | pure operators: a table is a sequence of rows, an inode number an index, and `WithChildren` is one transaction. |
| `Tree` | Directory messages | pure operators: `Encode` is `DirectoryBuilder::encode` (sort, duplicate names, masks, timestamps, warnings), `DecodeDirectory` checks the digest and then what `validate_directory` checks. A name is a number in byte order, a link target its components. |
| `StoredRows` | the columns of the database | extends `Tree`. `Columns` is what `insert_remote_inode` writes, `ReadableRow` what `validate_inode_row` requires, `FromColumns` the row of `SessionStore` it stands for; a nullable column is a sequence of at most one value. |
| `TreeTransit` | a directory on its way from a local disk into a mount | extends `StoredRows` and instantiates `SessionStore`. `listed` and `builder` are the upload, `blob` the published bytes, `db` the database file with schema, version, metadata and rows; `step` is how far the daemon opened the session. Another client may publish a message of its own, the cached bytes may be damaged, the daemon may die between any two steps, and `Session::inspect` may look at any time. |
| `Session` | the session | extends `SessionStore` and instantiates `BlobService` for what the cache does; `Decode` is a constant, so any remote tree, malformed blobs included, can be given to it. |
| `Fuse` | adapter and filesystem service | extends `SessionStore`. fuser runs handlers on one thread (`&mut self`), so a handler is one action; any session call may fail. The kernel side (entries from lookup, directory streams with offsets and seeks) is external. |
| `ControlService` | RPC handlers, `serve`, `release` | `slot`, `chan`, `held` count where the resources are; `spc` is where `serve` is. A handler runs under the mutex without an await, hence is one action. |
| `RfsHome` | any number of daemons and commands on one home | `dpc`, `mpc`, `upc` are control points of daemons, mount and unmount commands; the lock, tree, socket and mounts are shared. `pid` is the daemon a mount command is connected to, then the one it reports; the requests of a command are answered by the daemon (`MountAnswered`, `UnmountAnswered`) or lost with it, and have no timeout. The first request of a command is one step, at which it starts. The release steps of `ControlService` reappear here between daemons. |
| `CasClient` | upload and download calls | `todo`, `loaded`, `batch`, `bytes` are the loop of `upload_blobs_to_cas`; `attempt`, `cause` are `retry_rpc`; `elapsed` and `idle` are the two clocks a timeout could look at. |
| `Upload` | `upload_local_directory` | `pc` is the phase; `todo` and `scanned` are the scan, `job` the hash tasks, `encoded` the directories encoded so far. `Change` is another process. |

`MC*` modules give the constants their values. `*_proofs` modules and
`Upload_lemmas` hold theorems.

Definitions whose comment begins with "Mutant of" are variants of the
definition after them with a plausible mistake. They are in no specification;
replacing the definition by its variant must violate a property.

## What is checked

Passing runs, with the number of distinct states.

| Run | States | Instance | Shows |
|---|---|---|---|
| `CacheReaders` | 104 k | 2 threads of one process, one reading twice, and 1 of another; 1 blob; 1 crash or power loss | one fill per digest; no entry of the lock map outlives its cohort; reads are verified and return; `BlobService` is implemented |
| `SessionCalls` | 97 k | 2 threads, 3 calls, a 3-level tree with every kind of refusal, close | a loaded directory is whole; answers are those of the tree; ranges at and past the end; inode numbers are stable; nothing changes after close; one count per load; every call returns |
| `TreePassage` | 144 k | a directory at depth 0 or 1 of up to 3 of 8 entries, 468 foreign messages, 2 damaged cache files, 2 daemons | what is uploaded loads, with the attributes it had; one tree has one digest; the rows are the table of `SessionStore`; inspection tells the truth; no link out of the tree goes uncounted |
| `ControlShutdown` | 220 k | 3 clients, a signal, the server's end | one owner; ordered release; refused requests detach nothing; the daemon stops once told to |
| `HomeOverlap` | 1.9 M | 2 overlapping mounts of different targets, 2 unmounts, 1 crash | the tree of a session is not touched by others; success of a command means what it says |
| `HomeSequential` | 85 k | 2 mounts of the same target, one command at a time, 1 unmount, 1 crash | a mount reports its own child; commands return, unless a daemon that listens never answers |
| `CasTransfers` | 75 k | 4 blobs around a budget of 2, 2 attempts | success of an upload means stored, of a download means verified; batches fit; calls return, unless the store sends messages for ever |
| `FuseRequests` | 90 k | every request, a directory stream with buffers of 1 and 3 entries, a seek | honest errnos; entries and attributes are those of the tree; a listing has each entry once; a reported mount is ready |
| `UploadTree` | 743 k | 5 paths, 2 changes by others, 3 option sets | a reported root is complete in the store; what nobody changed is encoded exactly; buffers fit |

Runs in which a statement of the repository is violated by what the code does:

| Run | Statement | What happens |
|---|---|---|
| `HomeSocketRace` | `control_service.rs:69` "Control socket path created by this daemon's bind." | closing the session frees the home lock; the next daemon binds; then the first removes the socket by its path. The next daemon serves a mount nobody can reach |
| `TreeRootMtime` | `technical-design.md:550` "Mtime preservation is mandatory for supported files and directories." | the upload encodes mode and time of its root, `insert_root_inode` stores neither: the mounted root has the epoch |
| `CasIdleTimeout` | `technical-design.md:75` "a 30 second idle timeout rather than one whole-stream timeout" | the timeout of a write covers the whole attempt |

Other differences between words and code that the models follow the code in,
without a run of their own:

- `tree.rs:394` "must contain valid digests and metadata": the properties of
  directory nodes are not looked at there; `node_metadata` refuses a bad time
  afterwards.
- `session.rs:167` "Directory objects streamed from remote storage.": one that
  is streamed and then refused is not counted.
- `cli.rs:406` "Polls until the spawned daemon `child` serves the requested
  mount.": two overlapping mounts of one target, which the design calls
  undefined, may let the loser report the winner's daemon. `HomeSequential`
  shows the statement without the overlap.
- `cli.rs:412` "kills and reaps the child ... when `DAEMON_READY_TIMEOUT`
  elapses": the deadline is looked at between requests, and a request to a
  daemon that has bound its socket has no timeout. Hence the exception in
  `CommandsReturn`.
- `cli.rs:588` "confirms that it closed its session": `run_unmount` reads
  whatever session the home retains. If its daemon dies before it unmounts, and
  another session is mounted and closed before the next poll (25 ms), it reports
  success though the mount is orphaned. Hence the condition in `UnmountIsHonest`.
- `upload.rs:91` "Symlinks whose relative target escapes the encoded tree.":
  `target_escapes` starts anew in each directory, so a link of a subdirectory to
  its parent is counted though it stays in the tree, and so is an absolute target
  with more ".." than names. `EscapesAreCounted` says that none is missed.
- `technical-design.md:66` "a fresh UUID v4 per ByteStream upload attempt": one
  name for all attempts of a write.
- `technical-design.md:80` "ByteStream retries restart from byte 0": a read
  whose stream breaks ends the call, as `simplifications.md:87` says.
- `remote_execution.proto:256` "terminate immediately without error": a write
  that the server ends early fails with the producer's error.
- `cas.rs:861` "The size check catches local file races": not those that keep
  the size; the store refuses such bytes.

### Bounds, and why they are enough

- **Threads, clients, processes.** Races in this code are between two actors,
  or between two and one that arrives while the first leaves; hence three
  threads for the cache and three clients for the control service, two
  elsewhere.
- **`MaxReads`, `MaxCalls`, `MaxRequests`, `MaxSeeks`** bound how often an actor
  starts over. Two calls let one find what an earlier one left behind.
- **`MaxCrashes` = 1**: recovery from a crash is a fresh start over what is on
  disk; a second crash meets the same kinds of leftovers.
- **Data.** A blob is a short sequence of chunks and stands for its own hash
  (no collisions). Sizes sit around the limits: a blob at, below and above the
  batch budget, files of 0 to 3 chunks, buffers of one entry and more.
- **`MaxChunks`** bounds the data of a file or a stream: one chunk above the
  largest size is enough for a stream that delivers too much. `cas.rs` itself
  limits neither the bytes nor the messages of a download (the cache's
  destination refuses more than the digest's size), so empty messages are not
  bounded and may go on for ever. Hence the exception in `CallsReturn`.
- **Times and modes** in `TreePassage` sit at, just inside and just outside a
  shrunken range of seconds and nanoseconds; modes have the setuid, setgid and
  sticky bits and the bits of the file type. Three entries are enough for two
  of a kind in the wrong order, and for one name in two kinds. Foreign messages
  take each field that is validated to both sides of its condition.
- **`MaxOpens` = 2**: the second daemon meets what the first left.
- **`MaxChanges`** bounds what others do to a tree during an upload.
- **Symmetry** is used for the unmount commands of `HomeOverlap`, which are
  interchangeable, and in no run with a liveness property.
- `CHECK_DEADLOCK FALSE` is set where the modelled activity ends: the calls of
  a bounded run are used up, the daemon has exited, the mount is gone.

### Fairness

- Cache, session: weak fairness of a thread's own steps. OS threads and tokio
  tasks that can run are scheduled; a remote call ends because it succeeds,
  fails or is timed out, which is what `CasTransfers` shows of the client, but
  for a store that streams messages for ever.
- CAS client: weak fairness of the steps of a call together, which include its
  timeouts, of time, and of the timeout of a write. Nothing says that the store
  ever ends a stream.
- Control service: weak fairness of `serve`, of handlers, and of the server's
  end once it is told to stop. None for signals, clients or a server that ends
  by itself.
- Home: weak fairness of the steps a command takes by itself and of the
  deadline in `wait_for_daemon_ready`. None for daemons, nor for the answers
  they give: a daemon may hang.
- FUSE, upload and `TreeTransit`: none is stated; only safety is checked. The
  upload is also checked for deadlock: it stops only when it has returned.

## What is proved

TLAPS checks the following for all values of the constants that satisfy the
named assumptions: any finite set of threads, any processes, digests, daemons,
commands and clients, any bounds.

**`CachedBlobStore_proofs`** (assumes a finite set of threads, each with a
process; sizes are natural numbers). `VerifiedEntries` and `VerifiedReads` are
not inductive: an entry is right because what reaches `persist_noclobber` was
verified and synced, so `DataInv` adds `VerifiedPending` and `DurableEntries`.
`OneFillPerDigest` follows from `LockInv`: every joined thread holds the lock
the map has for its digest, and whoever is past the gate holds its mutex. That
the current lock is not removed under a joined thread needs `Counted`: the
number of joined threads is at most the participant count (at most, since a
panic leaves the count too high), so a count of one means the last. Theorems:
`CacheTypes`, `EntriesVerified`, `ReadsVerified`, `LockIsCurrent`,
`FillsExclude`, `EntriesStay`. `NoEntryIsStale` needs the count to be exact
where no holder panicked (`ExactCount`), and a lock to be in the map under one
key (`OneKey`): then the reader that leaves last sees a count of one and removes
the entry.

`CacheImplements` (also assumes that `NoFile` is no file): the cache implements
`BlobService`. Beside the invariant above it needs `ResultSteps`, what a thread
knows of its call at each control point. A fill that is admitted maps to
`Fetch`, a read of the entry to `Return`, each error to `Fail`, a crash to
`Vanish`, all else to a stutter; `InvisibleSteps` treats the stutters once for
all.

**`RfsHome_proofs`** (assumes that `NoDaemon` is no daemon). `HInv` adds to the
properties when a mount is live (`MountSteps`), that a closed tree was closed
by its daemon after it unmounted (`ClosedIsReleased`), that an unmount
inspects only after the exit (`InspectsAfterExit`), and that the socket and the
connections of mount commands lead to daemons that have bound (`SocketIsBound`,
`AsksBound`). Theorems: `HomeTypes`,
`LockExcludes`, `TreeIsOwned`, `MountIsOwned`, `UnmountHonest`, and the action
property `MountReady`. `ReportsChild` is about mount commands that do not
overlap (`~Overlap`; with overlap it is false, as said above): `Alone` says that
meanwhile no daemon but the command's own answers, and that none of an earlier
command is still on its way to the socket.

**`ControlService_proofs`** (assumes a natural number of requests). `SInv` adds
which step of `serve` holds the resources (`HeldSteps`) and what each step of
the release has undone (`ReleaseSteps`). Theorems: `ControlTypes`,
`ResourcesHaveOneOwner`, `AttachedLive`, `HandoffSucceeds`, `OkReleased`, and
the action properties `ReleaseOrdered` and `OnlyAcceptedRequestsDetach`.

**`Session_proofs`** (assumes finitely many threads, blobs told apart by their
digests, and that a message decodes to nodes whose names are ordered as
numbers are). `LoadedComplete` is not
inductive: a load appends children that were decoded two steps earlier. `SInv`
adds that whoever is between `lock()` and the end of the guard holds the inode
lock (`LockInv`), that the row it fetches for is meanwhile unchanged
(`FetchInv`), and that the bytes it got are those of the digest
(`AnsweredInv`, which is what `BlobService` promises). Theorems:
`SessionTypes`, `LoadsAreComplete`, `LoadsCountOnce`, and the action properties
`InodesStay` and `CloseIsFinal`. What was answered is the subject of `AInv`: a
thread queries outside the lock, but only a directory that is loaded
(`ReadyInv`), whose children no step changes (`SameChildren`); siblings have
different names (`DistinctSiblings`); so an answer once given stays true of the
table (`ResInv`). A listing is the sorted one because the number of siblings
before a child is an injection into the places of the list, hence onto
(`Ranks`, `Listed`). With `LoadedComplete` this gives `AnswersAreTheTree`, and
with `AnsweredInv` and the arithmetic of a range (`RangeRead`)
`ReadsAreFaithful`.

**`TreeTransit_proofs`** (assumes that the range of times in `session.rs`
includes that of `tree.rs`, which have constants of their own, equal today; that
`lstat` answers with a mode and a time, that what is added was hashed, and that a
foreign message is typed as the protocol types it; nothing about its names,
digests, times or order). The lemmas: a digest survives its text form
(`DigestRoundTrip`); a row carries its node (`ColumnsCarry`), for a whole
message (`RowsCarried`); what `Encode` makes passes every later validation
(`EncodedLoads`, through `SortBuilder`: a sort without duplicates is strictly
ascending). `TInv` says that the database has no row, the root alone, or the
root and all children of the published message (`RowsInv`), and that its
metadata row is the one of the last daemon (`MetadataInv`). Theorems:
`TransitTypes`, `UploadsLoad`, `RowsAreTheTable`, `InspectionIsHonest`.
`RowsAreTheTable` is what justifies leaving columns out of `SessionStore`, and
with it out of `Session` and `Fuse`.

**`CasClient_proofs`** (assumes natural sizes and limits, and that a blob held
in memory has the digest it is uploaded under). `UploadedMeansStored` needs
`OwedOrStored`: what is wanted is in the store, or still to do, loaded, batched
or being written. `DownloadedMeansVerified` needs `HashedIsWritten`: the hasher
and the destination see the same bytes. `BatchFits` compares the sum of the
sizes in a batch with the budget, while the code keeps a counter: `Exact` says
the counter is that sum, and `WithinBudget` that it fits. Theorems: `CasTypes`,
`UploadStores`, `DownloadVerifies`, `BatchesFit`.

**`Upload_lemmas`** and **`Upload_proofs`** (assume finitely many paths whose
parents lead to the root, typed local entries and options, and a positive chunk
size). `UInv` follows the phases: the scan has every path at most once and below
a directory it found (`ScanInv`); what exists below directories nobody changed
was found or is still to be looked at (`CoverInv`); the hash tasks are the files
in order, have read a prefix of a file nobody changed, and are no more than the
workers (`JobInv`); directories are encoded deepest first, so the digest of a
directory is there when its parent needs it (`DirsInv`); what is wanted is in the
store or missing from it (`StoreInv`). Theorems: `UploadTypes`, `ReadBuffersFit`,
`PrintedRootIsComplete` (the closure of the root's digest is inside what was
wanted) and `SnapshotsAreExact` (a path nobody changed is in the snapshot if and
only if it existed, with its content).

The size of a batch and the directories above a path are recursive functions.
What is proved about them goes by induction, from the fact that a non-empty set
of naturals has a least element (`LeastElement`).

`OneSession`, `LiveMountIsOwned`, `JoinedLockIsCurrent`, `VerifiedEntries`,
`NoClobber`, `AttachedIsLive`, `HandoffNeverFails` and the type invariants of
these modules are steps towards the properties of the runs and are proved only.

Only model-checked: every liveness property (out of the prover's reach, as is
the fairness in `FairSpec`); `AttributesSurvive`, `EncodingIsCanonical` and
`EscapesAreCounted` (bits of a mode, all permutations of a listing, and counts
over the prefixes of a link target), where the provers do not find the steps; and
the properties of `Fuse`, for which there is no proof yet.

## Abstractions

- Logging, messages, rendering and argument parsing are left out.
- SHA-256 has no collisions. The store keeps a blob only if it has its digest,
  and is run without eviction (`technical-design.md:68-70`).
- The session's concurrency is that of its API; today's FUSE thread calls it
  from one thread. `Fuse` therefore takes a session call as one step.
- No code sets a tombstone or an overlay path; their columns appear in
  `StoredRows` with the values they always have.
- `TreeTransit` follows one directory; `Session` and `Upload` have trees.
  Protobuf bytes are injective and their length is the number of nodes; the
  texts of a session row (uuid, mountpoint, log settings) are left out.
- `RfsHome`: the errors of the first probe other than "a daemon answers" and
  "none does" are one failure. Pids are not reused. A database transaction is
  one step here, in `Session` and in `TreeTransit`: rollback is SQLite's.
- `CasClient`: a file may read differently each time it is read; statuses fall
  into three classes (retryable, timeout, final); resource names are left out.
  Calls share no state, so one runs at a time.
- `Upload`: the scan of one entry is atomic; a file being read is changed only
  in place; mode and mtime are left to `Tree`. `hash_file` and the upload open a
  file by its path, which follows links: a link that replaces a file after the
  scan is the file it leads to.
- Power loss keeps a file's bytes only if it was synced before its rename, and
  may lose the rename.

## Not modelled

- Configuration and environment, log files, diagnostics and error chains:
  read once, or written and never read.
- Generated gRPC code; connection set-up, capability checks and URL parsing of
  the CAS client: no state across calls.
- The overlay store: an empty directory, which no code writes to.
- `rfs status`, output formats and argument parsing. Status changes nothing;
  its two reads are `Answers` of `RfsHome` and `InspectSession` of
  `TreeTransit`.
- `rfs snapshot` and writes to the mount: the control service refuses the one
  and the FUSE adapter the others, and both refusals are modelled.
- The split of a digest's text into characters, SQL and the pragmas of SQLite.

## Where to go on

Liveness of an upload and of a directory listing; proofs about `Fuse` and of
`EncodingIsCanonical`; `Upload` composed with `CasClient`, and `Fuse` with `Session`
once the adapter calls it from several threads.

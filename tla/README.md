# A TLA+ model of KumaBox

KumaBox runs sandboxes as Cloud Hypervisor virtual machines on one host. A daemon
(or the CLI directly) executes operations on sandboxes, snapshots and images. What
makes it hard is that every operation spans several stores that fail separately: a
SQLite catalog, files, host network devices, cgroups, and detached VMM processes that
outlive the operation which started them. Operations run concurrently in several
processes and any of them may die between two steps.

This directory models that behaviour in TLA+, checks it with TLC on small instances,
and proves the central properties with TLAPS for every instance. `PROJECT.json` maps
each definition to the source lines it stands for and lists components, runs, hazards,
findings and theorems. Paths below are relative to `src/internal/`.

## Components

| Component | State it keeps | What is hard | What makes it correct | Modules |
|---|---|---|---|---|
| Sandbox catalog (`sandbox/catalog`) | record per ID (name, state, generation, network), name index, image references | long transition sequences, name reuse, names shadowing IDs | state graph, generation grows by one, index and records agree | `SandboxCatalog`; image references in `Images`, the NIC-count update in `NicResize` |
| Lifecycle service (`core/sandbox_runtime.go`, `sandbox_storage.go`, `sandbox_lock.go`, `sandbox_status.go`) | one flock per sandbox | resolve before lock, failure and crash between any two steps, failing compensation | lock held on the right sandbox, copy current, Stopped means absent, resources owned | `SandboxLifecycle`, `SandboxContract` |
| Reconciliation, collectors (`core/sandbox_reconcile.go`, `core/gc*.go`, `daemon/supervisor.go`) | none | races with user operations, stale directory scans, progress | no Running VM stopped, nothing in use taken, everything settles | `SandboxLifecycle`, `Snapshots`, `Images` |
| VMM driver (`vmm/cloudhypervisor`) | process.json, cgroup scope, process | crash between exec and the identity file, stale generation, failed kill | at most one VMM, always found again | `VmmDriver` |
| Disk replacement (`core/disk_replace.go`) | backup directory, commit marker | crash, I/O error and power loss at each file operation | one whole set of disks, none lost | `DiskReplace` |
| Snapshots (`core/snapshot.go`, `snapshot/`, `vmm/cloudhypervisor/snapshot.go`) | catalog record, staging and published directory, paused guest | crash while paused, lost replies, deletion against use, shared staging | Ready has its files, a paused guest has an owner, leased files stay | `Snapshots` |
| Access times and eviction (`snapshot/catalog/access.go`, `core/gc_snapshot_policy.go`) | write-behind buffer | flush against touch, victim used after selection | no access forgotten, an evicted snapshot was unused, limits met | `AccessBuffer`, `StoreAlgorithms` |
| Clone (`core/clone.go`, `vmm/cloudhypervisor/clone.go`, `restore.go`) | a new sandbox built from captured memory | memory that names the source's TAPs and disks, crash half way, adoption by start | a running clone uses its own | `Clone` |
| Archive and directory transfer (`snapshot/archive.go`, `directory.go`) | tar stream, exported directory | holes, cut and damaged input | what is accepted equals what was sent | `StoreAlgorithms` |
| Images (`images/`, `core/gc_images.go`) | image catalog, layer files shared by images | removal and collection against creation, concurrent imports, damage | registered images stay whole, files in use stay | `Images`, `StoreAlgorithms` |
| File locks (`lock/flock`) | lock file inode, in-process token | transient lock file removed while others queue | one owner per path, no cycle of waiters | `FileLock` |
| Metadata store (`metadata/sqlite`) | SQLite database | busy retries, uncertain commits, opening | updates are serial and applied once | `Metadata` |
| TAP pool (`network/tap`) | lease files, devices, pool entries | crash between file and device, scan during changes | one lease per device and address, clean when reused | `TapPool` |
| CNI and bridge (`network/cni`, `network/bridge`) | journal record; address files | plugin failure or death at any step; unlocked release | what exists is recorded; recorded addresses are leased | `Cni`, `Bridge` |
| NIC resize and devices (`core/sandbox_network.go`, `core/sandbox_devices.go`) | provider, VMM and record | failure between three stores, late ejection | a later pass can repair; reports are true | `NicResize`, `Devices` |
| Node daemon (`daemon/`) | admission slots, phases of shutdown | requests after the freeze, lost exit hints | nothing works on a closed store, drains, notices exits | `Daemon` |
| E2B API (`api/e2b`) | lease file with deadline, timer; pages of a listing | timer against renewal, failure after hibernate, restart, changes between pages | no early expiry, expiry scheduled, paused is resumable, pages do not shift | `E2BLease`, `SandboxList` |
| Guest agent (`agent/`) | process table, output rings, port streams, upload | exit against signal, observer against output, half-closed streams, broken upload | no signal to a reaped PID, no output missed, nothing cut, whole files | `AgentProcesses`, `PortRelay`, `FileTransfer` |
| Commands and logs (`agent/`, `daemon/`, `vmm/cloudhypervisor`) | streams of one command, a followed log file | input, output and exit status on three connections; rotation at a new boot | the status comes after all output, a follower shows all of a log at rest | `ExecSession`, `LogFollow` |
| Image sources and conversion, CLI, client, configuration, SDK | | | | not modelled |

Which parts are modelled in full and which partly, and what is left out of each, is listed
under `components` in `PROJECT.json`.

Interaction: the daemon and the CLI call the services; a service takes the flock of the
sandbox, snapshot or image layers, reads and writes the catalogs in SQLite transactions,
and calls the driver, the disk store and the network provider. The supervisor calls
reconciliation and the collectors on tickers. Start and restore run the disk journal's
recovery under the sandbox lock. The E2B adapter calls the services under its own lease
lock. Almost nothing is shared in memory between operations, so catalogs, files and
processes are the shared state; the exceptions are the access buffer, the TAP pool, the
daemon's slots and the E2B timers, which are modelled as memory that a crash loses.

## Modules

`SandboxLifecycle` composes `SandboxCatalog` and `VmmDriver`. It has one action per step of an operation, where a step ends at the next
place another process can observe: a catalog transaction, a driver call, an allocation.
`op[p]` holds the operation's kind, its step and its copy of the record, as the Go code
keeps them in local variables. A failing step follows the code's error path; `Crash`
drops an operation at any step and the kernel releases its lock; its VMMs live on.
`HostReboot` ends all VMMs and operations and may or may not keep the run directory.
Random sandbox IDs are drawn from `Ids` and never drawn twice. `CollectOrphan` is one
step because the collector holds the sandbox lock for its whole duration and the ID it
works on has no record through which another operation could reach the artifacts.
Disks are abstracted to "complete or not", the network on the host to none, up or down, and a VMM to
its sandbox, launch generation and readiness, which is all that the properties tell
apart. `DiskReplace` opens up the disk step: it keeps a version per disk so that mixtures
of old and new are visible. `SandboxContract` is the abstract specification: a client
sees the state graph of `types.SandboxState`, a generation that grows by one with every
published change, power-on only inside Starting, and never an off state while a VM
executes. The refinement mapping is the record's state and generation, and whether a live
VMM of the ID exists.

Two variables describe a network because two stores do: `net` is what exists on the host,
`setup` is what the stored record says about it (`Config.NICs`, `Config.NetworkName` and
`Network.Backend`): no NICs and no setup (`offline`, or `named` when a bridge is named), NICs
whose setup is not stored yet (`pending`), or a stored setup (`published`). A creation without
NICs may still prepare a namespace; between Prepare and MarkCreated only the operation knows
of it (`held`). As in `networkProvider`, compensation and removal delete a network only when
the record they work on has NICs or a setup. `Valid` is the part of `Sandbox.Validate` that
depends on state and network; every transition checks it. It keeps a `pending` record from
ever being Starting, so the "creation is incomplete" branch of `RecoverNetwork` is never taken.

`FailCleanup` stands for both aborts of a failed launch, the deferred one of `Launch` and the
one of `failStart`: they try to end the same process with no step of the operation between
them. A start on an Error record whose process.json is missing rewrites it with the record's
generation, one more than the launch's; `ManagedVMMIsLocatable` speaks of Starting, Running and
Stopping records and says nothing of Error ones.

The other modules follow the same pattern: durable state, kernel state and memory are
separate variables, `op` (or `act`, `tx`, `step`) is where each operation stands, and
`faults` counts failed steps, lost replies and crashes. They meet at interfaces that one
module shows and another uses:

* `FileLock` shows that owners of one path exclude each other and that ordered lock sets
  cannot wait in a circle. Every other module takes a lock, or a set of them, in one step.
* `Metadata` shows that updates are serial. Every other module has one step per transaction.
* `SandboxLifecycle` takes start, stop and remove apart. `Snapshots`, `Clone`, `E2BLease` and
  `NicResize` use them as single steps, since they hold the sandbox lock throughout.
* `Images` includes what pins an image: the references of sandbox and snapshot records.
* `Snapshots` has the catalog and files of captures, `AccessBuffer` what their usage times
  need, `StoreAlgorithms` what is inside the files, `Clone` what a reader under a lease builds.
* `Cni`, `Bridge` and `TapPool` are the three network providers behind `NicResize` and the
  lifecycle's `net`.

`StoreAlgorithms` holds the pure algorithms (eviction policy, boot selection, archives), each
checked against a definition that does not follow the code: an evicted set meets every limit and is the
least recently used part; the boot file is the one a merged file system would show; what
a reader accepts of a possibly damaged transfer is what the writer was given.

Components that share no state are put side by side in a group module that one run can
explore: `Network` (`Cni`, `Bridge`), `Guest` (`NicResize`, `Devices`, `AgentProcesses`),
`Sessions` (`PortRelay`, `ExecSession`, `LogFollow`), `Services` (`Metadata`, `E2BLease`,
`FileTransfer`, `SandboxList`), `Stores` (`Snapshots`, `AccessBuffer`), `Pool` (`TapPool`),
`Copies` (`Clone`) and `Node` (`FileLock`, `Daemon`). The variable `focus` of module `Focus` names the
component that moves. The initial state chooses it and no step changes it, so the
reachable states of a group are the union of those of its components. The properties of
a group have the form "if the focus is on this component, its property holds".

In the descriptions of `map`, kernel and library behaviour (flock, SQLite, the guest, the
death of a process) is marked external.

## Runs

| Run | Shows |
|---|---|
| `LifecycleRecovery` | One sandbox, two operations in flight, two process identities, four requests, three faults: at most one VMM per sandbox, its generation is the fenced one, it can be located, usable records keep their disk, no operation kills a Running VMM, and interrupted transitions and deletions settle. Creations with NICs and without |
| `LifecycleConcurrent` | All operations over two IDs that compete for one name, four requests, two faults, and all three network policies: what the lock protects, Stopped means absent, name index, ownership, and the refinement of the contract |
| `Host` | Disk replacement, metadata, CNI and bridge, NIC resize, devices, E2B leases and listing, agent processes, port streams, commands, guest files and followed logs, each with its failures and crashes |
| `Stores` | Images, snapshots, usage times, TAP pool and clones with theirs; the eviction policy, archives and boot selection on every input of a small domain |
| `Node` | File locks with dying processes, and the daemon from admission to exit with the liveness of its supervision and shutdown |
| `Find*` | Counterexamples to what a comment in the code says; see "Findings" |

### Bounds

Bounds appear in guards only (`MaxRequests`, `MaxFaults` and the like in the modules, the
`*Bound` operators in the MC modules), so every explored behaviour is a behaviour of the
unbounded model.

* Lifecycle: a two-party race needs two operations in flight; a third only adds a waiter on
  the same lock. Two process identities show two VMMs of one sandbox. The longest chains of
  interest take four requests (create, start, stop or remove, start) besides
  reconciliation, which costs none. Three faults allow a failed step, a failed compensation
  and a crash.
* `DiskReplace`: two disks make a mixture possible; four faults allow a failed
  replacement, a failed rollback, an interrupted recovery and a power loss.
* Network: two slots, two sandboxes, two addresses, three faults: a failed step, a failed
  undo and a crash of the repair.
* Services: three writers (one reads, two compete); two calls and the timer with up to two
  faults over a clock of three; two uploads, or one of two chunks beside a download; three
  sandboxes, two changes, pages of one.
* Agent and sessions: two jobs with one PID, so that the PID is reused; streams of one chunk in
  pipes of one, so that both are full and empty; one disturbance of a command; two boots.
* `Images`: two manifests that share a layer; requests and faults together three.
  `Snapshots`: two operations and two identities, requests and faults together five (capture,
  use, removal, a fault and a crash).
* `AccessBuffer`: one snapshot with a long history, or two that compete for a buffer of one.
  `TapPool`: two devices, or one during a scan that overlaps everything. `Clone`: one clone with
  two faults, or two without; they meet only in what they read.
* `FileLock`: two threads over sets of two persistent paths, or one transient path whose file
  returns under another inode. `Daemon`: two requests for one slot, two launches, one fault.

Symmetry is used in `LifecycleConcurrent` and `Stores` only, which check safety. In `Stores`
the components share interchangeable values (`p1`, `p2` are operations in one component and
sandboxes in another); they never move together, so this only makes the group smaller.

Deadlock is not checked where an instance rightly comes to rest when its requests are
spent (the lifecycle runs, `Stores`, `Node`). It is checked in `Host`, where the sessions
and services that end do so in a named stuttering step (`Ended`) and all others go on.

### Fairness

* Lifecycle (`InterruptedWorkSettles`): operations continue (`WF` on the steps of an
  operation: a goroutine is scheduled), a booting VMM becomes ready unless it exits (`WF`),
  and reconciliation of each sandbox is issued again and again (`SF`: the supervisor's
  ticker fires for ever and skips a sandbox only while it is busy). Nothing is assumed of
  user requests, faults or VM exits.
* Daemon (`ServesThenDrains`): the goroutines of shutdown, supervision and flush continue
  (`WF`); a handler ends once its context is cancelled, and may stay for ever before; the
  `select` of `Supervise` takes the ticker and the cancelled context again and again while they
  are ready (`SF`). Nothing is assumed of arriving requests, exit hints, faults, VM exits or
  of when the daemon is told to stop.

## Findings

* `FindOrphanVMM`: `failStart` records Error even when the abort failed; removing an Error
  record does not look for a process, so the VMM outlives its owner.
* `FindStaleStatus`: status works without the lock; when process.json is missing it is
  rewritten with the generation of a possibly outdated record.
* `FindNameShadow`: the resolve under the lock goes by reference, and a sandbox named like
  another one's ID wins, so the lock held is not the record's.
* `FindOfflineNamespace`: a creation without NICs prepares a namespace that no record shows
  before MarkCreated. When Prepare fails half way, or the process dies and reconciliation
  removes the reservation, the record goes and the namespace stays until the orphan
  collector finds it. `ResourcesHaveOwner` therefore speaks of disks and of networks whose
  NICs or setup the record shows.
* `FindStuckReservation`: a bridge sandbox without NICs is reserved with a network name and
  no setup, which `Validate` accepts in Creating only. If creation dies before MarkCreated,
  every BeginDelete fails and the record can be neither settled nor removed.
* `FindMarkerLstat`: if publishing the marker reports a failed sync and the following
  Lstat fails with any error, a committed set is rolled back; when that rollback is
  interrupted, recovery keeps the mixture.
* `FindRestoreStage`: two restores of one snapshot into one sandbox share their staging
  file; one publishes what the other is still writing.

`LifecycleRecovery` leaves status out because the race of `FindStaleStatus` really does break
its properties about VMMs, although the supervisor calls Status after every pass. It leaves
restore out because restore gives up the lock after its stop and later accepts an Error
record without locating a process, which breaks them too. `LifecycleConcurrent` includes both.
`LifecycleRecovery` also leaves out the network name without NICs, which breaks
`InterruptedWorkSettles`.

Seen while modelling, without a run of their own: restore's gap just described; after a
failed abort the network of a VMM that still runs is lowered; a command that
never reads its input outlives a vanished host while its input pipe is full; output still
being copied when the two seconds of `WaitDelay` are over is dropped although the exit status
is reported (`agent/server.go:215`); a log truncated in the middle of a pass may lose the
first bytes of the new boot; a sandbox resumed between the reading of records and of its
lease may be missing from one page; staging directories of clones and restores that a crash
leaves match no pattern of the collector (`core/gc.go:261`), which costs disk space only.
The properties are stated so that they say nothing about these cases.

## Proofs

Every theorem holds for arbitrary sets of sandboxes, operations, devices, snapshots and so
on, and for any number of requests, failures, crashes and reboots: the bounds of the runs
are constants of which the proofs use nothing but their type. The argument always has the
same form. The property is not inductive, because an operation writes in one step what is
right only because of what it saw in an earlier one. So the inductive invariant says, for
each step an operation may stand at, what it knows there of the shared state, and which
lock or fence keeps that true. A frame lemma shows that a step of one operation leaves what
the others know, and each action then only has to establish what its own next step needs.
Each invariant was checked by TLC before it was proved.

* `SandboxProofs`: `TypeCorrect`; `LifecycleInvariant`, from which `LockedOperationsAreCurrent`
  and `StoppedIsStopped`; `LifecycleImplementsContract`. A commit of Stopped is safe only
  because absence was proved under the lock in an earlier step (`AbsenceProvenHolds`) and no
  other operation can launch meanwhile. That needs the lock (`OperationHoldsLock`), a current
  copy of the record (`CopyIsCurrent`), the states each step may meet (`StepMatchesState`), and
  that a fresh ID has neither record nor VMM (`OnlyIssuedIds`). In the refinement each action
  is a contract step or a stutter. On top of this invariant: `NamesAreConsistent`,
  `ResourcesAreOwned`, `UsableRecordsHaveDisks`, `KillsAreIntended`, `OneVMMIsFenced` and
  `VMMsAreLocatable`.
* `HostProofs`: the disk journal (`DisksAreOneSet`, `DisksSurvive`, `CommitIsFinal`): with the
  marker, the live disks are the agreed set; without it, each agreed disk is its backup if
  there is one and the live disk otherwise; what a power loss brings back never changes
  that. `ResizesAreRepairable`: between provider, VMM and record only the slot next to the
  recorded count is ever in doubt; what a guest still has and does not list was asked to go.
  `DeviceReportsAreTrue`. `AgentProcessesAreContained` and `ObserversMissNothing`: a signal is
  sent while the gate of the process is held, and the process is reaped only by who holds
  that gate, so its PID cannot pass to another meanwhile; the batch of an observer ends with
  the newest frame and has no hole, or the version it will wait on has already moved.
* `SessionsProofs`: `StreamsAreWhole`. Port relay: the frame that ends a direction stands behind
  all its data on every hop, and the events of a success are true when they are entered and
  stay true. Log: the follower's offset never passes what was shown of the boot that its
  signature names. Command: until the terminal frame is read, all chunks the command wrote
  are counted in the output pipe, on the connection or with the client, all input in the
  request, on the connection or in the input pipe, and the exit status is settled before
  it is sent.
* `NodeProofs`: `LocksExclude`: whoever owns a path holds the kernel lock of the very inode the
  path names. `NobodyWaitsInACircle`: an inode belongs to one path and a thread waits for a
  path above all it owns, so the rank of what is waited for grows along any chain of
  waiters, and a finite set of threads has no circle. `NothingWorksAfterClose`: slots and the
  group of handlers are the cardinalities of the requests that hold them, and admission is
  closed before the group is awaited.
* `PoolProofs`: `TapLeasesAreExclusive`: a device is bound by at most one active address
  file, whose sandbox owns the pool entry with the same epoch; only that sandbox's operation
  gives or takes the permission to use it; and a lease ends only after permission, holder,
  endpoint and connections are gone. The remembered and scanned addresses are hints that
  need no truth.
* `SnapshotsProofs`: `CapturesStayDurable`, `SnapshotFilesStay` and `PausedGuestsHaveOwners`. Only
  the holder of the exclusive lock moves a record from none to pending to ready and touches
  files; whoever has no lock may only turn ready into deleting, and a record that is deleting
  never becomes ready again while a capture that might commit it lives. So a capture knows
  the record at each step up to that mark, and a reader's lease excludes all who change the
  directory. `AccessesAreKept` and `EvictionsAreFenced`: buffer and catalog together never hold
  less than what was touched or seen, and a view taken under the evictor's lock that no
  retirement interrupted has seen every completed touch.
* `ResourceProofs`: `ImagesAreUsable` and `LeasedFilesAreStable`: images that share a source digest
  agree on its files, and the locks of a layer protect what each step has checked.
  `ClonesAreIsolated`: the patched configuration names only the clone's own disk and TAPs; the
  VMM gets them in the order load, swap, add, and it cannot run before all of them are done.
  `JournalCoversTheHost`: an attachment is recorded before the plugin runs and
  forgotten after it is gone. `RecordedAddressesAreLeased`: a lease of a recorded address
  changes only by its own sandbox, and a half-made address file belongs to the holder of the
  provider's lock.
* `ServicesProofs`: `MetadataUpdatesAreSerial` (the reservation keeps the database as its holder
  has read it), `GuestFilesAreWhole` (a path is replaced by a rename of a temporary file that
  holds all chunks), `LeasesAreKept` (a policy that will be written was read under the lease's
  lock; an active deadline has a timer or a callback that will read it again) and
  `ListingDoesNotShift` (the cursor is the last entry of the page before, and start time and
  ID order the entries strictly, so what stands before the cursor has been decided).

The proof modules make Zenon the default prover with `USE Zenon`; a leaf that needs
arithmetic or the algebra of functions and sequences names SMT itself.

Assumptions. On constants: null values lie outside the sets they extend; `MaxNICs`,
`MaxChunks`, `Chunks` and `MaxTime` are natural; `MaxFrames`, `MaxBoots` and `HeadSize` are positive;
threads and requests are finite sets; paths, and the IDs and times of a listing, are
naturals, which stands for their order. The lifecycle theorems assume
`Names \cap Ids = {}` (no sandbox is named like an ID) and that `Policies` are among the three
kinds of creation; `UsableRecordsHaveDisks` and
`OneVMMIsFenced` also that restore, and `VMMsAreLocatable` that restore and status, are not
among the operations; the journal's that `LstatFails = FALSE`. `FindNameShadow`,
`FindStaleStatus` and `FindMarkerLstat` show that these are needed.
`PausedHasOwner` itself exempts an operation that died and a request to the VMM that failed.

Only model-checked: the liveness properties `InterruptedWorkSettles` and `ServesThenDrains`
(liveness under fairness is out of the prover's reach); `TransferIsFaithful`, `PolicyIsMet` and
`BootIsVisible`, whose algorithms are recursive over their input (induction over data is out
of reach).

## Not modelled

Image sources and the conversion of layers (registries, tar streams, external tools), the
CLI, client, configuration and SDK; formatting, logging, RPC encoding, SQL text, netlink and
eBPF details, guest network setup and reseeding. A rename whose directory sync failed is
taken as durable in `DiskReplace`. Operations name a record by its ID when they resolve it a
second time in the same call; the first of two resolves by ID is left out.

# OpenFlash controller lab: TLA+ models, checks and proofs

This directory holds a TLA+ verification project for the repository: models of
its Linux block driver against its QEMU controller, and of its Python reference
components; TLC configurations that check them on small instances; and TLAPS
proofs of the main safety results for every value of the constants.
`PROJECT.json` is the index: which lines each definition models, the runs, the
mutants that show each property can fail, the findings, the hazards and the
theorems.

To check a run: `tlc -workers 2 -config <Run>.cfg <MCModule>`. To check proofs:
`tlapm <Module>Proofs.tla`.

## 1. Inventory

| Component | Source | State | Operations | Modelled by |
|---|---|---|---|---|
| Driver I/O path and recovery | `driver/openflash/openflash_core.c`, `openflash_queue.c` | `requests[]` (request pointer, `nr_mapped`), `sq_tail`, `cq_head`, `cq_phase`, `sq_lock`, `reset_pending`, the two rings | `queue_rq`, `io_irq`, `timeout`, `reset_work`, `fail_io_requests`, `reset_controller` | `IoQueue` |
| Driver admin queue | `openflash_queue.c` | `admin_pending`, `admin_cid`, `admin_error`, `admin_status`, `admin_result`, `admin_done`, `next_cid`, ring indices | `admin_command` (IDENTIFY, CREATE_IOQ), `irq`/`drain_admin_cq`, the admin half of `reset_controller` | `AdminQueue` |
| Driver probe, remove, disk registration | `openflash_core.c`, `openflash_queue.c` | `nr_queues`, `disk`, allocated rings, SGL tables, vectors, interrupts | `probe`, `remove`, `setup_*`, `teardown_*`, `register_block_device` | `DriverLifecycle` |
| QEMU controller, queues | `qemu/hw/block/openflash.c` | `OpenFlashQueue` per qid, control and status registers | `mmio_write`, `process_sq`, `execute`, `reset` | inside `IoQueue`, `AdminQueue` and `DriverLifecycle` |
| QEMU controller, data path | same | `storage`, backing file | `execute`, `transfer`, `persist`, `realize`, `exit` | `QemuDevice`, `DurableStore`, `DeviceConformance` |
| Reference queue engine | `src/openflash/queue.py` | two rings with head, tail, count; two phases | `submit`, `ring_submission_doorbell`, `consume_completion`, `reset` | `QueueEngine`, `QueuePair` |
| Reference device | `src/openflash/device.py` | `_stable`, `_volatile`, `_next_fault` | `execute`, `inject_next_fault`, `power_loss` | `ReferenceDevice`, `DurableStore`, `DeviceConformance` |
| Flash translation layer | `src/openflash/ftl.py` | `mapping`, `valid_lpns`, `invalid_pages`, `erase_counts`, `_next_page`, `_reclaimed` | `write`, `map_read`, `garbage_collect`, `_allocate`, `checkpoint`, `recover` | `Ftl` |
| Checkpoint journal | `journal.py` | one file | `write`, `read` | inside `Ftl` |
| Schedulers | `scheduler.py` | none | `order` | not modelled (section 5) |
| Timing, media, profiles, ABI packing, trace, CLI | `simulator.py`, `media.py`, `profiles.py`, `abi.py`, `trace.py`, `cli.py` | floating-point clocks, a pseudo-random generator, files | | not modelled |

### How the parts interact

The driver and the controller share four rings in host memory (an admin pair and
an I/O pair), the doorbell and control registers, and two MSI-X vectors. A
doorbell write runs the controller's `process_sq` before it returns; a
completion is a ring entry with a phase bit, announced by a message on the
queue's vector. Four actors touch the I/O queue at once: the block layer's
dispatch context (`queue_rq`), the controller, the interrupt handler and the
reset work item. Only `sq_lock` and the block layer's freeze keep some of them
apart; the handler takes no lock at all.

The Python side is sequential. `QueueEngine` calls `ReferenceDevice.execute` for
every command; `Simulator.run` drives the FTL and then orders and times what was
mapped.

### What is hard here

* The handler frees a tag before it advances `cq_head`, and the controller never
  checks whether the completion ring is full.
* A request is taken out of `requests[]` by the handler or by recovery: exactly
  one of them may end it and release its mappings.
* Recovery rebuilds rings and indices that other actors use without a lock; an
  interrupt can arrive during the rebuild, be lost, or come after a timeout.
* The admin wait of 500 ms races the handler that completes the command.
* Phase bits, ring indices and the 16-bit command identifier wrap at different
  times on the two sides.
* Garbage collection trusts three redundant tables and a free queue.
* Cached discards, FUA and flush have to survive power loss in the right order.
* `probe` has a dozen places to fail, each with its own label; `remove` runs
  against requests, timeouts and the reset worker; the controller outlives both.
* A scatter-gather list is found to be bad after part of it was stored.
* A process dies anywhere and recovers from a checkpoint that may be old.

`PROJECT.json` lists these at their lines, under `hazards`, with the properties
that cover them.

## 2. Modules

`IoQueue`: one action per step that another actor can see. `queue_rq` is
`QueueRqReject` (all checks before mapping), `QueueRqMapSegment`,
`QueueRqMapError`, `QueueRqPublish` (the part under `sq_lock` up to
`blk_mq_start_request`) and `QueueRqDoorbell`. A mapping failure at the first
segment changes nothing the model keeps and is a stuttering step. The controller
is `DevExecute` (one turn of the loop of `process_sq`) and `DevNotify`. The
handler is split where it touches shared state: phase check, `xchg`, end of the
request, advance, exit. The worker is split at every store of
`reset_controller` that the handler can observe; the admin command in it is one
step here, and has a module of its own. `exec` and `undurable` are history
variables. The block layer (tags, start, end, timeout, freeze) and the delivery
of messages are external and are modelled from how the driver uses them: a
frozen queue admits no new request but dispatches those it has; `timeout()` is
called once per started request, because `BLK_EH_DONE` leaves it marked.

`AdminQueue`: the thread that holds `admin_lock` (`probe`, then the reset
worker) and the admin handler, step by step. The completion `admin_done` is its
counter. A message may be lost, or reach the handler at any later time. The
doorbell runs the controller to the end, as in QEMU. What the controller
answered is abstracted to the operation it executed and the status. A reset ends
early when READY does not come; the next commands are then those of the next
reset. The CQ-head doorbell is left out: the controller stores its value and
never reads it.

`QueueEngine` and `QueuePair`: every ring operation of `queue.py`; the doorbell
loop is one action per turn. `QueuePair` is what a host may rely on: two bounded
FIFO queues, without slots, phases or wrap-around.

`ReferenceDevice` and `DurableStore`: `device.py` with blocks as abstract
values; the contract is two contents of the namespace, `now` and `safe`. A power
loss returns `now` to `safe`; a flush or an FUA write brings `safe` to `now`.

`DriverLifecycle`: one thread of the driver core runs `probe` or `remove`, one
action per allocation, release or wait; `pc` names the step, a failing
allocation jumps to the label of the C code (`Undo`), and the tails of the setup
functions and the teardown functions share their steps, because they free in the
same order. Managed memory needs no release, but the allocation of `requests[]`
is a step because its failure has both rings to give back; the SGL tables are
allocated and, on a failure, freed one per step. A resource is held or not; what it contains is in the other
modules. Beside the thread run requests, their timeouts and interrupts, and the
reset work item. `cancel_work_sync` is two steps, as in the kernel: it takes a
queued item back and keeps it from being queued again (`GrabWork`), then waits
for a running one (`FlushWork`). The controller's admin head and phase are kept
from one binding to the next. `garbage` and `raced` are histories: an
uninitialized `ret` that was no error code was returned; a timeout queued the
work after its cancel.

`QemuDevice`: `execute` of one data command with the segment walk of `transfer`,
`persist`, the control register, `realize` and `exit`. Storage is counted in
units, the grain of a segment, and offsets wrap at `OffsetMod` as they do at
2^64 in C. It implements `DurableStore` with `TornTransfers`: a refused write
may have stored some units, which are not durable before the next flush, and a
refused read may have returned some.

`DeviceConformance` composes `ReferenceDevice` and `QemuDevice`: the README of
the repository calls the Python device the oracle of the controller. Every
command goes to both, a backing file that cannot be written is an `INTERNAL`
fault for the oracle, a power cycle hits both. `strayed` and `strayedSafe` are the
history of units that the controller stored, or saved to its file, for a command
the oracle refused. Its definitions are the harness of the comparison, not code,
so the map does not list them.

`Ftl`: `ftl.py` as driven by the request loop of `Simulator.run`; a page move is
one step. `overlap` and `failed` are history flags: a victim had free pages when
it was chosen; an overwrite found no page. Between requests the tables may be
saved through the two steps of `CheckpointJournal.write`, and in any state the
process may be killed and a new one recover from the journal. `erased` and
`clobbered` are the history of the flash since the journal was written.

`MC*` modules give the constants their values. Definitions marked `Deviation:`
in the modules are plausible wrong versions of the definition that follows
them. The specifications do not use them; replacing the definition by its
deviation makes TLC report the property named in `PROJECT.json` under `mutants`,
which shows that the property depends on that line of code.

### Constants that stand for the environment

| Constant | Meaning |
|---|---|
| `MaxLost` | how many MSI-X messages may never reach the handler |
| `LateInterrupts` | FALSE: `synchronize_irq` in `fail_io_requests` finds no message on its way; TRUE: it may |
| `RecoveryMayFail` | FALSE: the controller comes back after RESET, as the QEMU device always does; TRUE: the driver's error returns can happen |
| `CapFua` | whether the controller advertises FUA |
| `MaxCommands`, `FirstCid` | how many admin commands are issued and from which identifier, so that the 16-bit wrap lies inside the history |
| `MaxErase` | how many erases there may be before no more requests are issued |
| `MaxCheckpoints` | how often the journal is written; recoveries are not counted |
| `OffsetMod`, `MaxSgl` | where byte offsets wrap; the limit on list entries |
| `HasBackingFile` | whether the backing-file property is set |

## 3. Runs

| Run | Bounds | Shows |
|---|---|---|
| `IoQueueSafety` | depth 3 (2 tags), two-segment writes, two-segment FUA writes on a controller without FUA, misaligned ones; 1 lost, late, failing recovery | one owner per started request, no leaked mapping, exclusive rebuild, a completion ends only its own command, no stale descriptor is fetched |
| `IoQueueLive` | depth 3, one-segment writes, fairness, nothing lost or late | no completion is overwritten, the phase accepts exactly fresh entries, every started request ends, every recovery finishes |
| `AdminQueue` | depth 3, 5 commands, 1 lost, cid wrap, fairness | a result is the caller's own, an abandoned command disturbs nobody, the two sides agree on the ring after a heard message, every call and every reset returns |
| `QueueEngine` | depth 4, 2 commands, 2 statuses, budgets 0, 1, depth | ring invariants; refinement of `QueuePair` |
| `Devices` | 2 blocks of 2 units, lists of up to 3 entries with a limit of 2, one failing save at a time, offsets that wrap | both devices implement `DurableStore`; the controller agrees with its oracle |
| `Ftl` | 5 logical pages on blocks of 2 pages, 2 erases, 2 checkpoints, any number of recoveries | the tables agree, live data is kept and the free queue is exact while the tables can be trusted (no overlap), a checkpoint stays readable, relocation never runs out of pages half-way |
| `DriverLifecycle` | depth 4 (3 tags), any number of bindings, fairness | nothing leaks or is freed twice, users hold what they use, `remove` returns |

The bounds are the smallest in which the interesting cases happen: two tags so
that one command completes while another is in flight; rings that wrap any
number of times (the state spaces of `IoQueue` and `QueueEngine` are closed:
requests, timeouts and recoveries are not counted); a lost message while another
is delivered; an identifier that wraps from 65535 within the history; five
logical pages on six physical ones, so that garbage collection meets too little
workspace, and a second checkpoint after a recovery from the first; a list that
is one entry over the limit, a unit short, a unit long or broken half-way. The
states of `DriverLifecycle` and `Devices` are closed: bindings, recoveries,
commands and power cycles are not counted. Flushes, whose status the controller may choose, multiply the states of `IoQueue` by the
statuses left in old ring entries; they are left to the theorems, which hold for
every set of request shapes. `IoQueueLive` uses requests of one segment because
a mapping that fails for ever keeps a request from ever starting, and the freeze
waits for it.

### Disagreements between the code and its documents

Five runs are expected to end with a violation; each checks one sentence of the
repository.

* `IoQueueLostInterrupt` (`TimedOutEnds`): the reset worker freezes the queue
  before it fails the requests in flight. The freeze waits for those very
  requests, so a request whose interrupt was lost is never ended.
* `IoQueueFua` (`FuaDurable`): `cmd->flags = OPENFLASH_CMD_F_SGL` overwrites the
  FUA flag.
* `FtlOverlap` (`LiveDataKept`): a victim that still has free pages is returned
  to the free queue with those pages listed twice. The same sequence of writes
  shows it in the Python code: two channels, one die each, two blocks of two
  pages, watermark 1, logical pages 1, 1, 2, 2, 0, 2, 0, 2, 0, 0, 2.
* `LifecycleRemove` (`HostStorageStaysValid`): `remove` cancels the reset work
  while the disk still takes requests; a timeout after that queues it again, and
  the worker rebuilds rings that `remove` frees.
* `LifecycleReprobe` (`FirstCommandIsSeen`): clearing CONTROL leaves the
  controller's indices, and `probe` enables it without a reset, so a driver that
  is bound again gets no answer to IDENTIFY.

Other behaviours are visible in the models and have no run of their own:

* A handler that runs while `reset_controller` rebuilds the ring with `cq_phase`
  still 0 accepts cleared entries. They carry cid 0 and are skipped, so nothing
  is ended by mistake (`CompletionIsForItsCommand` holds with late interrupts);
  `PhaseRejectsStale` is checked without them.
* The queue is unfrozen after a recovery that failed (`docs/releases/v0.4.0.md`
  says it resumes only after success). The QEMU device never fails it.
* `setup_io_queue` returns an uninitialized `ret` when an SGL table cannot be
  allocated. The model takes any value: a negative one unwinds like any other
  failure and is checked; 0 lets `probe` go on with freed rings, a positive one
  counts as bound and `remove` frees everything again.
* `remove` frees the I/O rings before it clears CONTROL: until then the
  controller still has their addresses, but no doorbell rings.
* The QEMU device and its oracle differ in five ways that `Conformance` allows
  by name: an LBA whose offset wraps is served, and if it is an FUA write it also
  saves what the oracle still caches (`OnlyCached`); a list found bad half-way, or
  too short, has stored its first units; an FUA write whose save fails keeps its
  data in the store; an unknown opcode may be refused for its fields; and
  without a backing file a flush succeeds and nothing survives (the run has
  one).
* After `recover` pages that were programmed since the checkpoint are programmed
  again without an erase, and pages it maps may have been erased by a collection
  since. `CheckpointStaysReadable` covers the rest.

Two more concern the admin queue: the completion of an abandoned command makes
the next one fail with `-EIO` although the controller executed it; and an admin interrupt that is still on its
way when a reset begins can leave the two sides of the admin ring apart, because
nothing synchronizes with that vector. `CompletionRingsAgree` is therefore
claimed until such a reset, or an overrun of the ring by abandoned commands,
which the history variable `spoiled` records.

### Fairness

`IoQueue!Fairness` is weak fairness of `queue_rq` for a waiting request, of the
controller, of the delivery of a message (or its loss, which `MaxLost` bounds),
of the handler and of the work item: each is a kernel or emulator context that is
scheduled once it can run. `QueueRqPublish` has strong fairness because
`sq_lock` is a fair (queued) spinlock, so a dispatch that keeps finding the lock
free gets it. Nothing is assumed about timeouts, mapping errors or new requests.
`AdminQueue!AdminFairness` says that the thread goes on once it is inside a call
and that the handler runs; the 500 ms timer guarantees the former.
`DriverLifecycle!Fairness` says that `remove` goes on, the work item runs and the
interrupt of an answered request is delivered; nothing is assumed about
`probe`, new requests or timeouts.

Deadlock is checked in the runs where nothing is lost or cut off by a bound
(`IoQueueLive`, `QueueEngine`, `Devices`). In the others the system really may
stop: the stuck freeze above, a `remove` that waits for a request the controller
never answers, or a bound that is used up.

## 4. Proofs

Every proof module is checked to the last leaf, for every value of the constants
under the named assumptions of the module it is about. Each theorem about an
invariant comes from an inductive invariant that TLC checked first on the run's
instance.

* `IoQueueProofs` (any depth of at least 2, any set of shapes, any number of lost
  messages, late or not, recovery failing or not): `TypeCorrect`, `OneOwner`,
  `NoMappingLeak`, `ExclusiveRebuild`, `CompletionForItsCommand`,
  `FetchesOwnedCommands`, and without late interrupts `CompletionsAreKept` and
  `StaleEntriesRejected`. The inductive invariant `OwnershipInv`
  adds two facts to the properties: `AllocAccounted` (a request that is not
  started yet has recorded no mappings, and one of a rejected shape has mapped
  nothing), without which an error path could release too little, and
  `DrainsFrozen` (the queue is frozen while the worker waits), without which a
  request could enter between the wait and the rebuild.

  `RingsInv` says what the rings contain. `SubmissionInv`: `sq_lock` is held from
  the descriptor to the end of the doorbell, so the controller's head is the
  driver's tail in between and there is one command to fetch, that of the lock
  holder. `PostedInv`: the controller's tail and phase determine the phase of
  every entry, and which ones it has never written. `CompletionInv`: an entry the
  handler has not dealt with (not `Stale`) tells what was executed for a request
  that has not ended, and no two are for the same request. Its hard step is
  `process_sq` posting a completion while the handler works on an entry: that
  the entry is not overwritten is a pigeonhole argument (`RingHasRoom`), since a
  full ring would hold entries for more requests than there are tags besides the
  one being served.

  `PromptInv` adds, for `~LateInterrupts`, that no handler runs during a rebuild
  (`RebuildQuiet`), that the driver is behind the controller by at most one turn
  (`DriverFollows`), and that the completion of every executed request is in the
  ring (`Announced`). The hypothesis is needed: with a late interrupt the handler
  steps over cleared entries and the two sides no longer agree on the head.
* `AdminQueueProofs`: `AdminTypeCorrect`, `AdminNoStray`, `AdminOneCompletion`,
  `AdminResultIsOwn`, `AdminRingsAgree`.
  `AdminInv` adds `HandlerOwns`: `admin_pending` is set only while the caller
  rings or waits, and the completion count is 0 when a command is published and
  while the handler is about to store a result. `synchronize_irq` on the timeout
  path is what makes this inductive. `ResultInv` adds that every cid in a ring or
  in the handler was handed out before (`CidsUsed`), so that nobody has seen the
  cid of a command before its doorbell, and a completion that carries it
  afterwards tells what was executed. `RingInv` describes the completion ring by
  the controller's tail and phase alone (`DeviceRing`), and the driver as behind
  it by less than a turn (`DriverBehind`); `spoiled` is exactly what would break
  the latter. A controller that did not get READY has answered nothing since its
  reset, so the next reset finds no message of it.
* `QueueEngineProofs`: `EngineTypeCorrect`, `SubmissionRingIntact`,
  `CompletionRingIntact`, `InterruptsAccountFor` and the refinement
  `EngineImplementsQueuePair`. `EngineInv` describes each ring by its window
  from head, of length count, wrapping at the depth. Lemmas about this window
  (advancing the head, appending at the tail) carry every step to a step of the
  FIFO pair.
* `ReferenceDeviceProofs`: `DeviceTypeCorrect` and the refinement
  `DeviceIsDurable`, from lemmas on what a lookup returns before and after a
  flush of a given cache.
* `DriverLifecycleProofs` (any depth): `LifecycleTypeCorrect`,
  `UnboundHoldsNothing`, `StorageOutlivesUsers`. `LifecycleInv` says that
  resources are a stack: for each one, the set of steps of the thread at which it
  is held (`HoldsDisk` inside `HoldsTagSet` inside ...), and how many SGL tables
  there are at each. `NothingLeaks` is its bottom. `WorkerInv` places the worker between binding and the end of
  `cancel_work_sync`, which is why it never meets a freed ring; it holds until
  the race that `raced` records, and the stack until `garbage`.
  After the race `NothingLeaks` still says that every resource is back; only the
  work item and the controller may be active.
* `QemuDeviceProofs` (any number of blocks, units and list entries, any offset
  width above the capacity, any commands): `QemuTypeCorrect`
  (no unit outside the capacity is read, stored or zeroed, also by a transfer
  that is refused half-way), the refinement `QemuIsDurable`, and
  `ControllerConforms`. The assumption on `QemuCommands` is what the fields of a
  command can be; a buffer without a list has one segment of the command's
  length, because `execute` computes the length itself. `QemuIsDurable` has the
  hypothesis `HasBackingFile`: without one a FLUSH reports success and nothing
  survives, so the refinement is false. What the recursive `Transferred` computes
  is shown without induction: a least index at which it failed
  (`NaturalFacts!LeastNatural`) would have a predecessor that did not. Every
  store of `transfer` then falls inside the range `execute` checked, also when
  the sum wraps.

  `ControllerConforms` states `Conformance` for every pair of the two devices of
  the same size (`SameDeviceAssumption`: a block of the oracle is
  `UnitsPerBlock` units, and `INTERNAL` can be injected), when the oracle gets
  every command the controller gets (`SameCommandsAssumption`); again with a
  backing file. `ConformInv` adds to `Conformance` that a controller that is off
  faces an oracle with an empty cache. The argument compares what one command
  does to each side: the two verdicts (`VerdictsAgree`, from the range checks in
  units and in blocks, `RangeAgrees`, and the segment-by-segment check of
  `transfer` against the rule of `docs/ABI.md`, `DescriptorAgrees`), and the
  contents (`StoredAlike`, where the unit that `transfer` puts at an offset is
  the one the oracle's buffer has there, `PayloadAgrees`). The attempt showed
  that a first version, which compared only what was stored, was false: an FUA
  write whose offset wraps also makes durable what earlier commands stored, and
  the oracle, which refuses it, keeps that in its cache. The bounded run had no
  such write; it has one now.
* `FtlProofs` (any geometry, watermark, set of logical pages): `FtlTypeCorrect`,
  `FtlKeepsLiveData`, `CheckpointReadable`, `TablesAlwaysAgree`,
  `RelocationSucceeds`. Four arguments meet in `FtlInv`. The placement of
  `_physical_from_linear` is a bijection between `0 .. CapacityPages - 1` and the
  pages (mixed-radix digits: `PhysicalInjective`, `PhysicalOnto`), so the cursor
  and the free queue describe sets of pages and an allocation removes exactly
  one (`Allocation`; the rotation of the queue is `QueueRotated`). The tables are
  described by the pages of a block that are `Live`, free or `Dead`; the counter
  `invalid_pages` is the size of the third part. `max()` finds a victim because a
  smallest set of candidates without a preferred one would still have none after
  losing an element (`VictimIsCandidate`). And the journal satisfies the same
  table invariant as the program (`TablesInv` takes the tables as parameters), so
  a recovery gives back a state the invariant allows.

  The proof found a condition that the bounded run had not shown. `write`
  removes the old page from the reverse index before it allocates. If the
  allocation fails, nothing is free; with more than one page per block every
  block that counts an invalid page then still has a live one, so no collection
  finds workspace and nothing more can happen (`Stuck`). With one page per block
  (`tests/test_ftl.py` uses such a geometry) the block looks empty, the next
  collection erases it, and its page is handed out while still mapped. `Trusted`
  states the condition, and `LiveDataKeptUntilOverlap` and
  `CheckpointStaysReadable` are claimed under it.

Only model-checked: liveness under fairness, which is out of the prover's reach.
Every invariant of a passing run is stated by a theorem; some have a
hypothesis on a constant, named above.

## 5. Not modelled

Byte layouts (`abi.py`, the register map), floating-point timing and the media
error model, trace and command-line handling; the contents of transferred data
in the driver; the reads of the register block. The memory-ordering barriers are
taken to do what they say: stores of the driver become visible in program order.
The handler's reads of `flags` and `cid` of one entry are one step; a clear of
the ring between them would give cid 0, which the next check skips. One handler
instance runs per vector, as the interrupt core guarantees.

A request has one number of segments in `IoQueue`. The code has two: it limits
`blk_rq_nr_phys_segments` and then maps once per turn of `rq_for_each_segment`,
which visits single pages. Where the block layer has merged pages the second is
larger and the SGL table could be overrun; the model leaves such requests out.

The schedulers sort a list that is complete before they are called, in one pure
call; pages are mapped before that (`simulator.py`), so the order changes only
simulated latency. `probe` failures before `pci_set_master` have nothing to give
back. `g_file_set_contents` is taken to replace the file as a whole or to fail,
as its documentation says, and the file system to keep what a killed process has
written to the checkpoint journal.

## 6. Plan

Done in this order: `IoQueue`, `AdminQueue`, `QueueEngine` with `QueuePair`,
`Ftl`, `ReferenceDevice` with `DurableStore`, and their proofs; then
`DriverLifecycle`, `QemuDevice` with `DeviceConformance`, and checkpoint and
recovery in `Ftl`; then the proofs of `DriverLifecycle`, `QemuDevice` and `Ftl`,
of the ring contents of `AdminQueue` and `IoQueue`, and of the conformance of the
two devices.

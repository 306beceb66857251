-------------------------- MODULE DriverLifecycle --------------------------
(***************************************************************************)
(* Binding and unbinding of the Linux driver: probe() with the unwinding   *)
(* of each of its failures, remove(), and between them the block device    *)
(* with its requests, their timeouts and the reset worker.  Actors: the    *)
(* thread of the driver core that runs probe() or remove(), the block      *)
(* layer, the I/O interrupt and the work item.  The controller keeps its   *)
(* registers and its admin ring indices from one binding to the next.      *)
(*                                                                         *)
(* What a resource contains is left to IoQueue and AdminQueue; here it is  *)
(* held or not.  Memory of the devm_ and pcim_ functions lives exactly as  *)
(* long as managed is TRUE.  The failures of probe() before                *)
(* pci_set_master() have nothing else to give back and are not steps.      *)
(***************************************************************************)
EXTENDS Integers, FiniteSets

CONSTANT Depth     \* OPENFLASH_DEFAULT_Q_DEPTH: both ring pairs

ASSUME LifecycleDepthAssumption == Depth \in Nat /\ Depth >= 3

Tags == 0 .. Depth - 2
Slots == 0 .. Depth - 1

(* The unmanaged resources, each named after the step that takes it.       *)
AdminRings == {"adminSq", "adminCq"}
IoRings == {"ioSq", "ioCq"}
Resources == AdminRings \cup IoRings \cup
    {"master", "vectors", "adminIrq", "ioIrq", "tagSet", "disk"}

VARIABLES
    pc,           \* probe() or remove(): the next step
    ret,          \* the error code probe() is about to return, or 0
    managed,      \* the devm_ and pcim_ memory, with struct openflash_dev
    held,         \* the resources that are allocated
    sgl,          \* how many requests[] have an SGL table
    nrQueues,     \* nr_queues
    disk,         \* ofdev->disk is not NULL
    added,        \* the disk takes requests
    frozen,       \* the worker's blk_mq_freeze_queue() is in force
    inflight,     \* tags of started requests
    answered,     \* those the controller has completed
    timedOut,     \* those timeout() was called for
    resetPending, \* reset_pending
    wpc,          \* openflash_reset_work(): the next step
    ready, ioEnabled,   \* the controller: STATUS_READY, queue 1 enabled
    devHead, devPhase,  \* its admin queue: sq_head = cq_tail, cq_phase
    garbage,      \* history: an uninitialized ret was not an error code
    raced         \* history: a timeout found remove() past its cancel

thread == <<pc, ret>>
memory == <<managed, held, sgl, nrQueues, disk>>
requests == <<added, inflight, answered, timedOut>>
work == <<frozen, resetPending, wpc>>
device == <<ready, ioEnabled, devHead, devPhase>>
history == <<garbage, raced>>
vars == <<thread, memory, requests, work, device, history>>

(* No driver is bound; the controller is as openflash_reset() left it.     *)
Init ==
    /\ pc = "unbound" /\ ret = 0 /\ managed = FALSE
    /\ held = {} /\ sgl = 0 /\ nrQueues = 0 /\ disk = FALSE
    /\ added = FALSE /\ inflight = {} /\ answered = {} /\ timedOut = {}
    /\ frozen = FALSE /\ resetPending = FALSE /\ wpc = "idle"
    /\ ready = FALSE /\ ioEnabled = FALSE /\ devHead = 0 /\ devPhase = 1
    /\ garbage = FALSE /\ raced = FALSE

-----------------------------------------------------------------------------
(* An admin command at the given slot of the driver's ring.  The doorbell  *)
(* makes the controller run from its own head up to the new tail, and the  *)
(* completion of the command carries the phase it has by then.             *)
NewTail(slot) == (slot + 1) % Depth
Executes(slot) == devHead # NewTail(slot)
PhaseAt(slot) == IF devHead > slot THEN 1 - devPhase ELSE devPhase

(* The driver expects phase 1 before its ring has wrapped.                 *)
Seen(slot) == Executes(slot) /\ PhaseAt(slot) = 1

RingAdmin(slot) ==
    /\ devHead' = NewTail(slot)
    /\ devPhase' = IF Executes(slot) /\ NewTail(slot) = 0
                   THEN 1 - PhaseAt(slot)
                   ELSE IF Executes(slot) THEN PhaseAt(slot) ELSE devPhase

-----------------------------------------------------------------------------
(* probe().                                                                *)

(* pci_set_master() and the zeroed struct openflash_dev.  A device is      *)
(* bound again only after the work item of the last binding has run.       *)
Probe ==
    /\ pc = "unbound" /\ wpc = "idle"
    /\ pc' = "adminSq" /\ ret' = 0 /\ managed' = TRUE
    /\ held' = {"master"} /\ sgl' = 0 /\ nrQueues' = 0 /\ disk' = FALSE
    /\ resetPending' = FALSE
    /\ UNCHANGED <<requests, frozen, wpc, device, history>>

(* Where a step that fails goes: the labels of setup_admin_queue() and     *)
(* setup_io_queue(), the early returns, and the error branches of probe(). *)
Undo(step) ==
    CASE step = "adminSq"   -> "clearMaster"
      [] step = "adminCq"   -> "free adminSq"
      [] step = "vectors"   -> "free adminCq"
      [] step = "adminIrq"  -> "free vectors"
      [] step = "ioSq"      -> "stop"
      [] step = "ioCq"      -> "free ioSq"
      [] step = "ioIrq"     -> "freeSgl"
      [] step = "tagSet"    -> "teardownIo"
      [] step = "disk"      -> "free tagSet"

After(step) ==
    CASE step = "adminSq"   -> "adminCq"
      [] step = "adminCq"   -> "vectors"
      [] step = "vectors"   -> "adminIrq"
      [] step = "adminIrq"  -> "enable"
      [] step = "ioSq"      -> "ioCq"
      [] step = "ioCq"      -> "requests"
      [] step = "ioIrq"     -> "create"
      [] step = "tagSet"    -> "disk"
      [] step = "disk"      -> "addDisk"

Acquired == {"adminSq", "adminCq", "vectors", "adminIrq", "ioSq", "ioCq",
             "ioIrq", "tagSet", "disk"}

(* One allocation of the setup functions or of register_block_device().    *)
(* devm_kcalloc() for queues comes before adminSq and its failure ends as  *)
(* that of adminSq does.  blk_mq_alloc_disk() also sets ofdev->disk.       *)
Acquire ==
    /\ pc \in Acquired
    /\ \/ /\ held' = held \cup {pc} /\ pc' = After(pc)
          /\ disk' = (disk \/ pc = "disk")
          /\ UNCHANGED ret
       \/ /\ ret' = -1 /\ pc' = Undo(pc)
          /\ UNCHANGED <<held, disk>>
    /\ UNCHANGED <<managed, sgl, nrQueues, requests, work, device, history>>

(* Program the admin queue, ENABLE, wait for READY.                        *)
Enable ==
    /\ pc = "enable"
    /\ \/ /\ ready' = TRUE /\ nrQueues' = 1 /\ pc' = "identify"
          /\ UNCHANGED ret
       \/ /\ ready' = FALSE /\ nrQueues' = 0 /\ pc' = "free adminIrq"
          /\ ret' = -1
    /\ UNCHANGED <<managed, held, sgl, disk, requests, work, ioEnabled,
                   devHead, devPhase, history>>

(* IDENTIFY, the first command; it may fail although it was answered.      *)
Identify ==
    /\ pc = "identify"
    /\ RingAdmin(0)
    /\ \/ Seen(0) /\ pc' = "ioSq" /\ UNCHANGED ret
       \/ pc' = "stop" /\ ret' = -1
    /\ UNCHANGED <<memory, requests, work, ready, ioEnabled, history>>

(* devm_kcalloc() for requests: managed memory, but a failure has both     *)
(* rings to give back.                                                     *)
AllocRequests ==
    /\ pc = "requests"
    /\ \/ pc' = "sgl" /\ UNCHANGED ret
       \/ pc' = "free ioCq" /\ ret' = -1
    /\ UNCHANGED <<memory, requests, work, device, history>>

(* Deviation: the loop runs to depth, one past the tags.                   *)
AllocSglPastTags ==
    /\ pc = "sgl"
    /\ \/ /\ sgl < Depth /\ sgl' = sgl + 1
          /\ UNCHANGED <<pc, ret, garbage>>
       \/ /\ sgl < Depth /\ pc' = "freeSgl"
          /\ ret' \in {-1, 0, 1} /\ garbage' = (garbage \/ ret' >= 0)
          /\ UNCHANGED sgl
       \/ /\ sgl = Depth /\ pc' = "ioIrq"
          /\ UNCHANGED <<ret, sgl, garbage>>
    /\ UNCHANGED <<managed, held, nrQueues, disk, requests, work, device,
                   raced>>

(* The SGL tables, one turn of the loop.  A failure jumps to free_sgl with *)
(* ret not assigned yet: it may have any value, a negative one included,   *)
(* with which the unwinding is that of any other failure.                  *)
AllocSgl ==
    /\ pc = "sgl"
    /\ \/ /\ sgl < Depth - 1 /\ sgl' = sgl + 1
          /\ UNCHANGED <<pc, ret, garbage>>
       \/ /\ sgl < Depth - 1 /\ pc' = "freeSgl"
          /\ ret' \in {-1, 0, 1} /\ garbage' = (garbage \/ ret' >= 0)
          /\ UNCHANGED sgl
       \/ /\ sgl = Depth - 1 /\ pc' = "ioIrq"
          /\ UNCHANGED <<ret, sgl, garbage>>
    /\ UNCHANGED <<managed, held, nrQueues, disk, requests, work, device,
                   raced>>

(* CREATE_IOQ, the second command.                                         *)
CreateIoQueue ==
    /\ pc = "create"
    /\ RingAdmin(1)
    /\ ioEnabled' = (ioEnabled \/ Executes(1))
    /\ \/ Seen(1) /\ nrQueues' = 2 /\ pc' = "tagSet" /\ UNCHANGED ret
       \/ pc' = "free ioIrq" /\ ret' = -1 /\ UNCHANGED nrQueues
    /\ UNCHANGED <<managed, held, sgl, disk, requests, work, ready, history>>

AddDisk ==
    /\ pc = "addDisk"
    /\ \/ pc' = "bound" /\ added' = TRUE /\ UNCHANGED ret
       \/ pc' = "free disk" /\ ret' = -1 /\ UNCHANGED added
    /\ UNCHANGED <<memory, inflight, answered, timedOut, work, device,
                   history>>

-----------------------------------------------------------------------------
(* remove().                                                               *)

(* From here on everything is given back, as after a failed probe(): ret   *)
(* stands for that, no caller sees it.                                     *)
Remove ==
    /\ pc = "bound" /\ pc' = "cancel" /\ ret' = -1
    /\ UNCHANGED <<memory, requests, work, device, history>>

(* cancel_work_sync() first takes a queued work back, and keeps the item   *)
(* from being queued again until it returns; reset_pending stays set.      *)
GrabWork ==
    /\ pc = "cancel" /\ pc' = "flush"
    /\ wpc' = IF wpc = "queued" THEN "idle" ELSE wpc
    /\ UNCHANGED <<ret, memory, requests, frozen, resetPending, device,
                   history>>

(* Deviation: cancel_work(), a running work is not waited for.             *)
FlushWithoutWait ==
    /\ pc = "flush"
    /\ pc' = IF disk THEN "delete" ELSE "teardownIo"
    /\ UNCHANGED <<ret, memory, requests, work, device, history>>

(* Deviation: the I/O interrupt is freed before the requests are drained.  *)
FlushFreesIrq ==
    /\ pc = "flush" /\ wpc = "idle"
    /\ pc' = IF disk THEN "delete" ELSE "teardownIo"
    /\ held' = held \ {"ioIrq"}
    /\ UNCHANGED <<ret, managed, sgl, nrQueues, disk, requests, work, device,
                   history>>

(* ... then it waits for a running one; unregister_block_device() follows. *)
FlushWork ==
    /\ pc = "flush" /\ wpc = "idle"
    /\ pc' = IF disk THEN "delete" ELSE "teardownIo"
    /\ UNCHANGED <<ret, memory, requests, work, device, history>>

(* del_gendisk(): no new request enters ...                                *)
DelGendisk ==
    /\ pc = "delete"
    /\ added' = FALSE /\ pc' = "drain"
    /\ UNCHANGED <<ret, memory, inflight, answered, timedOut, work, device,
                   history>>

(* ... and those that have are waited for.                                 *)
Drain ==
    /\ pc = "drain" /\ inflight = {} /\ pc' = "failIo"
    /\ UNCHANGED <<ret, memory, requests, work, device, history>>

(* openflash_fail_io_requests().                                           *)
EndLeft ==
    IF nrQueues < 2 THEN UNCHANGED <<inflight, answered, timedOut>>
    ELSE inflight' = {} /\ answered' = {} /\ timedOut' = {}

FailIoRequests ==
    /\ pc = "failIo" /\ EndLeft /\ pc' = "free disk"
    /\ UNCHANGED <<ret, memory, added, work, device, history>>

-----------------------------------------------------------------------------
(* Giving back: the tails of the setup functions, unregister_block_device, *)
(* teardown_io_queue() and teardown_admin_queue() free in the same order.  *)

Freed(label) ==
    CASE label = "free disk"     -> "disk"
      [] label = "free tagSet"   -> "tagSet"
      [] label = "free ioIrq"    -> "ioIrq"
      [] label = "free ioCq"     -> "ioCq"
      [] label = "free ioSq"     -> "ioSq"
      [] label = "free adminIrq" -> "adminIrq"
      [] label = "free vectors"  -> "vectors"
      [] label = "free adminCq"  -> "adminCq"
      [] label = "free adminSq"  -> "adminSq"
      [] label = "clearMaster"   -> "master"

Releases == {"free disk", "free tagSet", "free ioIrq", "free ioCq",
             "free ioSq", "free adminIrq", "free vectors", "free adminCq",
             "free adminSq", "clearMaster"}

(* setup_io_queue() that returns 0 lets probe() go on; a positive value of *)
(* probe() counts as success in the PCI core.                              *)
NextRelease(label) ==
    CASE label = "free disk" -> "clearDisk"
      [] label = "free tagSet" -> "teardownIo"
      [] label = "free ioIrq" -> "freeSgl"
      [] label = "free ioCq" -> "free ioSq"
      [] label = "free ioSq" -> IF ret = 0 THEN "tagSet" ELSE "stop"
      [] label = "free adminIrq" -> "free vectors"
      [] label = "free vectors" -> "free adminCq"
      [] label = "free adminCq" -> "free adminSq"
      [] label = "free adminSq" -> "clearMaster"
      [] label = "clearMaster" -> IF ret > 0 THEN "bound" ELSE "unbound"

Release ==
    /\ pc \in Releases
    /\ held' = held \ {Freed(pc)}
    /\ pc' = NextRelease(pc)
    /\ managed' = (managed /\ pc' # "unbound")
    /\ nrQueues' = CASE pc = "free ioSq" -> 1 [] pc = "free adminSq" -> 0
                     [] OTHER -> nrQueues
    /\ UNCHANGED <<ret, sgl, disk, requests, work, device, history>>

(* ofdev->disk = NULL, after put_disk().                                   *)
ClearDisk ==
    /\ pc = "clearDisk" /\ disk' = FALSE /\ pc' = "free tagSet"
    /\ UNCHANGED <<ret, managed, held, sgl, nrQueues, requests, work, device,
                   history>>

(* teardown_io_queue() does nothing before CREATE_IOQ has succeeded.       *)
TeardownIo ==
    /\ pc = "teardownIo"
    /\ pc' = IF nrQueues < 2 THEN "stop" ELSE "free ioIrq"
    /\ UNCHANGED <<ret, memory, requests, work, device, history>>

(* Deviation: while (--tag), the loop ends before it has freed table 0.    *)
FreeSglButFirst ==
    /\ pc = "freeSgl"
    /\ \/ sgl > 1 /\ sgl' = sgl - 1 /\ UNCHANGED pc
       \/ sgl <= 1 /\ pc' = "free ioCq" /\ UNCHANGED sgl
    /\ UNCHANGED <<ret, managed, held, nrQueues, disk, requests, work, device,
                   history>>

(* free_sgl, one turn of its loop: the tables that were allocated, then    *)
(* the rings.  teardown_io_queue() frees depth - 1 tables without looking. *)
FreeSgl ==
    /\ pc = "freeSgl"
    /\ \/ sgl > 0 /\ sgl' = sgl - 1 /\ UNCHANGED pc
       \/ sgl = 0 /\ pc' = "free ioCq" /\ UNCHANGED sgl
    /\ UNCHANGED <<ret, managed, held, nrQueues, disk, requests, work, device,
                   history>>

(* teardown_admin_queue(): CONTROL is cleared; the controller is no longer *)
(* ready, but its queues keep their indices.                               *)
Stop ==
    /\ pc = "stop" /\ ready' = FALSE /\ pc' = "free adminIrq"
    /\ UNCHANGED <<ret, memory, requests, work, ioEnabled, devHead, devPhase,
                   history>>

-----------------------------------------------------------------------------
(* The block device.                                                       *)

(* queue_rq(); a controller that does not serve queue 1 never answers.     *)
Dispatch(t) ==
    /\ added /\ ~frozen /\ t \notin inflight
    /\ inflight' = inflight \cup {t}
    /\ answered' = IF ready /\ ioEnabled THEN answered \cup {t} ELSE answered
    /\ UNCHANGED <<thread, memory, added, timedOut, work, device, history>>

(* openflash_io_irq() ends the request.                                    *)
Complete(t) ==
    /\ t \in answered /\ "ioIrq" \in held
    /\ inflight' = inflight \ {t} /\ answered' = answered \ {t}
    /\ timedOut' = timedOut \ {t}
    /\ UNCHANGED <<thread, memory, added, work, device, history>>

(* schedule_work() does nothing while the item is being cancelled.         *)
Timeout(t) ==
    /\ t \in inflight \ timedOut
    /\ timedOut' = timedOut \cup {t}
    /\ resetPending' = TRUE
    /\ wpc' = IF resetPending \/ pc = "flush" THEN wpc ELSE "queued"
    /\ raced' = (raced \/ (~resetPending /\ pc \in {"delete", "drain"}))
    /\ UNCHANGED <<thread, memory, added, inflight, answered, frozen, device,
                   garbage>>

-----------------------------------------------------------------------------
(* openflash_reset_work().                                                 *)

WorkStart ==
    /\ wpc = "queued"
    /\ IF disk THEN wpc' = "freezing" /\ frozen' = TRUE
               ELSE wpc' = "done" /\ UNCHANGED frozen
    /\ UNCHANGED <<thread, memory, requests, resetPending, device, history>>

WorkFrozen ==
    /\ wpc = "freezing" /\ inflight = {} /\ wpc' = "fail"
    /\ UNCHANGED <<thread, memory, requests, frozen, resetPending, device,
                   history>>

WorkFail ==
    /\ wpc = "fail" /\ EndLeft /\ wpc' = "rebuild"
    /\ UNCHANGED <<thread, memory, added, frozen, resetPending, device,
                   history>>

(* reset_controller() up to the wait for READY.                            *)
WorkRebuild ==
    /\ wpc = "rebuild"
    /\ ioEnabled' = FALSE /\ devHead' = 0 /\ devPhase' = 1
    /\ \/ ready' = TRUE /\ wpc' = "create"
       \/ ready' = FALSE /\ wpc' = "unfreeze"
    /\ UNCHANGED <<thread, memory, requests, frozen, resetPending, history>>

(* Its CREATE_IOQ is the first command of the new ring.                    *)
WorkCreate ==
    /\ wpc = "create"
    /\ RingAdmin(0)
    /\ ioEnabled' = (ioEnabled \/ Executes(0))
    /\ wpc' = "unfreeze"
    /\ UNCHANGED <<thread, memory, requests, frozen, resetPending, ready,
                   history>>

WorkUnfreeze ==
    /\ wpc = "unfreeze" /\ frozen' = FALSE /\ wpc' = "done"
    /\ UNCHANGED <<thread, memory, requests, resetPending, device, history>>

WorkDone ==
    /\ wpc = "done" /\ resetPending' = FALSE /\ wpc' = "idle"
    /\ UNCHANGED <<thread, memory, requests, frozen, device, history>>

-----------------------------------------------------------------------------
ProbeStep == Acquire \/ Enable \/ Identify \/ AllocRequests \/ AllocSgl
               \/ CreateIoQueue \/ AddDisk
RemoveStep == GrabWork \/ FlushWork \/ DelGendisk \/ Drain \/ FailIoRequests
FreeStep == Release \/ ClearDisk \/ TeardownIo \/ FreeSgl \/ Stop
ResetWork == WorkStart \/ WorkFrozen \/ WorkFail \/ WorkRebuild
               \/ WorkCreate \/ WorkUnfreeze \/ WorkDone

Next == \/ Probe \/ ProbeStep \/ Remove \/ RemoveStep \/ FreeStep
        \/ \E t \in Tags : Dispatch(t) \/ Complete(t) \/ Timeout(t)
        \/ ResetWork

Spec == Init /\ [][Next]_vars

(* The thread goes on once it is inside remove(), the work item runs, and  *)
(* the interrupt of an answered request is delivered.                      *)
Fairness ==
    /\ WF_vars(RemoveStep) /\ WF_vars(FreeStep) /\ WF_vars(ResetWork)
    /\ \A t \in Tags : WF_vars(Complete(t))

FairSpec == Spec /\ Fairness

-----------------------------------------------------------------------------
(* Properties.                                                             *)

Labels == Acquired \cup Releases \cup
    {"unbound", "enable", "identify", "requests", "sgl", "create", "addDisk",
     "bound", "cancel", "flush", "delete", "drain", "failIo", "clearDisk",
     "teardownIo", "freeSgl", "stop"}

WorkLabels == {"idle", "queued", "freezing", "fail", "rebuild", "create",
               "unfreeze", "done"}

(* Types; only a started request is answered or timed out, and there are   *)
(* never more SGL tables than entries of requests[].                       *)
TypeOK ==
    /\ pc \in Labels /\ ret \in -1 .. 1
    /\ managed \in BOOLEAN /\ held \subseteq Resources
    /\ sgl \in 0 .. Depth - 1 /\ nrQueues \in 0 .. 2 /\ disk \in BOOLEAN
    /\ added \in BOOLEAN /\ inflight \subseteq Tags
    /\ answered \subseteq inflight /\ timedOut \subseteq inflight
    /\ frozen \in BOOLEAN /\ resetPending \in BOOLEAN /\ wpc \in WorkLabels
    /\ ready \in BOOLEAN /\ ioEnabled \in BOOLEAN
    /\ devHead \in Slots /\ devPhase \in 0 .. 1
    /\ garbage \in BOOLEAN /\ raced \in BOOLEAN

(* However probe() failed, the allocation of requests[] and of any of its  *)
(* SGL tables included, and whatever requests and worker were doing when   *)
(* remove() came: an unbound device holds no ring, table, vector or        *)
(* interrupt and has no request in flight.  Unless a timeout raced with    *)
(* remove(), no work item is left either and the controller does not       *)
(* fetch.  Left out is only a setup_io_queue() whose uninitialized ret was *)
(* not an error code, after which probe() goes on without its rings.       *)
NothingLeaks ==
    pc = "unbound" /\ ~garbage =>
        /\ held = {} /\ sgl = 0 /\ nrQueues = 0 /\ ~managed
        /\ ~disk /\ ~added /\ inflight = {}
        /\ ~raced => wpc = "idle" /\ ~frozen /\ ~ready

(* Everything an actor touches in its next step still exists: the worker's *)
(* rings, disk and device structure, the queue, interrupt and SGL tables   *)
(* of a request that may be dispatched or is in flight, and whatever the   *)
(* thread is about to free, so that nothing is freed twice; all depth - 1  *)
(* SGL tables where teardown_io_queue() frees that many.                   *)
UsersHoldStorage ==
    ~raced /\ ~garbage =>
        /\ wpc # "idle" => managed
        /\ wpc \in {"freezing", "unfreeze"} => disk
        /\ wpc \in {"rebuild", "create"} =>
              AdminRings \cup IoRings \cup {"adminIrq", "master"}
                \subseteq held
        /\ (added \/ inflight # {}) =>
              /\ IoRings \cup {"ioIrq", "tagSet", "disk", "master"}
                   \subseteq held
              /\ sgl = Depth - 1 /\ nrQueues = 2
        /\ pc \in Releases => Freed(pc) \in held
        /\ pc = "free ioIrq" => sgl = Depth - 1
        /\ pc \in Acquired => pc \notin held

(* reset_controller() states that host DMA storage stays valid: when the   *)
(* worker clears the rings and hands their addresses to the controller,    *)
(* nobody has freed them.                                                  *)
HostStorageStaysValid ==
    ~garbage /\ wpc \in {"rebuild", "create"} =>
        AdminRings \cup IoRings \subseteq held

(* docs/ABI.md: after ENABLE the device is ready and the host identifies   *)
(* capacity.  For that the controller must consume from the slot where a   *)
(* freshly probed driver puts its first command, with the phase it waits   *)
(* for.                                                                    *)
FirstCommandIsSeen == pc = "identify" => Seen(0)

(* A remove() that has begun comes to its end, unless a request is in      *)
(* flight that the controller does not answer: cancel_work_sync() and      *)
(* del_gendisk() wait only for the worker and for requests, and neither    *)
(* of these for remove().                                                  *)
RemoveReturns ==
    pc = "cancel" ~> (pc = "unbound" \/ inflight \ answered # {})
=============================================================================

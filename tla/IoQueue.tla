------------------------------ MODULE IoQueue ------------------------------
(***************************************************************************)
(* The I/O path of the OpenFlash block driver against the QEMU controller: *)
(* queue_rq() publishing commands, the controller's submission-queue loop, *)
(* the MSI-X completion handler, blk-mq timeouts and the reset worker that *)
(* rebuilds both rings.  Everything here is shared by four actors that run *)
(* at the same time: the block layer's dispatch context, the controller,   *)
(* the interrupt handler and the reset work item.                          *)
(*                                                                         *)
(* Data is abstracted to what the properties tell apart.  A request is its *)
(* tag and its shape (operation, FUA, alignment, number of segments); a    *)
(* buffer is a count of live DMA mappings.  Block-layer state (blk, shape, *)
(* timedOut, frozen) and interrupt delivery (irqPending, lost) are         *)
(* external: modelled from the way the driver uses them.                   *)
(***************************************************************************)
EXTENDS Naturals, FiniteSets

CONSTANTS
    Depth,          \* ring size; the tag set has Depth - 1 tags
    Shapes,         \* the request shapes the block layer dispatches
    MaxSgl,         \* OPENFLASH_MAX_SGL_ENTRIES
    CapFua,         \* does the controller advertise OPENFLASH_CAP_FUA?
    MaxLost,        \* bound: how many interrupts are never delivered
    LateInterrupts, \* may a notification arrive after synchronize_irq()?
    RecoveryMayFail \* may reset_controller() return an error?

Ops == {"READ", "WRITE", "FLUSH", "DISCARD", "OTHER"}
Shape == [op : Ops, fua : BOOLEAN, aligned : BOOLEAN, segs : Nat]
None == "none"
NoRequest == [op |-> "OTHER", fua |-> FALSE, aligned |-> TRUE, segs |-> 0]

ASSUME DepthAssumption == Depth \in Nat /\ Depth >= 2
ASSUME ShapesAssumption == Shapes \subseteq Shape
ASSUME BoundsAssumption == MaxSgl \in Nat /\ MaxLost \in Nat
ASSUME FlagsAssumption ==
    {CapFua, LateInterrupts, RecoveryMayFail} \subseteq BOOLEAN

Tags == 0 .. Depth - 2
Slots == 0 .. Depth - 1
Nil == Depth    \* no tag, no tail
Phases == {0, 1}
Statuses == {"SUCCESS", "INVALID_FIELD", "INTERNAL"}
Command == [cid : Slots, op : Ops \cup {"ZERO"}, flags : SUBSET {"FUA", "SGL"}]
Completion == [phase : Phases, cid : Slots, status : Statuses]

(* An entry of a ring that memset() or dma_alloc_coherent() has cleared.   *)
ZeroCommand == [cid |-> 0, op |-> "ZERO", flags |-> {}]
ZeroCompletion == [phase |-> 0, cid |-> 0, status |-> "SUCCESS"]

VARIABLES
    blk,          \* [Tags -> {"idle", "alloc", "started"}]: blk-mq's view
    shape,        \* [Tags -> Shapes \cup {NoRequest}]: the request on the tag
    timedOut,     \* [Tags -> BOOLEAN]: RQF_TIMED_OUT, timeout() was called
    frozen,       \* blk_mq_freeze_queue() is in force
    rq,           \* [Tags -> BOOLEAN]: requests[tag].rq is not NULL
    nrMapped,     \* [Tags -> Nat]: requests[tag].nr_mapped
    mapped,       \* [Tags -> Nat]: DMA mappings that are really live
    sq, cq,       \* the rings in host memory
    sqTail, cqHead, cqPhase,  \* struct openflash_queue
    lock,         \* holder of sq_lock, or Nil
    dq,           \* the controller's OpenFlashQueue for qid 1
    ready,        \* OF_STATUS_READY
    devTail,      \* process_sq()'s new_tail while it runs, or Nil
    irqPending,   \* an MSI-X message has not reached the handler yet
    lost,         \* how many messages were never delivered
    irqPc, irqTag, completed,  \* openflash_io_irq(): counter and locals
    resetPending, \* atomic reset_pending
    wpc,          \* openflash_reset_work(): program counter
    exec,         \* history: status of the tag's executed command, or None
    undurable     \* history: tags whose executed write is not persisted

blkVars == <<blk, shape, timedOut, frozen>>
requestVars == <<rq, nrMapped, mapped>>
ringVars == <<sqTail, cqHead, cqPhase>>
devVars == <<dq, ready, devTail>>
irqVars == <<irqPending, lost, irqPc, irqTag, completed>>
workVars == <<resetPending, wpc>>
history == <<exec, undurable>>
vars == <<blkVars, requestVars, sq, cq, ringVars, lock, devVars, irqVars,
          workVars, history>>

DeviceQueue == [sq_head : Slots, cq_tail : Slots, cq_head : Slots,
                cq_phase : Phases, enabled : BOOLEAN]
IrqPcs == {"idle", "check", "take", "end", "advance"}
WorkPcs == {"idle", "queued", "freezing", "fail", "clear", "head", "phase",
            "reset", "create", "unfreeze", "done"}

(* openflash_reset() zeroes qid 1; CREATE_IOQ arms it with phase 1.        *)
ResetQueue == [sq_head |-> 0, cq_tail |-> 0, cq_head |-> 0, cq_phase |-> 0,
               enabled |-> FALSE]
CreatedQueue == [ResetQueue EXCEPT !.cq_phase = 1, !.enabled = TRUE]

BlkType ==
    /\ blk \in [Tags -> {"idle", "alloc", "started"}]
    /\ shape \in [Tags -> Shapes \cup {NoRequest}]
    /\ timedOut \in [Tags -> BOOLEAN] /\ frozen \in BOOLEAN
RequestType ==
    /\ rq \in [Tags -> BOOLEAN]
    /\ nrMapped \in [Tags -> Nat] /\ mapped \in [Tags -> Nat]
RingType ==
    /\ sq \in [Slots -> Command] /\ cq \in [Slots -> Completion]
    /\ sqTail \in Slots /\ cqHead \in Slots /\ cqPhase \in Phases
    /\ lock \in Tags \cup {Nil}
DeviceType ==
    /\ dq \in DeviceQueue /\ ready \in BOOLEAN
    /\ devTail \in Slots \cup {Nil}
IrqType ==
    /\ irqPending \in BOOLEAN /\ lost \in 0 .. MaxLost
    /\ irqPc \in IrqPcs /\ irqTag \in Tags /\ completed \in BOOLEAN
WorkType == resetPending \in BOOLEAN /\ wpc \in WorkPcs
HistoryType ==
    /\ exec \in [Tags -> Statuses \cup {None}]
    /\ undurable \in SUBSET Tags

(* Ring indices, tags and command identifiers stay inside the arrays that  *)
(* openflash_setup_io_queue() sized, across every wrap and every reset.     *)
TypeOK ==
    /\ BlkType /\ RequestType /\ RingType /\ DeviceType /\ IrqType
    /\ WorkType /\ HistoryType

(* The state after a successful probe(): queue created, disk registered.   *)
Init ==
    /\ blk = [t \in Tags |-> "idle"] /\ shape = [t \in Tags |-> NoRequest]
    /\ timedOut = [t \in Tags |-> FALSE] /\ frozen = FALSE
    /\ rq = [t \in Tags |-> FALSE]
    /\ nrMapped = [t \in Tags |-> 0] /\ mapped = [t \in Tags |-> 0]
    /\ sq = [i \in Slots |-> ZeroCommand]
    /\ cq = [i \in Slots |-> ZeroCompletion]
    /\ sqTail = 0 /\ cqHead = 0 /\ cqPhase = 1 /\ lock = Nil
    /\ dq = CreatedQueue /\ ready = TRUE /\ devTail = Nil
    /\ irqPending = FALSE /\ lost = 0
    /\ irqPc = "idle" /\ irqTag = 0 /\ completed = FALSE
    /\ resetPending = FALSE /\ wpc = "idle"
    /\ exec = [t \in Tags |-> None] /\ undurable = {}

-----------------------------------------------------------------------------
(* Block layer (external) and queue_rq().                                  *)

(* The block layer puts a request on a free tag; a frozen queue admits no  *)
(* new one, but requests that are already in the queue are dispatched.     *)
BlkAlloc(t, s) ==
    /\ ~frozen /\ blk[t] = "idle"
    /\ blk' = [blk EXCEPT ![t] = "alloc"]
    /\ shape' = [shape EXCEPT ![t] = s]
    /\ UNCHANGED <<timedOut, frozen, requestVars, sq, cq, ringVars, lock,
                   devVars, irqVars, workVars, history>>

(* blk_mq_end_request() on t: the tag is free again.                       *)
EndRequest(t) ==
    /\ blk' = [blk EXCEPT ![t] = "idle"]
    /\ shape' = [shape EXCEPT ![t] = NoRequest]
    /\ timedOut' = [timedOut EXCEPT ![t] = FALSE]
    /\ exec' = [exec EXCEPT ![t] = None]
    /\ undurable' = undurable \ {t}

DataTransfer(s) == s.op \in {"READ", "WRITE"}

(* The checks before anything is mapped.  The cid check never fails: the   *)
(* tag set has Depth - 1 tags.                                             *)
Rejected(t, s) ==
    \/ ~s.aligned \/ t + 1 >= Depth
    \/ s.fua /\ s.op # "WRITE"
    \/ s.op = "OTHER"
    \/ DataTransfer(s) /\ (s.segs = 0 \/ s.segs > MaxSgl)

(* One number stands for blk_rq_nr_phys_segments(), which is limited above,*)
(* and for the turns of rq_for_each_segment(), which map and fill the SGL  *)
(* table.  The latter are single-page vectors, so the code can take more   *)
(* turns than it checked; requests in which the two differ are left out.   *)
Segments(s) == IF DataTransfer(s) THEN s.segs ELSE 0

QueueRqReject(t) ==
    /\ blk[t] = "alloc" /\ Rejected(t, shape[t])
    /\ EndRequest(t)
    /\ UNCHANGED <<frozen, requestVars, sq, cq, ringVars, lock, devVars,
                   irqVars, workVars>>

(* One turn of the dma_map_bvec() loop: the segment is mapped, or the      *)
(* segments mapped so far are unmapped and the request is requeued.        *)
QueueRqMapSegment(t) ==
    /\ blk[t] = "alloc" /\ ~Rejected(t, shape[t])
    /\ mapped[t] < Segments(shape[t])
    /\ mapped' = [mapped EXCEPT ![t] = @ + 1]
    /\ UNCHANGED <<blkVars, rq, nrMapped, sq, cq, ringVars, lock, devVars,
                   irqVars, workVars, history>>

(* Deviation: an error path forgets to unmap.                              *)
UnmapNothing(t) == UNCHANGED mapped

(* The loop every error path of queue_rq() runs over what it has mapped.   *)
Unmap(t) == mapped' = [mapped EXCEPT ![t] = 0]

QueueRqMapError(t) ==
    /\ blk[t] = "alloc" /\ ~Rejected(t, shape[t])
    /\ mapped[t] \in 1 .. Segments(shape[t]) - 1
    /\ Unmap(t)
    /\ UNCHANGED <<blkVars, rq, nrMapped, sq, cq, ringVars, lock, devVars,
                   irqVars, workVars, history>>

(* cmd->flags: the SGL assignment replaces the FUA bit set just before.    *)
CommandFlags(s) ==
    IF Segments(s) > 0 THEN {"SGL"} ELSE IF s.fua THEN {"FUA"} ELSE {}

(* Under sq_lock: fill the descriptor at sq_tail, record the request and   *)
(* start it.  A busy slot or a FUA request the controller cannot honour    *)
(* unmaps and leaves.                                                      *)
QueueRqPublish(t) ==
    /\ blk[t] = "alloc" /\ ~Rejected(t, shape[t])
    /\ mapped[t] = Segments(shape[t]) /\ lock = Nil
    /\ IF rq[t]
       THEN /\ Unmap(t)
            /\ UNCHANGED <<blkVars, rq, nrMapped, sq, lock, history>>
       ELSE IF shape[t].fua /\ ~CapFua
       THEN /\ Unmap(t)
            /\ sq' = [sq EXCEPT ![sqTail] =
                        [cid |-> t + 1, op |-> shape[t].op, flags |-> {}]]
            /\ EndRequest(t)
            /\ UNCHANGED <<frozen, rq, nrMapped, lock>>
       ELSE /\ sq' = [sq EXCEPT ![sqTail] =
                        [cid |-> t + 1, op |-> shape[t].op,
                         flags |-> CommandFlags(shape[t])]]
            /\ nrMapped' = [nrMapped EXCEPT ![t] = mapped[t]]
            /\ rq' = [rq EXCEPT ![t] = TRUE]
            /\ blk' = [blk EXCEPT ![t] = "started"]
            /\ lock' = t
            /\ UNCHANGED <<shape, timedOut, frozen, mapped, history>>
    /\ UNCHANGED <<cq, ringVars, devVars, irqVars, workVars>>

(* Still under sq_lock: advance sq_tail and write the doorbell.  The write *)
(* runs openflash_process_sq() to its end before it returns; a controller  *)
(* that is not ready, or whose queue is not enabled, ignores it.           *)
QueueRqDoorbell ==
    /\ lock # Nil /\ devTail = Nil
    /\ sqTail' = (sqTail + 1) % Depth
    /\ IF ready /\ dq.enabled
       THEN devTail' = sqTail' /\ UNCHANGED lock
       ELSE lock' = Nil /\ UNCHANGED devTail
    /\ UNCHANGED <<blkVars, requestVars, sq, cq, cqHead, cqPhase, dq, ready,
                   irqVars, workVars, history>>

-----------------------------------------------------------------------------
(* The controller: openflash_process_sq() and openflash_execute().         *)

(* The statuses execute() may return for a command of this driver: only    *)
(* persist() can fail, and a cleared descriptor has no blocks.             *)
Outcomes(cmd) ==
    IF cmd.op = "ZERO" THEN {"INVALID_FIELD"}
    ELSE IF cmd.op = "FLUSH" \/ "FUA" \in cmd.flags
    THEN {"SUCCESS", "INTERNAL"} ELSE {"SUCCESS"}

(* Which executed writes are still only in s->storage afterwards.          *)
UndurableAfter(cmd, status) ==
    IF status = "SUCCESS" /\ (cmd.op = "FLUSH" \/ "FUA" \in cmd.flags)
    THEN {}
    ELSE undurable \cup {t \in Tags : t + 1 = cmd.cid
                                       /\ cmd.op \in {"WRITE", "DISCARD"}}

(* Deviation: the controller flips its phase one entry too early.          *)
DevExecuteEarlyToggle ==
    /\ devTail # Nil /\ dq.sq_head # devTail
    /\ \E status \in Outcomes(sq[dq.sq_head]) :
         LET cmd == sq[dq.sq_head]
             tail == (dq.cq_tail + 1) % Depth
         IN /\ cq' = [cq EXCEPT ![dq.cq_tail] =
                        [phase |-> dq.cq_phase, cid |-> cmd.cid,
                         status |-> status]]
            /\ dq' = [dq EXCEPT !.sq_head = (@ + 1) % Depth,
                                !.cq_tail = tail,
                                !.cq_phase = IF tail = Depth - 1 THEN 1 - @
                                             ELSE @]
            /\ exec' = [t \in Tags |->
                          IF t + 1 = cmd.cid THEN status ELSE exec[t]]
            /\ undurable' = UndurableAfter(cmd, status)
    /\ UNCHANGED <<blkVars, requestVars, sq, ringVars, lock, ready, devTail,
                   irqVars, workVars>>

(* One turn of the while loop.  There is no check for a full completion    *)
(* queue.                                                                  *)
DevExecute ==
    /\ devTail # Nil /\ dq.sq_head # devTail
    /\ \E status \in Outcomes(sq[dq.sq_head]) :
         LET cmd == sq[dq.sq_head]
             tail == (dq.cq_tail + 1) % Depth
         IN /\ cq' = [cq EXCEPT ![dq.cq_tail] =
                        [phase |-> dq.cq_phase, cid |-> cmd.cid,
                         status |-> status]]
            /\ dq' = [dq EXCEPT !.sq_head = (@ + 1) % Depth,
                                !.cq_tail = tail,
                                !.cq_phase = IF tail = 0 THEN 1 - @ ELSE @]
            /\ exec' = [t \in Tags |->
                          IF t + 1 = cmd.cid THEN status ELSE exec[t]]
            /\ undurable' = UndurableAfter(cmd, status)
    /\ UNCHANGED <<blkVars, requestVars, sq, ringVars, lock, ready, devTail,
                   irqVars, workVars>>

(* The loop is over: msix_notify(), and the doorbell write returns to      *)
(* queue_rq(), which drops sq_lock.                                        *)
DevNotify ==
    /\ devTail # Nil /\ dq.sq_head = devTail
    /\ devTail' = Nil /\ lock' = Nil
    /\ irqPending' = TRUE
    /\ UNCHANGED <<blkVars, requestVars, sq, cq, ringVars, dq, ready, lost,
                   irqPc, irqTag, completed, workVars, history>>

(* The same return, with the message lost on its way to the handler.       *)
LoseInterrupt ==
    /\ devTail # Nil /\ dq.sq_head = devTail
    /\ lost < MaxLost
    /\ devTail' = Nil /\ lock' = Nil
    /\ lost' = lost + 1
    /\ UNCHANGED <<blkVars, requestVars, sq, cq, ringVars, dq, ready,
                   irqPending, irqPc, irqTag, completed, workVars, history>>

-----------------------------------------------------------------------------
(* openflash_io_irq().                                                     *)

IrqEnter ==
    /\ irqPending /\ irqPc = "idle"
    /\ irqPending' = FALSE
    /\ irqPc' = "check" /\ completed' = FALSE
    /\ UNCHANGED <<irqTag, blkVars, requestVars, sq, cq, ringVars, lock,
                   devVars, lost, workVars, history>>

(* Deviation: the cid bound is off by one and a refused entry is retried.  *)
IrqMatchRetries ==
    /\ irqPc = "check" /\ cq[cqHead].phase = cqPhase
    /\ IF cq[cqHead].cid \in 1 .. Depth - 2
       THEN irqPc' = "take" /\ irqTag' = cq[cqHead].cid - 1
       ELSE UNCHANGED <<irqPc, irqTag>>
    /\ UNCHANGED <<completed, blkVars, requestVars, sq, cq, ringVars, lock,
                   devVars, irqPending, lost, workVars, history>>

(* READ_ONCE(flags) matches the expected phase: read the cid; an invalid   *)
(* one is logged and skipped.                                              *)
IrqMatch ==
    /\ irqPc = "check" /\ cq[cqHead].phase = cqPhase
    /\ IF cq[cqHead].cid \in 1 .. Depth - 1
       THEN irqPc' = "take" /\ irqTag' = cq[cqHead].cid - 1
       ELSE irqPc' = "advance" /\ UNCHANGED irqTag
    /\ UNCHANGED <<completed, blkVars, requestVars, sq, cq, ringVars, lock,
                   devVars, irqPending, lost, workVars, history>>

(* Phase mismatch: leave the loop; if anything was consumed, report        *)
(* cq_head.  The controller stores it when it is below the queue's depth,  *)
(* which a reset queue has set to 0.  Register writes wait for a doorbell  *)
(* that is being served.                                                   *)
IrqExit ==
    /\ irqPc = "check" /\ cq[cqHead].phase # cqPhase
    /\ completed => devTail = Nil
    /\ irqPc' = "idle" /\ completed' = FALSE
    /\ dq' = [dq EXCEPT !.cq_head =
                IF completed /\ dq.enabled THEN cqHead ELSE @]
    /\ UNCHANGED <<blkVars, requestVars, sq, cq, ringVars, lock, ready,
                   devTail, irqPending, lost, irqTag, workVars, history>>

(* Deviation: the request pointer is read but not exchanged with NULL.     *)
IrqTakeWithoutXchg ==
    /\ irqPc = "take"
    /\ irqPc' = IF rq[irqTag] THEN "end" ELSE "advance"
    /\ UNCHANGED <<irqTag, completed, blkVars, requestVars, sq, cq, ringVars,
                   lock, devVars, irqPending, lost, workVars, history>>

(* xchg(&request->rq, NULL); a NULL is a stale completion.                 *)
IrqTake ==
    /\ irqPc = "take"
    /\ rq' = [rq EXCEPT ![irqTag] = FALSE]
    /\ irqPc' = IF rq[irqTag] THEN "end" ELSE "advance"
    /\ UNCHANGED <<irqTag, completed, blkVars, nrMapped, mapped, sq, cq,
                   ringVars, lock, devVars, irqPending, lost, workVars,
                   history>>

(* Unmap the nr_mapped segments, then end the request.                     *)
IrqEnd ==
    /\ irqPc = "end"
    /\ mapped' = [mapped EXCEPT ![irqTag] = @ - nrMapped[irqTag]]
    /\ nrMapped' = [nrMapped EXCEPT ![irqTag] = 0]
    /\ EndRequest(irqTag)
    /\ irqPc' = "advance"
    /\ UNCHANGED <<irqTag, completed, frozen, rq, sq, cq, ringVars, lock,
                   devVars, irqPending, lost, workVars>>

(* Deviation: cq_head does not wrap.                                       *)
IrqAdvanceWithoutWrap ==
    /\ irqPc = "advance"
    /\ cqHead' = cqHead + 1
    /\ cqPhase' = IF cqHead' = 0 THEN 1 - cqPhase ELSE cqPhase
    /\ irqPc' = "check" /\ irqTag' = 0 /\ completed' = TRUE
    /\ UNCHANGED <<blkVars, requestVars, sq, cq, sqTail, lock, devVars,
                   irqPending, lost, workVars, history>>

(* Deviation: cq_head wraps but cq_phase does not toggle.                  *)
IrqAdvanceWithoutToggle ==
    /\ irqPc = "advance"
    /\ cqHead' = (cqHead + 1) % Depth
    /\ irqPc' = "check" /\ irqTag' = 0 /\ completed' = TRUE
    /\ UNCHANGED <<blkVars, requestVars, sq, cq, sqTail, cqPhase, lock,
                   devVars, irqPending, lost, workVars, history>>

IrqAdvance ==
    /\ irqPc = "advance"
    /\ cqHead' = (cqHead + 1) % Depth
    /\ cqPhase' = IF cqHead' = 0 THEN 1 - cqPhase ELSE cqPhase
    /\ irqPc' = "check" /\ irqTag' = 0 /\ completed' = TRUE
    /\ UNCHANGED <<blkVars, requestVars, sq, cq, sqTail, lock, devVars,
                   irqPending, lost, workVars, history>>

-----------------------------------------------------------------------------
(* Timeout and recovery.                                                   *)

(* blk-mq calls timeout() once for a request that has been started; the    *)
(* first one schedules the reset work.                                     *)
Timeout(t) ==
    /\ blk[t] = "started" /\ ~timedOut[t]
    /\ timedOut' = [timedOut EXCEPT ![t] = TRUE]
    /\ resetPending' = TRUE
    /\ wpc' = IF resetPending THEN wpc ELSE "queued"
    /\ UNCHANGED <<blk, shape, frozen, requestVars, sq, cq, ringVars, lock,
                   devVars, irqVars, history>>

(* blk_mq_freeze_queue() stops new requests ...                            *)
WorkFreeze ==
    /\ wpc = "queued"
    /\ wpc' = "freezing" /\ frozen' = TRUE
    /\ UNCHANGED <<blk, shape, timedOut, requestVars, sq, cq, ringVars, lock,
                   devVars, irqVars, resetPending, history>>

(* Deviation: the queue is only marked frozen, nobody waits for requests.  *)
WorkFrozenWithoutWait ==
    /\ wpc = "freezing"
    /\ wpc' = "fail"
    /\ UNCHANGED <<blkVars, requestVars, sq, cq, ringVars, lock, devVars,
                   irqVars, resetPending, history>>

(* ... and waits until every request in the queue has ended.               *)
WorkFrozen ==
    /\ wpc = "freezing" /\ \A t \in Tags : blk[t] = "idle"
    /\ wpc' = "fail"
    /\ UNCHANGED <<blkVars, requestVars, sq, cq, ringVars, lock, devVars,
                   irqVars, resetPending, history>>

(* openflash_fail_io_requests(): synchronize_irq() waits for a handler     *)
(* that is running, not for a message that is still to arrive; then every  *)
(* request that is left is taken, unmapped and ended.                      *)
FailIoRequests ==
    /\ wpc = "fail" /\ irqPc = "idle"
    /\ LateInterrupts \/ (~irqPending /\ devTail = Nil)
    /\ LET left == {t \in Tags : rq[t]}
       IN /\ rq' = [t \in Tags |-> FALSE]
          /\ mapped' = [t \in Tags |-> IF t \in left
                          THEN mapped[t] - nrMapped[t] ELSE mapped[t]]
          /\ nrMapped' = [t \in Tags |-> IF t \in left THEN 0
                                         ELSE nrMapped[t]]
          /\ blk' = [t \in Tags |-> IF t \in left THEN "idle" ELSE blk[t]]
          /\ shape' = [t \in Tags |-> IF t \in left THEN NoRequest
                                      ELSE shape[t]]
          /\ timedOut' = [t \in Tags |-> timedOut[t] /\ t \notin left]
          /\ exec' = [t \in Tags |-> IF t \in left THEN None ELSE exec[t]]
          /\ undurable' = undurable \ left
    /\ wpc' = "clear"
    /\ UNCHANGED <<frozen, sq, cq, ringVars, lock, devVars, irqVars,
                   resetPending>>

(* openflash_reset_controller(), in the order of its stores: the rings,    *)
(* then sq_tail and cq_head, then cq_phase, then the RESET register.       *)
ClearRings ==
    /\ wpc = "clear"
    /\ sq' = [i \in Slots |-> ZeroCommand]
    /\ cq' = [i \in Slots |-> ZeroCompletion]
    /\ wpc' = "head"
    /\ UNCHANGED <<blkVars, requestVars, ringVars, lock, devVars, irqVars,
                   resetPending, history>>

(* Deviation: sq_tail keeps its value across the reset.                    *)
ResetHeadKeepsTail ==
    /\ wpc = "head"
    /\ cqHead' = 0
    /\ wpc' = "phase"
    /\ UNCHANGED <<blkVars, requestVars, sq, cq, sqTail, cqPhase, lock,
                   devVars, irqVars, resetPending, history>>

ResetHead ==
    /\ wpc = "head"
    /\ sqTail' = 0 /\ cqHead' = 0
    /\ wpc' = "phase"
    /\ UNCHANGED <<blkVars, requestVars, sq, cq, cqPhase, lock, devVars,
                   irqVars, resetPending, history>>

ResetPhase ==
    /\ wpc = "phase"
    /\ cqPhase' = 1
    /\ wpc' = "reset"
    /\ UNCHANGED <<blkVars, requestVars, sq, cq, sqTail, cqHead, lock,
                   devVars, irqVars, resetPending, history>>

(* RESET, the admin registers, ENABLE and the wait for READY.  A register  *)
(* write waits for a doorbell that is being served.                        *)
ResetRegister ==
    /\ wpc = "reset" /\ devTail = Nil
    /\ dq' = ResetQueue
    /\ \/ ready' = TRUE /\ wpc' = "create"
       \/ RecoveryMayFail /\ ready' = FALSE /\ wpc' = "unfreeze"
    /\ UNCHANGED <<blkVars, requestVars, sq, cq, ringVars, lock, devTail,
                   irqVars, resetPending, history>>

(* openflash_create_io_queue(): one admin command.  If it fails, the       *)
(* controller may have executed it (its completion was late) or not.       *)
CreateIoQueue ==
    /\ wpc = "create"
    /\ \/ dq' = CreatedQueue
       \/ RecoveryMayFail /\ UNCHANGED dq
    /\ wpc' = "unfreeze"
    /\ UNCHANGED <<blkVars, requestVars, sq, cq, ringVars, lock, ready,
                   devTail, irqVars, resetPending, history>>

(* blk_mq_unfreeze_queue(), whatever reset_controller() returned.          *)
Unfreeze ==
    /\ wpc = "unfreeze"
    /\ frozen' = FALSE /\ wpc' = "done"
    /\ UNCHANGED <<blk, shape, timedOut, requestVars, sq, cq, ringVars, lock,
                   devVars, irqVars, resetPending, history>>

(* Deviation: the worker ends without clearing reset_pending.              *)
ResetPendingKept ==
    /\ wpc = "done"
    /\ wpc' = "idle"
    /\ UNCHANGED <<blkVars, requestVars, sq, cq, ringVars, lock, devVars,
                   irqVars, resetPending, history>>

ClearResetPending ==
    /\ wpc = "done"
    /\ resetPending' = FALSE /\ wpc' = "idle"
    /\ UNCHANGED <<blkVars, requestVars, sq, cq, ringVars, lock, devVars,
                   irqVars, history>>

-----------------------------------------------------------------------------
QueueRq(t) ==
    \/ QueueRqReject(t)
    \/ QueueRqMapSegment(t)
    \/ QueueRqMapError(t)
    \/ QueueRqPublish(t)

Controller == DevExecute \/ DevNotify \/ LoseInterrupt

IoIrq == IrqEnter \/ IrqMatch \/ IrqExit \/ IrqTake \/ IrqEnd \/ IrqAdvance

ResetController ==
    ClearRings \/ ResetHead \/ ResetPhase \/ ResetRegister \/ CreateIoQueue

ResetWork ==
    \/ WorkFreeze \/ WorkFrozen \/ FailIoRequests \/ ResetController
    \/ Unfreeze \/ ClearResetPending

Next ==
    \/ \E t \in Tags : \/ \E s \in Shapes : BlkAlloc(t, s)
                       \/ QueueRq(t)
                       \/ Timeout(t)
    \/ QueueRqDoorbell
    \/ Controller
    \/ IoIrq
    \/ ResetWork

Spec == Init /\ [][Next]_vars

(* Every actor that can run keeps running: the controller serves the       *)
(* doorbell, the interrupt is delivered (or counted in lost), the handler  *)
(* and the work item are scheduled, queue_rq() is called again for a       *)
(* request that is waiting.  sq_lock is a fair spinlock, hence SF.         *)
Fairness ==
    /\ \A t \in Tags :
         /\ WF_vars(QueueRqReject(t)) /\ WF_vars(QueueRqMapSegment(t))
         /\ SF_vars(QueueRqPublish(t))
    /\ WF_vars(QueueRqDoorbell) /\ WF_vars(DevExecute)
    /\ WF_vars(DevNotify \/ LoseInterrupt)
    /\ WF_vars(IoIrq) /\ WF_vars(ResetWork)

FairSpec == Spec /\ Fairness
-----------------------------------------------------------------------------
(* Properties.                                                             *)

(* When the handler ends a request, that request is one the block layer    *)
(* has started, the controller really executed its command, and the status *)
(* handed up is that command's: a completion never ends a request it does  *)
(* not belong to, whatever interrupts and resets came between.             *)
CompletionIsForItsCommand ==
    irqPc = "end" => /\ blk[irqTag] = "started"
                      /\ exec[irqTag] = cq[cqHead].status

(* The descriptor the controller is about to fetch belongs to a request    *)
(* that is in flight, was not executed before (nothing is replayed after a *)
(* reset, core.c:25) and still has all its buffers mapped for DMA.         *)
FetchedCommandIsOwned ==
    (devTail # Nil /\ dq.sq_head # devTail) =>
        \E t \in Tags : /\ sq[dq.sq_head].cid = t + 1
                        /\ rq[t] /\ exec[t] = None
                        /\ mapped[t] = Segments(shape[t])

(* A free tag holds nothing: no request pointer, no nr_mapped, no live DMA *)
(* mapping; and a request in flight has exactly the mappings its teardown  *)
(* will release.                                                           *)
MappingsAccounted ==
    \A t \in Tags :
        /\ blk[t] = "idle" => ~rq[t] /\ mapped[t] = 0 /\ nrMapped[t] = 0
        /\ blk[t] = "started" => mapped[t] = nrMapped[t]

(* A started request is in exactly one pair of hands: its slot in          *)
(* requests[], or the handler between xchg() and blk_mq_end_request().     *)
StartedHasOneOwner ==
    \A t \in Tags :
        LET ending == irqPc = "end" /\ irqTag = t
        IN /\ (blk[t] = "started") <=> (rq[t] \/ ending)
           /\ ~(rq[t] /\ ending)

(* While the worker clears the rings and resets the controller, no request *)
(* is in flight and none can enter, so no command can be lost to memset(). *)
RebuildIsExclusive ==
    wpc \in {"fail", "clear", "head", "phase", "reset", "create", "unfreeze"}
        => frozen /\ \A t \in Tags : blk[t] = "idle"

(* The phase the driver expects of a completion at slot i that it has not  *)
(* consumed yet.                                                           *)
ExpectedPhase(i) == IF i >= cqHead THEN cqPhase ELSE 1 - cqPhase

(* The completion of every executed request that has not ended is still in *)
(* the ring with the phase the handler will look for: the controller, that *)
(* never checks for a full ring, has not overwritten it, even though the   *)
(* handler frees the tag before it advances cq_head.                       *)
CompletionNotLost ==
    \A t \in Tags : exec[t] # None =>
        \E i \in Slots : cq[i] = [phase |-> ExpectedPhase(i), cid |-> t + 1,
                                  status |-> exec[t]]

(* "Completion phase toggles on every ring wrap, preventing stale-entry    *)
(* consumption" (docs/ABI.md:14): an entry the handler accepts is the      *)
(* completion of a command that was executed and not ended yet.            *)
PhaseRejectsStale ==
    (irqPc = "check" /\ cq[cqHead].phase = cqPhase) =>
        \E t \in Tags : cq[cqHead].cid = t + 1 /\ exec[t] # None

(* "Write data and required metadata are durable before an FUA completion" *)
(* (openflash_abi.h:96).                                                   *)
FuaDurable ==
    (irqPc = "end" /\ shape[irqTag].fua /\ cq[cqHead].status = "SUCCESS")
        => irqTag \notin undurable

(* Every request handed to the controller is eventually ended.             *)
StartedEnds ==
    \A t \in Tags : (blk[t] = "started") ~> (blk[t] = "idle")

(* A request whose timer expired is eventually ended: by its completion,   *)
(* or by recovery (v0.4.0.md:15 "fails ambiguous requests").               *)
TimedOutEnds == \A t \in Tags : timedOut[t] ~> ~timedOut[t]

(* Recovery, once scheduled, runs to its end and accepts the next timeout. *)
RecoveryFinishes == resetPending ~> ~resetPending
=============================================================================

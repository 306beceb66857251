----------------------------- MODULE AdminQueue -----------------------------
(***************************************************************************)
(* The admin queue of the Linux driver against the QEMU controller: one    *)
(* command at a time under admin_lock, completed by the interrupt handler  *)
(* or given up after 500 ms; and the part of openflash_reset_controller()  *)
(* that rebuilds the admin ring under a handler that nothing synchronizes  *)
(* with.  Two actors: the thread that holds admin_lock (probe(), then the  *)
(* reset worker) and openflash_irq().  The controller serves a doorbell    *)
(* before the register write returns.  It stores the CQ head the driver    *)
(* writes after each entry and never reads it: that doorbell is left out.  *)
(***************************************************************************)
EXTENDS Naturals

CONSTANTS
    Depth,          \* entries of each ring
    CidMod,         \* 2^16: next_cid is a u16
    FirstCid,       \* next_cid when the history starts
    MaxCommands,    \* bound: how many admin commands are issued
    MaxLost         \* bound: how many interrupts are never delivered

(* No cid comes back within the history: a wrap of all of them, while one  *)
(* run of the handler lasts, is out of scope.                              *)
ASSUME AdminDepthAssumption == Depth \in Nat /\ Depth >= 2
ASSUME CidAssumption ==
    /\ CidMod \in Nat /\ MaxCommands \in Nat /\ CidMod > MaxCommands + 1
    /\ FirstCid \in 0 .. CidMod - 1
ASSUME AdminLostAssumption == MaxLost \in Nat

Slots == 0 .. Depth - 1
Cids == 0 .. CidMod - 1
Phases == {0, 1}
AdminOps == {"IDENTIFY", "CREATE_IOQ"}
Statuses == {"SUCCESS", "INVALID_FIELD"}

(* A completion is what the controller did: op stands for the result.      *)
Done(op, status) == [op |-> op, status |-> status]
Dones == [op : AdminOps \cup {"ZERO"}, status : Statuses]
NotExecuted == [op |-> "NONE", status |-> "NONE"]
Command == [cid : Cids, op : AdminOps \cup {"ZERO"}]
Completion == [phase : Phases, cid : Cids, did : Dones]
ZeroCommand == [cid |-> 0, op |-> "ZERO"]
ZeroCompletion == [phase |-> 0, cid |-> 0, did |-> Done("ZERO", "SUCCESS")]

VARIABLES
    pc,             \* the thread: where it is in admin_command() or reset
    op,             \* the command it issues
    nextCid, sqTail, cqHead, cqPhase,        \* struct openflash_queue
    pending, adminCid, adminError, adminDid, \* its admin_ fields
    done,           \* the counter of the completion admin_done
    sq, cqes,       \* the rings
    ready, devSqHead, devCqTail, devPhase,   \* the controller
    irqPc, irqCid,  \* openflash_drain_admin_cq()
    irqPending, lost,
    issued,         \* how many commands have been issued
    executed,       \* history: what the controller did for this command
    heard,          \* history: the last message sent was not lost
    spoiled         \* history: the ring overran, or its reset met a handler

caller == <<pc, op>>
ring == <<sqTail, cqHead, cqPhase>>
admin == <<pending, adminCid, adminError, adminDid, done>>
dev == <<ready, devSqHead, devCqTail, devPhase>>
irq == <<irqPc, irqCid, irqPending, lost>>
history == <<issued, executed, heard, spoiled>>
vars == <<caller, nextCid, ring, admin, sq, cqes, dev, irq, history>>

(* After openflash_setup_admin_queue().                                    *)
Init ==
    /\ pc = "idle" /\ op = "IDENTIFY" /\ nextCid = FirstCid
    /\ sqTail = 0 /\ cqHead = 0 /\ cqPhase = 1
    /\ pending = FALSE /\ adminCid = 0 /\ adminError = FALSE
    /\ adminDid = Done("ZERO", "SUCCESS") /\ done = 0
    /\ sq = [i \in Slots |-> ZeroCommand]
    /\ cqes = [i \in Slots |-> ZeroCompletion]
    /\ ready = TRUE /\ devSqHead = 0 /\ devCqTail = 0 /\ devPhase = 1
    /\ irqPc = "idle" /\ irqCid = 0 /\ irqPending = FALSE /\ lost = 0
    /\ issued = 0 /\ executed = NotExecuted
    /\ heard = TRUE /\ spoiled = FALSE

(* No handler is running and no message is on its way to it.               *)
Quiet == irqPc = "idle" /\ ~irqPending

(* The entry of slot i carries the phase the handler will look for there.  *)
Unread(i) == cqes[i].phase = IF i >= cqHead THEN cqPhase ELSE 1 - cqPhase

-----------------------------------------------------------------------------
(* openflash_admin_command().                                              *)

(* Deviation: zero is not skipped.                                         *)
NewCidWithoutSkip == IF nextCid = CidMod - 1 THEN 0 ELSE nextCid + 1

(* ++next_cid, once more if it wrapped to zero.                            *)
NewCid == IF nextCid = CidMod - 1 THEN 1 ELSE nextCid + 1

(* openflash_admin_identify(), or openflash_create_io_queue() from probe() *)
(* or as the last step of a reset: take the lock, choose a cid, rearm      *)
(* admin_done.  After a reset that failed only another reset issues one.   *)
Prepare(o) ==
    /\ issued < MaxCommands
    /\ (pc = "idle" /\ ready) \/ (pc = "create" /\ o = "CREATE_IOQ")
    /\ pc' = "publish" /\ op' = o
    /\ nextCid' = NewCid /\ adminCid' = NewCid
    /\ adminError' = FALSE /\ done' = 0
    /\ issued' = issued + 1 /\ executed' = NotExecuted
    /\ UNCHANGED <<ring, pending, adminDid, sq, cqes, dev, irq, heard,
                   spoiled>>

(* WRITE_ONCE(admin_pending, true) and the copy into the ring.             *)
Publish ==
    /\ pc = "publish"
    /\ pc' = "ring" /\ pending' = TRUE
    /\ sq' = [sq EXCEPT ![sqTail] = [cid |-> adminCid, op |-> op]]
    /\ UNCHANGED <<op, nextCid, ring, adminCid, adminError, adminDid, done,
                   cqes, dev, irq, history>>

(* What openflash_execute() may answer: IDENTIFY always succeeds.          *)
Outcomes(o) == IF o = "IDENTIFY" THEN {"SUCCESS"}
               ELSE IF o = "ZERO" THEN {"INVALID_FIELD"} ELSE Statuses

(* The doorbell: the controller fetches the command at its own head,       *)
(* executes it, posts the completion and sends the interrupt, which may be *)
(* lost.                                                                   *)
Ring(delivered) ==
    /\ pc = "ring"
    /\ pc' = "wait"
    /\ sqTail' = (sqTail + 1) % Depth
    /\ \E status \in Outcomes(sq[devSqHead].op) :
         LET cmd == sq[devSqHead]
             tail == (devCqTail + 1) % Depth
         IN /\ cqes' = [cqes EXCEPT ![devCqTail] =
                          [phase |-> devPhase, cid |-> cmd.cid,
                           did |-> Done(cmd.op, status)]]
            /\ executed' = IF cmd.cid = adminCid THEN Done(cmd.op, status)
                           ELSE executed
            /\ devCqTail' = tail
            /\ devPhase' = IF tail = 0 THEN 1 - devPhase ELSE devPhase
    /\ devSqHead' = (devSqHead + 1) % Depth
    /\ heard' = delivered /\ spoiled' = (spoiled \/ Unread(devCqTail))
    /\ IF delivered THEN irqPending' = TRUE /\ UNCHANGED lost
       ELSE lost < MaxLost /\ lost' = lost + 1 /\ UNCHANGED irqPending
    /\ UNCHANGED <<op, nextCid, cqHead, cqPhase, admin, sq, ready, irqPc,
                   irqCid, issued>>

WaitDone ==
    /\ pc = "wait" /\ done > 0
    /\ pc' = "check" /\ done' = done - 1
    /\ UNCHANGED <<op, nextCid, ring, pending, adminCid, adminError, adminDid,
                   sq, cqes, dev, irq, history>>

WaitTimeout ==
    /\ pc = "wait" /\ done = 0
    /\ pc' = "sync" /\ pending' = FALSE
    /\ UNCHANGED <<op, nextCid, ring, adminCid, adminError, adminDid, done,
                   sq, cqes, dev, irq, history>>

(* Deviation: the timeout path does not wait for a running handler.        *)
SynchronizeIrqMissing ==
    /\ pc = "sync" /\ pc' = "idle"
    /\ UNCHANGED <<op, nextCid, ring, admin, sq, cqes, dev, irq, history>>

(* synchronize_irq(), then -ETIMEDOUT.                                     *)
SynchronizeIrq ==
    /\ pc = "sync" /\ irqPc = "idle" /\ pc' = "idle"
    /\ UNCHANGED <<op, nextCid, ring, admin, sq, cqes, dev, irq, history>>

(* admin_error, then admin_status, then the result are read.               *)
Check ==
    /\ pc = "check" /\ pc' = "idle"
    /\ UNCHANGED <<op, nextCid, ring, admin, sq, cqes, dev, irq, history>>

-----------------------------------------------------------------------------
(* openflash_irq() and openflash_drain_admin_cq().                         *)

(* A controller that is not ready makes the handler return IRQ_NONE.       *)
IrqEnter ==
    /\ irqPending /\ irqPc = "idle"
    /\ irqPending' = FALSE
    /\ irqPc' = IF ready THEN "look" ELSE "idle"
    /\ UNCHANGED <<caller, nextCid, ring, admin, sq, cqes, dev, irqCid, lost,
                   history>>

IrqLook ==
    /\ irqPc = "look"
    /\ IF cqes[cqHead].phase = cqPhase
       THEN irqPc' = "pending" /\ irqCid' = cqes[cqHead].cid
       ELSE irqPc' = "idle" /\ UNCHANGED irqCid
    /\ UNCHANGED <<caller, nextCid, ring, admin, sq, cqes, dev, irqPending,
                   lost, history>>

IrqPending ==
    /\ irqPc = "pending"
    /\ irqPc' = IF pending THEN "store" ELSE "advance"
    /\ UNCHANGED <<caller, nextCid, ring, admin, sq, cqes, dev, irqCid,
                   irqPending, lost, history>>

(* Deviation: the command stays pending after it was completed.            *)
IrqStoreKeepsPending ==
    /\ irqPc = "store" /\ irqPc' = "complete"
    /\ IF irqCid = adminCid
       THEN adminDid' = cqes[cqHead].did /\ adminError' = FALSE
       ELSE adminError' = TRUE /\ UNCHANGED adminDid
    /\ UNCHANGED <<caller, nextCid, ring, adminCid, done, pending, sq, cqes,
                   dev, irqCid, irqPending, lost, history>>

(* Take status and result if the cid matches, else report -EIO; either way *)
(* the command is no longer pending.                                       *)
IrqStore ==
    /\ irqPc = "store" /\ irqPc' = "complete"
    /\ IF irqCid = adminCid
       THEN adminDid' = cqes[cqHead].did /\ adminError' = FALSE
       ELSE adminError' = TRUE /\ UNCHANGED adminDid
    /\ pending' = FALSE
    /\ UNCHANGED <<caller, nextCid, ring, adminCid, done, sq, cqes, dev,
                   irqCid, irqPending, lost, history>>

IrqComplete ==
    /\ irqPc = "complete" /\ irqPc' = "advance"
    /\ done' = done + 1
    /\ UNCHANGED <<caller, nextCid, ring, pending, adminCid, adminError,
                   adminDid, sq, cqes, dev, irqCid, irqPending, lost,
                   history>>

(* Deviation: cq_head wraps but cq_phase does not toggle.                  *)
IrqAdvanceWithoutToggle ==
    /\ irqPc = "advance" /\ irqPc' = "look" /\ irqCid' = 0
    /\ cqHead' = (cqHead + 1) % Depth
    /\ UNCHANGED <<caller, nextCid, sqTail, cqPhase, admin, sq, cqes, dev,
                   irqPending, lost, history>>

(* Deviation: cq_head does not wrap.                                       *)
IrqAdvanceWithoutWrap ==
    /\ irqPc = "advance" /\ irqPc' = "look" /\ irqCid' = 0
    /\ cqHead' = cqHead + 1 /\ UNCHANGED cqPhase
    /\ UNCHANGED <<caller, nextCid, sqTail, admin, sq, cqes, dev,
                   irqPending, lost, history>>

IrqAdvance ==
    /\ irqPc = "advance" /\ irqPc' = "look" /\ irqCid' = 0
    /\ cqHead' = (cqHead + 1) % Depth
    /\ cqPhase' = IF cqHead' = 0 THEN 1 - cqPhase ELSE cqPhase
    /\ UNCHANGED <<caller, nextCid, sqTail, admin, sq, cqes, dev, irqPending,
                   lost, history>>

-----------------------------------------------------------------------------
(* The admin part of openflash_reset_controller(), store by store.         *)

ResetClear ==
    /\ pc = "idle" /\ pc' = "head" /\ issued < MaxCommands
    /\ spoiled' = ~Quiet
    /\ sq' = [i \in Slots |-> ZeroCommand]
    /\ cqes' = [i \in Slots |-> ZeroCompletion]
    /\ UNCHANGED <<op, nextCid, ring, admin, dev, irq, issued, executed,
                   heard>>

ResetHead ==
    /\ pc = "head" /\ pc' = "phase"
    /\ sqTail' = 0 /\ cqHead' = 0
    /\ UNCHANGED <<op, nextCid, cqPhase, admin, sq, cqes, dev, irq, history>>

(* Deviation: the reset does not restart cq_phase.                         *)
ResetPhaseKept ==
    /\ pc = "phase" /\ pc' = "reset"
    /\ UNCHANGED <<op, nextCid, ring, admin, sq, cqes, dev, irq, history>>

ResetPhase ==
    /\ pc = "phase" /\ pc' = "reset"
    /\ cqPhase' = 1
    /\ UNCHANGED <<op, nextCid, sqTail, cqHead, admin, sq, cqes, dev, irq,
                   history>>

(* OPENFLASH_CTRL_RESET: openflash_reset() clears both queues.             *)
ResetRegister ==
    /\ pc = "reset" /\ pc' = "enable"
    /\ ready' = FALSE
    /\ devSqHead' = 0 /\ devCqTail' = 0 /\ devPhase' = 1
    /\ heard' = TRUE
    /\ UNCHANGED <<op, nextCid, ring, admin, sq, cqes, irq, issued, executed,
                   spoiled>>

(* The admin registers, ENABLE and the poll for READY, which may time out. *)
EnableRegister ==
    /\ pc = "enable"
    /\ \/ ready' = TRUE /\ pc' = "create"
       \/ ready' = FALSE /\ pc' = "idle"
    /\ UNCHANGED <<op, nextCid, ring, admin, sq, cqes, devSqHead, devCqTail,
                   devPhase, irq, history>>

-----------------------------------------------------------------------------
AdminCommand ==
    \/ \E o \in AdminOps : Prepare(o)
    \/ Publish \/ (\E d \in BOOLEAN : Ring(d))
    \/ WaitDone \/ WaitTimeout \/ SynchronizeIrq \/ Check

DrainAdminCq == IrqEnter \/ IrqLook \/ IrqPending \/ IrqStore \/ IrqComplete
                  \/ IrqAdvance

ResetAdmin == ResetClear \/ ResetHead \/ ResetPhase \/ ResetRegister
                \/ EnableRegister

Next == AdminCommand \/ DrainAdminCq \/ ResetAdmin

Spec == Init /\ [][Next]_vars

(* The thread runs on once it is inside a call, and the handler runs.      *)
Finish == pc # "idle" /\ (AdminCommand \/ ResetAdmin)

AdminFairness == WF_vars(Finish) /\ WF_vars(DrainAdminCq)

FairSpec == Spec /\ AdminFairness

-----------------------------------------------------------------------------
(* Properties.                                                             *)

(* Indices stay inside the rings, whatever handler and reset do to them.   *)
TypeOK ==
    /\ pc \in {"idle", "publish", "ring", "wait", "sync", "check", "head",
               "phase", "reset", "enable", "create"}
    /\ op \in AdminOps /\ nextCid \in Cids
    /\ sqTail \in Slots /\ cqHead \in Slots /\ cqPhase \in Phases
    /\ pending \in BOOLEAN /\ adminCid \in Cids /\ adminError \in BOOLEAN
    /\ adminDid \in Dones /\ done \in Nat
    /\ sq \in [Slots -> Command] /\ cqes \in [Slots -> Completion]
    /\ ready \in BOOLEAN /\ devSqHead \in Slots /\ devCqTail \in Slots
    /\ devPhase \in Phases
    /\ irqPc \in {"idle", "look", "pending", "store", "complete", "advance"}
    /\ irqCid \in Cids /\ irqPending \in BOOLEAN /\ lost \in 0 .. MaxLost
    /\ issued \in 0 .. MaxCommands
    /\ executed \in Dones \cup {NotExecuted}
    /\ heard \in BOOLEAN /\ spoiled \in BOOLEAN

(* A command that returns without an error got the status and result of    *)
(* its own execution, however many earlier completions were lost, late or  *)
(* wiped by a reset.                                                       *)
ResultIsOwn == (pc = "check" /\ ~adminError) => adminDid = executed

(* The handler touches the admin fields only on behalf of the command that *)
(* is waiting: no complete() reaches a later command's wait, and the       *)
(* fields do not change while their owner reads them.                      *)
NoStrayCompletion ==
    irqPc \in {"store", "complete"} => pc \in {"ring", "wait", "sync"}

(* At most one complete() per command.                                     *)
OneCompletion == done + (IF irqPc = "complete" THEN 1 ELSE 0)
                   + (IF pending THEN 1 ELSE 0) <= 1

(* One delivered interrupt makes up for any that were lost or late: then   *)
(* driver and controller agree on where the next completion goes and on    *)
(* its phase.  Two things end this until the next reset: completions that  *)
(* overrun the ring, for which nothing checks, and a handler that runs     *)
(* while the ring is rebuilt, with which nothing synchronizes.             *)
CompletionRingsAgree ==
    (pc \in {"idle", "create"} /\ Quiet /\ heard /\ ~spoiled)
        => cqHead = devCqTail /\ cqPhase = devPhase

(* Every admin command returns and every reset reaches its end: the        *)
(* handler that synchronize_irq() waits for always leaves its loop.        *)
AdminReturns == (pc # "idle") ~> (pc = "idle")
=============================================================================

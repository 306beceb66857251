-------------------------- MODULE AdminQueueProofs --------------------------
(***************************************************************************)
(* Theorems about AdminQueue for every depth, every number of commands and *)
(* lost interrupts, and with interrupts as late as they like.  A handler   *)
(* that has seen admin_pending set is the only one that may complete the   *)
(* command, and synchronize_irq() keeps the thread from leaving before it  *)
(* has; HandlerOwns states what that needs at every step.                  *)
(***************************************************************************)
EXTENDS AdminQueue, TLAPS

(* What makes the two properties inductive: a command is pending only      *)
(* between its publication and the end of its wait, admin_done is zero     *)
(* when it is published, and while a handler is about to complete it.      *)
HandlerOwns ==
    /\ pending => pc \in {"ring", "wait"}
    /\ pc = "publish" => done = 0
    /\ irqPc = "store" => done = 0

AdminInv == TypeOK /\ NoStrayCompletion /\ OneCompletion /\ HandlerOwns

(* The state setup_admin_queue() leaves satisfies the invariant.           *)
LEMMA AdminInit == Init => AdminInv
<1> SUFFICES ASSUME Init PROVE AdminInv
  OBVIOUS
<1>1. /\ nextCid \in Cids /\ adminCid \in Cids /\ irqCid \in Cids
      /\ issued \in 0 .. MaxCommands /\ lost \in 0 .. MaxLost
      /\ done \in Nat
  BY CidAssumption, AdminLostAssumption DEF Init, Cids
<1>2. /\ sqTail \in Slots /\ cqHead \in Slots
      /\ devSqHead \in Slots /\ devCqTail \in Slots
  BY AdminDepthAssumption DEF Init, Slots
<1>3. sq \in [Slots -> Command] /\ cqes \in [Slots -> Completion]
  <2>1. 0 \in Cids /\ 0 \in Phases
    BY CidAssumption DEF Cids, Phases
  <2> QED
    BY <2>1 DEF Init, ZeroCommand, ZeroCompletion, Command, Completion,
       Done, Dones, Statuses
<1>4. /\ cqPhase \in Phases /\ devPhase \in Phases /\ op \in AdminOps
      /\ adminDid \in Dones
  BY DEF Init, Phases, AdminOps, Done, Dones, Statuses
<1>5. TypeOK
  BY <1>1, <1>2, <1>3, <1>4 DEF Init, TypeOK
<1>6. NoStrayCompletion /\ OneCompletion /\ HandlerOwns
  BY DEF Init, NoStrayCompletion, OneCompletion, HandlerOwns
<1> QED
  BY <1>5, <1>6 DEF AdminInv

(* A command identifier is never zero and fits sixteen bits.               *)
LEMMA NewCidType == nextCid \in Cids => NewCid \in Cids \ {0}
BY CidAssumption DEF Cids, NewCid

(* The masked increment of a ring index stays in the ring.                 *)
LEMMA SlotSuccessor == \A i \in Slots : (i + 1) % Depth \in Slots
BY AdminDepthAssumption DEF Slots

(* What the controller posts is well formed.                               *)
LEMMA OutcomeType ==
    ASSUME NEW cmd \in Command, NEW status \in Outcomes(cmd.op)
    PROVE  Done(cmd.op, status) \in Dones
BY DEF Outcomes, Command, Done, Dones, Statuses

(* Every step keeps the types.                                             *)
LEMMA AdminTypeStep == TypeOK /\ [Next]_vars => TypeOK'
<1> SUFFICES ASSUME TypeOK, [Next]_vars PROVE TypeOK'
  OBVIOUS
<1> USE DEF TypeOK
<1>0. 0 \in Slots /\ 0 \in Phases /\ 1 \in Phases /\ 0 \in Cids
        /\ \A p \in Phases : 1 - p \in Phases
  BY AdminDepthAssumption, CidAssumption DEF Slots, Phases, Cids
<1>1. ASSUME NEW o \in AdminOps, Prepare(o) PROVE TypeOK'
  <2>1. nextCid' \in Cids /\ adminCid' \in Cids
    BY <1>1, NewCidType DEF Prepare
  <2>2. issued' \in 0 .. MaxCommands /\ done' \in Nat
    BY <1>1, CidAssumption DEF Prepare
  <2>3. /\ pc' = "publish" /\ op' \in AdminOps /\ adminError' \in BOOLEAN
        /\ executed' \in Dones \cup {NotExecuted}
    BY <1>1 DEF Prepare
  <2>4. UNCHANGED <<ring, pending, adminDid, sq, cqes, dev, irq, heard,
                  spoiled>>
    BY <1>1 DEF Prepare
  <2> QED
    BY <2>1, <2>2, <2>3, <2>4 DEF ring, dev, irq
<1>2. CASE Publish
  BY <1>2 DEF Publish, ring, dev, irq, history, Command
<1>3. ASSUME NEW d \in BOOLEAN, Ring(d) PROVE TypeOK'
  <2>1. sq[devSqHead] \in Command
    OBVIOUS
  <2>2. PICK status \in Outcomes(sq[devSqHead].op) :
          /\ cqes' = [cqes EXCEPT ![devCqTail] =
                        [phase |-> devPhase, cid |-> sq[devSqHead].cid,
                         did |-> Done(sq[devSqHead].op, status)]]
          /\ executed' = IF sq[devSqHead].cid = adminCid
                         THEN Done(sq[devSqHead].op, status) ELSE executed
          /\ devCqTail' = (devCqTail + 1) % Depth
          /\ devPhase' = IF (devCqTail + 1) % Depth = 0 THEN 1 - devPhase
                         ELSE devPhase
    BY <1>3 DEF Ring
  <2>3. Done(sq[devSqHead].op, status) \in Dones
    BY <2>1, OutcomeType
  <2>4. [phase |-> devPhase, cid |-> sq[devSqHead].cid,
         did |-> Done(sq[devSqHead].op, status)] \in Completion
    BY <2>1, <2>3 DEF Completion, Command
  <2>5. /\ cqes' \in [Slots -> Completion]
        /\ executed' \in Dones \cup {NotExecuted}
        /\ devCqTail' \in Slots /\ devPhase' \in Phases
    BY <1>0, <2>2, <2>3, <2>4, SlotSuccessor
  <2>6. /\ pc' = "wait" /\ sqTail' \in Slots /\ devSqHead' \in Slots
        /\ heard' \in BOOLEAN /\ spoiled' \in BOOLEAN
        /\ irqPending' \in BOOLEAN
    BY <1>3, SlotSuccessor DEF Ring
  <2>7. lost' \in 0 .. MaxLost
    BY <1>3, AdminLostAssumption DEF Ring
  <2>8. UNCHANGED <<op, nextCid, cqHead, cqPhase, admin, sq, ready, irqPc,
                    irqCid, issued>>
    BY <1>3 DEF Ring
  <2> QED
    BY <2>5, <2>6, <2>7, <2>8 DEF admin
<1>4. CASE WaitDone \/ WaitTimeout \/ SynchronizeIrq \/ Check
  <2>0. done \in Nat /\ pending \in BOOLEAN
    OBVIOUS
  <2>1. done' \in Nat
    <3>1. done' = done \/ (done > 0 /\ done' = done - 1)
      BY <1>4 DEF WaitDone, WaitTimeout, SynchronizeIrq, Check, admin
    <3> QED
      BY <2>0, <3>1
  <2>4. pending' \in BOOLEAN
    <3>1. pending' = pending \/ pending' = FALSE
      BY <1>4 DEF WaitDone, WaitTimeout, SynchronizeIrq, Check, admin
    <3> QED
      BY <2>0, <3>1
  <2>2. pc' \in {"check", "sync", "idle"}
    BY <1>4 DEF WaitDone, WaitTimeout, SynchronizeIrq, Check
  <2>3. UNCHANGED <<op, nextCid, ring, adminCid, adminError, adminDid, sq,
                    cqes, dev, irq, history>>
    BY <1>4 DEF WaitDone, WaitTimeout, SynchronizeIrq, Check, admin
  <2> QED
    BY <2>1, <2>2, <2>3, <2>4 DEF ring, dev, irq, history
<1>5. CASE IrqEnter \/ IrqPending \/ IrqComplete
  <2>0. done \in Nat /\ irqPending \in BOOLEAN
    OBVIOUS
  <2>1. irqPc' \in {"look", "idle", "store", "advance"}
    BY <1>5 DEF IrqEnter, IrqPending, IrqComplete
  <2>3. done' \in Nat
    <3>1. done' = done \/ done' = done + 1
      BY <1>5 DEF IrqEnter, IrqPending, IrqComplete, admin
    <3> QED
      BY <2>0, <3>1
  <2>4. irqPending' \in BOOLEAN
    <3>1. irqPending' = irqPending \/ irqPending' = FALSE
      BY <1>5 DEF IrqEnter, IrqPending, IrqComplete
    <3> QED
      BY <2>0, <3>1
  <2>2. UNCHANGED <<caller, nextCid, ring, pending, adminCid, adminError,
                    adminDid, sq, cqes, dev, irqCid, lost, history>>
    BY <1>5 DEF IrqEnter, IrqPending, IrqComplete, admin
  <2> QED
    BY <2>1, <2>2, <2>3, <2>4 DEF caller, ring, dev, history
<1>6. CASE IrqLook
  BY <1>6 DEF IrqLook, caller, ring, dev, admin, history, Completion
<1>7. CASE IrqStore
  BY <1>7 DEF IrqStore, caller, ring, dev, history, Completion
<1>8. CASE IrqAdvance
  BY <1>8, <1>0, SlotSuccessor DEF IrqAdvance, caller, dev, admin, history
<1>9. CASE ResetClear
  BY <1>9, <1>0 DEF ResetClear, ring, dev, irq, admin, history,
     ZeroCommand, ZeroCompletion, Command, Completion, Done, Dones, Statuses
<1>10. CASE ResetHead \/ ResetPhase \/ ResetRegister \/ EnableRegister
  BY <1>10, <1>0 DEF ResetHead, ResetPhase, ResetRegister, EnableRegister,
     ring, dev, irq, admin, history
<1>11. CASE UNCHANGED vars
  BY <1>11 DEF vars, caller, ring, admin, dev, irq, history
<1> QED
  BY <1>1, <1>2, <1>3, <1>4, <1>5, <1>6, <1>7, <1>8, <1>9, <1>10, <1>11
  DEF Next, AdminCommand, DrainAdminCq, ResetAdmin

(* Every step keeps the handler's ownership of the admin fields.           *)
LEMMA AdminOwnershipStep ==
    AdminInv /\ [Next]_vars =>
        (NoStrayCompletion /\ OneCompletion /\ HandlerOwns)'
<1> SUFFICES ASSUME AdminInv, [Next]_vars
             PROVE  (NoStrayCompletion /\ OneCompletion /\ HandlerOwns)'
  OBVIOUS
<1> USE DEF AdminInv, NoStrayCompletion, OneCompletion, HandlerOwns
<1>0. done \in Nat /\ pending \in BOOLEAN
  BY DEF TypeOK
<1>1. ASSUME NEW o \in AdminOps, Prepare(o)
      PROVE  (NoStrayCompletion /\ OneCompletion /\ HandlerOwns)'
  BY <1>1 DEF Prepare, irq
<1>2. CASE Publish
  BY <1>0, <1>2 DEF Publish, irq
<1>3. ASSUME NEW d \in BOOLEAN, Ring(d)
      PROVE  (NoStrayCompletion /\ OneCompletion /\ HandlerOwns)'
  <2>1. pc = "ring" /\ pc' = "wait" /\ UNCHANGED <<admin, irqPc>>
    BY <1>3 DEF Ring
  <2> QED
    BY <2>1 DEF admin
<1>4. CASE WaitDone \/ WaitTimeout
  BY <1>0, <1>4 DEF WaitDone, WaitTimeout, irq
<1>5. CASE SynchronizeIrq \/ Check
  BY <1>0, <1>5 DEF SynchronizeIrq, Check, irq, admin
<1>6. CASE IrqEnter \/ IrqLook \/ IrqPending \/ IrqAdvance
  BY <1>0, <1>6 DEF IrqEnter, IrqLook, IrqPending, IrqAdvance, caller, admin
<1>7. CASE IrqStore \/ IrqComplete
  BY <1>0, <1>7 DEF IrqStore, IrqComplete, caller
<1>8. CASE ResetAdmin
  BY <1>0, <1>8 DEF ResetAdmin, ResetClear, ResetHead, ResetPhase,
     ResetRegister, EnableRegister, admin, irq
<1>9. CASE UNCHANGED vars
  BY <1>9 DEF vars, caller, admin, irq
<1> QED
  BY <1>1, <1>2, <1>3, <1>4, <1>5, <1>6, <1>7, <1>8, <1>9
  DEF Next, AdminCommand, DrainAdminCq

(* The inductive invariant holds in every reachable state.                 *)
THEOREM AdminInvariant == Spec => []AdminInv
<1>1. AdminInv /\ [Next]_vars => AdminInv'
  BY AdminTypeStep, AdminOwnershipStep DEF AdminInv
<1> QED
  BY <1>1, AdminInit, PTL DEF Spec

(* Ring indices of driver and controller stay inside the rings although    *)
(* the reset and the handler write them without a lock.                    *)
THEOREM AdminTypeCorrect == Spec => []TypeOK
<1>1. AdminInv => TypeOK
  BY DEF AdminInv
<1> QED
  BY <1>1, AdminInvariant, PTL

(* No handler run writes the admin fields, or completes, for a command     *)
(* that has already been given up or has returned.                         *)
THEOREM AdminNoStray == Spec => []NoStrayCompletion
<1>1. AdminInv => NoStrayCompletion
  BY DEF AdminInv
<1> QED
  BY <1>1, AdminInvariant, PTL

(* Each command is completed at most once, so no wait is satisfied by what *)
(* an earlier command left in admin_done.                                  *)
THEOREM AdminOneCompletion == Spec => []OneCompletion
<1>1. AdminInv => OneCompletion
  BY DEF AdminInv
<1> QED
  BY <1>1, AdminInvariant, PTL

-----------------------------------------------------------------------------
(* Whose result a command gets.                                            *)

(* The cid of the k-th command: zero is skipped where next_cid wraps.      *)
CidOf(k) == IF FirstCid + k < CidMod THEN FirstCid + k
            ELSE FirstCid + k - CidMod + 1

Used(n) == {0} \cup {CidOf(k) : k \in 1 .. n}

(* Only cids handed out so far are in the rings and in the handler.        *)
CidsUsed ==
    /\ nextCid = CidOf(issued)
    /\ adminCid = IF issued = 0 THEN 0 ELSE nextCid
    /\ pc \in {"publish", "ring", "wait", "sync", "check"} => issued > 0
    /\ irqCid \in Used(issued)
    /\ \A i \in Slots : /\ sq[i].cid \in Used(issued)
                        /\ cqes[i].cid \in Used(issued)

(* Until the doorbell nobody has seen this command's cid; after it, a      *)
(* completion with this cid tells what was executed, and the handler holds *)
(* the cid only while it is at that completion.                            *)
CompletionIsOwn ==
    /\ pc \in {"publish", "ring"} =>
          irqCid # adminCid /\ \A i \in Slots : cqes[i].cid # adminCid
    /\ pc \in {"wait", "sync"} =>
          /\ \A i \in Slots : cqes[i].cid = adminCid =>
                cqes[i].did = executed
          /\ irqPc \in {"pending", "store"} /\ irqCid = adminCid =>
                cqes[cqHead].cid = adminCid

(* What the handler has stored by the time it completes the command.       *)
StoredIsOwn ==
    /\ pc = "ring" /\ (irqPc = "complete" \/ done > 0) => adminError
    /\ pc \in {"wait", "sync"} /\ (irqPc = "complete" \/ done > 0) =>
          adminError \/ adminDid = executed
    /\ pc = "check" => adminError \/ adminDid = executed

ResultInv == AdminInv /\ CidsUsed /\ CompletionIsOwn /\ StoredIsOwn


LEMMA CidProgress ==
    /\ CidOf(0) = FirstCid
    /\ \A k \in 0 .. MaxCommands :
          /\ k < MaxCommands => CidOf(k + 1) = IF CidOf(k) = CidMod - 1 THEN 1
                                               ELSE CidOf(k) + 1
          /\ k > 0 => CidOf(k) # 0
    /\ \A j, k \in 1 .. MaxCommands : CidOf(j) = CidOf(k) => j = k
BY CidAssumption DEF CidOf

(* A new cid has not been used.                                            *)
LEMMA NewCidUnused ==
    ASSUME issued \in 0 .. MaxCommands, issued < MaxCommands,
           nextCid = CidOf(issued)
    PROVE  /\ NewCid = CidOf(issued + 1) /\ NewCid \notin Used(issued)
           /\ Used(issued) \subseteq Used(issued + 1)
           /\ NewCid \in Used(issued + 1)
<1>1. NewCid = CidOf(issued + 1)
  BY CidProgress, CidAssumption DEF NewCid
<1>2. issued + 1 \in 1 .. MaxCommands /\ 1 .. issued \subseteq 1 .. MaxCommands
      /\ issued + 1 \notin 1 .. issued /\ issued + 1 \in 1 .. issued + 1
      /\ 1 .. issued \subseteq 1 .. issued + 1
      /\ issued + 1 \in 0 .. MaxCommands /\ issued + 1 > 0
  BY CidAssumption
<1>3. CidOf(issued + 1) # 0
  BY <1>2, CidProgress
<1>4. \A k \in 1 .. issued : CidOf(k) # CidOf(issued + 1)
  BY <1>2, CidProgress
<1> QED
  BY <1>1, <1>2, <1>3, <1>4 DEF Used

(* The cid of a command in progress is not zero.                           *)
LEMMA AdminCidSet ==
    ASSUME issued \in 0 .. MaxCommands, issued > 0, CidsUsed
    PROVE  adminCid # 0 /\ adminCid \in Used(issued)
<1>1. adminCid = CidOf(issued) /\ issued \in 1 .. issued
  BY DEF CidsUsed
<1> QED
  BY <1>1, CidProgress DEF Used

LEMMA ResultInit == Init => CidsUsed /\ CompletionIsOwn /\ StoredIsOwn
<1> SUFFICES ASSUME Init PROVE CidsUsed /\ CompletionIsOwn /\ StoredIsOwn
  OBVIOUS
<1>1. 0 \in Used(issued)
  BY DEF Used
<1>2. CidsUsed
  BY <1>1, CidProgress DEF Init, CidsUsed, ZeroCommand, ZeroCompletion
<1>3. CompletionIsOwn /\ StoredIsOwn
  BY DEF Init, CompletionIsOwn, StoredIsOwn
<1> QED
  BY <1>2, <1>3

LEMMA CidsStep ==
    ASSUME AdminInv, CidsUsed, [Next]_vars
    PROVE  CidsUsed'
<1> USE DEF CidsUsed
<1>0. /\ 0 \in Used(issued) /\ issued \in 0 .. MaxCommands
      /\ sq \in [Slots -> Command] /\ cqes \in [Slots -> Completion]
      /\ devSqHead \in Slots /\ devCqTail \in Slots /\ cqHead \in Slots
      /\ sqTail \in Slots
  BY DEF Used, AdminInv, TypeOK
<1>1. ASSUME NEW o \in AdminOps, Prepare(o) PROVE CidsUsed'
  <2>1. /\ issued < MaxCommands /\ issued' = issued + 1
        /\ nextCid' = NewCid /\ adminCid' = NewCid
        /\ UNCHANGED <<sq, cqes, irqCid>>
    BY <1>1 DEF Prepare, irq
  <2>2. /\ NewCid = CidOf(issued + 1) /\ NewCid \notin Used(issued)
        /\ Used(issued) \subseteq Used(issued + 1)
    BY <1>0, <2>1, NewCidUnused
  <2>3. issued' > 0 /\ issued' # 0
    BY <1>0, <2>1
  <2> QED
    BY <2>1, <2>2, <2>3
<1>2. CASE Publish
  <2>1. /\ pc = "publish" /\ UNCHANGED <<nextCid, adminCid, cqes>>
        /\ UNCHANGED <<irqCid, issued>>
        /\ sq' = [sq EXCEPT ![sqTail] = [cid |-> adminCid, op |-> op]]
    BY <1>2 DEF Publish, irq, history
  <2>2. adminCid \in Used(issued) /\ issued > 0
    BY <1>0, <2>1, AdminCidSet
  <2>3. \A i \in Slots : sq'[i].cid \in Used(issued)
    BY <1>0, <2>1, <2>2
  <2> QED
    BY <2>1, <2>2, <2>3
<1>3. ASSUME NEW d \in BOOLEAN, Ring(d) PROVE CidsUsed'
  <2>1. /\ pc = "ring" /\ UNCHANGED <<nextCid, adminCid, sq, irqCid, issued>>
        /\ \E x : cqes' = [cqes EXCEPT ![devCqTail] =
                            [phase |-> devPhase, cid |-> sq[devSqHead].cid,
                             did |-> x]]
    BY <1>3 DEF Ring, admin
  <2>2. \A i \in Slots : cqes'[i].cid \in Used(issued)
    BY <1>0, <2>1
  <2> QED
    BY <2>1, <2>2
<1>4. CASE WaitDone \/ WaitTimeout
  BY <1>4 DEF WaitDone, WaitTimeout, irq, history
<1>5. CASE SynchronizeIrq \/ Check
  BY <1>5 DEF SynchronizeIrq, Check, admin, irq, history
<1>6. CASE IrqEnter \/ IrqPending
  BY <1>6 DEF IrqEnter, IrqPending, caller, admin, history
<1>7. CASE IrqLook
  BY <1>0, <1>7 DEF IrqLook, caller, admin, history
<1>8. CASE IrqStore \/ IrqComplete
  BY <1>8 DEF IrqStore, IrqComplete, caller, history
<1>9. CASE IrqAdvance
  BY <1>0, <1>9 DEF IrqAdvance, caller, admin, history
<1>10. CASE ResetClear
  <2>1. /\ UNCHANGED <<nextCid, adminCid, irqCid, issued>> /\ pc' = "head"
        /\ sq' = [i \in Slots |-> ZeroCommand]
        /\ cqes' = [i \in Slots |-> ZeroCompletion]
    BY <1>10 DEF ResetClear, admin, irq
  <2> QED
    BY <1>0, <2>1 DEF ZeroCommand, ZeroCompletion
<1>11. CASE ResetHead \/ ResetPhase \/ ResetRegister \/ EnableRegister
  BY <1>11 DEF ResetHead, ResetPhase, ResetRegister, EnableRegister, admin,
     irq, history
<1>12. CASE UNCHANGED vars
  BY <1>12 DEF vars, caller, admin, irq, history
<1> QED
  BY <1>1, <1>2, <1>3, <1>4, <1>5, <1>6, <1>7, <1>8, <1>9, <1>10, <1>11, <1>12
  DEF Next, AdminCommand, DrainAdminCq, ResetAdmin

LEMMA OwnStep ==
    ASSUME AdminInv, CidsUsed, CompletionIsOwn, StoredIsOwn, [Next]_vars
    PROVE  CompletionIsOwn' /\ StoredIsOwn'
<1> USE DEF CompletionIsOwn, StoredIsOwn
<1>0. /\ issued \in 0 .. MaxCommands /\ done \in Nat
      /\ cqes \in [Slots -> Completion]
      /\ devSqHead \in Slots /\ devCqTail \in Slots /\ cqHead \in Slots
  BY DEF AdminInv, TypeOK
<1>1. ASSUME NEW o \in AdminOps, Prepare(o)
      PROVE  CompletionIsOwn' /\ StoredIsOwn'
  <2>1. /\ issued < MaxCommands /\ adminCid' = NewCid /\ pc' = "publish"
        /\ UNCHANGED <<cqes, irqCid>>
    BY <1>1 DEF Prepare, irq
  <2>2. NewCid \notin Used(issued)
    BY <1>0, <2>1, NewCidUnused DEF CidsUsed
  <2> QED
    BY <2>1, <2>2 DEF CidsUsed
<1>2. CASE Publish
  <2>1. /\ pc = "publish" /\ pc' = "ring" /\ done = 0
        /\ UNCHANGED <<adminCid, cqes, irqCid, irqPc, done>>
        /\ irqPc # "complete"
    BY <1>2 DEF Publish, irq, AdminInv, HandlerOwns, NoStrayCompletion
  <2> QED
    BY <2>1
<1>3. ASSUME NEW d \in BOOLEAN, Ring(d)
      PROVE  CompletionIsOwn' /\ StoredIsOwn'
  <2>1. PICK status :
          /\ cqes' = [cqes EXCEPT ![devCqTail] =
                        [phase |-> devPhase, cid |-> sq[devSqHead].cid,
                         did |-> Done(sq[devSqHead].op, status)]]
          /\ executed' = IF sq[devSqHead].cid = adminCid
                         THEN Done(sq[devSqHead].op, status) ELSE executed
    BY <1>3 DEF Ring
  <2>2. /\ pc = "ring" /\ pc' = "wait"
        /\ UNCHANGED <<adminCid, irqCid, irqPc, done, adminError>>
    BY <1>3 DEF Ring, admin
  <2>3. \A i \in Slots : cqes'[i].cid = adminCid => cqes'[i].did = executed'
    <3> SUFFICES ASSUME NEW i \in Slots, cqes'[i].cid = adminCid
                 PROVE  cqes'[i].did = executed'
      OBVIOUS
    <3>1. i = devCqTail
      BY <1>0, <2>1, <2>2
    <3> QED
      BY <1>0, <2>1, <3>1
  <2> QED
    BY <2>2, <2>3
<1>4. CASE WaitDone
  BY <1>0, <1>4 DEF WaitDone, irq, history
<1>5. CASE WaitTimeout
  BY <1>5 DEF WaitTimeout, ring, irq, history
<1>6. CASE SynchronizeIrq \/ Check
  BY <1>6 DEF SynchronizeIrq, Check
<1>7. CASE IrqEnter \/ IrqPending
  BY <1>7 DEF IrqEnter, IrqPending, caller, admin, history, ring
<1>8. CASE IrqLook
  <2>1. /\ UNCHANGED <<pc, cqes, cqHead, adminCid, executed, done, adminError>>
        /\ UNCHANGED adminDid /\ irqPc = "look" /\ irqPc' # "complete"
        /\ irqCid' = cqes[cqHead].cid \/ (irqPc' = "idle" /\ irqCid' = irqCid)
    BY <1>8 DEF IrqLook, caller, admin, history, ring
  <2> QED
    BY <1>0, <2>1
<1>9. CASE IrqStore
  <2>1. /\ UNCHANGED <<pc, cqes, cqHead, adminCid, executed, irqCid>>
        /\ irqPc = "store" /\ irqPc' = "complete"
        /\ irqCid = adminCid => adminDid' = cqes[cqHead].did
        /\ irqCid # adminCid => adminError'
        /\ pc \in {"ring", "wait", "sync"}
    BY <1>9 DEF IrqStore, caller, history, ring, AdminInv, NoStrayCompletion
  <2> QED
    BY <1>0, <2>1
<1>10. CASE IrqComplete
  <2>1. /\ UNCHANGED <<pc, cqes, cqHead, adminCid, executed, irqCid>>
        /\ UNCHANGED <<adminDid, adminError>>
        /\ irqPc = "complete" /\ irqPc' = "advance"
    BY <1>10 DEF IrqComplete, caller, history, ring
  <2> QED
    BY <2>1
<1>11. CASE IrqAdvance
  <2>1. /\ UNCHANGED <<pc, cqes, adminCid, executed, done>>
        /\ UNCHANGED <<adminDid, adminError>>
        /\ irqPc' = "look" /\ irqCid' = 0
    BY <1>11 DEF IrqAdvance, caller, history, admin
  <2>2. pc = "publish" \/ pc = "ring" => adminCid # 0
    BY <1>0, AdminCidSet DEF CidsUsed
  <2> QED
    BY <2>1, <2>2
<1>12. CASE ResetAdmin
  BY <1>12 DEF ResetAdmin, ResetClear, ResetHead, ResetPhase, ResetRegister,
     EnableRegister
<1>13. CASE UNCHANGED vars
  BY <1>13 DEF vars, caller, admin, irq, history, ring
<1> QED
  BY <1>1, <1>2, <1>3, <1>4, <1>5, <1>6, <1>7, <1>8, <1>9, <1>10, <1>11,
     <1>12, <1>13
  DEF Next, AdminCommand, DrainAdminCq

(* A command that returns without an error got the status and result of    *)
(* its own execution, whatever the handler finds in the ring.              *)
THEOREM AdminResultIsOwn == Spec => []ResultIsOwn
<1>1. Init => ResultInv
  BY AdminInit, ResultInit DEF ResultInv
<1>2. ResultInv /\ [Next]_vars => ResultInv'
  BY AdminTypeStep, AdminOwnershipStep, CidsStep, OwnStep
  DEF ResultInv, AdminInv
<1>3. ResultInv => ResultIsOwn
  BY DEF ResultInv, StoredIsOwn, ResultIsOwn
<1> QED
  BY <1>1, <1>2, <1>3, PTL DEF Spec


-----------------------------------------------------------------------------
(* Where the next completion goes.                                         *)

Rebuilding == pc \in {"head", "phase", "reset"}

(* The controller's phase is in the entries before its tail, the other one *)
(* in the rest.                                                            *)
DeviceRing ==
    \A i \in Slots : cqes[i].phase = IF Rebuilding THEN 0
                                     ELSE IF i < devCqTail THEN devPhase
                                     ELSE 1 - devPhase

(* The driver is behind the controller, by less than a turn of the ring.   *)
DriverBehind ==
    \/ cqPhase = devPhase /\ cqHead <= devCqTail
    \/ cqPhase # devPhase /\ devCqTail <= cqHead

(* What a reset that no handler meets has done so far.                     *)
RebuiltInv ==
    /\ Rebuilding \/ pc = "enable" => Quiet
    /\ pc \in {"phase", "reset"} => cqHead = 0
    /\ pc = "reset" => cqPhase = 1

(* Unless the ring is spoiled the driver follows the controller, advances  *)
(* only past an entry with its phase, and has none left when it is quiet;  *)
(* no message comes from a controller that did not get ready.              *)
RingInv ==
    /\ AdminInv /\ DeviceRing
    /\ ready \/ Rebuilding \/ pc \in {"enable", "idle"}
    /\ ~spoiled =>
          /\ RebuiltInv
          /\ ~ready => Quiet
          /\ ~Rebuilding =>
                /\ DriverBehind
                /\ irqPc \in {"pending", "store", "complete", "advance"} =>
                      cqes[cqHead].phase = cqPhase
                /\ Quiet /\ heard => cqes[cqHead].phase # cqPhase

(* The successor of a ring index, written out.                             *)
LEMMA NextSlot ==
    \A i \in Slots : (i + 1) % Depth = IF i = Depth - 1 THEN 0 ELSE i + 1
BY AdminDepthAssumption DEF Slots

LEMMA RingInit == Init => RingInv
<1> SUFFICES ASSUME Init PROVE RingInv
  OBVIOUS
<1>1. DeviceRing
  BY AdminDepthAssumption DEF Init, DeviceRing, Rebuilding, ZeroCompletion,
     Slots
<1>2. RebuiltInv /\ DriverBehind /\ cqes[cqHead].phase # cqPhase
  BY AdminDepthAssumption DEF Init, RebuiltInv, DriverBehind, Rebuilding,
     ZeroCompletion, Slots
<1> QED
  BY <1>1, <1>2, AdminInit DEF Init, RingInv

(* The controller posts a completion: the entry was not one the driver has *)
(* still to read, so the driver stays behind.                              *)
LEMMA RingPosts ==
    ASSUME RingInv, NEW d \in BOOLEAN, Ring(d)
    PROVE  /\ DeviceRing'
           /\ ~spoiled' => /\ DriverBehind'
                           /\ cqes[cqHead].phase = cqPhase =>
                                 cqes'[cqHead].phase = cqPhase
<1>1. /\ pc = "ring" /\ pc' = "wait" /\ UNCHANGED <<cqHead, cqPhase>>
      /\ \E c, x : cqes' = [cqes EXCEPT ![devCqTail] =
                             [phase |-> devPhase, cid |-> c, did |-> x]]
      /\ devCqTail' = (devCqTail + 1) % Depth
      /\ devPhase' = IF devCqTail' = 0 THEN 1 - devPhase ELSE devPhase
      /\ ~spoiled' => ~spoiled /\ ~Unread(devCqTail)
  BY DEF Ring
<1>2. /\ cqes \in [Slots -> Completion] /\ devCqTail \in Slots
      /\ cqHead \in Slots /\ devPhase \in Phases /\ cqPhase \in Phases
  BY DEF RingInv, AdminInv, TypeOK
<1>3. devCqTail' = IF devCqTail = Depth - 1 THEN 0 ELSE devCqTail + 1
  BY <1>1, <1>2, NextSlot
<1>4. \A i \in Slots : cqes[i].phase = IF i < devCqTail THEN devPhase
                                       ELSE 1 - devPhase
  BY <1>1 DEF RingInv, DeviceRing, Rebuilding
<1>5. \A i \in Slots : cqes'[i].phase = IF i = devCqTail THEN devPhase
                                        ELSE cqes[i].phase
  BY <1>1, <1>2
<1>6. DeviceRing'
  <2>1. ~Rebuilding'
    BY <1>1 DEF Rebuilding
  <2>2. ASSUME NEW i \in Slots
        PROVE  cqes'[i].phase = IF i < devCqTail' THEN devPhase'
                                ELSE 1 - devPhase'
    <3>1. cqes'[i].phase = IF i <= devCqTail THEN devPhase ELSE 1 - devPhase
      BY <1>2, <1>4, <1>5 DEF Slots
    <3> QED
      BY <1>1, <1>2, <1>3, <3>1, AdminDepthAssumption DEF Slots, Phases
  <2> QED
    BY <2>1, <2>2 DEF DeviceRing
<1>7. ASSUME ~spoiled'
      PROVE  /\ DriverBehind'
             /\ cqes[cqHead].phase = cqPhase => cqes'[cqHead].phase = cqPhase
  <2>1. DriverBehind /\ ~Unread(devCqTail)
    BY <1>1, <1>7 DEF RingInv, Rebuilding
  <2>2. cqes[devCqTail].phase = 1 - devPhase
    BY <1>2, <1>4 DEF Slots
  <2>3. cqPhase # devPhase => devCqTail < cqHead
    BY <1>2, <2>1, <2>2 DEF DriverBehind, Unread, Slots, Phases
  <2>4. DriverBehind'
    BY <1>1, <1>2, <1>3, <2>1, <2>3, AdminDepthAssumption
    DEF DriverBehind, Slots, Phases
  <2>5. ASSUME cqes[cqHead].phase = cqPhase
        PROVE  cqes'[cqHead].phase = cqPhase
    BY <1>2, <1>5, <2>2, <2>3, <2>5 DEF Slots, Phases
  <2> QED
    BY <2>4, <2>5
<1> QED
  BY <1>6, <1>7

(* The driver steps past an entry with its phase.                          *)
LEMMA RingAdvances ==
    ASSUME RingInv, IrqAdvance, ~spoiled, ~Rebuilding
    PROVE  DriverBehind'
<1>1. /\ cqHead' = (cqHead + 1) % Depth
      /\ cqPhase' = IF cqHead' = 0 THEN 1 - cqPhase ELSE cqPhase
      /\ UNCHANGED <<devCqTail, devPhase>> /\ irqPc = "advance"
  BY DEF IrqAdvance, dev
<1>2. /\ devCqTail \in Slots /\ cqHead \in Slots
      /\ devPhase \in Phases /\ cqPhase \in Phases
  BY DEF RingInv, AdminInv, TypeOK
<1>3. cqHead' = IF cqHead = Depth - 1 THEN 0 ELSE cqHead + 1
  BY <1>1, <1>2, NextSlot
<1>4. DriverBehind /\ cqes[cqHead].phase = cqPhase
  BY <1>1 DEF RingInv
<1>5. cqes[cqHead].phase = IF cqHead < devCqTail THEN devPhase
                           ELSE 1 - devPhase
  BY <1>2 DEF RingInv, DeviceRing
<1>6. cqPhase = devPhase => cqHead < devCqTail
  <2> SUFFICES ASSUME cqPhase = devPhase, ~(cqHead < devCqTail) PROVE FALSE
    OBVIOUS
  <2>1. devPhase = 1 - devPhase
    BY <1>4, <1>5
  <2> QED
    BY <1>2, <2>1 DEF Phases
<1> QED
  BY <1>1, <1>2, <1>3, <1>4, <1>6, AdminDepthAssumption
  DEF DriverBehind, Slots, Phases

LEMMA RingStep == RingInv /\ [Next]_vars => RingInv'
<1> SUFFICES ASSUME RingInv, [Next]_vars PROVE RingInv'
  OBVIOUS
<1> USE DEF RingInv
<1> DEFINE Busy == irqPc \in {"pending", "store", "complete", "advance"}
<1>0. AdminInv'
  BY AdminTypeStep, AdminOwnershipStep DEF AdminInv
<1>1. CASE UNCHANGED <<cqHead, cqPhase, cqes, devCqTail, devPhase>>
           /\ UNCHANGED <<ready, heard, spoiled, irqPc, irqPending>>
           /\ ~Rebuilding /\ ~Rebuilding' /\ ready /\ pc' # "enable"
  <2>1. DeviceRing'
    BY <1>1 DEF DeviceRing
  <2>2. (RebuiltInv => RebuiltInv') /\ (DriverBehind => DriverBehind')
        /\ (Quiet' <=> Quiet)
    BY <1>1 DEF RebuiltInv, DriverBehind, Rebuilding, Quiet
  <2> QED
    BY <1>0, <1>1, <2>1, <2>2
<1>2. ASSUME NEW o \in AdminOps, Prepare(o) PROVE RingInv'
  BY <1>1, <1>2 DEF Prepare, ring, dev, irq, Rebuilding
<1>3. CASE Publish
  BY <1>1, <1>3 DEF Publish, ring, dev, irq, history, Rebuilding
<1>4. ASSUME NEW d \in BOOLEAN, Ring(d) PROVE RingInv'
  <2>1. /\ pc = "ring" /\ pc' = "wait" /\ UNCHANGED <<cqHead, cqPhase>>
        /\ UNCHANGED <<ready, irqPc>> /\ (~spoiled' => ~spoiled)
        /\ (irqPending' \/ ~heard')
    BY <1>4 DEF Ring
  <2>2. DeviceRing' /\ (~spoiled' => /\ DriverBehind'
                                     /\ cqes[cqHead].phase = cqPhase =>
                                          cqes'[cqHead].phase = cqPhase)
    BY <1>4, RingPosts
  <2>3. ~Rebuilding /\ ~Rebuilding' /\ RebuiltInv'
    BY <2>1 DEF Rebuilding, RebuiltInv
  <2>4. ~(Quiet' /\ heard')
    BY <2>1 DEF Quiet
  <2> QED
    BY <1>0, <2>1, <2>2, <2>3, <2>4
<1>5. CASE WaitDone \/ WaitTimeout
  BY <1>1, <1>5 DEF WaitDone, WaitTimeout, ring, dev, irq, history, Rebuilding
<1>6. CASE SynchronizeIrq \/ Check
  BY <1>1, <1>6 DEF SynchronizeIrq, Check, ring, dev, irq, history, Rebuilding
<1>7. CASE DrainAdminCq
  <2>1. /\ UNCHANGED <<pc, cqes, devCqTail, devPhase, ready, heard, spoiled>>
        /\ ~Quiet
    BY <1>7 DEF DrainAdminCq, IrqEnter, IrqLook, IrqPending, IrqStore,
       IrqComplete, IrqAdvance, caller, dev, history, Quiet
  <2>2. /\ DeviceRing' /\ (Rebuilding' <=> Rebuilding)
        /\ (ready \/ Rebuilding \/ pc \in {"enable", "idle"})'
    BY <2>1 DEF DeviceRing, Rebuilding
  <2>3. ~spoiled => ~Rebuilding /\ pc # "enable" /\ ready
    BY <2>1 DEF RebuiltInv
  <2>4. ~spoiled => RebuiltInv'
    BY <2>1, <2>3 DEF RebuiltInv, Rebuilding
  <2>5. ASSUME ~spoiled
        PROVE  /\ DriverBehind'
               /\ Busy' => cqes[cqHead'].phase = cqPhase'
               /\ Quiet' => cqes[cqHead'].phase # cqPhase'
    <3>1. CASE IrqEnter
      <4>1. irqPc' = "look" /\ UNCHANGED <<cqHead, cqPhase>>
        BY <2>3, <2>5, <3>1 DEF IrqEnter, ring
      <4> QED
        BY <2>1, <2>3, <2>5, <4>1 DEF DriverBehind, Quiet
    <3>2. CASE IrqLook
      <4>1. /\ UNCHANGED <<cqHead, cqPhase>>
            /\ \/ cqes[cqHead].phase = cqPhase /\ irqPc' = "pending"
               \/ cqes[cqHead].phase # cqPhase /\ irqPc' = "idle"
        BY <3>2 DEF IrqLook, ring
      <4> QED
        BY <2>1, <2>3, <2>5, <4>1 DEF DriverBehind, Quiet
    <3>3. CASE IrqPending \/ IrqStore \/ IrqComplete
      <4>1. UNCHANGED <<cqHead, cqPhase>> /\ Busy /\ irqPc' # "idle"
        BY <3>3 DEF IrqPending, IrqStore, IrqComplete, ring
      <4> QED
        BY <2>1, <2>3, <2>5, <4>1 DEF DriverBehind, Quiet
    <3>4. CASE IrqAdvance
      <4>1. irqPc' = "look"
        BY <3>4 DEF IrqAdvance
      <4> QED
        BY <2>3, <2>5, <3>4, <4>1, RingAdvances DEF Quiet
    <3> QED
      BY <1>7, <3>1, <3>2, <3>3, <3>4 DEF DrainAdminCq
  <2> QED
    BY <1>0, <2>1, <2>2, <2>4, <2>5
<1>8. CASE ResetClear
  <2>1. /\ pc' = "head" /\ spoiled' = ~Quiet
        /\ cqes' = [i \in Slots |-> ZeroCompletion]
        /\ UNCHANGED <<irqPc, irqPending, ready>> /\ pc = "idle"
    BY <1>8 DEF ResetClear, irq, dev
  <2>2. Rebuilding' /\ DeviceRing' /\ (Quiet' <=> Quiet)
    BY <2>1 DEF Rebuilding, DeviceRing, ZeroCompletion, Quiet
  <2>3. ~spoiled' => RebuiltInv'
    BY <2>1, <2>2 DEF RebuiltInv
  <2> QED
    BY <1>0, <2>1, <2>2, <2>3
<1>9. CASE ResetHead \/ ResetPhase
  <2>1. /\ Rebuilding /\ Rebuilding' /\ UNCHANGED <<cqes, ready, spoiled>>
        /\ UNCHANGED <<irqPc, irqPending>>
        /\ pc' = "phase" => cqHead' = 0
        /\ pc' = "reset" => cqHead' = cqHead /\ cqPhase' = 1 /\ pc = "phase"
        /\ pc # "enable"
    BY <1>9 DEF ResetHead, ResetPhase, Rebuilding, dev, irq, history
  <2>2. DeviceRing' /\ (Quiet' <=> Quiet)
    BY <2>1 DEF DeviceRing, Quiet
  <2>3. ~spoiled => RebuiltInv'
    BY <2>1, <2>2 DEF RebuiltInv
  <2> QED
    BY <1>0, <2>1, <2>2, <2>3
<1>10. CASE ResetRegister
  <2>1. /\ pc = "reset" /\ pc' = "enable" /\ devCqTail' = 0 /\ devPhase' = 1
        /\ UNCHANGED <<cqes, cqHead, cqPhase, spoiled, irqPc, irqPending>>
    BY <1>10 DEF ResetRegister, ring, irq
  <2>2. \A i \in Slots : cqes[i].phase = 0
    BY <2>1 DEF DeviceRing, Rebuilding
  <2>3. DeviceRing' /\ ~Rebuilding' /\ (Quiet' <=> Quiet) /\ Rebuilding
    BY <2>1, <2>2 DEF DeviceRing, Rebuilding, Quiet, Slots
  <2>4. ASSUME ~spoiled
        PROVE  /\ RebuiltInv' /\ DriverBehind' /\ Quiet
               /\ cqes[cqHead].phase # cqPhase
    <3>1. Quiet /\ cqHead = 0 /\ cqPhase = 1 /\ 0 \in Slots
      BY <2>1, <2>3, <2>4, AdminDepthAssumption DEF RebuiltInv, Slots
    <3> QED
      BY <2>1, <2>2, <2>3, <3>1 DEF RebuiltInv, DriverBehind
  <2> QED
    BY <1>0, <2>1, <2>3, <2>4 DEF Quiet
<1>11. CASE EnableRegister
  <2>1. /\ pc = "enable"
        /\ (pc' = "create" /\ ready') \/ (pc' = "idle" /\ ~ready')
        /\ UNCHANGED <<cqes, cqHead, cqPhase, spoiled, irqPc, irqPending>>
        /\ UNCHANGED <<devCqTail, devPhase, heard>>
    BY <1>11 DEF EnableRegister, ring, irq, history
  <2>2. /\ ~Rebuilding /\ ~Rebuilding' /\ (Quiet' <=> Quiet) /\ RebuiltInv'
        /\ (DriverBehind' <=> DriverBehind)
    BY <2>1 DEF Rebuilding, Quiet, RebuiltInv, DriverBehind
  <2>3. DeviceRing'
    BY <2>1, <2>2 DEF DeviceRing
  <2>4. ~spoiled => Quiet
    BY <2>1 DEF RebuiltInv
  <2> QED
    BY <1>0, <2>1, <2>2, <2>3, <2>4
<1>12. CASE UNCHANGED vars
  <2>1. /\ UNCHANGED <<pc, cqHead, cqPhase, cqes, devCqTail, devPhase>>
        /\ UNCHANGED <<ready, heard, spoiled, irqPc, irqPending>>
    BY <1>12 DEF vars, caller, ring, dev, irq, history
  <2>2. /\ (DeviceRing' <=> DeviceRing) /\ (RebuiltInv' <=> RebuiltInv)
        /\ (DriverBehind' <=> DriverBehind) /\ (Quiet' <=> Quiet)
        /\ (Rebuilding' <=> Rebuilding)
    BY <2>1 DEF DeviceRing, RebuiltInv, DriverBehind, Quiet, Rebuilding
  <2> QED
    BY <1>0, <2>1, <2>2
<1> QED
  BY <1>2, <1>3, <1>4, <1>5, <1>6, <1>7, <1>8, <1>9, <1>10, <1>11, <1>12
  DEF Next, AdminCommand, ResetAdmin

(* After a delivered interrupt has been served, driver and controller      *)
(* agree on the slot and the phase of the next completion, for every depth *)
(* and whatever was lost before.                                           *)
THEOREM AdminRingsAgree == Spec => []CompletionRingsAgree
<1>1. ASSUME RingInv PROVE CompletionRingsAgree
  <2> SUFFICES ASSUME pc \in {"idle", "create"}, Quiet, heard, ~spoiled
               PROVE  cqHead = devCqTail /\ cqPhase = devPhase
    BY DEF CompletionRingsAgree
  <2>1. DriverBehind /\ cqes[cqHead].phase # cqPhase
    BY <1>1 DEF RingInv, Rebuilding
  <2>2. /\ devCqTail \in Slots /\ cqHead \in Slots
        /\ devPhase \in Phases /\ cqPhase \in Phases
    BY <1>1 DEF RingInv, AdminInv, TypeOK
  <2>3. cqes[cqHead].phase = IF cqHead < devCqTail THEN devPhase
                             ELSE 1 - devPhase
    BY <1>1, <2>2 DEF RingInv, DeviceRing, Rebuilding
  <2> QED
    BY <2>1, <2>2, <2>3 DEF DriverBehind, Slots, Phases
<1>2. RingInv => CompletionRingsAgree
  BY <1>1
<1> QED
  BY <1>2, RingInit, RingStep, PTL DEF Spec
=============================================================================

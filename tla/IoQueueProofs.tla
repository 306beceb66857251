--------------------------- MODULE IoQueueProofs ---------------------------
(***************************************************************************)
(* Theorems about IoQueue for every ring depth, every set of request       *)
(* shapes, any number of lost interrupts, late interrupts and failing      *)
(* recoveries.  The ownership of a request (OwnershipInv) never depends on *)
(* what the rings contain; what they contain (RingsInv) is described on    *)
(* top of it, and last what they contain when interrupts are never late    *)
(* (PromptInv).                                                            *)
(***************************************************************************)
EXTENDS IoQueue, FiniteSetTheorems, TLAPS

(* While queue_rq() works on a request nothing is recorded in nr_mapped,   *)
(* and a request it will turn away has nothing mapped.                     *)
AllocAccounted ==
    \A t \in Tags : blk[t] = "alloc" =>
        nrMapped[t] = 0 /\ (Rejected(t, shape[t]) => mapped[t] = 0)

(* The worker waits for requests to drain only behind a frozen queue.      *)
DrainsFrozen == wpc = "freezing" => frozen

(* The inductive invariant.  TypeOK needs the others: mapped - nr_mapped   *)
(* is a natural number only because teardown releases what was recorded.   *)
OwnershipInv ==
    /\ TypeOK
    /\ StartedHasOneOwner
    /\ MappingsAccounted
    /\ AllocAccounted
    /\ DrainsFrozen
    /\ RebuildIsExclusive

-----------------------------------------------------------------------------
(* Ring arithmetic stays in the ring.                                      *)
LEMMA RingSuccessor == \A i \in Slots : (i + 1) % Depth \in Slots
BY DepthAssumption DEF Slots

(* Every shape a tag can carry is a well-formed shape.                     *)
LEMMA ShapeOfTag ==
    ASSUME TypeOK, NEW t \in Tags
    PROVE  shape[t] \in Shape /\ Segments(shape[t]) \in Nat
<1>1. NoRequest \in Shape
  BY DEF NoRequest, Shape, Ops
<1>2. shape[t] \in Shape
  BY <1>1, ShapesAssumption DEF TypeOK, BlkType
<1> QED
  BY <1>2 DEF Segments, Shape

(* The two values a reset and CREATE_IOQ give the controller's queue.      *)
LEMMA QueueStates ==
    ResetQueue \in DeviceQueue /\ CreatedQueue \in DeviceQueue
<1>1. 0 \in Slots
  BY DepthAssumption DEF Slots
<1> QED
  BY <1>1 DEF ResetQueue, CreatedQueue, DeviceQueue, Phases

(* What probe() leaves behind satisfies the inductive invariant.           *)
LEMMA OwnershipInit == Init => OwnershipInv
<1> SUFFICES ASSUME Init PROVE OwnershipInv
  OBVIOUS
<1>1. 0 \in Tags /\ 0 \in Slots
  BY DepthAssumption DEF Tags, Slots
<1>2. ZeroCommand \in Command /\ ZeroCompletion \in Completion
  BY <1>1 DEF ZeroCommand, ZeroCompletion, Command, Completion, Phases,
     Statuses
<1>3. CreatedQueue \in DeviceQueue
  BY QueueStates
<1>4. BlkType /\ RequestType
  BY DEF Init, BlkType, RequestType
<1>5. RingType /\ DeviceType
  BY <1>1, <1>2, <1>3 DEF Init, RingType, DeviceType, Phases
<1>6. IrqType
  <2>1. 0 \in 0 .. MaxLost
    BY BoundsAssumption
  <2> QED
    BY <1>1, <2>1 DEF Init, IrqType, IrqPcs
<1>7. WorkType /\ HistoryType
  BY DEF Init, WorkType, WorkPcs, HistoryType
<1>8. TypeOK
  BY <1>4, <1>5, <1>6, <1>7 DEF TypeOK
<1> QED
  BY <1>8 DEF Init, OwnershipInv, StartedHasOneOwner, MappingsAccounted,
     AllocAccounted, DrainsFrozen, RebuildIsExclusive
(* One step preserves the types.  Only the release of mappings needs more  *)
(* than the types themselves.                                              *)
LEMMA TypeStep ==
    ASSUME OwnershipInv, Next
    PROVE  TypeOK'
<1> TypeOK /\ StartedHasOneOwner /\ MappingsAccounted
  BY DEF OwnershipInv
<1> USE DEF TypeOK
<1>1. ASSUME NEW t \in Tags, NEW s \in Shapes, BlkAlloc(t, s)
      PROVE  TypeOK'
  BY <1>1 DEF BlkAlloc, BlkType, RequestType, RingType, DeviceType, IrqType,
     WorkType, HistoryType, blkVars, requestVars, ringVars, devVars, irqVars,
     workVars, history
<1>2. ASSUME NEW t \in Tags, QueueRqReject(t)
      PROVE  TypeOK'
  BY <1>2 DEF QueueRqReject, BlkType, RequestType, RingType, DeviceType,
     IrqType, WorkType, HistoryType, blkVars, requestVars, ringVars, devVars,
     irqVars, workVars, history, EndRequest
<1>3. ASSUME NEW t \in Tags, QueueRqMapSegment(t)
      PROVE  TypeOK'
  BY <1>3 DEF QueueRqMapSegment, BlkType, RequestType, RingType, DeviceType,
     IrqType, WorkType, HistoryType, blkVars, requestVars, ringVars, devVars,
     irqVars, workVars, history
<1>4. ASSUME NEW t \in Tags, QueueRqMapError(t)
      PROVE  TypeOK'
  BY <1>4 DEF QueueRqMapError, Unmap, BlkType, RequestType, RingType,
     DeviceType, IrqType, WorkType, HistoryType, blkVars, requestVars,
     ringVars, devVars, irqVars, workVars, history
<1>5. ASSUME NEW t \in Tags, QueueRqPublish(t)
      PROVE  TypeOK'
  <2>1. BlkType'
    BY <1>5 DEF QueueRqPublish, BlkType, blkVars, EndRequest
  <2>2. RequestType'
    <3>1. rq' \in [Tags -> BOOLEAN]
      BY <1>5 DEF QueueRqPublish, Unmap, RequestType
    <3>2. nrMapped' \in [Tags -> Nat]
      BY <1>5 DEF QueueRqPublish, Unmap, RequestType
    <3>3. mapped' \in [Tags -> Nat]
      BY <1>5 DEF QueueRqPublish, Unmap, RequestType
    <3> QED
      BY <3>1, <3>2, <3>3 DEF RequestType
  <2>3. [cid |-> t + 1, op |-> shape[t].op, flags |-> {}] \in Command
    BY ShapeOfTag, DepthAssumption DEF Command, Shape, Tags, Slots
  <2>4. [cid |-> t + 1, op |-> shape[t].op,
           flags |-> CommandFlags(shape[t])] \in Command
    BY ShapeOfTag, DepthAssumption DEF Command, Shape, Tags, Slots,
       CommandFlags
  <2>5. RingType'
    BY <1>5, <2>3, <2>4 DEF QueueRqPublish, RingType, ringVars
  <2>6. HistoryType'
    BY <1>5 DEF QueueRqPublish, HistoryType, history, EndRequest
  <2> QED
    BY <1>5, <2>1, <2>2, <2>3, <2>4, <2>5, <2>6 DEF QueueRqPublish,
       DeviceType, IrqType, WorkType, blkVars, requestVars, ringVars,
       devVars, irqVars, workVars, history
<1>6. ASSUME NEW t \in Tags, Timeout(t)
      PROVE  TypeOK'
  BY <1>6 DEF Timeout, BlkType, RequestType, RingType, DeviceType, IrqType,
     WorkType, HistoryType, blkVars, requestVars, ringVars, devVars, irqVars,
     workVars, history, WorkPcs
<1>7. ASSUME QueueRqDoorbell
      PROVE  TypeOK'
  BY <1>7, RingSuccessor DEF QueueRqDoorbell, BlkType, RequestType, RingType,
     DeviceType, IrqType, WorkType, HistoryType, blkVars, requestVars,
     ringVars, devVars, irqVars, workVars, history
<1>8. ASSUME DevExecute
      PROVE  TypeOK'
  <2>1. PICK status \in Outcomes(sq[dq.sq_head]) :
         DevExecute!2!(status)
    BY <1>8 DEF DevExecute
  <2>2. sq[dq.sq_head] \in Command /\ status \in Statuses
    BY DEF RingType, DeviceType, DeviceQueue, Outcomes, Statuses
  <2>3. dq.cq_phase \in Phases /\ 1 - dq.cq_phase \in Phases
    BY DEF DeviceType, DeviceQueue, Phases
  <2>4. RingType'
    BY <1>8, <2>1, <2>2, <2>3 DEF DevExecute, RingType, Command, Completion,
       ringVars, DeviceType, DeviceQueue
  <2>5. DeviceType'
    BY <1>8, <2>1, <2>3, RingSuccessor DEF DevExecute, DeviceType,
       DeviceQueue
  <2>6. HistoryType'
    BY <1>8, <2>1, <2>2 DEF DevExecute, HistoryType, UndurableAfter
  <2> QED
    BY <1>8, <2>1, <2>2, <2>3, <2>4, <2>5, <2>6 DEF DevExecute, BlkType,
       RequestType, IrqType, WorkType, blkVars, requestVars, ringVars,
       devVars, irqVars, workVars, history
<1>9. ASSUME DevNotify
      PROVE  TypeOK'
  BY <1>9 DEF DevNotify, BlkType, RequestType, RingType, DeviceType, IrqType,
     WorkType, HistoryType, blkVars, requestVars, ringVars, devVars, irqVars,
     workVars, history
<1>10. ASSUME LoseInterrupt
      PROVE  TypeOK'
  BY <1>10, BoundsAssumption DEF LoseInterrupt, BlkType, RequestType,
     RingType, DeviceType, IrqType, WorkType, HistoryType, blkVars,
     requestVars, ringVars, devVars, irqVars, workVars, history
<1>11. ASSUME IrqEnter
      PROVE  TypeOK'
  BY <1>11 DEF IrqEnter, BlkType, RequestType, RingType, DeviceType, IrqType,
     WorkType, HistoryType, blkVars, requestVars, ringVars, devVars, irqVars,
     workVars, history, IrqPcs
<1>12. ASSUME IrqMatch
      PROVE  TypeOK'
  <2>1. cq[cqHead].cid \in 1 .. Depth - 1 => cq[cqHead].cid - 1 \in Tags
    BY DepthAssumption DEF Tags
  <2>2. IrqType'
    BY <1>12, <2>1 DEF IrqMatch, IrqType, IrqPcs
  <2> QED
    BY <1>12, <2>1, <2>2 DEF IrqMatch, BlkType, RequestType, RingType,
       DeviceType, WorkType, HistoryType, blkVars, requestVars, ringVars,
       devVars, irqVars, workVars, history
<1>13. ASSUME IrqExit
      PROVE  TypeOK'
  <2>1. DeviceType'
    BY <1>13 DEF IrqExit, DeviceType, RingType, DeviceQueue
  <2>2. IrqType'
    BY <1>13 DEF IrqExit, IrqType, IrqPcs
  <2> QED
    BY <1>13, <2>1, <2>2 DEF IrqExit, BlkType, RequestType, RingType,
       WorkType, HistoryType, blkVars, requestVars, ringVars, devVars,
       irqVars, workVars, history
<1>14. ASSUME IrqTake
      PROVE  TypeOK'
  BY <1>14 DEF IrqTake, BlkType, RequestType, RingType, DeviceType, IrqType,
     WorkType, HistoryType, blkVars, requestVars, ringVars, devVars, irqVars,
     workVars, history, IrqPcs
<1>15. ASSUME IrqEnd
      PROVE  TypeOK'
  <2>1. irqTag \in Tags
    BY DEF IrqType
  <2>2. mapped[irqTag] - nrMapped[irqTag] = 0
    BY <1>15, <2>1 DEF IrqEnd, StartedHasOneOwner, MappingsAccounted,
       RequestType
  <2>3. RequestType'
    BY <1>15, <2>1, <2>2 DEF IrqEnd, RequestType
  <2>4. BlkType'
    BY <1>15, <2>1 DEF IrqEnd, BlkType, EndRequest
  <2>5. IrqType'
    BY <1>15 DEF IrqEnd, IrqType, IrqPcs
  <2>6. HistoryType'
    BY <1>15, <2>1 DEF IrqEnd, HistoryType, EndRequest
  <2> QED
    BY <1>15, <2>1, <2>2, <2>3, <2>4, <2>5, <2>6 DEF IrqEnd, RingType,
       DeviceType, WorkType, blkVars, requestVars, ringVars, devVars,
       irqVars, workVars, history
<1>16. ASSUME IrqAdvance
      PROVE  TypeOK'
  <2>1. 0 \in Tags
    BY DepthAssumption DEF Tags
  <2>2. RingType'
    BY <1>16, RingSuccessor DEF IrqAdvance, RingType, Phases
  <2>3. IrqType'
    BY <1>16, <2>1 DEF IrqAdvance, IrqType, IrqPcs
  <2> QED
    BY <1>16, <2>1, <2>2, <2>3 DEF IrqAdvance, BlkType, RequestType,
       DeviceType, WorkType, HistoryType, blkVars, requestVars, ringVars,
       devVars, irqVars, workVars, history
<1>17. ASSUME WorkFreeze
      PROVE  TypeOK'
  BY <1>17 DEF WorkFreeze, BlkType, RequestType, RingType, DeviceType,
     IrqType, WorkType, HistoryType, blkVars, requestVars, ringVars, devVars,
     irqVars, workVars, history, WorkPcs
<1>18. ASSUME WorkFrozen
      PROVE  TypeOK'
  BY <1>18 DEF WorkFrozen, BlkType, RequestType, RingType, DeviceType,
     IrqType, WorkType, HistoryType, blkVars, requestVars, ringVars, devVars,
     irqVars, workVars, history, WorkPcs
<1>19. ASSUME FailIoRequests
      PROVE  TypeOK'
  <2>1. \A t \in Tags : rq[t] => mapped[t] - nrMapped[t] = 0
    BY DEF StartedHasOneOwner, MappingsAccounted, RequestType
  <2>2. BlkType'
    BY <1>19 DEF FailIoRequests, BlkType
  <2>3. RequestType'
    BY <1>19, <2>1 DEF FailIoRequests, RequestType
  <2>4. WorkType'
    BY <1>19 DEF FailIoRequests, WorkType, WorkPcs
  <2>5. HistoryType'
    BY <1>19 DEF FailIoRequests, HistoryType
  <2> QED
    BY <1>19, <2>1, <2>2, <2>3, <2>4, <2>5 DEF FailIoRequests, RingType,
       DeviceType, IrqType, blkVars, requestVars, ringVars, devVars, irqVars,
       workVars, history
<1>20. ASSUME ClearRings
      PROVE  TypeOK'
  <2>1. ZeroCommand \in Command /\ ZeroCompletion \in Completion
    BY DepthAssumption DEF ZeroCommand, ZeroCompletion, Command, Completion,
       Phases, Statuses, Slots
  <2>2. RingType'
    BY <1>20, <2>1 DEF ClearRings, RingType, ringVars
  <2>3. WorkType'
    BY <1>20 DEF ClearRings, WorkType, WorkPcs
  <2> QED
    BY <1>20, <2>1, <2>2, <2>3 DEF ClearRings, BlkType, RequestType,
       DeviceType, IrqType, HistoryType, blkVars, requestVars, ringVars,
       devVars, irqVars, workVars, history
<1>21. ASSUME ResetHead
      PROVE  TypeOK'
  <2>1. 0 \in Slots
    BY DepthAssumption DEF Slots
  <2>2. RingType'
    BY <1>21, <2>1 DEF ResetHead, RingType
  <2>3. WorkType'
    BY <1>21 DEF ResetHead, WorkType, WorkPcs
  <2> QED
    BY <1>21, <2>1, <2>2, <2>3 DEF ResetHead, BlkType, RequestType,
       DeviceType, IrqType, HistoryType, blkVars, requestVars, ringVars,
       devVars, irqVars, workVars, history
<1>22. ASSUME ResetPhase
      PROVE  TypeOK'
  BY <1>22 DEF ResetPhase, BlkType, RequestType, RingType, DeviceType,
     IrqType, WorkType, HistoryType, blkVars, requestVars, ringVars, devVars,
     irqVars, workVars, history, WorkPcs, Phases
<1>23. ASSUME ResetRegister
      PROVE  TypeOK'
  <2>1. DeviceType'
    BY <1>23, QueueStates DEF ResetRegister, DeviceType
  <2>2. WorkType'
    BY <1>23 DEF ResetRegister, WorkType, WorkPcs
  <2> QED
    BY <1>23, <2>1, <2>2 DEF ResetRegister, BlkType, RequestType,
       RingType, IrqType, HistoryType, blkVars, requestVars, ringVars,
       devVars, irqVars, workVars, history
<1>24. ASSUME CreateIoQueue
      PROVE  TypeOK'
  <2>1. DeviceType'
    BY <1>24, QueueStates DEF CreateIoQueue, DeviceType
  <2>2. WorkType'
    BY <1>24 DEF CreateIoQueue, WorkType, WorkPcs
  <2> QED
    BY <1>24, <2>1, <2>2 DEF CreateIoQueue, BlkType, RequestType,
       RingType, IrqType, HistoryType, blkVars, requestVars, ringVars,
       devVars, irqVars, workVars, history
<1>25. ASSUME Unfreeze
      PROVE  TypeOK'
  BY <1>25 DEF Unfreeze, BlkType, RequestType, RingType, DeviceType, IrqType,
     WorkType, HistoryType, blkVars, requestVars, ringVars, devVars, irqVars,
     workVars, history, WorkPcs
<1>26. ASSUME ClearResetPending
      PROVE  TypeOK'
  BY <1>26 DEF ClearResetPending, BlkType, RequestType, RingType, DeviceType,
     IrqType, WorkType, HistoryType, blkVars, requestVars, ringVars, devVars,
     irqVars, workVars, history, WorkPcs
<1> QED
  BY <1>1, <1>2, <1>3, <1>4, <1>5, <1>6, <1>7, <1>8, <1>9, <1>10, <1>11,
     <1>12, <1>13, <1>14, <1>15, <1>16, <1>17, <1>18, <1>19, <1>20, <1>21,
     <1>22, <1>23, <1>24, <1>25, <1>26 DEF Next, QueueRq, Controller, IoIrq,
     ResetWork, ResetController

(* One step preserves the ownership of requests and their mappings.        *)
LEMMA OwnershipStep ==
    ASSUME OwnershipInv, Next
    PROVE  StartedHasOneOwner' /\ MappingsAccounted' /\ AllocAccounted'
<1> TypeOK /\ StartedHasOneOwner /\ MappingsAccounted /\ AllocAccounted
  BY DEF OwnershipInv
<1> USE DEF TypeOK, BlkType, RequestType, IrqType
<1> DEFINE Owned == StartedHasOneOwner /\ MappingsAccounted /\ AllocAccounted
<1>1. ASSUME NEW t \in Tags, NEW s \in Shapes, BlkAlloc(t, s)
      PROVE  Owned'
  BY <1>1 DEF BlkAlloc, StartedHasOneOwner, MappingsAccounted,
     AllocAccounted, blkVars, requestVars, irqVars
<1>2. ASSUME NEW t \in Tags, QueueRqReject(t)
      PROVE  Owned'
  BY <1>2 DEF QueueRqReject, StartedHasOneOwner, MappingsAccounted,
     AllocAccounted, blkVars, requestVars, irqVars, EndRequest
<1>3. ASSUME NEW t \in Tags, QueueRqMapSegment(t)
      PROVE  Owned'
  BY <1>3 DEF QueueRqMapSegment, StartedHasOneOwner, MappingsAccounted,
     AllocAccounted, blkVars, requestVars, irqVars
<1>4. ASSUME NEW t \in Tags, QueueRqMapError(t)
      PROVE  Owned'
  BY <1>4 DEF QueueRqMapError, Unmap, StartedHasOneOwner, MappingsAccounted,
     AllocAccounted, blkVars, requestVars, irqVars
<1>5. ASSUME NEW t \in Tags, QueueRqPublish(t)
      PROVE  Owned'
  BY <1>5 DEF QueueRqPublish, Unmap, StartedHasOneOwner, MappingsAccounted,
     AllocAccounted, blkVars, requestVars, irqVars, EndRequest
<1>6. ASSUME NEW t \in Tags, Timeout(t)
      PROVE  Owned'
  BY <1>6 DEF Timeout, StartedHasOneOwner, MappingsAccounted, AllocAccounted,
     blkVars, requestVars, irqVars
<1>7. ASSUME QueueRqDoorbell
      PROVE  Owned'
  BY <1>7 DEF QueueRqDoorbell, StartedHasOneOwner, MappingsAccounted,
     AllocAccounted, blkVars, requestVars, irqVars
<1>8. ASSUME DevExecute
      PROVE  Owned'
  BY <1>8 DEF DevExecute, StartedHasOneOwner, MappingsAccounted,
     AllocAccounted, blkVars, requestVars, irqVars
<1>9. ASSUME DevNotify
      PROVE  Owned'
  BY <1>9 DEF DevNotify, StartedHasOneOwner, MappingsAccounted,
     AllocAccounted, blkVars, requestVars, irqVars
<1>10. ASSUME LoseInterrupt
      PROVE  Owned'
  BY <1>10 DEF LoseInterrupt, StartedHasOneOwner, MappingsAccounted,
     AllocAccounted, blkVars, requestVars, irqVars
<1>11. ASSUME IrqEnter
      PROVE  Owned'
  BY <1>11 DEF IrqEnter, StartedHasOneOwner, MappingsAccounted,
     AllocAccounted, blkVars, requestVars, irqVars
<1>12. ASSUME IrqMatch
      PROVE  Owned'
  BY <1>12 DEF IrqMatch, StartedHasOneOwner, MappingsAccounted,
     AllocAccounted, blkVars, requestVars, irqVars
<1>13. ASSUME IrqExit
      PROVE  Owned'
  BY <1>13 DEF IrqExit, StartedHasOneOwner, MappingsAccounted,
     AllocAccounted, blkVars, requestVars, irqVars
<1>14. ASSUME IrqTake
      PROVE  Owned'
  BY <1>14 DEF IrqTake, StartedHasOneOwner, MappingsAccounted,
     AllocAccounted, blkVars, requestVars, irqVars
<1>15. ASSUME IrqEnd
      PROVE  Owned'
  BY <1>15 DEF IrqEnd, StartedHasOneOwner, MappingsAccounted, AllocAccounted,
     blkVars, requestVars, irqVars, EndRequest
<1>16. ASSUME IrqAdvance
      PROVE  Owned'
  BY <1>16 DEF IrqAdvance, StartedHasOneOwner, MappingsAccounted,
     AllocAccounted, blkVars, requestVars, irqVars
<1>17. ASSUME WorkFreeze
      PROVE  Owned'
  BY <1>17 DEF WorkFreeze, StartedHasOneOwner, MappingsAccounted,
     AllocAccounted, blkVars, requestVars, irqVars
<1>18. ASSUME WorkFrozen
      PROVE  Owned'
  BY <1>18 DEF WorkFrozen, StartedHasOneOwner, MappingsAccounted,
     AllocAccounted, blkVars, requestVars, irqVars
<1>19. ASSUME FailIoRequests
      PROVE  Owned'
  BY <1>19 DEF FailIoRequests, StartedHasOneOwner, MappingsAccounted,
     AllocAccounted, blkVars, requestVars, irqVars
<1>20. ASSUME ClearRings
      PROVE  Owned'
  BY <1>20 DEF ClearRings, StartedHasOneOwner, MappingsAccounted,
     AllocAccounted, blkVars, requestVars, irqVars
<1>21. ASSUME ResetHead
      PROVE  Owned'
  BY <1>21 DEF ResetHead, StartedHasOneOwner, MappingsAccounted,
     AllocAccounted, blkVars, requestVars, irqVars
<1>22. ASSUME ResetPhase
      PROVE  Owned'
  BY <1>22 DEF ResetPhase, StartedHasOneOwner, MappingsAccounted,
     AllocAccounted, blkVars, requestVars, irqVars
<1>23. ASSUME ResetRegister
      PROVE  Owned'
  BY <1>23 DEF ResetRegister, StartedHasOneOwner, MappingsAccounted,
     AllocAccounted, blkVars, requestVars, irqVars
<1>24. ASSUME CreateIoQueue
      PROVE  Owned'
  BY <1>24 DEF CreateIoQueue, StartedHasOneOwner, MappingsAccounted,
     AllocAccounted, blkVars, requestVars, irqVars
<1>25. ASSUME Unfreeze
      PROVE  Owned'
  BY <1>25 DEF Unfreeze, StartedHasOneOwner, MappingsAccounted,
     AllocAccounted, blkVars, requestVars, irqVars
<1>26. ASSUME ClearResetPending
      PROVE  Owned'
  BY <1>26 DEF ClearResetPending, StartedHasOneOwner, MappingsAccounted,
     AllocAccounted, blkVars, requestVars, irqVars
<1> QED
  BY <1>1, <1>2, <1>3, <1>4, <1>5, <1>6, <1>7, <1>8, <1>9, <1>10, <1>11,
     <1>12, <1>13, <1>14, <1>15, <1>16, <1>17, <1>18, <1>19, <1>20, <1>21,
     <1>22, <1>23, <1>24, <1>25, <1>26 DEF Next, QueueRq, Controller, IoIrq,
     ResetWork, ResetController

(* One step preserves the exclusive rebuild: no request enters a frozen    *)
(* queue, and only an idle tag can become anything but idle by entering.   *)
LEMMA RebuildStep ==
    ASSUME OwnershipInv, Next
    PROVE  DrainsFrozen' /\ RebuildIsExclusive'
<1> BlkType /\ DrainsFrozen /\ RebuildIsExclusive
  BY DEF OwnershipInv, TypeOK
<1> USE DEF DrainsFrozen, RebuildIsExclusive, BlkType
<1> DEFINE Exclusive == DrainsFrozen /\ RebuildIsExclusive
<1>1. ASSUME NEW t \in Tags, NEW s \in Shapes, BlkAlloc(t, s)
      PROVE  Exclusive'
  BY <1>1 DEF BlkAlloc, workVars
<1>2. ASSUME NEW t \in Tags, QueueRqReject(t)
      PROVE  Exclusive'
  BY <1>2 DEF QueueRqReject, EndRequest, workVars
<1>3. ASSUME NEW t \in Tags, QueueRqMapSegment(t) \/ QueueRqMapError(t)
      PROVE  Exclusive'
  BY <1>3 DEF QueueRqMapSegment, QueueRqMapError, workVars, blkVars
<1>4. ASSUME NEW t \in Tags, QueueRqPublish(t)
      PROVE  Exclusive'
  BY <1>4 DEF QueueRqPublish, EndRequest, workVars, blkVars
<1>5. ASSUME NEW t \in Tags, Timeout(t)
      PROVE  Exclusive'
  BY <1>5 DEF Timeout
<1>6. ASSUME QueueRqDoorbell \/ Controller
      PROVE  Exclusive'
  BY <1>6 DEF QueueRqDoorbell, Controller, DevExecute, DevNotify,
     LoseInterrupt, workVars, blkVars
<1>7. ASSUME IrqEnter \/ IrqMatch \/ IrqExit \/ IrqTake \/ IrqAdvance
      PROVE  Exclusive'
  BY <1>7 DEF IrqEnter, IrqMatch, IrqExit, IrqTake, IrqAdvance, workVars,
     blkVars
<1>8. ASSUME IrqEnd
      PROVE  Exclusive'
  BY <1>8 DEF IrqEnd, EndRequest, workVars
<1>9. ASSUME WorkFreeze \/ WorkFrozen \/ FailIoRequests
      PROVE  Exclusive'
  BY <1>9 DEF WorkFreeze, WorkFrozen, FailIoRequests, blkVars
<1>10. ASSUME ResetController
       PROVE  Exclusive'
  BY <1>10 DEF ResetController, ClearRings, ResetHead, ResetPhase,
     ResetRegister, CreateIoQueue, blkVars
<1>11. ASSUME Unfreeze \/ ClearResetPending
       PROVE  Exclusive'
  BY <1>11 DEF Unfreeze, ClearResetPending, blkVars
<1> QED
  BY <1>1, <1>2, <1>3, <1>4, <1>5, <1>6, <1>7, <1>8, <1>9, <1>10, <1>11
  DEF Next, QueueRq, IoIrq, ResetWork

-----------------------------------------------------------------------------
(* A step that changes nothing keeps the invariant.                        *)
LEMMA OwnershipStutter == OwnershipInv /\ UNCHANGED vars => OwnershipInv'
BY DEF OwnershipInv, TypeOK, BlkType, RequestType, RingType, DeviceType,
   IrqType, WorkType, HistoryType, StartedHasOneOwner, MappingsAccounted,
   AllocAccounted, DrainsFrozen, RebuildIsExclusive, vars, blkVars,
   requestVars, ringVars, devVars, irqVars, workVars, history

(* The inductive invariant holds in every behaviour of the specification.  *)
LEMMA OwnershipInvariant == Spec => []OwnershipInv
<1>1. OwnershipInv /\ [Next]_vars => OwnershipInv'
  BY OwnershipStutter, TypeStep, OwnershipStep, RebuildStep DEF OwnershipInv
<1> QED
  BY OwnershipInit, <1>1, PTL DEF Spec

(* Type correctness of the whole I/O path, for every ring depth.           *)
THEOREM TypeCorrect == Spec => []TypeOK
BY OwnershipInvariant, PTL DEF OwnershipInv

(* A started request is owned either by its slot in requests[] or by the   *)
(* running handler, never by both and never by nobody: io_irq() and        *)
(* fail_io_requests() end every request at most once, and the xchg() is    *)
(* what makes it so, whatever the completion queue contains.               *)
THEOREM OneOwner == Spec => []StartedHasOneOwner
BY OwnershipInvariant, PTL DEF OwnershipInv

(* Every DMA mapping is released exactly once: a free tag has none left,   *)
(* an in-flight request has exactly what nr_mapped records.                *)
THEOREM NoMappingLeak == Spec => []MappingsAccounted
BY OwnershipInvariant, PTL DEF OwnershipInv

(* The rings are cleared and the controller is reset only while the queue  *)
(* is frozen and empty, however many timeouts and interrupts race with it. *)
THEOREM ExclusiveRebuild == Spec => []RebuildIsExclusive
BY OwnershipInvariant, PTL DEF OwnershipInv

-----------------------------------------------------------------------------
(* What the rings contain.                                                 *)

(* A request that was published and not executed yet.                      *)
Fresh(t) == /\ rq[t] /\ blk[t] = "started" /\ exec[t] = None
            /\ mapped[t] = Segments(shape[t])

(* The submission ring: sq_lock is held from the descriptor to the end of  *)
(* the doorbell, so that the controller, whose head is the driver's tail   *)
(* in between, never has more than one command to fetch.                   *)
SubmissionInv ==
    /\ dq.enabled => ready
    /\ devTail # Nil => lock # Nil /\ dq.enabled
    /\ lock # Nil /\ devTail = Nil =>
          Fresh(lock) /\ sq[sqTail].cid = lock + 1
    /\ devTail # Nil /\ dq.sq_head # devTail =>
          /\ Fresh(lock) /\ sq[dq.sq_head].cid = lock + 1
          /\ (dq.sq_head + 1) % Depth = devTail
    /\ dq.enabled /\ wpc \notin {"phase", "reset"} =>
          sqTail = IF devTail = Nil THEN dq.sq_head ELSE devTail
    /\ wpc \in {"phase", "reset", "create"} => sqTail = 0
    /\ wpc = "create" => ready /\ ~dq.enabled

(* The completion ring is empty from memset() to the next CREATE_IOQ.      *)
Cleared == wpc \in {"head", "phase", "reset"} \/ ~dq.enabled

(* Otherwise the controller's phase is before its tail and the other one   *)
(* from there on; what it has not reached in its first turn is zero.       *)
PostedInv ==
    IF Cleared THEN \A i \in Slots : cq[i] = ZeroCompletion
    ELSE /\ \A i \in Slots : cq[i].phase = IF i < dq.cq_tail THEN dq.cq_phase
                                           ELSE 1 - dq.cq_phase
         /\ \/ /\ dq.cq_phase = 1
               /\ \A i \in Slots : cq[i].cid = 0 <=> i >= dq.cq_tail
            \/ \A i \in Slots : cq[i].cid # 0

(* The handler will not accept the entry of slot i again before the        *)
(* controller has written it: it is done with it, or about to step on.     *)
Stale(i) == IF i = cqHead /\ irqPc = "advance" THEN cq[i].phase = cqPhase
            ELSE cq[i].phase # ExpectedPhase(i)

(* Every other entry tells what was executed for a request that has not    *)
(* ended, and no two of them are for the same request.                     *)
CompletionInv ==
    /\ \A t \in Tags : exec[t] # None => blk[t] = "started"
    /\ \A i \in Slots, t \in Tags : cq[i].cid = t + 1 =>
          Stale(i) \/ exec[t] = cq[i].status
    /\ \A i, j \in Slots : i # j /\ cq[i].cid = cq[j].cid =>
          cq[i].cid = 0 \/ Stale(i) \/ Stale(j)
    /\ irqPc \in {"take", "end"} =>
          /\ cq[cqHead].cid = irqTag + 1 /\ cq[cqHead].phase = cqPhase
          /\ exec[irqTag] = cq[cqHead].status

RingsInv == OwnershipInv /\ SubmissionInv /\ PostedInv /\ CompletionInv


-----------------------------------------------------------------------------
(* The rings of a driver that has just been probed.                        *)
LEMMA RingsInit == Init => RingsInv
<1> SUFFICES ASSUME Init PROVE RingsInv
  OBVIOUS
<1>1. OwnershipInv
  BY OwnershipInit
<1>2. SubmissionInv
  BY DEF Init, SubmissionInv, CreatedQueue, ResetQueue
<1>3. ~Cleared
  BY DEF Init, Cleared, CreatedQueue, ResetQueue
<1>4. PostedInv
  BY <1>3, DepthAssumption DEF Init, PostedInv, CreatedQueue, ResetQueue,
     ZeroCompletion, Slots
<1>5. CompletionInv
  BY DEF Init, CompletionInv, ZeroCompletion, Tags
<1> QED
  BY <1>1, <1>2, <1>4, <1>5 DEF RingsInv

(* A request that the handler holds or has matched was executed, so that   *)
(* it is not the one being published; and while the worker rebuilds the    *)
(* rings, nothing is in flight.                                            *)
LEMMA FreshIsNotMatched ==
    ASSUME RingsInv
    PROVE  /\ irqPc \in {"take", "end"} =>
                ~Fresh(irqTag) /\ blk[irqTag] = "started"
           /\ wpc \in {"fail", "clear", "head", "phase", "reset", "create",
                       "unfreeze"} =>
                 /\ \A t \in Tags : /\ blk[t] # "started" /\ ~Fresh(t)
                                    /\ ~rq[t] /\ exec[t] = None
                 /\ irqPc \notin {"take", "end"}
<1> TypeOK /\ StartedHasOneOwner /\ RebuildIsExclusive /\ CompletionInv
  BY DEF RingsInv, OwnershipInv
<1>1. ASSUME irqPc \in {"take", "end"}
      PROVE  exec[irqTag] # None /\ blk[irqTag] = "started"
  <2>1. cq[cqHead].status \in Statuses /\ irqTag \in Tags
    BY DEF TypeOK, RingType, IrqType, Completion
  <2>2. exec[irqTag] # None
    BY <1>1, <2>1 DEF CompletionInv, Statuses, None
  <2> QED
    BY <2>1, <2>2 DEF CompletionInv
<1>2. irqTag \in Tags
  BY DEF TypeOK, IrqType
<1>3. ASSUME wpc \in {"fail", "clear", "head", "phase", "reset", "create",
                      "unfreeze"}
      PROVE  \A t \in Tags : blk[t] # "started"
  BY <1>3 DEF RebuildIsExclusive
<1> QED
  BY <1>1, <1>2, <1>3 DEF CompletionInv, StartedHasOneOwner, Fresh

(* One step keeps the submission ring in order.                            *)
LEMMA SubmissionStep ==
    ASSUME RingsInv, Next
    PROVE  SubmissionInv'
<1> TypeOK /\ SubmissionInv /\ CompletionInv
  BY DEF RingsInv, OwnershipInv
<1> USE FreshIsNotMatched
<1>n. Nil \notin Tags /\ Nil \notin Slots /\ irqTag \in Tags
      /\ lock \in Tags \cup {Nil}
  BY DepthAssumption DEF Nil, Tags, Slots, TypeOK, IrqType, RingType
<1>1. ASSUME NEW t \in Tags, NEW s \in Shapes, BlkAlloc(t, s)
      PROVE  SubmissionInv'
  BY <1>1, <1>n DEF BlkAlloc, SubmissionInv, Fresh, requestVars, ringVars,
     devVars, workVars, history, TypeOK, BlkType
<1>2. ASSUME NEW t \in Tags, QueueRqReject(t)
      PROVE  SubmissionInv'
  BY <1>2, <1>n DEF QueueRqReject, EndRequest, SubmissionInv, Fresh,
     requestVars, ringVars, devVars, workVars, TypeOK, BlkType, HistoryType
<1>3. ASSUME NEW t \in Tags, QueueRqMapSegment(t) \/ QueueRqMapError(t)
      PROVE  SubmissionInv'
  BY <1>3, <1>n DEF QueueRqMapSegment, QueueRqMapError, Unmap, SubmissionInv,
     Fresh, blkVars, ringVars, devVars, workVars, history, TypeOK,
     RequestType
<1>4. ASSUME NEW t \in Tags, QueueRqPublish(t)
      PROVE  SubmissionInv'
  <2>1. exec[t] = None /\ devTail = Nil
    BY <1>4 DEF QueueRqPublish, CompletionInv, SubmissionInv
  <2>2. lock' = Nil \/ (lock' = t /\ Fresh(t)' /\ sq'[sqTail].cid = t + 1)
    BY <1>4, <2>1, <1>n DEF QueueRqPublish, Fresh, history, TypeOK,
       RequestType, BlkType, RingType
  <2>3. UNCHANGED <<sqTail, dq, ready, devTail, wpc>>
    BY <1>4 DEF QueueRqPublish, ringVars, devVars, workVars
  <2> QED
    BY <2>1, <2>2, <2>3 DEF SubmissionInv
<1>5. ASSUME NEW t \in Tags, Timeout(t)
      PROVE  SubmissionInv'
  <2>1. wpc \notin {"phase", "reset", "create"}
    BY <1>5 DEF Timeout
  <2> QED
    BY <1>5, <2>1 DEF Timeout, SubmissionInv, Fresh, requestVars, ringVars,
       devVars, history
<1>6. ASSUME QueueRqDoorbell
      PROVE  SubmissionInv'
  <2>1. Fresh(lock) /\ sq[sqTail].cid = lock + 1 /\ lock \in Tags
    BY <1>6, <1>n DEF QueueRqDoorbell, SubmissionInv
  <2>2. wpc \notin {"phase", "reset", "create"}
    BY <2>1
  <2>3. sqTail' \in Slots
    BY <1>6, RingSuccessor DEF QueueRqDoorbell, TypeOK, RingType
  <2>4. dq.enabled \in BOOLEAN /\ ready \in BOOLEAN
    BY DEF TypeOK, DeviceType, DeviceQueue
  <2>5. CASE ready /\ dq.enabled
    <3>1. sqTail = dq.sq_head /\ devTail' = sqTail' /\ lock' = lock
      BY <1>6, <2>2, <2>5 DEF QueueRqDoorbell, SubmissionInv
    <3>2. Fresh(lock)'
      BY <1>6, <2>1, <3>1 DEF QueueRqDoorbell, Fresh, blkVars, requestVars,
         history
    <3> QED
      BY <1>6, <1>n, <2>1, <2>2, <2>3, <2>5, <3>1, <3>2 DEF QueueRqDoorbell,
         SubmissionInv, workVars
  <2>6. CASE ~(ready /\ dq.enabled)
    <3>1. ~dq.enabled /\ lock' = Nil /\ devTail' = Nil
      BY <1>6, <2>4, <2>6 DEF QueueRqDoorbell, SubmissionInv
    <3> QED
      BY <1>6, <2>2, <3>1 DEF QueueRqDoorbell, SubmissionInv, workVars
  <2> QED
    BY <2>5, <2>6
<1>7. ASSUME DevExecute
      PROVE  SubmissionInv'
  BY <1>7, <1>n DEF DevExecute, SubmissionInv, Fresh, blkVars, requestVars,
     ringVars, workVars, TypeOK, DeviceType, DeviceQueue
<1>8. ASSUME DevNotify \/ LoseInterrupt
      PROVE  SubmissionInv'
  BY <1>8, <1>n DEF DevNotify, LoseInterrupt, SubmissionInv, Fresh, blkVars,
     requestVars, ringVars, workVars, history
<1>9. ASSUME IrqEnter \/ IrqMatch \/ IrqAdvance
      PROVE  SubmissionInv'
  BY <1>9 DEF IrqEnter, IrqMatch, IrqAdvance, SubmissionInv, Fresh,
     blkVars, requestVars, ringVars, devVars, workVars, history
<1>10. ASSUME IrqExit
       PROVE  SubmissionInv'
  BY <1>10 DEF IrqExit, SubmissionInv, Fresh, blkVars, requestVars, ringVars,
     workVars, history, TypeOK, DeviceType, DeviceQueue
<1>11. ASSUME IrqTake
       PROVE  SubmissionInv'
  BY <1>11, <1>n DEF IrqTake, SubmissionInv, Fresh, blkVars, ringVars,
     devVars, workVars, history, TypeOK, RequestType
<1>12. ASSUME IrqEnd
       PROVE  SubmissionInv'
  BY <1>12, <1>n DEF IrqEnd, EndRequest, SubmissionInv, Fresh, ringVars,
     devVars, workVars, TypeOK, RequestType, BlkType, HistoryType
<1>13. ASSUME WorkFreeze \/ WorkFrozen \/ Unfreeze \/ ClearResetPending
       PROVE  SubmissionInv'
  BY <1>13 DEF WorkFreeze, WorkFrozen, Unfreeze, ClearResetPending,
     SubmissionInv, Fresh, blkVars, requestVars, ringVars, devVars, history
<1>14. ASSUME FailIoRequests
       PROVE  SubmissionInv'
  BY <1>14, <1>n DEF FailIoRequests, SubmissionInv, Fresh, ringVars, devVars
<1>15. ASSUME ClearRings
       PROVE  SubmissionInv'
  BY <1>15, <1>n DEF ClearRings, SubmissionInv, Fresh, blkVars, requestVars,
     ringVars, devVars, history
<1>16. ASSUME ResetHead \/ ResetPhase
       PROVE  SubmissionInv'
  BY <1>16, <1>n DEF ResetHead, ResetPhase, SubmissionInv, Fresh, blkVars,
     requestVars, devVars, history
<1>17. ASSUME ResetRegister
       PROVE  SubmissionInv'
  BY <1>17, <1>n DEF ResetRegister, ResetQueue, SubmissionInv, Fresh,
     blkVars, requestVars, ringVars, history
<1>18. ASSUME CreateIoQueue
       PROVE  SubmissionInv'
  BY <1>18, <1>n DEF CreateIoQueue, CreatedQueue, ResetQueue, SubmissionInv,
     Fresh, blkVars, requestVars, ringVars, history
<1> QED
  BY <1>1, <1>2, <1>3, <1>4, <1>5, <1>6, <1>7, <1>8, <1>9, <1>10, <1>11,
     <1>12, <1>13, <1>14, <1>15, <1>16, <1>17, <1>18 DEF Next, QueueRq,
     Controller, IoIrq, ResetWork, ResetController

(* What the controller does with the one command it can find: it posts the *)
(* completion of the request that is being published.                      *)
LEMMA PostsForLock ==
    ASSUME RingsInv, DevExecute
    PROVE  /\ lock \in Tags /\ Fresh(lock) /\ ~Cleared /\ ~Cleared'
           /\ \E status \in Statuses :
                /\ cq' = [cq EXCEPT ![dq.cq_tail] =
                            [phase |-> dq.cq_phase, cid |-> lock + 1,
                             status |-> status]]
                /\ exec' = [exec EXCEPT ![lock] = status]
           /\ dq'.cq_tail = (dq.cq_tail + 1) % Depth
           /\ dq'.cq_phase = IF dq'.cq_tail = 0 THEN 1 - dq.cq_phase
                             ELSE dq.cq_phase
<1> TypeOK /\ SubmissionInv
  BY DEF RingsInv, OwnershipInv
<1>1. lock \in Tags /\ Fresh(lock) /\ sq[dq.sq_head].cid = lock + 1
      /\ dq.enabled
  BY DEF DevExecute, SubmissionInv, TypeOK, RingType
<1>2. wpc \notin {"head", "phase", "reset"} /\ wpc' = wpc
  BY <1>1, FreshIsNotMatched DEF DevExecute, workVars
<1>3. PICK status \in Outcomes(sq[dq.sq_head]) : DevExecute!2!(status)
  BY DEF DevExecute
<1>4. status \in Statuses
  BY DEF Outcomes, Statuses
<1>5. \A t \in Tags : t + 1 = lock + 1 <=> t = lock
  BY <1>1, DepthAssumption DEF Tags
<1>6. exec' = [exec EXCEPT ![lock] = status]
  <2>1. exec' = [t \in Tags |-> IF t + 1 = lock + 1 THEN status ELSE exec[t]]
    BY <1>1, <1>3
  <2> QED
    BY <1>5, <2>1 DEF TypeOK, HistoryType
<1>7. cq' = [cq EXCEPT ![dq.cq_tail] =
               [phase |-> dq.cq_phase, cid |-> lock + 1, status |-> status]]
  BY <1>1, <1>3
<1>8. /\ dq'.cq_tail = (dq.cq_tail + 1) % Depth
      /\ dq'.cq_phase = IF dq'.cq_tail = 0 THEN 1 - dq.cq_phase
                        ELSE dq.cq_phase
      /\ dq'.enabled = dq.enabled
  BY <1>3 DEF TypeOK, DeviceType, DeviceQueue
<1>9. ~Cleared /\ ~Cleared'
  BY <1>1, <1>2, <1>8 DEF Cleared
<1> QED
  BY <1>1, <1>4, <1>6, <1>7, <1>8, <1>9

(* The next index of a ring.                                               *)
LEMMA NextSlot ==
    ASSUME NEW i \in Slots
    PROVE  (i + 1) % Depth = IF i = Depth - 1 THEN 0 ELSE i + 1
BY DepthAssumption DEF Slots

(* One step keeps the phases and the blanks of the completion ring.        *)
LEMMA PostedStep ==
    ASSUME RingsInv, Next
    PROVE  PostedInv'
<1> TypeOK /\ SubmissionInv /\ PostedInv
  BY DEF RingsInv, OwnershipInv
<1> USE FreshIsNotMatched
<1>1. ASSUME UNCHANGED <<cq, dq, wpc>>
      PROVE  PostedInv'
  BY <1>1 DEF PostedInv, Cleared
<1>2. ASSUME NEW t \in Tags, Timeout(t)
      PROVE  PostedInv'
  <2>1. wpc \notin {"head", "phase", "reset"}
    BY <1>2 DEF Timeout
  <2> QED
    BY <1>2, <2>1 DEF Timeout, PostedInv, Cleared, devVars
<1>3. ASSUME DevExecute
      PROVE  PostedInv'
  <2>1. PICK status \in Statuses :
          cq' = [cq EXCEPT ![dq.cq_tail] =
                   [phase |-> dq.cq_phase, cid |-> lock + 1,
                    status |-> status]]
    BY <1>3, PostsForLock
  <2>2. /\ lock \in Tags /\ ~Cleared /\ ~Cleared'
        /\ dq'.cq_tail = (dq.cq_tail + 1) % Depth
        /\ dq'.cq_phase = IF dq'.cq_tail = 0 THEN 1 - dq.cq_phase
                          ELSE dq.cq_phase
    BY <1>3, PostsForLock
  <2> DEFINE k == dq.cq_tail
             p == dq.cq_phase
  <2>3. k \in Slots /\ p \in Phases
    BY DEF TypeOK, DeviceType, DeviceQueue
  <2>4. /\ cq'[k].phase = p /\ cq'[k].cid # 0
        /\ \A i \in Slots : i # k => cq'[i] = cq[i]
    <3>1. cq'[k] = [phase |-> p, cid |-> lock + 1, status |-> status]
      BY <2>1, <2>3 DEF TypeOK, RingType
    <3>2. lock + 1 # 0
      BY <2>2 DEF Tags
    <3> QED
      BY <2>1, <3>1, <3>2 DEF TypeOK, RingType
  <2>5. /\ \A i \in Slots : cq[i].phase = IF i < k THEN p ELSE 1 - p
        /\ \/ p = 1 /\ \A i \in Slots : cq[i].cid = 0 <=> i >= k
           \/ \A i \in Slots : cq[i].cid # 0
    BY <2>2 DEF PostedInv
  <2>6. dq'.cq_tail = IF k = Depth - 1 THEN 0 ELSE k + 1
    BY <2>2, <2>3, NextSlot
  <2>7. \A i \in Slots : cq'[i].phase = IF i < dq'.cq_tail THEN dq'.cq_phase
                                        ELSE 1 - dq'.cq_phase
    <3> SUFFICES ASSUME NEW i \in Slots
                 PROVE  cq'[i].phase = IF i < dq'.cq_tail THEN dq'.cq_phase
                                       ELSE 1 - dq'.cq_phase
      OBVIOUS
    <3>1. cq'[i].phase = IF i <= k THEN p ELSE 1 - p
      <4>1. i # k => cq'[i].phase = IF i < k THEN p ELSE 1 - p
        BY <2>4, <2>5
      <4>2. i = k => cq'[i].phase = p
        BY <2>4
      <4> HIDE DEF k, p
      <4> QED
        BY <2>3, <4>1, <4>2 DEF Slots
    <3>2. dq'.cq_phase = IF dq'.cq_tail = 0 THEN 1 - p ELSE p
      BY <2>2
    <3> HIDE DEF k, p
    <3> QED
      BY <2>3, <2>6, <3>1, <3>2, DepthAssumption DEF Slots, Phases
  <2>8. \/ dq'.cq_phase = 1 /\ \A i \in Slots : cq'[i].cid = 0
                                                <=> i >= dq'.cq_tail
        \/ \A i \in Slots : cq'[i].cid # 0
    BY <2>2, <2>3, <2>4, <2>5, <2>6, DepthAssumption DEF Slots, Phases
  <2> QED
    BY <2>2, <2>7, <2>8 DEF PostedInv
<1>4. ASSUME IrqExit
      PROVE  PostedInv'
  BY <1>4 DEF IrqExit, PostedInv, Cleared, workVars, TypeOK, DeviceType,
     DeviceQueue
<1>5. ASSUME WorkFreeze \/ WorkFrozen \/ FailIoRequests \/ Unfreeze
             \/ ClearResetPending \/ ResetHead \/ ResetPhase
      PROVE  PostedInv'
  BY <1>5 DEF WorkFreeze, WorkFrozen, FailIoRequests, Unfreeze,
     ClearResetPending, ResetHead, ResetPhase, PostedInv, Cleared, devVars
<1>6. ASSUME ClearRings
      PROVE  PostedInv'
  BY <1>6 DEF ClearRings, PostedInv, Cleared
<1>7. ASSUME ResetRegister
      PROVE  PostedInv'
  BY <1>7 DEF ResetRegister, ResetQueue, PostedInv, Cleared
<1>8. ASSUME CreateIoQueue
      PROVE  PostedInv'
  <2>1. \A i \in Slots : cq'[i] = ZeroCompletion
    BY <1>8 DEF CreateIoQueue, PostedInv, Cleared, SubmissionInv
  <2>2. CASE dq' = CreatedQueue
    BY <2>1, <2>2, DepthAssumption DEF PostedInv, CreatedQueue, ResetQueue,
       ZeroCompletion, Slots
  <2>3. CASE UNCHANGED dq
    BY <1>8, <2>1, <2>3 DEF CreateIoQueue, PostedInv, Cleared, SubmissionInv
  <2> QED
    BY <1>8, <2>2, <2>3 DEF CreateIoQueue
<1> QED
  BY <1>1, <1>2, <1>3, <1>4, <1>5, <1>6, <1>7, <1>8 DEF Next, QueueRq,
     Controller, IoIrq, ResetWork, ResetController, BlkAlloc, QueueRqReject,
     QueueRqMapSegment, QueueRqMapError, QueueRqPublish, QueueRqDoorbell,
     DevNotify, LoseInterrupt, IrqEnter, IrqMatch, IrqTake, IrqEnd,
     IrqAdvance, devVars, workVars

(* One step leaves a slot's turn alone: only the handler's own progress    *)
(* moves the phase it expects, and it then looks at the next slot.         *)
LEMMA AdvanceKeepsTurns ==
    ASSUME TypeOK, IrqAdvance, NEW i \in Slots
    PROVE  /\ Stale(i)' <=> Stale(i)
           /\ ExpectedPhase(i)' = IF i = cqHead THEN 1 - cqPhase
                                  ELSE ExpectedPhase(i)
<1>1. /\ cqHead \in Slots /\ cqPhase \in Phases /\ cq[i].phase \in Phases
      /\ cq' = cq /\ irqPc' = "check" /\ irqPc = "advance"
  BY DEF IrqAdvance, TypeOK, RingType, Completion
<1>2. cqHead' = IF cqHead = Depth - 1 THEN 0 ELSE cqHead + 1
  BY <1>1, NextSlot DEF IrqAdvance
<1>3. cqPhase' = IF cqHead' = 0 THEN 1 - cqPhase ELSE cqPhase
  BY DEF IrqAdvance
<1>4. ExpectedPhase(i)' = IF i = cqHead THEN 1 - cqPhase
                          ELSE ExpectedPhase(i)
  BY <1>1, <1>2, <1>3, DepthAssumption DEF ExpectedPhase, Slots, Phases
<1>5. Stale(i)' <=> cq[i].phase # ExpectedPhase(i)'
  BY <1>1 DEF Stale
<1>6. Stale(i) <=> IF i = cqHead THEN cq[i].phase = cqPhase
                   ELSE cq[i].phase # ExpectedPhase(i)
  BY <1>1 DEF Stale
<1>7. 1 - cqPhase # cq[i].phase <=> cq[i].phase = cqPhase
  BY <1>1 DEF Phases
<1> QED
  BY <1>4, <1>5, <1>6, <1>7

(* One slot and one tag taken away, there are still more slots than tags.  *)
LEMMA MoreSlotsThanTags ==
    ASSUME NEW h \in Slots, NEW t \in Tags,
           NEW f \in [Slots \ {h} -> Tags \ {t}]
    PROVE  \E i, j \in Slots \ {h} : i # j /\ f[i] = f[j]
<1>1. /\ IsFiniteSet(Slots) /\ Cardinality(Slots) = Depth
      /\ IsFiniteSet(Tags) /\ Cardinality(Tags) = Depth - 1
  <2>1. 0 \in Int /\ Depth - 1 \in Int /\ Depth - 2 \in Int
        /\ ~(0 > Depth - 1) /\ Depth - 1 - 0 + 1 = Depth
        /\ (0 > Depth - 2 \/ Depth - 2 - 0 + 1 = Depth - 1)
        /\ (0 > Depth - 2 => Depth - 1 = 0)
    BY DepthAssumption
  <2>2. IsFiniteSet(Slots) /\ Cardinality(Slots) = Depth
    BY <2>1, FS_Interval DEF Slots
  <2>3. IsFiniteSet(Tags) /\ Cardinality(Tags) = Depth - 1
    BY <2>1, FS_Interval DEF Tags
  <2> QED
    BY <2>2, <2>3
<1>2. IsFiniteSet(Slots \ {h}) /\ Cardinality(Slots \ {h}) = Depth - 1
  BY <1>1, FS_RemoveElement
<1>3. IsFiniteSet(Tags \ {t}) /\ Cardinality(Tags \ {t}) = Depth - 1 - 1
  BY <1>1, FS_RemoveElement
<1>4. Depth - 1 - 1 < Depth - 1
  BY DepthAssumption
<1> QED
  BY <1>2, <1>3, <1>4, FS_PigeonHole

(* The controller never checks for a full completion ring, and need not:   *)
(* if its tail had caught up with the driver's head, the ring would hold   *)
(* an entry for more requests than there are tags besides the one that is  *)
(* being served.                                                           *)
LEMMA RingHasRoom ==
    ASSUME RingsInv, ~Cleared, lock \in Tags, exec[lock] = None,
           \A i \in Slots : cq[i].cid # 0
    PROVE  ~(dq.cq_tail = cqHead /\ cqPhase # dq.cq_phase)
<1> SUFFICES ASSUME dq.cq_tail = cqHead, cqPhase # dq.cq_phase PROVE FALSE
  OBVIOUS
<1> TypeOK /\ PostedInv /\ CompletionInv
  BY DEF RingsInv, OwnershipInv
<1>1. /\ cqHead \in Slots /\ cqPhase \in Phases /\ dq.cq_phase \in Phases
      /\ \A i \in Slots : cq[i] \in Completion
  BY DEF TypeOK, RingType, DeviceType, DeviceQueue
<1>2. \A i \in Slots : cq[i].phase = ExpectedPhase(i)
  <2>1. cqPhase = 1 - dq.cq_phase /\ 1 - cqPhase = dq.cq_phase
    BY <1>1 DEF Phases
  <2>2. \A i \in Slots : cq[i].phase = IF i < cqHead THEN dq.cq_phase
                                       ELSE 1 - dq.cq_phase
    BY DEF PostedInv
  <2>3. \A i \in Slots : i >= cqHead <=> ~(i < cqHead)
    BY <1>1 DEF Slots
  <2> QED
    BY <2>1, <2>2, <2>3 DEF ExpectedPhase
<1>3. \A i \in Slots \ {cqHead} : ~Stale(i)
  BY <1>2 DEF Stale
<1> DEFINE f == [i \in Slots \ {cqHead} |-> cq[i].cid - 1]
<1>4. ASSUME NEW i \in Slots \ {cqHead}
      PROVE  f[i] \in Tags \ {lock} /\ f[i] + 1 = cq[i].cid
  <2>1. cq[i].cid \in Slots /\ cq[i].cid # 0 /\ cq[i].status \in Statuses
    BY <1>1, <1>4 DEF Completion
  <2>2. cq[i].cid - 1 \in Tags /\ cq[i].cid - 1 + 1 = cq[i].cid
    BY <2>1, DepthAssumption DEF Slots, Tags
  <2>3. exec[cq[i].cid - 1] = cq[i].status
    BY <1>3, <2>2 DEF CompletionInv
  <2>4. exec[cq[i].cid - 1] # None
    BY <2>1, <2>3 DEF Statuses, None
  <2> QED
    BY <2>2, <2>4
<1>5. f \in [Slots \ {cqHead} -> Tags \ {lock}]
  BY <1>4
<1> HIDE DEF f
<1>6. PICK i, j \in Slots \ {cqHead} : i # j /\ f[i] = f[j]
  <2>1. \A h \in Slots, t \in Tags : \A g \in [Slots \ {h} -> Tags \ {t}] :
          \E i, j \in Slots \ {h} : i # j /\ g[i] = g[j]
    BY MoreSlotsThanTags
  <2>2. cqHead \in Slots
    BY <1>1
  <2>3. \A g \in [Slots \ {cqHead} -> Tags \ {lock}] :
          \E i, j \in Slots \ {cqHead} : i # j /\ g[i] = g[j]
    BY <2>1, <2>2
  <2> QED
    BY <1>5, <2>3
<1>7. cq[i].cid = cq[j].cid
  BY <1>4, <1>6
<1> QED
  BY <1>3, <1>6, <1>7 DEF CompletionInv

(* An entry the handler has matched is not overwritten before it moves on. *)
LEMMA MatchedIsKept ==
    ASSUME RingsInv, DevExecute, irqPc \in {"take", "end"}
    PROVE  dq.cq_tail # cqHead
<1> SUFFICES ASSUME dq.cq_tail = cqHead PROVE FALSE
  OBVIOUS
<1> TypeOK /\ PostedInv /\ CompletionInv
  BY DEF RingsInv, OwnershipInv
<1>1. lock \in Tags /\ exec[lock] = None /\ ~Cleared
  BY PostsForLock DEF Fresh
<1>2. cqHead \in Slots /\ dq.cq_phase \in Phases /\ irqTag \in Tags
  BY DEF TypeOK, RingType, IrqType, DeviceType, DeviceQueue
<1>3. cq[cqHead].cid # 0 /\ cq[cqHead].phase = cqPhase
  BY <1>2 DEF CompletionInv, Tags
<1>4. \A i \in Slots : cq[i].cid # 0
  <2>1. cqHead >= dq.cq_tail
    BY <1>2 DEF Slots
  <2> QED
    BY <1>1, <1>2, <1>3, <2>1 DEF PostedInv
<1>5. cqPhase = 1 - dq.cq_phase
  <2>1. ~(cqHead < dq.cq_tail)
    BY <1>2 DEF Slots
  <2> QED
    BY <1>1, <1>2, <1>3, <2>1 DEF PostedInv
<1> QED
  BY <1>1, <1>2, <1>4, <1>5, RingHasRoom DEF Phases

(* One step keeps the entries still to be read true to what was executed.  *)
LEMMA CompletionStep ==
    ASSUME RingsInv, Next
    PROVE  CompletionInv'
<1> TypeOK /\ PostedInv /\ CompletionInv
  BY DEF RingsInv, OwnershipInv
<1>n. irqTag \in Tags /\ cqHead \in Slots
  BY DEF TypeOK, IrqType, RingType
<1>1. ASSUME UNCHANGED <<cq, cqHead, cqPhase, irqPc, irqTag, exec>>,
             \A t \in Tags : blk[t] = "started" => blk'[t] = "started"
      PROVE  CompletionInv'
  BY <1>1 DEF CompletionInv, Stale, ExpectedPhase
<1>2. ASSUME NEW t \in Tags, QueueRqReject(t) \/ QueueRqPublish(t)
      PROVE  CompletionInv'
  <2>1. blk[t] = "alloc" /\ exec[t] = None
    BY <1>2 DEF QueueRqReject, QueueRqPublish, CompletionInv
  <2>2. exec' = exec
    BY <1>2, <2>1 DEF QueueRqReject, QueueRqPublish, EndRequest, history,
       TypeOK, HistoryType
  <2>3. \A u \in Tags : blk[u] = "started" => blk'[u] = "started"
    BY <1>2, <2>1 DEF QueueRqReject, QueueRqPublish, EndRequest, blkVars,
       TypeOK, BlkType
  <2> QED
    BY <1>1, <1>2, <2>2, <2>3 DEF QueueRqReject, QueueRqPublish, ringVars,
       irqVars
<1>3. ASSUME DevExecute
      PROVE  CompletionInv'
  <2>1. PICK status \in Statuses :
          /\ cq' = [cq EXCEPT ![dq.cq_tail] =
                      [phase |-> dq.cq_phase, cid |-> lock + 1,
                       status |-> status]]
          /\ exec' = [exec EXCEPT ![lock] = status]
    BY <1>3, PostsForLock
  <2>2. lock \in Tags /\ exec[lock] = None /\ blk[lock] = "started"
    BY <1>3, PostsForLock DEF Fresh
  <2>3. dq.cq_tail \in Slots
    BY DEF TypeOK, DeviceType, DeviceQueue
  <2>4. UNCHANGED <<blk, cqHead, cqPhase, irqPc, irqTag>>
    BY <1>3 DEF DevExecute, blkVars, ringVars, irqVars
  <2>5. /\ cq'[dq.cq_tail].cid = lock + 1 /\ cq'[dq.cq_tail].status = status
        /\ \A i \in Slots \ {dq.cq_tail} : cq'[i] = cq[i]
    BY <2>1, <2>3 DEF TypeOK, RingType
  <2>6. exec'[lock] = status /\ \A t \in Tags \ {lock} : exec'[t] = exec[t]
    BY <2>1, <2>2 DEF TypeOK, HistoryType
  <2>7. \A i \in Slots \ {dq.cq_tail} : Stale(i)' <=> Stale(i)
    BY <2>4, <2>5 DEF Stale, ExpectedPhase
  <2>8. \A i \in Slots : cq[i].cid = lock + 1 => Stale(i)
    <3>1. \A i \in Slots : cq[i].status # None
      BY DEF TypeOK, RingType, Completion, Statuses, None
    <3> QED
      BY <2>2, <3>1 DEF CompletionInv
  <2>9. \A t \in Tags : t + 1 = lock + 1 => t = lock
    BY <2>2, DepthAssumption DEF Tags
  <2>10. \A t \in Tags : exec'[t] # None => blk'[t] = "started"
    BY <2>2, <2>4, <2>6 DEF CompletionInv
  <2>11. \A i \in Slots, t \in Tags : cq'[i].cid = t + 1 =>
            Stale(i)' \/ exec'[t] = cq'[i].status
    BY <2>3, <2>5, <2>6, <2>7, <2>8, <2>9 DEF CompletionInv
  <2>12. \A i, j \in Slots : i # j /\ cq'[i].cid = cq'[j].cid =>
            cq'[i].cid = 0 \/ Stale(i)' \/ Stale(j)'
    BY <2>3, <2>5, <2>7, <2>8 DEF CompletionInv
  <2>13. irqPc' \in {"take", "end"} =>
            /\ cq'[cqHead].cid = irqTag + 1 /\ cq'[cqHead].phase = cqPhase
            /\ exec'[irqTag] = cq'[cqHead].status
    <3> SUFFICES ASSUME irqPc \in {"take", "end"}
                 PROVE  /\ cq'[cqHead].cid = irqTag + 1
                        /\ cq'[cqHead].phase = cqPhase
                        /\ exec'[irqTag] = cq'[cqHead].status
      BY <2>4
    <3>1. cq'[cqHead] = cq[cqHead]
      BY <1>3, <1>n, <2>5, MatchedIsKept
    <3>2. irqTag # lock
      BY <1>3, FreshIsNotMatched, PostsForLock
    <3> QED
      BY <1>n, <2>6, <3>1, <3>2 DEF CompletionInv
  <2> QED
    BY <2>4, <2>10, <2>11, <2>12, <2>13 DEF CompletionInv
<1>4. ASSUME IrqEnter \/ IrqExit
      PROVE  CompletionInv'
  BY <1>4 DEF IrqEnter, IrqExit, CompletionInv, Stale, ExpectedPhase,
     blkVars, ringVars, history
<1>5. ASSUME IrqMatch
      PROVE  CompletionInv'
  <2>1. \A i \in Slots : Stale(i) => Stale(i)'
    BY <1>5 DEF IrqMatch, Stale, ExpectedPhase, ringVars
  <2>2. UNCHANGED <<cq, cqHead, cqPhase, exec, blk>>
    BY <1>5 DEF IrqMatch, ringVars, history, blkVars
  <2>3. irqPc' \in {"take", "end"} =>
           /\ cq[cqHead].cid = irqTag' + 1 /\ cq[cqHead].phase = cqPhase
           /\ exec[irqTag'] = cq[cqHead].status
    <3> SUFFICES ASSUME irqPc' \in {"take", "end"}
                 PROVE  /\ cq[cqHead].cid = irqTag' + 1
                        /\ cq[cqHead].phase = cqPhase
                        /\ exec[irqTag'] = cq[cqHead].status
      OBVIOUS
    <3>1. /\ cq[cqHead].cid \in 1 .. Depth - 1
          /\ irqTag' = cq[cqHead].cid - 1
          /\ cq[cqHead].phase = cqPhase /\ irqPc = "check"
      BY <1>5 DEF IrqMatch
    <3>2. irqTag' \in Tags /\ cq[cqHead].cid = irqTag' + 1
      BY <3>1, DepthAssumption DEF Tags
    <3>3. ~Stale(cqHead)
      <4>1. ExpectedPhase(cqHead) = cqPhase
        BY <1>n DEF ExpectedPhase, Slots
      <4> QED
        BY <3>1, <4>1 DEF Stale
    <3> QED
      BY <1>n, <3>1, <3>2, <3>3 DEF CompletionInv
  <2> QED
    BY <2>1, <2>2, <2>3 DEF CompletionInv
<1>6. ASSUME IrqTake
      PROVE  CompletionInv'
  <2>1. cq[cqHead].phase = cqPhase
    BY <1>6 DEF IrqTake, CompletionInv
  <2>2. \A i \in Slots : Stale(i) => Stale(i)'
    BY <1>6, <2>1 DEF IrqTake, Stale, ExpectedPhase, ringVars
  <2> QED
    BY <1>6, <2>2 DEF IrqTake, CompletionInv, ringVars, history, blkVars
<1>7. ASSUME IrqEnd
      PROVE  CompletionInv'
  <2>1. cq[cqHead].phase = cqPhase /\ cq[cqHead].cid = irqTag + 1
    BY <1>7 DEF IrqEnd, CompletionInv
  <2>2. UNCHANGED <<cq, cqHead, cqPhase>> /\ irqPc' = "advance"
        /\ irqPc = "end"
    BY <1>7 DEF IrqEnd, ringVars
  <2>3. \A i \in Slots : Stale(i) => Stale(i)'
    BY <2>1, <2>2 DEF Stale, ExpectedPhase
  <2>4. \A i \in Slots : cq[i].cid = irqTag + 1 => Stale(i)'
    <3>1. \A i \in Slots : i = cqHead => Stale(i)'
      BY <2>1, <2>2 DEF Stale
    <3>2. ~Stale(cqHead)
      <4>1. ExpectedPhase(cqHead) = cqPhase
        BY <1>n DEF ExpectedPhase, Slots
      <4> QED
        BY <2>1, <2>2, <4>1 DEF Stale
    <3>3. irqTag + 1 # 0
      BY <1>n DEF Tags
    <3> QED
      BY <1>n, <2>1, <2>3, <3>1, <3>2, <3>3 DEF CompletionInv
  <2>5. \A t \in Tags : IF t = irqTag THEN exec'[t] = None
                        ELSE exec'[t] = exec[t] /\ blk'[t] = blk[t]
    BY <1>7, <1>n DEF IrqEnd, EndRequest, TypeOK, HistoryType, BlkType
  <2>6. \A t \in Tags : exec'[t] # None => blk'[t] = "started"
    BY <2>5 DEF CompletionInv
  <2>7. \A i \in Slots, t \in Tags : cq[i].cid = t + 1 =>
            Stale(i)' \/ exec'[t] = cq[i].status
    BY <2>3, <2>4, <2>5 DEF CompletionInv
  <2>8. \A i, j \in Slots : i # j /\ cq[i].cid = cq[j].cid =>
            cq[i].cid = 0 \/ Stale(i)' \/ Stale(j)'
    BY <2>3 DEF CompletionInv
  <2> QED
    BY <2>2, <2>6, <2>7, <2>8 DEF CompletionInv
<1>8. ASSUME IrqAdvance
      PROVE  CompletionInv'
  <2>1. \A i \in Slots : Stale(i)' <=> Stale(i)
    BY <1>8, AdvanceKeepsTurns
  <2> QED
    BY <1>8, <2>1 DEF IrqAdvance, CompletionInv, history, blkVars
<1>9. ASSUME FailIoRequests
      PROVE  CompletionInv'
  <2>1. \A t \in Tags : ~rq[t]
    BY <1>9, FreshIsNotMatched DEF FailIoRequests
  <2>2. exec' = exec /\ blk' = blk
    BY <1>9, <2>1 DEF FailIoRequests, TypeOK, HistoryType, BlkType
  <2> QED
    BY <1>1, <1>9, <2>2 DEF FailIoRequests, ringVars, irqVars
<1>10. ASSUME ClearRings \/ ResetHead \/ ResetPhase
       PROVE  CompletionInv'
  <2>1. \A i \in Slots : cq'[i].cid = 0
    BY <1>10 DEF ClearRings, ResetHead, ResetPhase, PostedInv, Cleared,
       ZeroCompletion
  <2>2. irqPc' \notin {"take", "end"}
    BY <1>10, FreshIsNotMatched DEF ClearRings, ResetHead, ResetPhase,
       irqVars
  <2>3. exec' = exec /\ blk' = blk
    BY <1>10 DEF ClearRings, ResetHead, ResetPhase, history, blkVars
  <2>4. \A t \in Tags : t + 1 # 0
    BY DEF Tags
  <2> QED
    BY <2>1, <2>2, <2>3, <2>4 DEF CompletionInv
<1>11. ASSUME NEW t \in Tags, NEW s \in Shapes, BlkAlloc(t, s)
       PROVE  CompletionInv'
  <2>1. \A u \in Tags : blk[u] = "started" => blk'[u] = "started"
    BY <1>11 DEF BlkAlloc, TypeOK, BlkType
  <2> QED
    BY <1>1, <1>11, <2>1 DEF BlkAlloc, ringVars, irqVars, history
<1>12. ASSUME DevNotify \/ LoseInterrupt
       PROVE  CompletionInv'
  BY <1>1, <1>12 DEF DevNotify, LoseInterrupt, ringVars, history, blkVars
<1>13. ASSUME NEW t \in Tags,
              QueueRqMapSegment(t) \/ QueueRqMapError(t) \/ Timeout(t)
       PROVE  CompletionInv'
  BY <1>1, <1>13 DEF QueueRqMapSegment, QueueRqMapError, Timeout, ringVars,
     irqVars, history, blkVars
<1>14. ASSUME QueueRqDoorbell \/ WorkFreeze \/ WorkFrozen \/ ResetRegister
              \/ CreateIoQueue \/ Unfreeze \/ ClearResetPending
       PROVE  CompletionInv'
  BY <1>1, <1>14 DEF QueueRqDoorbell, WorkFreeze, WorkFrozen, ResetRegister,
     CreateIoQueue, Unfreeze, ClearResetPending, ringVars, irqVars, history,
     blkVars
<1> QED
  BY <1>2, <1>3, <1>4, <1>5, <1>6, <1>7, <1>8, <1>9, <1>10, <1>11, <1>12,
     <1>13, <1>14 DEF Next, QueueRq, Controller, IoIrq, ResetWork,
     ResetController

(* A step that changes nothing keeps what the rings contain.               *)
LEMMA RingsStutter ==
    RingsInv /\ UNCHANGED vars =>
        SubmissionInv' /\ PostedInv' /\ CompletionInv'
BY DEF RingsInv, SubmissionInv, Fresh, PostedInv, Cleared, CompletionInv,
   Stale, ExpectedPhase, vars, blkVars, requestVars, ringVars, devVars,
   irqVars, workVars, history

(* What the rings contain, in every behaviour of the specification.        *)
LEMMA RingsInvariant == Spec => []RingsInv
<1>1. RingsInv /\ [Next]_vars => RingsInv'
  <2> SUFFICES ASSUME RingsInv, [Next]_vars PROVE RingsInv'
    OBVIOUS
  <2>1. OwnershipInv'
    <3>1. OwnershipInv
      BY DEF RingsInv
    <3> QED
      BY <3>1, OwnershipStutter, TypeStep, OwnershipStep, RebuildStep
      DEF OwnershipInv
  <2>2. SubmissionInv' /\ PostedInv' /\ CompletionInv'
    BY RingsStutter, SubmissionStep, PostedStep, CompletionStep
  <2> QED
    BY <2>1, <2>2 DEF RingsInv
<1> QED
  BY RingsInit, <1>1, PTL DEF Spec

(* io_irq() hands the block layer the status of the very command the       *)
(* controller executed for that request, although it only knows a command  *)
(* identifier that is reused, with interrupts that come late, are lost, or *)
(* race with the rebuild of the rings.                                     *)
THEOREM CompletionForItsCommand == Spec => []CompletionIsForItsCommand
<1>1. RingsInv => CompletionIsForItsCommand
  BY DEF RingsInv, OwnershipInv, TypeOK, IrqType, StartedHasOneOwner,
     CompletionInv, CompletionIsForItsCommand
<1> QED
  BY RingsInvariant, <1>1, PTL

(* The controller never fetches a descriptor left over from another        *)
(* request, one it has executed already, or one whose buffers are gone:    *)
(* sq_lock, held over the doorbell, gives it one command at a time.        *)
THEOREM FetchesOwnedCommands == Spec => []FetchedCommandIsOwned
<1>1. RingsInv => FetchedCommandIsOwned
  <2> SUFFICES ASSUME RingsInv, devTail # Nil, dq.sq_head # devTail
               PROVE  \E t \in Tags : /\ sq[dq.sq_head].cid = t + 1
                                      /\ rq[t] /\ exec[t] = None
                                      /\ mapped[t] = Segments(shape[t])
    BY DEF FetchedCommandIsOwned
  <2>1. lock \in Tags /\ Fresh(lock) /\ sq[dq.sq_head].cid = lock + 1
    BY DEF RingsInv, OwnershipInv, TypeOK, RingType, SubmissionInv
  <2> QED
    BY <2>1 DEF Fresh
<1> QED
  BY RingsInvariant, <1>1, PTL

-----------------------------------------------------------------------------
(* When no interrupt comes late, the rebuild meets no handler and the      *)
(* driver follows the controller, by at most one turn of the ring.         *)
RebuildQuiet ==
    /\ wpc \in {"clear", "head", "phase", "reset", "create", "unfreeze"} =>
          irqPc = "idle" /\ ~irqPending /\ devTail = Nil
    /\ wpc \in {"phase", "reset", "create"} => cqHead = 0
    /\ wpc \in {"reset", "create"} => cqPhase = 1
    /\ ~dq.enabled => irqPc = "idle" /\ ~irqPending
    /\ Cleared /\ wpc \notin {"head", "phase", "reset"} =>
          cqHead = 0 /\ cqPhase = 1

DriverFollows ==
    ~Cleared =>
        /\ \/ cqPhase = dq.cq_phase /\ cqHead <= dq.cq_tail
           \/ cqPhase # dq.cq_phase /\ dq.cq_tail <= cqHead
        /\ (\E i \in Slots : cq[i].cid = 0) => cqPhase = dq.cq_phase
        /\ irqPc = "advance" => cq[cqHead].phase = cqPhase

(* Each executed request has its completion in the ring, still to be read. *)
Announced ==
    \A t \in Tags : exec[t] # None =>
        \E i \in Slots : /\ cq[i] = [phase |-> ExpectedPhase(i),
                                     cid |-> t + 1, status |-> exec[t]]
                         /\ ~(i = cqHead /\ irqPc = "advance")

PromptInv == RingsInv /\ RebuildQuiet /\ DriverFollows /\ Announced


-----------------------------------------------------------------------------
(* With the interrupts in time, a probed driver starts as it goes on.      *)
LEMMA PromptInit == Init => PromptInv
<1> SUFFICES ASSUME Init PROVE PromptInv
  OBVIOUS
<1>1. dq.enabled /\ dq.cq_phase = 1 /\ dq.cq_tail = 0
  BY DEF Init, CreatedQueue, ResetQueue
<1>2. RebuildQuiet
  BY <1>1 DEF Init, RebuildQuiet, Cleared
<1>3. DriverFollows
  BY <1>1 DEF Init, DriverFollows
<1>4. Announced
  BY DEF Init, Announced
<1> QED
  BY RingsInit, <1>2, <1>3, <1>4 DEF PromptInv

(* One step keeps the handler out of a rebuild.                            *)
LEMMA QuietStep ==
    ASSUME PromptInv, Next, ~LateInterrupts
    PROVE  RebuildQuiet'
<1> RingsInv /\ TypeOK /\ SubmissionInv /\ CompletionInv /\ RebuildQuiet
  BY DEF PromptInv, RingsInv, OwnershipInv
<1>n. lock \in Tags \cup {Nil}
  BY DEF TypeOK, RingType
<1> USE FreshIsNotMatched
<1>1. ASSUME UNCHANGED <<wpc, irqPc, irqPending, devTail, cqHead, cqPhase>>,
             dq'.enabled = dq.enabled
      PROVE  RebuildQuiet'
  BY <1>1 DEF RebuildQuiet, Cleared
<1>2. ASSUME NEW t \in Tags, Timeout(t)
      PROVE  RebuildQuiet'
  BY <1>2 DEF Timeout, RebuildQuiet, Cleared, devVars, irqVars, ringVars
<1>3. ASSUME QueueRqDoorbell
      PROVE  RebuildQuiet'
  <2>1. Fresh(lock) /\ lock \in Tags
    BY <1>3, <1>n DEF QueueRqDoorbell, SubmissionInv
  <2>2. wpc \notin {"clear", "head", "phase", "reset", "create", "unfreeze"}
    BY <2>1
  <2> QED
    BY <1>3, <2>2 DEF QueueRqDoorbell, RebuildQuiet, Cleared, irqVars,
       workVars
<1>4. ASSUME DevExecute
      PROVE  RebuildQuiet'
  <2>1. dq'.enabled = dq.enabled
    BY <1>4 DEF DevExecute, TypeOK, DeviceType, DeviceQueue
  <2> QED
    BY <1>1, <1>4, <2>1 DEF DevExecute, ringVars, irqVars, workVars
<1>5. ASSUME DevNotify \/ LoseInterrupt
      PROVE  RebuildQuiet'
  BY <1>5 DEF DevNotify, LoseInterrupt, RebuildQuiet, Cleared, ringVars,
     workVars, SubmissionInv
<1>6. ASSUME IrqEnter \/ IrqMatch \/ IrqTake \/ IrqEnd
      PROVE  RebuildQuiet'
  BY <1>6 DEF IrqEnter, IrqMatch, IrqTake, IrqEnd, RebuildQuiet, Cleared,
     ringVars, workVars, devVars
<1>7. ASSUME IrqExit
      PROVE  RebuildQuiet'
  <2>1. dq'.enabled = dq.enabled
    BY <1>7 DEF IrqExit, TypeOK, DeviceType, DeviceQueue
  <2> QED
    BY <1>7, <2>1 DEF IrqExit, RebuildQuiet, Cleared, ringVars, workVars
<1>8. ASSUME IrqAdvance
      PROVE  RebuildQuiet'
  BY <1>8 DEF IrqAdvance, RebuildQuiet, Cleared, workVars, devVars
<1>9. ASSUME WorkFreeze \/ WorkFrozen \/ FailIoRequests \/ ClearRings
      PROVE  RebuildQuiet'
  BY <1>9 DEF WorkFreeze, WorkFrozen, FailIoRequests, ClearRings,
     RebuildQuiet, Cleared, ringVars, devVars, irqVars
<1>10. ASSUME ResetHead \/ ResetPhase \/ Unfreeze \/ ClearResetPending
       PROVE  RebuildQuiet'
  BY <1>10 DEF ResetHead, ResetPhase, Unfreeze, ClearResetPending,
     RebuildQuiet, Cleared, ringVars, devVars, irqVars
<1>11. ASSUME ResetRegister
       PROVE  RebuildQuiet'
  BY <1>11 DEF ResetRegister, ResetQueue, RebuildQuiet, Cleared, ringVars,
     irqVars
<1>12. ASSUME CreateIoQueue
       PROVE  RebuildQuiet'
  BY <1>12 DEF CreateIoQueue, CreatedQueue, ResetQueue, RebuildQuiet,
     Cleared, ringVars, irqVars
<1> QED
  BY <1>1, <1>2, <1>3, <1>4, <1>5, <1>6, <1>7, <1>8, <1>9, <1>10, <1>11,
     <1>12 DEF Next, QueueRq, Controller, IoIrq, ResetWork, ResetController,
     BlkAlloc, QueueRqReject, QueueRqMapSegment, QueueRqMapError,
     QueueRqPublish, devVars, irqVars, ringVars, workVars

(* The controller posts into a slot the driver is done with, with the      *)
(* phase the driver will look for there.                                   *)
LEMMA PostsAhead ==
    ASSUME PromptInv, DevExecute
    PROVE  /\ \/ cqPhase = dq.cq_phase /\ cqHead <= dq.cq_tail
              \/ cqPhase # dq.cq_phase /\ dq.cq_tail < cqHead
           /\ ExpectedPhase(dq.cq_tail) = dq.cq_phase
           /\ irqPc = "advance" => dq.cq_tail # cqHead
<1> RingsInv /\ TypeOK /\ PostedInv /\ DriverFollows
  BY DEF PromptInv, RingsInv, OwnershipInv
<1>1. lock \in Tags /\ exec[lock] = None /\ ~Cleared
  BY PostsForLock DEF Fresh
<1>2. /\ cqHead \in Slots /\ cqPhase \in Phases
      /\ dq.cq_tail \in Slots /\ dq.cq_phase \in Phases
  BY DEF TypeOK, RingType, DeviceType, DeviceQueue
<1>3. ~(dq.cq_tail = cqHead /\ cqPhase # dq.cq_phase)
  <2>1. CASE \E i \in Slots : cq[i].cid = 0
    BY <1>1, <2>1 DEF DriverFollows
  <2>2. CASE \A i \in Slots : cq[i].cid # 0
    BY <1>1, <2>2, RingHasRoom
  <2> QED
    BY <2>1, <2>2
<1>4. \/ cqPhase = dq.cq_phase /\ cqHead <= dq.cq_tail
      \/ cqPhase # dq.cq_phase /\ dq.cq_tail < cqHead
  <2>1. \/ cqPhase = dq.cq_phase /\ cqHead <= dq.cq_tail
        \/ cqPhase # dq.cq_phase /\ dq.cq_tail <= cqHead
    BY <1>1 DEF DriverFollows
  <2> QED
    BY <1>2, <1>3, <2>1 DEF Slots
<1>5. ExpectedPhase(dq.cq_tail) = dq.cq_phase
  BY <1>2, <1>4 DEF ExpectedPhase, Slots, Phases
<1>6. ASSUME irqPc = "advance", dq.cq_tail = cqHead
      PROVE  FALSE
  <2>1. cq[cqHead].phase = cqPhase
    BY <1>1, <1>6 DEF DriverFollows
  <2>2. cq[cqHead].phase = 1 - dq.cq_phase
    <3>1. ~(cqHead < dq.cq_tail)
      BY <1>2, <1>6 DEF Slots
    <3> QED
      BY <1>1, <1>2, <3>1 DEF PostedInv
  <2> QED
    BY <1>2, <1>3, <1>6, <2>1, <2>2 DEF Phases
<1> QED
  BY <1>4, <1>5, <1>6

(* One step keeps the driver at most one turn of the ring behind.          *)
LEMMA FollowStep ==
    ASSUME PromptInv, Next
    PROVE  DriverFollows'
<1> /\ RingsInv /\ TypeOK /\ PostedInv /\ CompletionInv /\ RebuildQuiet
    /\ DriverFollows
  BY DEF PromptInv, RingsInv, OwnershipInv
<1>n. /\ cqHead \in Slots /\ cqPhase \in Phases
      /\ dq.cq_tail \in Slots /\ dq.cq_phase \in Phases
  BY DEF TypeOK, RingType, DeviceType, DeviceQueue
<1>1. ASSUME UNCHANGED <<cq, cqHead, cqPhase>>,
             dq'.cq_tail = dq.cq_tail, dq'.cq_phase = dq.cq_phase,
             Cleared => Cleared',
             irqPc' = "advance" => irqPc = "advance"
                                   \/ cq[cqHead].phase = cqPhase
      PROVE  DriverFollows'
  BY <1>1 DEF DriverFollows
<1>2. ASSUME NEW t \in Tags, Timeout(t)
      PROVE  DriverFollows'
  <2>1. wpc \notin {"head", "phase", "reset"}
    BY <1>2, FreshIsNotMatched DEF Timeout
  <2> QED
    BY <1>1, <1>2, <2>1 DEF Timeout, Cleared, ringVars, devVars, irqVars
<1>3. ASSUME DevExecute
      PROVE  DriverFollows'
  <2> DEFINE k == dq.cq_tail
             p == dq.cq_phase
  <2>1. PICK status \in Statuses :
          cq' = [cq EXCEPT ![k] = [phase |-> p, cid |-> lock + 1,
                                   status |-> status]]
    BY <1>3, PostsForLock
  <2>2. /\ lock \in Tags /\ ~Cleared
        /\ dq'.cq_phase = IF dq'.cq_tail = 0 THEN 1 - p ELSE p
    BY <1>3, PostsForLock
  <2>3. dq'.cq_tail = IF k = Depth - 1 THEN 0 ELSE k + 1
    <3>1. dq'.cq_tail = (k + 1) % Depth
      BY <1>3, PostsForLock
    <3> QED
      BY <1>n, <3>1, NextSlot
  <2>4. UNCHANGED <<cqHead, cqPhase, irqPc>>
    BY <1>3 DEF DevExecute, ringVars, irqVars
  <2>5. /\ cq'[k].cid # 0
        /\ \A i \in Slots : i # k => cq'[i] = cq[i]
    <3>1. cq'[k] = [phase |-> p, cid |-> lock + 1, status |-> status]
      BY <2>1, <1>n DEF TypeOK, RingType
    <3>2. lock + 1 # 0
      BY <2>2 DEF Tags
    <3> QED
      BY <2>1, <3>1, <3>2 DEF TypeOK, RingType
  <2>6. \/ cqPhase = p /\ cqHead <= k
        \/ cqPhase # p /\ k < cqHead
    BY <1>3, PostsAhead
  <2>7. \/ cqPhase = dq'.cq_phase /\ cqHead <= dq'.cq_tail
        \/ cqPhase # dq'.cq_phase /\ dq'.cq_tail <= cqHead
    <3> HIDE DEF k, p
    <3> QED
      BY <1>n, <2>2, <2>3, <2>6, DepthAssumption DEF k, p, Slots, Phases
  <2>8. (\E i \in Slots : cq'[i].cid = 0) => cqPhase = dq'.cq_phase
    <3> SUFFICES ASSUME NEW i \in Slots, cq'[i].cid = 0
                 PROVE  cqPhase = dq'.cq_phase
      OBVIOUS
    <3>1. i # k /\ cq[i].cid = 0
      BY <2>5
    <3>2. i >= k
      BY <2>2, <3>1 DEF PostedInv
    <3>3. k # Depth - 1
      BY <1>n, <3>1, <3>2, DepthAssumption DEF Slots
    <3>4. dq'.cq_tail # 0
      BY <1>n, <2>3, <3>3 DEF Slots
    <3> QED
      BY <2>2, <3>1, <3>4 DEF DriverFollows
  <2>9. irqPc = "advance" => cq'[cqHead].phase = cqPhase
    BY <1>3, <1>n, <2>2, <2>5, PostsAhead DEF DriverFollows
  <2> QED
    BY <2>4, <2>7, <2>8, <2>9 DEF DriverFollows
<1>4. ASSUME IrqExit
      PROVE  DriverFollows'
  <2>1. /\ dq'.cq_tail = dq.cq_tail /\ dq'.cq_phase = dq.cq_phase
        /\ dq'.enabled = dq.enabled
    BY <1>4 DEF IrqExit, TypeOK, DeviceType, DeviceQueue
  <2> QED
    BY <1>1, <1>4, <2>1 DEF IrqExit, Cleared, ringVars, workVars
<1>5. ASSUME IrqEnter \/ IrqMatch \/ IrqTake \/ IrqEnd
      PROVE  DriverFollows'
  <2>1. irqPc' = "advance" => cq[cqHead].phase = cqPhase
    BY <1>5 DEF IrqEnter, IrqMatch, IrqTake, IrqEnd, CompletionInv
  <2> QED
    BY <1>1, <1>5, <2>1 DEF IrqEnter, IrqMatch, IrqTake, IrqEnd, Cleared,
       ringVars, workVars, devVars
<1>6. ASSUME IrqAdvance
      PROVE  DriverFollows'
  <2>1. ~Cleared /\ UNCHANGED <<cq, dq>> /\ irqPc' = "check"
        /\ irqPc = "advance"
    BY <1>6 DEF IrqAdvance, RebuildQuiet, Cleared, devVars
  <2>2. cqHead' = IF cqHead = Depth - 1 THEN 0 ELSE cqHead + 1
    BY <1>6, <1>n, NextSlot DEF IrqAdvance
  <2>3. cqPhase' = IF cqHead' = 0 THEN 1 - cqPhase ELSE cqPhase
    BY <1>6 DEF IrqAdvance
  <2> DEFINE k == dq.cq_tail
             p == dq.cq_phase
  <2>4. \/ cqPhase = p /\ cqHead < k
        \/ cqPhase # p /\ k <= cqHead
    <3>1. cq[cqHead].phase = cqPhase
      BY <2>1 DEF DriverFollows
    <3>2. cq[cqHead].phase = IF cqHead < k THEN p ELSE 1 - p
      BY <1>n, <2>1 DEF PostedInv
    <3>3. \/ cqPhase = p /\ cqHead <= k
          \/ cqPhase # p /\ k <= cqHead
      BY <2>1 DEF DriverFollows
    <3> QED
      BY <1>n, <3>1, <3>2, <3>3 DEF Slots, Phases
  <2>5. \/ cqPhase' = p /\ cqHead' <= k
        \/ cqPhase' # p /\ k <= cqHead'
    <3> HIDE DEF k, p
    <3> QED
      BY <1>n, <2>2, <2>3, <2>4, DepthAssumption DEF k, p, Slots, Phases
  <2>6. cqPhase = p => cqPhase' = p
    <3> HIDE DEF k, p
    <3> QED
      BY <1>n, <2>2, <2>3, <2>4, DepthAssumption DEF k, p, Slots, Phases
  <2> QED
    BY <2>1, <2>5, <2>6 DEF DriverFollows
<1>7. ASSUME ClearRings \/ ResetHead \/ ResetPhase \/ ResetRegister
      PROVE  DriverFollows'
  BY <1>7 DEF ClearRings, ResetHead, ResetPhase, ResetRegister, ResetQueue,
     DriverFollows, Cleared
<1>8. ASSUME CreateIoQueue
      PROVE  DriverFollows'
  <2>1. CASE dq' = CreatedQueue
    BY <1>8, <2>1 DEF CreateIoQueue, CreatedQueue, ResetQueue, RebuildQuiet,
       DriverFollows, ringVars, irqVars
  <2>2. CASE UNCHANGED dq
    BY <1>1, <1>8, <2>2 DEF CreateIoQueue, Cleared, ringVars, irqVars
  <2> QED
    BY <1>8, <2>1, <2>2 DEF CreateIoQueue
<1>9. ASSUME WorkFreeze \/ WorkFrozen \/ FailIoRequests \/ Unfreeze
             \/ ClearResetPending
      PROVE  DriverFollows'
  BY <1>1, <1>9 DEF WorkFreeze, WorkFrozen, FailIoRequests, Unfreeze,
     ClearResetPending, Cleared, ringVars, devVars, irqVars
<1>10. ASSUME DevNotify \/ LoseInterrupt \/ QueueRqDoorbell
       PROVE  DriverFollows'
  BY <1>1, <1>10 DEF DevNotify, LoseInterrupt, QueueRqDoorbell, Cleared,
     ringVars, irqVars, workVars
<1>11. ASSUME NEW t \in Tags, QueueRq(t) \/ \E s \in Shapes : BlkAlloc(t, s)
       PROVE  DriverFollows'
  BY <1>1, <1>11 DEF QueueRq, BlkAlloc, QueueRqReject, QueueRqMapSegment,
     QueueRqMapError, QueueRqPublish, Cleared, ringVars, devVars, irqVars,
     workVars
<1> QED
  BY <1>2, <1>3, <1>4, <1>5, <1>6, <1>7, <1>8, <1>9, <1>10, <1>11
  DEF Next, Controller, IoIrq, ResetWork, ResetController

(* One step loses no completion.                                           *)
LEMMA AnnouncedStep ==
    ASSUME PromptInv, Next
    PROVE  Announced'
<1> /\ RingsInv /\ TypeOK /\ StartedHasOneOwner /\ PostedInv
    /\ CompletionInv /\ Announced
  BY DEF PromptInv, RingsInv, OwnershipInv
<1>n. irqTag \in Tags /\ cqHead \in Slots
  BY DEF TypeOK, IrqType, RingType
<1> DEFINE Told(i, t) == /\ cq[i] = [phase |-> ExpectedPhase(i),
                                     cid |-> t + 1, status |-> exec[t]]
                         /\ ~(i = cqHead /\ irqPc = "advance")
<1>1. ASSUME UNCHANGED <<cq, cqHead, cqPhase, exec>>,
             irqPc' = "advance" => irqPc = "advance"
      PROVE  Announced'
  BY <1>1 DEF Announced, ExpectedPhase
<1>2. ASSUME NEW t \in Tags, QueueRqReject(t) \/ QueueRqPublish(t)
      PROVE  Announced'
  <2>1. blk[t] = "alloc" /\ exec[t] = None
    BY <1>2 DEF QueueRqReject, QueueRqPublish, CompletionInv
  <2>2. exec' = exec
    BY <1>2, <2>1 DEF QueueRqReject, QueueRqPublish, EndRequest, history,
       TypeOK, HistoryType
  <2> QED
    BY <1>1, <1>2, <2>2 DEF QueueRqReject, QueueRqPublish, ringVars, irqVars
<1>3. ASSUME DevExecute
      PROVE  Announced'
  <2>1. PICK status \in Statuses :
          /\ cq' = [cq EXCEPT ![dq.cq_tail] =
                      [phase |-> dq.cq_phase, cid |-> lock + 1,
                       status |-> status]]
          /\ exec' = [exec EXCEPT ![lock] = status]
    BY <1>3, PostsForLock
  <2>2. lock \in Tags /\ ~Cleared
    BY <1>3, PostsForLock
  <2>3. dq.cq_tail \in Slots /\ dq.cq_phase \in Phases
    BY DEF TypeOK, DeviceType, DeviceQueue
  <2>4. UNCHANGED <<cqHead, cqPhase, irqPc>>
    BY <1>3 DEF DevExecute, ringVars, irqVars
  <2>5. \A i \in Slots : ExpectedPhase(i)' = ExpectedPhase(i)
    BY <2>4 DEF ExpectedPhase
  <2>6. /\ ExpectedPhase(dq.cq_tail) = dq.cq_phase
        /\ irqPc = "advance" => dq.cq_tail # cqHead
    BY <1>3, PostsAhead
  <2>7. cq[dq.cq_tail].phase # dq.cq_phase
    <3>1. ~(dq.cq_tail < dq.cq_tail)
      BY <2>3 DEF Slots
    <3>2. cq[dq.cq_tail].phase = 1 - dq.cq_phase
      BY <2>2, <2>3, <3>1 DEF PostedInv
    <3> QED
      BY <2>3, <3>2 DEF Phases
  <2> SUFFICES ASSUME NEW t \in Tags, exec'[t] # None
               PROVE  \E i \in Slots :
                        /\ cq'[i] = [phase |-> ExpectedPhase(i)',
                                     cid |-> t + 1, status |-> exec'[t]]
                        /\ ~(i = cqHead' /\ irqPc' = "advance")
    BY DEF Announced
  <2>8. CASE t = lock
    <3>1. exec'[t] = status
      BY <2>1, <2>2, <2>8 DEF TypeOK, HistoryType
    <3>2. cq'[dq.cq_tail] = [phase |-> dq.cq_phase, cid |-> lock + 1,
                             status |-> status]
      BY <2>1, <2>3 DEF TypeOK, RingType
    <3> QED
      BY <2>3, <2>4, <2>5, <2>6, <2>8, <3>1, <3>2
  <2>9. CASE t # lock
    <3>1. exec'[t] = exec[t]
      BY <2>1, <2>2, <2>9 DEF TypeOK, HistoryType
    <3>2. PICK i \in Slots : Told(i, t)
      BY <3>1 DEF Announced
    <3>3. i # dq.cq_tail
      BY <2>6, <2>7, <3>2
    <3>4. cq'[i] = cq[i]
      BY <2>1, <3>3 DEF TypeOK, RingType
    <3> QED
      BY <2>4, <2>5, <3>1, <3>2, <3>4
  <2> QED
    BY <2>8, <2>9
<1>4. ASSUME IrqEnter \/ IrqExit
      PROVE  Announced'
  BY <1>1, <1>4 DEF IrqEnter, IrqExit, ringVars, history
<1>5. ASSUME IrqMatch
      PROVE  Announced'
  <2>1. UNCHANGED <<cq, cqHead, cqPhase, exec>>
    BY <1>5 DEF IrqMatch, ringVars, history
  <2>2. irqPc' = "advance" => cq[cqHead].cid \notin 1 .. Depth - 1
    BY <1>5 DEF IrqMatch
  <2>3. \A t \in Tags : t + 1 \in 1 .. Depth - 1
    BY DepthAssumption DEF Tags
  <2>4. irqPc' = "advance" => \A t \in Tags : cq[cqHead].cid # t + 1
    BY <2>2, <2>3
  <2> QED
    BY <2>1, <2>4 DEF Announced, ExpectedPhase
<1>6. ASSUME IrqTake
      PROVE  Announced'
  <2>1. rq[irqTag]
    BY <1>6, <1>n, FreshIsNotMatched DEF IrqTake, StartedHasOneOwner
  <2> QED
    BY <1>1, <1>6, <2>1 DEF IrqTake, ringVars, history
<1>7. ASSUME IrqEnd
      PROVE  Announced'
  <2>1. cq[cqHead].cid = irqTag + 1
    BY <1>7 DEF IrqEnd, CompletionInv
  <2>2. UNCHANGED <<cq, cqHead, cqPhase>>
    BY <1>7 DEF IrqEnd, ringVars
  <2>3. \A t \in Tags : IF t = irqTag THEN exec'[t] = None
                        ELSE exec'[t] = exec[t]
    BY <1>7, <1>n DEF IrqEnd, EndRequest, TypeOK, HistoryType
  <2>4. \A t \in Tags : t # irqTag => t + 1 # irqTag + 1
    BY <1>n DEF Tags
  <2>5. \A t \in Tags : t # irqTag => cq[cqHead].cid # t + 1
    BY <2>1, <2>4
  <2> QED
    BY <2>2, <2>3, <2>5 DEF Announced, ExpectedPhase
<1>8. ASSUME IrqAdvance
      PROVE  Announced'
  <2>1. \A i \in Slots : i # cqHead => ExpectedPhase(i)' = ExpectedPhase(i)
    BY <1>8, AdvanceKeepsTurns
  <2>2. UNCHANGED <<cq, exec>> /\ irqPc = "advance" /\ irqPc' = "check"
    BY <1>8 DEF IrqAdvance, history
  <2> QED
    BY <2>1, <2>2 DEF Announced
<1>9. ASSUME FailIoRequests \/ ClearRings \/ ResetHead \/ ResetPhase
      PROVE  Announced'
  <2>1. \A t \in Tags : ~rq[t] /\ exec[t] = None
    BY <1>9, FreshIsNotMatched DEF FailIoRequests, ClearRings, ResetHead,
       ResetPhase
  <2>2. \A t \in Tags : exec'[t] = None
    BY <1>9, <2>1 DEF FailIoRequests, ClearRings, ResetHead, ResetPhase,
       history
  <2> QED
    BY <2>2 DEF Announced
<1>10. ASSUME NEW t \in Tags,
              \/ \E s \in Shapes : BlkAlloc(t, s)
              \/ QueueRqMapSegment(t) \/ QueueRqMapError(t) \/ Timeout(t)
       PROVE  Announced'
  BY <1>1, <1>10 DEF BlkAlloc, QueueRqMapSegment, QueueRqMapError, Timeout,
     ringVars, irqVars, history
<1>11. ASSUME DevNotify \/ LoseInterrupt \/ QueueRqDoorbell \/ WorkFreeze
              \/ WorkFrozen \/ ResetRegister \/ CreateIoQueue \/ Unfreeze
              \/ ClearResetPending
       PROVE  Announced'
  BY <1>1, <1>11 DEF DevNotify, LoseInterrupt, QueueRqDoorbell, WorkFreeze,
     WorkFrozen, ResetRegister, CreateIoQueue, Unfreeze, ClearResetPending,
     ringVars, irqVars, history
<1> QED
  BY <1>2, <1>3, <1>4, <1>5, <1>6, <1>7, <1>8, <1>9, <1>10, <1>11
  DEF Next, QueueRq, Controller, IoIrq, ResetWork, ResetController

(* With the interrupts in time, in every behaviour of the specification.   *)
LEMMA PromptInvariant ==
    ASSUME ~LateInterrupts
    PROVE  Spec => []PromptInv
<1>1. PromptInv /\ RingsInv' /\ [Next]_vars => PromptInv'
  <2> SUFFICES ASSUME PromptInv, RingsInv', [Next]_vars PROVE PromptInv'
    OBVIOUS
  <2>1. CASE Next
    BY <2>1, QuietStep, FollowStep, AnnouncedStep DEF PromptInv
  <2>2. CASE UNCHANGED vars
    <3>1. RebuildQuiet' /\ DriverFollows'
      BY <2>2 DEF PromptInv, RebuildQuiet, Cleared, DriverFollows, vars,
         ringVars, devVars, irqVars, workVars
    <3>2. Announced'
      BY <2>2 DEF PromptInv, Announced, ExpectedPhase, vars, ringVars,
         irqVars, history
    <3> QED
      BY <3>1, <3>2 DEF PromptInv
  <2> QED
    BY <2>1, <2>2
<1> QED
  BY PromptInit, RingsInvariant, <1>1, PTL DEF Spec

(* process_sq() posts completions without ever asking whether the ring is  *)
(* full.  When no interrupt outlives synchronize_irq(), it need not: one   *)
(* slot more than there are tags, and cq_head advanced only after the      *)
(* request has ended, keep every completion in the ring until it is read,  *)
(* even when interrupts are lost and recoveries fail.                      *)
THEOREM CompletionsAreKept ==
    ASSUME ~LateInterrupts
    PROVE  Spec => []CompletionNotLost
<1>1. PromptInv => CompletionNotLost
  BY DEF PromptInv, Announced, CompletionNotLost
<1> QED
  BY PromptInvariant, <1>1, PTL

(* Under the same hypothesis the phase bit alone tells old entries from    *)
(* new ones: whatever io_irq() accepts was executed and has not ended.     *)
THEOREM StaleEntriesRejected ==
    ASSUME ~LateInterrupts
    PROVE  Spec => []PhaseRejectsStale
<1>1. PromptInv => PhaseRejectsStale
  <2> SUFFICES ASSUME PromptInv, irqPc = "check", cq[cqHead].phase = cqPhase
               PROVE  \E t \in Tags : cq[cqHead].cid = t + 1
                                      /\ exec[t] # None
    BY DEF PhaseRejectsStale
  <2> /\ TypeOK /\ PostedInv /\ CompletionInv /\ RebuildQuiet
      /\ DriverFollows
    BY DEF PromptInv, RingsInv, OwnershipInv
  <2>1. ~Cleared
    BY DEF RebuildQuiet, Cleared
  <2>2. /\ cqHead \in Slots /\ cq[cqHead] \in Completion
        /\ dq.cq_tail \in Slots /\ dq.cq_phase \in Phases
    BY DEF TypeOK, RingType, DeviceType, DeviceQueue
  <2>3. cq[cqHead].cid # 0
    <3> SUFFICES ASSUME cq[cqHead].cid = 0 PROVE FALSE
      OBVIOUS
    <3>1. cqPhase = dq.cq_phase
      BY <2>1, <2>2 DEF DriverFollows
    <3>2. cqHead >= dq.cq_tail
      BY <2>1, <2>2 DEF PostedInv
    <3>3. cq[cqHead].phase = 1 - dq.cq_phase
      <4>1. ~(cqHead < dq.cq_tail)
        BY <2>2, <3>2 DEF Slots
      <4> QED
        BY <2>1, <2>2, <4>1 DEF PostedInv
    <3> QED
      BY <2>2, <3>1, <3>3 DEF Phases
  <2>4. cq[cqHead].cid \in Slots /\ cq[cqHead].status \in Statuses
    BY <2>2 DEF Completion
  <2> DEFINE t == cq[cqHead].cid - 1
  <2>5. t \in Tags /\ cq[cqHead].cid = t + 1
    BY <2>3, <2>4, DepthAssumption DEF Slots, Tags
  <2>6. ~Stale(cqHead)
    <3>1. ExpectedPhase(cqHead) = cqPhase
      BY <2>2 DEF ExpectedPhase, Slots
    <3> QED
      BY <3>1 DEF Stale
  <2> HIDE DEF t
  <2>7. exec[t] = cq[cqHead].status
    BY <2>2, <2>5, <2>6 DEF CompletionInv
  <2>8. exec[t] # None
    BY <2>4, <2>7 DEF Statuses, None
  <2> QED
    BY <2>5, <2>8
<1> QED
  BY PromptInvariant, <1>1, PTL
=============================================================================

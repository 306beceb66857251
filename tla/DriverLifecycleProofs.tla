----------------------- MODULE DriverLifecycleProofs -----------------------
(***************************************************************************)
(* Theorems about DriverLifecycle for every queue depth: probe() and       *)
(* remove() take and give back resources as a stack, and the reset worker  *)
(* runs only while all of them are held, except after what the histories   *)
(* record: an uninitialized ret that was not an error code, and a timeout  *)
(* that raced with remove().                                               *)
(***************************************************************************)
EXTENDS DriverLifecycle, TLAPS

(* The steps at which the thread holds each resource, from the last taken  *)
(* and first given back to the first taken and last given back.            *)
HoldsDisk == {"addDisk", "bound", "cancel", "flush", "delete", "drain",
              "failIo", "free disk"}
HoldsTagSet == HoldsDisk \cup {"disk", "clearDisk", "free tagSet"}
HoldsIoIrq == HoldsTagSet \cup {"create", "tagSet", "teardownIo",
                                "free ioIrq"}
HoldsIoCq == HoldsIoIrq \cup {"requests", "sgl", "ioIrq", "freeSgl",
                               "free ioCq"}
HoldsIoSq == HoldsIoCq \cup {"ioCq", "free ioSq"}
HoldsAdminIrq == HoldsIoSq \cup {"enable", "identify", "ioSq", "stop",
                                 "free adminIrq"}
HoldsVectors == HoldsAdminIrq \cup {"adminIrq", "free vectors"}
HoldsAdminCq == HoldsVectors \cup {"vectors", "free adminCq"}
HoldsAdminSq == HoldsAdminCq \cup {"adminCq", "free adminSq"}
HoldsMaster == HoldsAdminSq \cup {"adminSq", "clearMaster"}

(* The steps of remove() and of the unwinding of probe().                  *)
Returning == Releases \cup {"cancel", "flush", "delete", "drain", "failIo",
                            "clearDisk", "teardownIo", "freeSgl", "stop"}

(* The steps at which ofdev->disk points to the disk.                      *)
WithDisk == HoldsDisk \cup {"clearDisk"}

(* The steps between CREATE_IOQ and the end of the I/O queue.              *)
WithIoQueue == HoldsTagSet \cup {"tagSet", "teardownIo"}

(* The resources are a stack, whose height the thread's step tells.        *)
StackInv ==
    /\ "disk" \in held <=> pc \in HoldsDisk
    /\ "tagSet" \in held <=> pc \in HoldsTagSet
    /\ "ioIrq" \in held <=> pc \in HoldsIoIrq
    /\ "ioCq" \in held <=> pc \in HoldsIoCq
    /\ "ioSq" \in held <=> pc \in HoldsIoSq
    /\ "adminIrq" \in held <=> pc \in HoldsAdminIrq
    /\ "vectors" \in held <=> pc \in HoldsVectors
    /\ "adminCq" \in held <=> pc \in HoldsAdminCq
    /\ "adminSq" \in held <=> pc \in HoldsAdminSq
    /\ "master" \in held <=> pc \in HoldsMaster

(* So are the device structure and the disk pointer ...                    *)
PointerInv ==
    /\ managed <=> pc # "unbound"
    /\ disk <=> pc \in WithDisk

(* ... the SGL tables and the queue count; a thread that gives back        *)
(* carries an error code.                                                  *)
CountInv ==
    /\ pc \in HoldsIoIrq \cup {"ioIrq"} => sgl = Depth - 1
    /\ (pc \notin HoldsIoCq \/ pc \in {"requests", "free ioCq"}) => sgl = 0
    /\ pc \in WithIoQueue => nrQueues = 2
    /\ pc \in {"identify", "ioSq", "stop"} => nrQueues = 1
    /\ pc \in {"unbound", "adminSq", "adminCq", "vectors", "adminIrq",
               "enable", "clearMaster"} => nrQueues = 0
    /\ ret \in {-1, 0}
    /\ pc \in Returning => ret = -1

(* Requests exist only between AddDisk and Drain.                          *)
RequestInv ==
    /\ added <=> pc \in {"bound", "cancel", "flush", "delete"}
    /\ inflight # {} => added \/ pc = "drain"

(* Without the race the worker is idle outside these steps; the controller *)
(* is ready only from ENABLE until CONTROL is cleared.                     *)
WorkerInv ==
    /\ wpc # "idle" => pc \in {"bound", "cancel", "flush"} /\ resetPending
    /\ frozen => wpc \in {"freezing", "fail", "rebuild", "create",
                          "unfreeze"}
    /\ ready => pc \in HoldsAdminIrq \ {"enable", "free adminIrq"}

(* The inductive invariant.                                                *)
LifecycleInv ==
    /\ TypeOK
    /\ ~garbage => StackInv /\ PointerInv /\ CountInv /\ RequestInv
    /\ ~garbage /\ ~raced => WorkerInv

-----------------------------------------------------------------------------
(* Where each allocation of probe() leads: it takes its resource and goes  *)
(* on, or leaves what is held and starts to give back.                     *)
LEMMA AcquireMoves ==
    ASSUME Acquire
    PROVE  \/ /\ held' = held \cup {pc} /\ ret' = ret
              /\ disk' = (disk \/ pc = "disk")
              /\ \/ pc = "adminSq" /\ pc' = "adminCq"
                 \/ pc = "adminCq" /\ pc' = "vectors"
                 \/ pc = "vectors" /\ pc' = "adminIrq"
                 \/ pc = "adminIrq" /\ pc' = "enable"
                 \/ pc = "ioSq" /\ pc' = "ioCq"
                 \/ pc = "ioCq" /\ pc' = "requests"
                 \/ pc = "ioIrq" /\ pc' = "create"
                 \/ pc = "tagSet" /\ pc' = "disk"
                 \/ pc = "disk" /\ pc' = "addDisk"
           \/ /\ held' = held /\ ret' = -1 /\ disk' = disk
              /\ \/ pc = "adminSq" /\ pc' = "clearMaster"
                 \/ pc = "adminCq" /\ pc' = "free adminSq"
                 \/ pc = "vectors" /\ pc' = "free adminCq"
                 \/ pc = "adminIrq" /\ pc' = "free vectors"
                 \/ pc = "ioSq" /\ pc' = "stop"
                 \/ pc = "ioCq" /\ pc' = "free ioSq"
                 \/ pc = "ioIrq" /\ pc' = "freeSgl"
                 \/ pc = "tagSet" /\ pc' = "teardownIo"
                 \/ pc = "disk" /\ pc' = "free tagSet"
<1>1. \/ pc = "adminSq" /\ After(pc) = "adminCq" /\ Undo(pc) = "clearMaster"
      \/ pc = "adminCq" /\ After(pc) = "vectors" /\ Undo(pc) = "free adminSq"
      \/ pc = "vectors" /\ After(pc) = "adminIrq"
           /\ Undo(pc) = "free adminCq"
      \/ pc = "adminIrq" /\ After(pc) = "enable" /\ Undo(pc) = "free vectors"
      \/ pc = "ioSq" /\ After(pc) = "ioCq" /\ Undo(pc) = "stop"
      \/ pc = "ioCq" /\ After(pc) = "requests" /\ Undo(pc) = "free ioSq"
      \/ pc = "ioIrq" /\ After(pc) = "create" /\ Undo(pc) = "freeSgl"
      \/ pc = "tagSet" /\ After(pc) = "disk" /\ Undo(pc) = "teardownIo"
      \/ pc = "disk" /\ After(pc) = "addDisk" /\ Undo(pc) = "free tagSet"
  <2>0. pc \in Acquired
    BY DEF Acquire
  <2>1. CASE pc \in {"adminSq", "adminCq", "vectors"}
    BY <2>1, Zenon DEF After, Undo
  <2>2. CASE pc \in {"adminIrq", "ioSq", "ioCq"}
    BY <2>2, Zenon DEF After, Undo
  <2>3. CASE pc \in {"ioIrq", "tagSet", "disk"}
    BY <2>3, Zenon DEF After, Undo
  <2> QED
    BY <2>0, <2>1, <2>2, <2>3, Zenon DEF Acquired
<1>2. \/ /\ held' = held \cup {pc} /\ ret' = ret /\ pc' = After(pc)
         /\ disk' = (disk \/ pc = "disk")
      \/ held' = held /\ ret' = -1 /\ pc' = Undo(pc) /\ disk' = disk
  BY DEF Acquire
<1> QED
  BY <1>1, <1>2

(* What each label of the unwinding frees, and where it falls through with *)
(* a genuine error code.                                                   *)
LEMMA ReleaseMoves ==
    ASSUME Release, ret = -1
    PROVE  \/ /\ pc = "free disk" /\ pc' = "clearDisk"
              /\ held' = held \ {"disk"}
           \/ /\ pc = "free tagSet" /\ pc' = "teardownIo"
              /\ held' = held \ {"tagSet"}
           \/ /\ pc = "free ioIrq" /\ pc' = "freeSgl"
              /\ held' = held \ {"ioIrq"}
           \/ /\ pc = "free ioCq" /\ pc' = "free ioSq"
              /\ held' = held \ {"ioCq"}
           \/ /\ pc = "free ioSq" /\ pc' = "stop"
              /\ held' = held \ {"ioSq"}
           \/ /\ pc = "free adminIrq" /\ pc' = "free vectors"
              /\ held' = held \ {"adminIrq"}
           \/ /\ pc = "free vectors" /\ pc' = "free adminCq"
              /\ held' = held \ {"vectors"}
           \/ /\ pc = "free adminCq" /\ pc' = "free adminSq"
              /\ held' = held \ {"adminCq"}
           \/ /\ pc = "free adminSq" /\ pc' = "clearMaster"
              /\ held' = held \ {"adminSq"}
           \/ /\ pc = "clearMaster" /\ pc' = "unbound"
              /\ held' = held \ {"master"}
<1>1. /\ pc \in Releases
      /\ held' = held \ {Freed(pc)} /\ pc' = NextRelease(pc)
  BY DEF Release
<1>2. ret # 0 /\ ~(ret > 0)
  OBVIOUS
<1>3. CASE pc \in {"free disk", "free tagSet", "free ioIrq", "free ioCq"}
  BY <1>1, <1>3, Zenon DEF Freed, NextRelease
<1>4. CASE pc \in {"free ioSq", "free adminIrq", "free vectors"}
  BY <1>1, <1>2, <1>4, Zenon DEF Freed, NextRelease
<1>5. CASE pc \in {"free adminCq", "free adminSq", "clearMaster"}
  BY <1>1, <1>2, <1>5, Zenon DEF Freed, NextRelease
<1> QED
  BY <1>1, <1>3, <1>4, <1>5, Zenon DEF Releases

(* A label of the unwinding leads to a label, whatever the error code.     *)
LEMMA ReleaseLabels == Release => pc' \in Labels
<1> SUFFICES ASSUME Release PROVE pc' \in Labels
  OBVIOUS
<1>1. pc \in Releases /\ pc' = NextRelease(pc)
  BY DEF Release
<1>2. NextRelease(pc) \in {"clearDisk", "teardownIo", "freeSgl",
        "free ioSq", "tagSet", "stop", "free vectors", "free adminCq",
        "free adminSq", "clearMaster", "bound", "unbound"}
  BY <1>1, Zenon DEF NextRelease, Releases
<1> QED
  BY <1>1, <1>2 DEF Labels, Releases, Acquired

(* nr_queues as the unwinding leaves it.                                   *)
LEMMA ReleaseQueues ==
    ASSUME Release
    PROVE  \/ pc = "free ioSq" /\ nrQueues' = 1
           \/ pc = "free adminSq" /\ nrQueues' = 0
           \/ pc \notin {"free ioSq", "free adminSq"}
                /\ nrQueues' = nrQueues
BY Zenon DEF Release

-----------------------------------------------------------------------------
(* The two halves of TypeOK.                                               *)
FlagsOK ==
    /\ managed \in BOOLEAN /\ disk \in BOOLEAN /\ added \in BOOLEAN
    /\ frozen \in BOOLEAN /\ resetPending \in BOOLEAN
    /\ ready \in BOOLEAN /\ ioEnabled \in BOOLEAN
    /\ garbage \in BOOLEAN /\ raced \in BOOLEAN

RangesOK ==
    /\ pc \in Labels /\ ret \in {-1, 0, 1} /\ held \subseteq Resources
    /\ sgl \in 0 .. Depth - 1 /\ nrQueues \in {0, 1, 2}
    /\ inflight \subseteq Tags
    /\ answered \subseteq inflight /\ timedOut \subseteq inflight
    /\ wpc \in WorkLabels /\ devHead \in Slots /\ devPhase \in {0, 1}

LEMMA TypeHalves == /\ TypeOK <=> FlagsOK /\ RangesOK
                    /\ TypeOK' <=> FlagsOK' /\ RangesOK'
BY DEF TypeOK, FlagsOK, RangesOK

(* Flags stay flags.                                                       *)
LEMMA FlagsStep == FlagsOK /\ [Next]_vars => FlagsOK'
<1> SUFFICES ASSUME FlagsOK, [Next]_vars PROVE FlagsOK'
  OBVIOUS
<1> USE DEF FlagsOK, requests, work, device, history, memory, thread
<1>1. CASE Probe \/ ProbeStep
  BY <1>1 DEF Probe, ProbeStep, Acquire, Enable, Identify, AllocRequests,
     AllocSgl, CreateIoQueue, AddDisk
<1>2. CASE Remove \/ RemoveStep
  BY <1>2 DEF Remove, RemoveStep, GrabWork, FlushWork, DelGendisk, Drain,
     FailIoRequests
<1>3. CASE FreeStep
  BY <1>3 DEF FreeStep, Release, ClearDisk, TeardownIo, FreeSgl, Stop
<1>4. ASSUME NEW t \in Tags, Dispatch(t) \/ Complete(t) \/ Timeout(t)
      PROVE  FlagsOK'
  BY <1>4 DEF Dispatch, Complete, Timeout
<1>5. CASE ResetWork
  BY <1>5 DEF ResetWork, WorkStart, WorkFrozen, WorkFail, WorkRebuild,
     WorkCreate, WorkUnfreeze, WorkDone
<1>6. CASE UNCHANGED vars
  BY <1>6 DEF vars
<1> QED
  BY <1>1, <1>2, <1>3, <1>4, <1>5, <1>6 DEF Next

(* The admin doorbell leaves the controller at a slot of its ring, with a  *)
(* phase bit.                                                              *)
LEMMA RingAdminType ==
    ASSUME devPhase \in {0, 1}, NEW slot \in {0, 1}, RingAdmin(slot)
    PROVE  devHead' \in Slots /\ devPhase' \in {0, 1}
<1>1. Depth \in Nat /\ Depth >= 3 /\ slot \in Nat
  BY LifecycleDepthAssumption
<1>2. NewTail(slot) \in Slots
  BY <1>1 DEF NewTail, Slots
<1>3. PhaseAt(slot) \in {0, 1}
  BY <1>1 DEF PhaseAt
<1> QED
  BY <1>1, <1>2, <1>3 DEF RingAdmin

(* Everything else stays in its range.                                     *)
LEMMA RangesStep == RangesOK /\ [Next]_vars => RangesOK'
<1> SUFFICES ASSUME RangesOK, [Next]_vars PROVE RangesOK'
  OBVIOUS
<1> USE LifecycleDepthAssumption DEF RangesOK, requests, work, device,
        history, memory, thread
<1>0. /\ Acquired \subseteq Labels /\ Releases \subseteq Labels
      /\ {"unbound", "enable", "identify", "requests", "sgl", "create",
          "addDisk", "bound", "cancel", "flush", "delete", "drain", "failIo",
          "clearDisk", "teardownIo", "freeSgl", "stop"} \subseteq Labels
      /\ Acquired \subseteq Resources
      /\ 0 \in 0 .. Depth - 1 /\ Depth - 1 \in Nat
  BY DEF Labels, Acquired, Resources, AdminRings, IoRings
<1>1. CASE Probe
  BY <1>1, <1>0 DEF Probe, Acquired, Resources
<1>2. CASE Acquire
  <2>1. pc' \in Labels
    BY <1>2, AcquireMoves DEF Labels, Acquired, Releases
  <2> QED
    BY <1>2, <1>0, <2>1 DEF Acquire
<1>3. CASE Enable
  BY <1>3, <1>0 DEF Enable, Releases
<1>4. CASE Identify
  <2>1. devHead' \in Slots /\ devPhase' \in {0, 1}
    BY <1>4, RingAdminType DEF Identify
  <2> QED
    BY <1>4, <1>0, <2>1 DEF Identify, Acquired
<1>5. CASE AllocSgl
  BY <1>5, <1>0 DEF AllocSgl, Acquired
<1>6. CASE CreateIoQueue
  <2>1. devHead' \in Slots /\ devPhase' \in {0, 1}
    BY <1>6, RingAdminType DEF CreateIoQueue
  <2>2. pc' \in Labels /\ ret' \in {-1, 0, 1} /\ nrQueues' \in {0, 1, 2}
    BY <1>6, <1>0 DEF CreateIoQueue, Acquired, Releases
  <2>3. UNCHANGED <<held, sgl, inflight, answered, timedOut, wpc>>
    BY <1>6 DEF CreateIoQueue
  <2> QED
    BY <2>1, <2>2, <2>3
<1>a. CASE AllocRequests
  BY <1>a, <1>0 DEF AllocRequests, Releases
<1>7. CASE AddDisk
  BY <1>7, <1>0 DEF AddDisk, Releases
<1>8. CASE Remove
  BY <1>8, <1>0 DEF Remove
<1>9. CASE RemoveStep
  <2>1. CASE GrabWork
    BY <2>1, <1>0 DEF GrabWork, WorkLabels
  <2>2. CASE FlushWork
    BY <2>2, <1>0 DEF FlushWork
  <2>3. CASE DelGendisk
    BY <2>3, <1>0 DEF DelGendisk
  <2>4. CASE Drain
    BY <2>4, <1>0 DEF Drain
  <2>5. CASE FailIoRequests
    BY <2>5, <1>0 DEF FailIoRequests, EndLeft, Releases
  <2> QED
    BY <1>9, <2>1, <2>2, <2>3, <2>4, <2>5 DEF RemoveStep
<1>10. CASE FreeStep
  <2>1. CASE Release
    <3>1. pc' \in Labels
      BY <2>1, ReleaseLabels
    <3>2. nrQueues' \in {0, 1, 2}
      BY <2>1, ReleaseQueues
    <3> QED
      BY <2>1, <3>1, <3>2 DEF Release
  <2>2. CASE ClearDisk
    BY <2>2, <1>0 DEF ClearDisk, Releases
  <2>3. CASE TeardownIo
    BY <2>3, <1>0 DEF TeardownIo, Releases
  <2>4. CASE FreeSgl
    <3>1. pc' \in Labels
      BY <2>4, <1>0 DEF FreeSgl, Releases
    <3>2. sgl' \in 0 .. Depth - 1
      <4>1. \/ sgl > 0 /\ sgl' = sgl - 1
            \/ sgl' = sgl
        BY <2>4, Zenon DEF FreeSgl
      <4>2. sgl \in 0 .. Depth - 1 /\ Depth \in Nat
        BY Zenon DEF RangesOK
      <4> HIDE DEF RangesOK
      <4> QED
        BY <4>1, <4>2
    <3>3. UNCHANGED <<ret, held, nrQueues, inflight, answered, timedOut, wpc,
                      devHead, devPhase>>
      BY <2>4 DEF FreeSgl
    <3> QED
      BY <3>1, <3>2, <3>3
  <2>5. CASE Stop
    BY <2>5, <1>0 DEF Stop, Releases
  <2> QED
    BY <1>10, <2>1, <2>2, <2>3, <2>4, <2>5 DEF FreeStep
<1>11. ASSUME NEW t \in Tags, Dispatch(t) \/ Complete(t) \/ Timeout(t)
       PROVE  RangesOK'
  <2>1. CASE Dispatch(t)
    BY <2>1 DEF Dispatch
  <2>2. CASE Complete(t)
    BY <2>2 DEF Complete
  <2>3. CASE Timeout(t)
    BY <2>3 DEF Timeout, WorkLabels
  <2> QED
    BY <1>11, <2>1, <2>2, <2>3
<1>12. CASE ResetWork
  <2>1. CASE WorkStart
    BY <2>1 DEF WorkStart, WorkLabels
  <2>2. CASE WorkFrozen
    BY <2>2 DEF WorkFrozen, WorkLabels
  <2>3. CASE WorkFail
    BY <2>3 DEF WorkFail, EndLeft, WorkLabels
  <2>4. CASE WorkRebuild
    BY <2>4 DEF WorkRebuild, WorkLabels, Slots
  <2>5. CASE WorkCreate
    <3>1. devHead' \in Slots /\ devPhase' \in {0, 1}
      BY <2>5, RingAdminType DEF WorkCreate
    <3> QED
      BY <2>5, <3>1 DEF WorkCreate, WorkLabels
  <2>6. CASE WorkUnfreeze
    BY <2>6 DEF WorkUnfreeze, WorkLabels
  <2>7. CASE WorkDone
    BY <2>7 DEF WorkDone, WorkLabels
  <2> QED
    BY <1>12, <2>1, <2>2, <2>3, <2>4, <2>5, <2>6, <2>7 DEF ResetWork
<1>13. CASE UNCHANGED vars
  BY <1>13 DEF vars
<1> QED
  BY <1>1, <1>2, <1>3, <1>4, <1>5, <1>6, <1>7, <1>8, <1>9, <1>10, <1>11,
     <1>12, <1>13, <1>a DEF Next, ProbeStep

(* The initial state is of the right type.                                 *)
LEMMA TypeInit == Init => TypeOK
<1>1. Init => FlagsOK
  BY DEF Init, FlagsOK
<1>2. Init => RangesOK
  BY LifecycleDepthAssumption DEF Init, RangesOK, Labels, WorkLabels, Slots
<1> QED
  BY <1>1, <1>2, TypeHalves

(* DriverLifecycle's types hold in every state: in particular only started *)
(* requests are answered or time out, and requests[] never has more SGL    *)
(* tables than entries.                                                    *)
THEOREM LifecycleTypeCorrect == Spec => []TypeOK
<1>1. TypeOK /\ [Next]_vars => TypeOK'
  BY TypeHalves, FlagsStep, RangesStep
<1> QED
  BY <1>1, TypeInit, PTL DEF Spec

-----------------------------------------------------------------------------
(* An error code that was garbage stays on record.                         *)
LEMMA GarbageStays == TypeOK /\ [Next]_vars /\ garbage => garbage'
<1> SUFFICES ASSUME [Next]_vars, garbage = TRUE PROVE garbage' = TRUE
  BY DEF TypeOK
<1> USE DEF history
<1>1. CASE Probe \/ ProbeStep
  BY <1>1 DEF Probe, ProbeStep, Acquire, Enable, Identify, AllocRequests,
     AllocSgl, CreateIoQueue, AddDisk
<1>2. CASE Remove \/ RemoveStep
  BY <1>2 DEF Remove, RemoveStep, GrabWork, FlushWork, DelGendisk, Drain,
     FailIoRequests
<1>3. CASE FreeStep
  BY <1>3 DEF FreeStep, Release, ClearDisk, TeardownIo, FreeSgl, Stop
<1>4. ASSUME NEW t \in Tags, Dispatch(t) \/ Complete(t) \/ Timeout(t)
      PROVE  garbage' = TRUE
  BY <1>4 DEF Dispatch, Complete, Timeout
<1>5. CASE ResetWork
  BY <1>5 DEF ResetWork, WorkStart, WorkFrozen, WorkFail, WorkRebuild,
     WorkCreate, WorkUnfreeze, WorkDone
<1>6. CASE UNCHANGED vars
  BY <1>6 DEF vars
<1> QED
  BY <1>1, <1>2, <1>3, <1>4, <1>5, <1>6 DEF Next

(* The block layer, the interrupt and the worker leave what the thread     *)
(* holds alone.                                                            *)
OtherActor == \/ \E t \in Tags : Dispatch(t) \/ Complete(t) \/ Timeout(t)
              \/ ResetWork
              \/ UNCHANGED vars

LEMMA OthersLeaveThread ==
    ASSUME OtherActor PROVE UNCHANGED <<pc, ret, managed, held, sgl,
                                        nrQueues, disk, added, garbage>>
<1> USE DEF thread, memory, requests, history
<1>1. ASSUME NEW t \in Tags, Dispatch(t) \/ Complete(t) \/ Timeout(t)
      PROVE  UNCHANGED <<thread, memory, added, garbage>>
  BY <1>1 DEF Dispatch, Complete, Timeout
<1>2. CASE ResetWork
  BY <1>2 DEF ResetWork, WorkStart, WorkFrozen, WorkFail, WorkRebuild,
     WorkCreate, WorkUnfreeze, WorkDone
<1>3. CASE UNCHANGED vars
  BY <1>3 DEF vars
<1> QED
  BY <1>1, <1>2, <1>3 DEF OtherActor

(* Every action takes or gives back the top of the stack.                  *)
LEMMA StackStep ==
    ASSUME StackInv, PointerInv, CountInv, Next \/ UNCHANGED vars, ~garbage'
    PROVE  StackInv'
<1>1. CASE Acquire
  BY <1>1, AcquireMoves DEF StackInv, HoldsDisk, HoldsTagSet, HoldsIoIrq,
     HoldsIoCq, HoldsIoSq, HoldsAdminIrq, HoldsVectors, HoldsAdminCq,
     HoldsAdminSq, HoldsMaster
<1>2. CASE Release
  <2>1. ret = -1
    BY <1>2 DEF Release, CountInv, Returning
  <2> QED
    BY <1>2, <2>1, ReleaseMoves DEF StackInv, HoldsDisk, HoldsTagSet,
       HoldsIoIrq, HoldsIoCq, HoldsIoSq, HoldsAdminIrq, HoldsVectors,
       HoldsAdminCq, HoldsAdminSq, HoldsMaster
<1>3. CASE TeardownIo
  <2>1. pc = "teardownIo" /\ held' = held
    BY <1>3 DEF TeardownIo, memory
  <2>2. nrQueues = 2
    BY <2>1 DEF CountInv, WithIoQueue
  <2>3. ~(nrQueues < 2)
    BY <2>2
  <2>4. pc' = "free ioIrq"
    BY <1>3, <2>3 DEF TeardownIo
  <2> QED
    BY <2>1, <2>4 DEF StackInv, HoldsDisk, HoldsTagSet, HoldsIoIrq,
       HoldsIoCq, HoldsIoSq, HoldsAdminIrq, HoldsVectors, HoldsAdminCq,
       HoldsAdminSq, HoldsMaster
<1> USE DEF StackInv, HoldsDisk, HoldsTagSet, HoldsIoIrq, HoldsIoCq,
        HoldsIoSq, HoldsAdminIrq, HoldsVectors, HoldsAdminCq, HoldsAdminSq,
        HoldsMaster
<1>4. CASE Probe
  BY <1>4 DEF Probe
<1>5. CASE Enable \/ Identify \/ CreateIoQueue
  BY <1>5 DEF Enable, Identify, CreateIoQueue, memory
<1>6. CASE AllocSgl
  BY <1>6 DEF AllocSgl
<1>7. CASE AllocRequests \/ AddDisk \/ Remove
  BY <1>7 DEF AllocRequests, AddDisk, Remove, memory
<1>8. CASE RemoveStep
  BY <1>8 DEF RemoveStep, GrabWork, FlushWork, DelGendisk, Drain,
     FailIoRequests, memory, PointerInv, WithDisk
<1>9. CASE ClearDisk \/ FreeSgl \/ Stop
  BY <1>9 DEF ClearDisk, FreeSgl, Stop, memory
<1>10. CASE OtherActor
  BY <1>10, OthersLeaveThread
<1> QED
  BY <1>1, <1>2, <1>3, <1>4, <1>5, <1>6, <1>7, <1>8, <1>9, <1>10
  DEF Next, ProbeStep, FreeStep, OtherActor

(* ofdev and its disk pointer follow the thread.                           *)
LEMMA PointerStep ==
    ASSUME TypeOK, PointerInv, CountInv, Next \/ UNCHANGED vars, ~garbage'
    PROVE  PointerInv'
<1>0. managed \in BOOLEAN /\ disk \in BOOLEAN
  BY DEF TypeOK
<1>1. CASE Acquire
  <2>1. managed' = managed
    BY <1>1 DEF Acquire
  <2>2. pc \notin WithDisk /\ pc # "unbound" /\ pc' # "unbound"
    BY <1>1, AcquireMoves DEF WithDisk, HoldsDisk
  <2>3. pc' \in WithDisk => pc' = "addDisk" /\ pc = "disk"
    BY <1>1, AcquireMoves DEF WithDisk, HoldsDisk
  <2>4. disk' <=> pc' \in WithDisk
    <3>1. ~disk
      BY <2>2 DEF PointerInv
    <3>2. \/ pc = "disk" /\ disk' = TRUE /\ pc' = "addDisk"
          \/ pc # "disk" /\ disk' = FALSE
          \/ pc = "disk" /\ disk' = FALSE /\ pc' = "free tagSet"
      BY <1>0, <1>1, <3>1, AcquireMoves
    <3> QED
      BY <3>2, <2>3 DEF WithDisk, HoldsDisk
  <2> QED
    BY <2>1, <2>2, <2>3, <2>4 DEF PointerInv
<1>2. CASE Release
  <2>1. ret = -1
    BY <1>2 DEF Release, CountInv, Returning
  <2>2. managed' = (managed /\ pc' # "unbound") /\ disk' = disk
    BY <1>2 DEF Release
  <2>3. pc # "unbound"
    BY <1>2 DEF Release, Releases
  <2> QED
    BY <1>0, <1>2, <2>1, <2>2, <2>3, ReleaseMoves DEF PointerInv, WithDisk,
       HoldsDisk
<1> USE DEF PointerInv, WithDisk, HoldsDisk
<1>3. CASE TeardownIo
  BY <1>3 DEF TeardownIo, memory
<1>4. CASE Probe
  BY <1>4 DEF Probe
<1>5. CASE Enable \/ Identify \/ CreateIoQueue
  <2>1. /\ pc \in {"enable", "identify", "create"}
        /\ pc' \in {"identify", "free adminIrq", "ioSq", "stop", "tagSet",
                    "free ioIrq"}
    BY <1>5 DEF Enable, Identify, CreateIoQueue
  <2>2. managed' = managed /\ disk' = disk
    BY <1>5 DEF Enable, Identify, CreateIoQueue, memory
  <2> QED
    BY <2>1, <2>2
<1>6. CASE AllocSgl \/ AllocRequests
  <2>1. /\ pc \in {"sgl", "requests"}
        /\ pc' \in {"sgl", "ioIrq", "freeSgl", "free ioCq"}
    BY <1>6 DEF AllocSgl, AllocRequests
  <2>2. UNCHANGED <<managed, disk>>
    BY <1>6 DEF AllocSgl, AllocRequests, memory
  <2> QED
    BY <2>1, <2>2
<1>7. CASE AddDisk \/ Remove
  BY <1>7 DEF AddDisk, Remove, memory
<1>8. CASE RemoveStep
  BY <1>8 DEF RemoveStep, GrabWork, FlushWork, DelGendisk, Drain,
     FailIoRequests, memory
<1>9. CASE ClearDisk \/ FreeSgl \/ Stop
  <2>1. CASE ClearDisk
    <3>1. pc = "clearDisk" /\ pc' = "free tagSet" /\ managed' = managed
      BY <2>1 DEF ClearDisk
    <3>2. ~disk'
      BY <2>1 DEF ClearDisk
    <3> QED
      BY <3>1, <3>2
  <2>2. CASE FreeSgl \/ Stop
    <3>1. /\ pc \in {"freeSgl", "stop"}
          /\ pc' \in {"freeSgl", "free ioCq", "free adminIrq"}
      BY <2>2 DEF FreeSgl, Stop
    <3>2. UNCHANGED <<managed, disk>>
      BY <2>2 DEF FreeSgl, Stop, memory
    <3> QED
      BY <3>1, <3>2
  <2> QED
    BY <1>9, <2>1, <2>2
<1>10. CASE OtherActor
  <2>1. UNCHANGED <<pc, managed, disk>>
    BY <1>10, OthersLeaveThread
  <2> QED
    BY <2>1
<1> QED
  BY <1>1, <1>2, <1>3, <1>4, <1>5, <1>6, <1>7, <1>8, <1>9, <1>10
  DEF Next, ProbeStep, FreeStep, OtherActor

(* So do the SGL tables, nr_queues and the error code.                     *)
LEMMA CountStep ==
    ASSUME TypeOK, PointerInv, CountInv, Next \/ UNCHANGED vars, ~garbage'
    PROVE  CountInv'
<1>1. CASE Acquire
  <2>1. sgl' = sgl /\ nrQueues' = nrQueues
    BY <1>1 DEF Acquire
  <2> QED
    BY <1>1, <2>1, AcquireMoves DEF CountInv, HoldsDisk, HoldsTagSet,
       HoldsIoIrq, HoldsIoCq, WithIoQueue, Returning, Releases
<1>2. CASE Release
  <2>1. ret = -1 /\ ret' = ret /\ sgl' = sgl
    BY <1>2 DEF Release, CountInv, Returning
  <2> QED
    BY <1>2, <2>1, ReleaseMoves, ReleaseQueues DEF CountInv, HoldsDisk,
       HoldsTagSet, HoldsIoIrq, HoldsIoCq, WithIoQueue, Returning, Releases
<1>0. ASSUME pc = "teardownIo" PROVE ~(nrQueues < 2)
  <2>1. nrQueues = 2
    BY <1>0 DEF CountInv, WithIoQueue
  <2> QED
    BY <2>1
<1>b. \A r \in {-1, 0, 1} : ~(r >= 0) => r = -1
  OBVIOUS
<1>a. pc = "flush" => disk
  BY DEF PointerInv, WithDisk, HoldsDisk
<1> USE DEF CountInv, HoldsDisk, HoldsTagSet, HoldsIoIrq, HoldsIoCq,
        WithIoQueue, Returning, Releases
<1>3. CASE TeardownIo
  <2>1. pc = "teardownIo" /\ UNCHANGED <<ret, sgl, nrQueues>>
    BY <1>3 DEF TeardownIo, memory
  <2>2. pc' = "free ioIrq"
    BY <1>3, <2>1, <1>0 DEF TeardownIo
  <2> QED
    BY <2>1, <2>2
<1>4. CASE Probe
  BY <1>4 DEF Probe
<1>5. CASE Enable \/ Identify \/ CreateIoQueue
  BY <1>5 DEF Enable, Identify, CreateIoQueue, memory
<1>6. CASE AllocSgl
  <2>1. pc = "sgl" /\ nrQueues' = nrQueues
    BY <1>6 DEF AllocSgl
  <2>2. \/ pc' = "sgl" /\ ret' = ret
        \/ pc' = "freeSgl" /\ ret' = -1
        \/ pc' = "ioIrq" /\ sgl' = Depth - 1 /\ ret' = ret
    <3>1. \/ pc' = "sgl" /\ ret' = ret
          \/ pc' = "freeSgl" /\ ret' \in {-1, 0, 1} /\ ~(ret' >= 0)
          \/ pc' = "ioIrq" /\ sgl = Depth - 1 /\ sgl' = sgl /\ ret' = ret
      BY <1>6, <2>1, Zenon DEF AllocSgl
    <3> QED
      BY <3>1, <1>b
  <2> QED
    BY <2>1, <2>2
<1>7. CASE AllocRequests \/ AddDisk \/ Remove
  BY <1>7 DEF AllocRequests, AddDisk, Remove, memory
<1>8. CASE RemoveStep
  <2>1. /\ pc \in {"cancel", "flush", "delete", "drain", "failIo"}
        /\ UNCHANGED <<ret, sgl, nrQueues>>
    BY <1>8 DEF RemoveStep, GrabWork, FlushWork, DelGendisk, Drain,
       FailIoRequests, memory
  <2>2. pc' \in {"flush", "delete", "drain", "failIo", "free disk"}
    BY <1>8, <1>a DEF RemoveStep, GrabWork, FlushWork, DelGendisk, Drain,
       FailIoRequests
  <2> QED
    BY <2>1, <2>2
<1>9. CASE ClearDisk \/ FreeSgl \/ Stop
  BY <1>9 DEF ClearDisk, FreeSgl, Stop, memory
<1>10. CASE OtherActor
  BY <1>10, OthersLeaveThread
<1> QED
  BY <1>1, <1>2, <1>3, <1>4, <1>5, <1>6, <1>7, <1>8, <1>9, <1>10
  DEF Next, ProbeStep, FreeStep, OtherActor

(* The disk takes requests from device_add_disk() to del_gendisk(), and    *)
(* del_gendisk() does not return before they have ended.                   *)
LEMMA RequestStep ==
    ASSUME TypeOK, PointerInv, CountInv, RequestInv,
           Next \/ UNCHANGED vars, ~garbage'
    PROVE  RequestInv'
<1>1. CASE Acquire
  <2>1. UNCHANGED <<added, inflight>>
    BY <1>1 DEF Acquire, requests
  <2> QED
    BY <1>1, <2>1, AcquireMoves DEF RequestInv
<1>2. CASE Release
  <2>1. ret = -1
    BY <1>2 DEF Release, CountInv, Returning
  <2>2. UNCHANGED <<added, inflight>>
    BY <1>2 DEF Release, requests
  <2> QED
    BY <1>2, <2>1, <2>2, ReleaseMoves DEF RequestInv
<1>3. CASE Probe \/ TeardownIo \/ ClearDisk \/ FreeSgl \/ Stop
  <2>1. UNCHANGED <<added, inflight>>
    BY <1>3 DEF Probe, TeardownIo, ClearDisk, FreeSgl, Stop, requests
  <2>2. /\ pc \in {"unbound", "teardownIo", "clearDisk", "freeSgl", "stop"}
        /\ pc' \in {"adminSq", "stop", "free ioIrq", "free tagSet",
                    "freeSgl", "free ioCq", "free adminIrq"}
    BY <1>3 DEF Probe, TeardownIo, ClearDisk, FreeSgl, Stop
  <2> QED
    BY <2>1, <2>2 DEF RequestInv
<1>4. CASE \/ Enable \/ Identify \/ CreateIoQueue
           \/ AllocSgl \/ AllocRequests
  <2>1. UNCHANGED <<added, inflight>>
    BY <1>4 DEF Enable, Identify, CreateIoQueue, AllocSgl, AllocRequests,
       requests
  <2>2. /\ pc \in {"enable", "identify", "create", "requests", "sgl"}
        /\ pc' \in {"identify", "free adminIrq", "ioSq", "stop", "tagSet",
                    "free ioIrq", "sgl", "freeSgl", "ioIrq", "free ioCq"}
    BY <1>4 DEF Enable, Identify, CreateIoQueue, AllocSgl, AllocRequests
  <2> QED
    BY <2>1, <2>2 DEF RequestInv
<1>5. CASE AddDisk
  <2>1. pc = "addDisk" /\ inflight' = inflight
    BY <1>5 DEF AddDisk
  <2>2. ~added /\ inflight = {}
    BY <2>1 DEF RequestInv
  <2>3. \/ pc' = "bound" /\ added' = TRUE
        \/ pc' = "free disk" /\ added' = FALSE
    BY <1>5, <2>2 DEF AddDisk, TypeOK
  <2> QED
    BY <2>1, <2>2, <2>3 DEF RequestInv
<1>6. CASE Remove \/ GrabWork
  BY <1>6 DEF RequestInv, requests, Remove, GrabWork
<1>7. CASE FlushWork
  <2>1. disk
    BY <1>7 DEF FlushWork, PointerInv, WithDisk, HoldsDisk
  <2> QED
    BY <1>7, <2>1 DEF RequestInv, requests, FlushWork
<1>8. CASE DelGendisk
  BY <1>8 DEF RequestInv, DelGendisk
<1>9. CASE Drain
  BY <1>9 DEF RequestInv, Drain, requests
<1>10. CASE FailIoRequests
  <2>1. inflight' \subseteq inflight
    BY <1>10 DEF FailIoRequests, EndLeft
  <2> QED
    BY <1>10, <2>1 DEF RequestInv, FailIoRequests
<1>11. CASE OtherActor
  <2>1. UNCHANGED <<pc, added>>
    BY <1>11, OthersLeaveThread
  <2>2. inflight' \subseteq inflight \/ added
    <3>1. ASSUME NEW t \in Tags, Dispatch(t) \/ Complete(t) \/ Timeout(t)
          PROVE  inflight' \subseteq inflight \/ added
      BY <3>1 DEF Dispatch, Complete, Timeout
    <3>2. CASE ResetWork
      BY <3>2 DEF ResetWork, WorkStart, WorkFrozen, WorkFail, WorkRebuild,
         WorkCreate, WorkUnfreeze, WorkDone, requests, EndLeft
    <3>3. CASE UNCHANGED vars
      BY <3>3 DEF vars, requests
    <3> QED
      BY <1>11, <3>1, <3>2, <3>3 DEF OtherActor
  <2> QED
    BY <2>1, <2>2 DEF RequestInv
<1> QED
  BY <1>1, <1>2, <1>3, <1>4, <1>5, <1>6, <1>7, <1>8, <1>9, <1>10, <1>11
  DEF Next, ProbeStep, RemoveStep, FreeStep, OtherActor

(* While no timeout has raced with remove(), the worker runs only while    *)
(* the disk is there, and the controller is ready only between ENABLE and  *)
(* the clearing of CONTROL.                                                *)
LEMMA WorkerStep ==
    ASSUME TypeOK, PointerInv, CountInv, RequestInv, WorkerInv,
           Next \/ UNCHANGED vars, ~garbage', ~raced'
    PROVE  WorkerInv'
<1>1. CASE Acquire
  <2>1. UNCHANGED <<wpc, resetPending, frozen, ready>>
    BY <1>1 DEF Acquire, work, device
  <2> QED
    BY <1>1, <2>1, AcquireMoves DEF WorkerInv, HoldsDisk, HoldsTagSet,
       HoldsIoIrq, HoldsIoCq, HoldsIoSq, HoldsAdminIrq
<1>2. CASE Release
  <2>1. ret = -1
    BY <1>2 DEF Release, CountInv, Returning
  <2>2. UNCHANGED <<wpc, resetPending, frozen, ready>>
    BY <1>2 DEF Release, work, device
  <2> QED
    BY <1>2, <2>1, <2>2, ReleaseMoves DEF WorkerInv, HoldsDisk, HoldsTagSet,
       HoldsIoIrq, HoldsIoCq, HoldsIoSq, HoldsAdminIrq
<1>3. CASE Probe
  BY <1>3 DEF Probe, WorkerInv, device, HoldsDisk, HoldsTagSet,
     HoldsIoIrq, HoldsIoCq, HoldsIoSq, HoldsAdminIrq
<1>4. CASE TeardownIo \/ ClearDisk \/ FreeSgl
  <2>1. /\ pc \in {"teardownIo", "clearDisk", "freeSgl"}
        /\ pc' \in {"stop", "free ioIrq", "free tagSet", "freeSgl",
                    "free ioCq"}
    BY <1>4 DEF TeardownIo, ClearDisk, FreeSgl
  <2>2. UNCHANGED <<wpc, resetPending, frozen, ready>>
    BY <1>4 DEF TeardownIo, ClearDisk, FreeSgl, work, device
  <2> QED
    BY <2>1, <2>2 DEF WorkerInv, HoldsDisk, HoldsTagSet, HoldsIoIrq,
       HoldsIoCq, HoldsIoSq, HoldsAdminIrq
<1>5. CASE Stop
  <2>1. pc = "stop" /\ pc' = "free adminIrq" /\ ~ready'
    BY <1>5 DEF Stop
  <2>2. UNCHANGED <<wpc, resetPending, frozen>>
    BY <1>5 DEF Stop, work
  <2> QED
    BY <2>1, <2>2 DEF WorkerInv
<1>6. CASE Enable
  <2>1. pc = "enable" /\ UNCHANGED <<wpc, resetPending, frozen>>
    BY <1>6 DEF Enable, work
  <2>2. pc' = "identify" \/ ~ready'
    BY <1>6 DEF Enable
  <2> QED
    BY <2>1, <2>2 DEF WorkerInv, HoldsAdminIrq
<1>7. CASE Identify \/ CreateIoQueue \/ AllocSgl \/ AllocRequests
  <2>1. /\ pc \in {"identify", "create", "requests", "sgl"}
        /\ pc' \in {"ioSq", "stop", "tagSet", "free ioIrq", "sgl",
                    "freeSgl", "ioIrq", "free ioCq"}
    BY <1>7 DEF Identify, CreateIoQueue, AllocSgl, AllocRequests
  <2>2. UNCHANGED <<wpc, resetPending, frozen, ready>>
    BY <1>7 DEF Identify, CreateIoQueue, AllocSgl, AllocRequests, work,
       device
  <2> QED
    BY <2>1, <2>2 DEF WorkerInv, HoldsIoIrq, HoldsIoCq, HoldsIoSq,
       HoldsAdminIrq
<1>8. CASE AddDisk \/ Remove
  <2>1. \/ pc = "addDisk" /\ pc' \in {"bound", "free disk"}
        \/ pc = "bound" /\ pc' = "cancel"
    BY <1>8 DEF AddDisk, Remove
  <2>2. UNCHANGED <<wpc, resetPending, frozen, ready>>
    BY <1>8 DEF AddDisk, Remove, work, device
  <2> QED
    BY <2>1, <2>2 DEF WorkerInv, HoldsDisk, HoldsTagSet, HoldsIoIrq,
       HoldsIoCq, HoldsIoSq, HoldsAdminIrq
<1>9. CASE GrabWork
  <2>1. pc = "cancel" /\ pc' = "flush" /\ wpc' \in {wpc, "idle"}
    BY <1>9 DEF GrabWork
  <2>2. wpc' = wpc \/ wpc = "queued"
    BY <1>9 DEF GrabWork
  <2>3. UNCHANGED <<resetPending, frozen, ready>>
    BY <1>9 DEF GrabWork, device
  <2> QED
    BY <2>1, <2>2, <2>3 DEF WorkerInv, HoldsDisk, HoldsTagSet, HoldsIoIrq,
       HoldsIoCq, HoldsIoSq, HoldsAdminIrq
<1>10. CASE FlushWork \/ DelGendisk \/ Drain \/ FailIoRequests
  <2>1. disk \/ ~FlushWork
    BY DEF FlushWork, PointerInv, WithDisk, HoldsDisk
  <2>2. \/ pc = "flush" /\ wpc = "idle" /\ pc' = "delete"
        \/ /\ pc \in {"delete", "drain", "failIo"}
           /\ pc' \in {"drain", "failIo", "free disk"}
    BY <1>10, <2>1 DEF FlushWork, DelGendisk, Drain, FailIoRequests
  <2>3. UNCHANGED <<wpc, resetPending, frozen, ready>>
    BY <1>10 DEF FlushWork, DelGendisk, Drain, FailIoRequests, work, device
  <2> QED
    BY <2>2, <2>3 DEF WorkerInv, HoldsDisk, HoldsTagSet, HoldsIoIrq,
       HoldsIoCq, HoldsIoSq, HoldsAdminIrq
<1>11. ASSUME NEW t \in Tags, Dispatch(t) \/ Complete(t)
       PROVE  WorkerInv'
  <2>1. UNCHANGED <<pc, wpc, resetPending, frozen, ready>>
    BY <1>11 DEF Dispatch, Complete, work, device, thread
  <2> QED
    BY <2>1 DEF WorkerInv
<1>12. ASSUME NEW t \in Tags, Timeout(t)
       PROVE  WorkerInv'
  <2>1. UNCHANGED <<pc, frozen, ready>> /\ resetPending'
    BY <1>12 DEF Timeout, device, thread
  <2>2. pc \in {"bound", "cancel", "flush", "delete", "drain"}
    BY <1>12 DEF Timeout, RequestInv
  <2>3. CASE resetPending
    <3>1. wpc' = wpc
      BY <1>12, <2>3 DEF Timeout
    <3> QED
      BY <2>1, <2>3, <3>1 DEF WorkerInv
  <2>4. CASE ~resetPending
    <3>1. pc \notin {"delete", "drain"}
      BY <1>12, <2>4 DEF Timeout
    <3>2. wpc = "idle" /\ ~frozen
      BY <2>4 DEF WorkerInv
    <3> QED
      BY <2>1, <2>2, <3>1, <3>2 DEF WorkerInv
  <2> QED
    BY <2>3, <2>4
<1>13. CASE WorkStart \/ WorkFrozen \/ WorkFail \/ WorkRebuild \/ WorkCreate
  <2>1. /\ wpc \in {"queued", "freezing", "fail", "rebuild", "create"}
        /\ UNCHANGED <<pc, resetPending>>
    BY <1>13 DEF WorkStart, WorkFrozen, WorkFail, WorkRebuild, WorkCreate,
       thread
  <2>2. pc \in {"bound", "cancel", "flush"} /\ resetPending /\ disk
    BY <2>1 DEF WorkerInv, PointerInv, WithDisk, HoldsDisk
  <2>3. wpc' \in {"freezing", "fail", "rebuild", "create", "unfreeze"}
    BY <1>13, <2>2 DEF WorkStart, WorkFrozen, WorkFail, WorkRebuild,
       WorkCreate
  <2> QED
    BY <2>1, <2>2, <2>3 DEF WorkerInv, HoldsDisk, HoldsTagSet, HoldsIoIrq,
       HoldsIoCq, HoldsIoSq, HoldsAdminIrq
<1>14. CASE WorkUnfreeze
  BY <1>14 DEF WorkUnfreeze, WorkerInv, thread, device
<1>15. CASE WorkDone
  <2>1. ~frozen
    BY <1>15 DEF WorkDone, WorkerInv
  <2> QED
    BY <1>15, <2>1 DEF WorkDone, WorkerInv, thread, device
<1>16. CASE UNCHANGED vars
  BY <1>16 DEF vars, work, thread, device, WorkerInv
<1> QED
  BY <1>1, <1>2, <1>3, <1>4, <1>5, <1>6, <1>7, <1>8, <1>9, <1>10, <1>11,
     <1>12, <1>13, <1>14, <1>15, <1>16
  DEF Next, ProbeStep, RemoveStep, FreeStep, ResetWork

-----------------------------------------------------------------------------
(* The unbound device satisfies the invariant.                             *)
LEMMA LifecycleInit == Init => LifecycleInv
<1> SUFFICES ASSUME Init PROVE LifecycleInv
  OBVIOUS
<1>1. pc = "unbound" /\ held = {} /\ sgl = 0 /\ nrQueues = 0 /\ ret = 0
        /\ inflight = {} /\ wpc = "idle"
  BY DEF Init
<1>2. ~managed /\ ~disk /\ ~added /\ ~frozen /\ ~ready
  BY DEF Init
<1>3. /\ pc \notin HoldsMaster /\ pc \notin Returning /\ pc \notin WithDisk
      /\ pc \notin WithIoQueue
  BY <1>1 DEF HoldsDisk, HoldsTagSet, HoldsIoIrq, HoldsIoCq, HoldsIoSq,
     HoldsAdminIrq, HoldsVectors, HoldsAdminCq, HoldsAdminSq, HoldsMaster,
     Returning, Releases, WithDisk, WithIoQueue
<1>4. StackInv
  BY <1>1, <1>3 DEF StackInv, HoldsTagSet, HoldsIoIrq, HoldsIoCq, HoldsIoSq,
     HoldsAdminIrq, HoldsVectors, HoldsAdminCq, HoldsAdminSq, HoldsMaster
<1>5. PointerInv /\ RequestInv /\ WorkerInv
  BY <1>1, <1>2, <1>3 DEF PointerInv, RequestInv, WorkerInv
<1>6. CountInv
  BY <1>1, <1>3 DEF CountInv, HoldsTagSet, HoldsIoIrq, HoldsIoCq, HoldsIoSq,
     HoldsAdminIrq, HoldsVectors, HoldsAdminCq, HoldsAdminSq, HoldsMaster
<1> QED
  BY TypeInit, <1>4, <1>5, <1>6 DEF LifecycleInv

(* A race stays on record.                                                 *)
LEMMA RaceStays == TypeOK /\ [Next]_vars /\ raced => raced'
<1> SUFFICES ASSUME [Next]_vars, raced = TRUE PROVE raced' = TRUE
  BY DEF TypeOK
<1> USE DEF history
<1>1. CASE Probe \/ ProbeStep
  BY <1>1 DEF Probe, ProbeStep, Acquire, Enable, Identify, AllocRequests,
     AllocSgl, CreateIoQueue, AddDisk
<1>2. CASE Remove \/ RemoveStep
  BY <1>2 DEF Remove, RemoveStep, GrabWork, FlushWork, DelGendisk, Drain,
     FailIoRequests
<1>3. CASE FreeStep
  BY <1>3 DEF FreeStep, Release, ClearDisk, TeardownIo, FreeSgl, Stop
<1>4. ASSUME NEW t \in Tags, Dispatch(t) \/ Complete(t) \/ Timeout(t)
      PROVE  raced' = TRUE
  BY <1>4 DEF Dispatch, Complete, Timeout
<1>5. CASE ResetWork
  BY <1>5 DEF ResetWork, WorkStart, WorkFrozen, WorkFail, WorkRebuild,
     WorkCreate, WorkUnfreeze, WorkDone
<1>6. CASE UNCHANGED vars
  BY <1>6 DEF vars
<1> QED
  BY <1>1, <1>2, <1>3, <1>4, <1>5, <1>6 DEF Next

(* Every step preserves the invariant.                                     *)
LEMMA LifecycleStep == LifecycleInv /\ [Next]_vars => LifecycleInv'
<1> SUFFICES ASSUME LifecycleInv, [Next]_vars PROVE LifecycleInv'
  OBVIOUS
<1>1. TypeOK /\ TypeOK' /\ (Next \/ UNCHANGED vars)
  BY TypeHalves, FlagsStep, RangesStep DEF LifecycleInv
<1>2. ASSUME ~garbage'
      PROVE  StackInv' /\ PointerInv' /\ CountInv' /\ RequestInv'
  <2>1. StackInv /\ PointerInv /\ CountInv /\ RequestInv
    BY <1>1, <1>2, GarbageStays DEF LifecycleInv
  <2> QED
    BY <1>1, <1>2, <2>1, StackStep, PointerStep, CountStep, RequestStep
<1>3. ASSUME ~garbage', ~raced' PROVE WorkerInv'
  <2>1. PointerInv /\ CountInv /\ RequestInv /\ WorkerInv
    BY <1>1, <1>3, GarbageStays, RaceStays DEF LifecycleInv
  <2> QED
    BY <1>1, <1>3, <2>1, WorkerStep
<1> QED
  BY <1>1, <1>2, <1>3 DEF LifecycleInv

(* The resource stack, the requests and the worker agree in every state.   *)
THEOREM LifecycleCorrect == Spec => []LifecycleInv
BY LifecycleInit, LifecycleStep, PTL DEF Spec

(* Whichever step of probe() failed, at whichever of the SGL tables, and   *)
(* whatever the worker and the requests were doing when remove() came, a   *)
(* device that is unbound has given everything back, for every queue       *)
(* depth; after a timeout that raced with remove() the work item may be    *)
(* left and the controller on, and nothing is said after an uninitialized  *)
(* ret that was not an error code.                                         *)
THEOREM UnboundHoldsNothing == Spec => []NothingLeaks
<1>1. ASSUME LifecycleInv PROVE NothingLeaks
  <2> SUFFICES ASSUME pc = "unbound", ~garbage
               PROVE  /\ held = {} /\ sgl = 0 /\ nrQueues = 0 /\ ~managed
                      /\ ~disk /\ ~added /\ inflight = {}
                      /\ ~raced => wpc = "idle" /\ ~frozen /\ ~ready
    BY DEF NothingLeaks
  <2>1. /\ StackInv /\ PointerInv /\ CountInv /\ RequestInv
        /\ ~raced => WorkerInv
        /\ held \subseteq Resources
    BY <1>1 DEF LifecycleInv, TypeOK
  <2>2. pc \notin HoldsMaster /\ pc \notin WithDisk
    BY DEF HoldsDisk, HoldsTagSet, HoldsIoIrq, HoldsIoCq, HoldsIoSq,
       HoldsAdminIrq, HoldsVectors, HoldsAdminCq, HoldsAdminSq, HoldsMaster,
       WithDisk
  <2>3. /\ pc \notin HoldsIoCq
        /\ pc \notin HoldsAdminIrq
    BY <2>2 DEF HoldsMaster, HoldsAdminSq, HoldsAdminCq, HoldsVectors,
       HoldsAdminIrq, HoldsIoSq
  <2>4. held = {}
    BY <2>1, <2>2 DEF StackInv, Resources, AdminRings, IoRings, HoldsTagSet,
       HoldsIoIrq, HoldsIoCq, HoldsIoSq, HoldsAdminIrq, HoldsVectors,
       HoldsAdminCq, HoldsAdminSq, HoldsMaster
  <2>5. sgl = 0 /\ nrQueues = 0
    BY <2>1, <2>3 DEF CountInv
  <2>6. ~managed /\ ~disk /\ ~added /\ inflight = {}
    BY <2>1, <2>2 DEF PointerInv, RequestInv
  <2>7. ~raced => wpc = "idle" /\ ~frozen /\ ~ready
    BY <2>1, <2>3 DEF WorkerInv
  <2> QED
    BY <2>4, <2>5, <2>6, <2>7
<1> QED
  BY <1>1, LifecycleCorrect, PTL

(* No actor touches storage that is gone: not the worker, not a request    *)
(* that may start or is in flight, and the thread frees nothing twice.     *)
THEOREM StorageOutlivesUsers == Spec => []UsersHoldStorage
<1>1. ASSUME LifecycleInv PROVE UsersHoldStorage
  <2> SUFFICES ASSUME ~raced, ~garbage
               PROVE  UsersHoldStorage
    BY DEF UsersHoldStorage
  <2>1. /\ StackInv /\ PointerInv /\ CountInv /\ RequestInv /\ WorkerInv
    BY <1>1 DEF LifecycleInv
  <2>2. ASSUME pc \in HoldsDisk
        PROVE  /\ managed /\ disk /\ sgl = Depth - 1 /\ nrQueues = 2
               /\ {"adminSq", "adminCq", "ioSq", "ioCq", "adminIrq",
                   "master", "ioIrq", "tagSet", "disk"} \subseteq held
    <3>1. /\ pc \in HoldsTagSet /\ pc \in HoldsIoIrq /\ pc \in HoldsIoCq
          /\ pc \in HoldsIoSq /\ pc \in HoldsAdminIrq
          /\ pc \in HoldsAdminCq /\ pc \in HoldsAdminSq
          /\ pc \in HoldsMaster /\ pc \in WithDisk /\ pc \in WithIoQueue
      BY <2>2 DEF HoldsTagSet, HoldsIoIrq, HoldsIoCq, HoldsIoSq,
         HoldsAdminIrq, HoldsVectors, HoldsAdminCq, HoldsAdminSq,
         HoldsMaster, WithDisk, WithIoQueue
    <3>2. managed /\ disk
      BY <2>1, <2>2, <3>1 DEF PointerInv, HoldsDisk
    <3>3. sgl = Depth - 1 /\ nrQueues = 2
      BY <2>1, <3>1 DEF CountInv
    <3> QED
      BY <2>1, <2>2, <3>1, <3>2, <3>3 DEF StackInv
  <2>3. wpc # "idle" => pc \in HoldsDisk
    BY <2>1 DEF WorkerInv, HoldsDisk
  <2>4. added \/ inflight # {} => pc \in HoldsDisk
    BY <2>1 DEF RequestInv, HoldsDisk
  <2>5. ASSUME pc \in Releases PROVE Freed(pc) \in held
    <3>1. \/ pc = "free disk" /\ Freed(pc) = "disk"
          \/ pc = "free tagSet" /\ Freed(pc) = "tagSet"
          \/ pc = "free ioIrq" /\ Freed(pc) = "ioIrq"
          \/ pc = "free ioCq" /\ Freed(pc) = "ioCq"
          \/ pc = "free ioSq" /\ Freed(pc) = "ioSq"
          \/ pc = "free adminIrq" /\ Freed(pc) = "adminIrq"
          \/ pc = "free vectors" /\ Freed(pc) = "vectors"
          \/ pc = "free adminCq" /\ Freed(pc) = "adminCq"
          \/ pc = "free adminSq" /\ Freed(pc) = "adminSq"
          \/ pc = "clearMaster" /\ Freed(pc) = "master"
      BY <2>5, Zenon DEF Releases, Freed
    <3> QED
      BY <2>1, <3>1 DEF StackInv, HoldsDisk, HoldsTagSet, HoldsIoIrq,
         HoldsIoCq, HoldsIoSq, HoldsAdminIrq, HoldsVectors, HoldsAdminCq,
         HoldsAdminSq, HoldsMaster
  <2>6. ASSUME pc \in Acquired PROVE pc \notin held
    BY <2>1, <2>6 DEF Acquired, StackInv, HoldsDisk, HoldsTagSet, HoldsIoIrq,
       HoldsIoCq, HoldsIoSq, HoldsAdminIrq, HoldsVectors, HoldsAdminCq,
       HoldsAdminSq, HoldsMaster
  <2>7. /\ wpc # "idle" => managed
        /\ wpc \in {"freezing", "unfreeze"} => disk
    BY <2>2, <2>3
  <2>8. wpc \in {"rebuild", "create"} =>
            AdminRings \cup IoRings \cup {"adminIrq", "master"}
              \subseteq held
    BY <2>2, <2>3 DEF AdminRings, IoRings
  <2>9. (added \/ inflight # {}) =>
            /\ IoRings \cup {"ioIrq", "tagSet", "disk", "master"}
                 \subseteq held
            /\ sgl = Depth - 1 /\ nrQueues = 2
    BY <2>2, <2>4 DEF IoRings
  <2>10. pc = "free ioIrq" => sgl = Depth - 1
    BY <2>1 DEF CountInv, HoldsIoIrq
  <2> QED
    BY <2>5, <2>6, <2>7, <2>8, <2>9, <2>10 DEF UsersHoldStorage
<1> QED
  BY <1>1, LifecycleCorrect, PTL
=============================================================================

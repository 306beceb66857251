---------------------------- MODULE QueueEngine ----------------------------
(***************************************************************************)
(* QueueEngine of the Python reference model (queue.py): a submission and  *)
(* a completion ring of the same depth, a phase bit that flips when the    *)
(* completion ring wraps, doorbells with a budget and one interrupt per    *)
(* doorbell that completed anything.  The device behind it is any source   *)
(* of statuses.                                                            *)
(*                                                                         *)
(* The code masks with depth - 1; depth is a power of two, so the mask is  *)
(* the remainder.  The mapping of completions to packets is left out.      *)
(***************************************************************************)
EXTENDS Naturals, Sequences, FiniteSets

CONSTANTS
    Depth,       \* depth
    Cmds,        \* commands the host submits
    Statuses,    \* outcomes ReferenceDevice.execute() may report
    Budgets,     \* budgets of ring_submission_doorbell()
    None         \* an empty ring slot, or no completion

Completion == [cmd : Cmds, status : Statuses, phase : {0, 1}]

ASSUME DepthAssumption == Depth \in Nat /\ Depth >= 2
ASSUME PowerOfTwo == \E k \in 1 .. Depth : Depth = 2 ^ k
ASSUME BudgetsAssumption == Budgets \subseteq Nat
ASSUME NoneAssumption == None \notin Cmds /\ None \notin Completion

Slots == 0 .. Depth - 1
Phases == {0, 1}

VARIABLES
    sq, cq,                  \* _sq, _cq
    sqHead, sqTail, sqCount, \* _sq_head, _sq_tail, _sq_count
    cqHead, cqTail, cqCount, \* _cq_head, _cq_tail, _cq_count
    devicePhase, hostPhase,  \* _device_phase, _host_phase
    ringing,                 \* a doorbell is being served
    limit, processed,        \* its locals
    announced,               \* completions announced by interrupt(processed)
                             \* and not consumed yet
    out                      \* what the last consume_completion() returned

sqVars == <<sq, sqHead, sqTail, sqCount>>
cqVars == <<cq, cqHead, cqTail, cqCount, devicePhase, hostPhase>>
doorbellVars == <<ringing, limit, processed>>
vars == <<sqVars, cqVars, doorbellVars, announced, out>>

SqType ==
    /\ sq \in [Slots -> Cmds \cup {None}]
    /\ sqHead \in Slots /\ sqTail \in Slots /\ sqCount \in 0 .. Depth
CqType ==
    /\ cq \in [Slots -> Completion \cup {None}]
    /\ cqHead \in Slots /\ cqTail \in Slots /\ cqCount \in 0 .. Depth
    /\ devicePhase \in Phases /\ hostPhase \in Phases
DoorbellType ==
    /\ ringing \in BOOLEAN /\ limit \in Nat /\ processed \in 0 .. Depth
    /\ announced \in 0 .. Depth
    /\ out \in Completion \cup {None}

(* Heads, tails and counts of QueueEngine stay inside its two lists.        *)
TypeOK == SqType /\ CqType /\ DoorbellType

Init ==
    /\ sq = [i \in Slots |-> None] /\ cq = [i \in Slots |-> None]
    /\ sqHead = 0 /\ sqTail = 0 /\ sqCount = 0
    /\ cqHead = 0 /\ cqTail = 0 /\ cqCount = 0
    /\ devicePhase = 1 /\ hostPhase = 1
    /\ ringing = FALSE /\ limit = 0 /\ processed = 0
    /\ announced = 0 /\ out = None

-----------------------------------------------------------------------------
(* Deviation: no check for a full submission queue.                        *)
SubmitUnchecked(c) ==
    /\ ~ringing
    /\ sq' = [sq EXCEPT ![sqTail] = c]
    /\ sqTail' = (sqTail + 1) % Depth
    /\ sqCount' = sqCount + 1
    /\ UNCHANGED <<sqHead, cqVars, doorbellVars, announced, out>>

(* submit(); a full queue raises QueueFullError and changes nothing.       *)
Submit(c) ==
    /\ ~ringing /\ sqCount # Depth
    /\ sq' = [sq EXCEPT ![sqTail] = c]
    /\ sqTail' = (sqTail + 1) % Depth
    /\ sqCount' = sqCount + 1
    /\ UNCHANGED <<sqHead, cqVars, doorbellVars, announced, out>>

(* ring_submission_doorbell(dma, budget) is called.                        *)
RingDoorbell(budget) ==
    /\ ~ringing
    /\ ringing' = TRUE /\ limit' = budget /\ processed' = 0
    /\ UNCHANGED <<sqVars, cqVars, announced, out>>

(* The condition of its while loop.                                        *)
MoreWork == sqCount > 0 /\ cqCount < Depth /\ processed < limit

(* Deviation: the executed command stays in its slot.                      *)
ExecuteKeepsSlot(status) ==
    /\ ringing /\ MoreWork
    /\ sq[sqHead] # None
    /\ cq' = [cq EXCEPT ![cqTail] = [cmd |-> sq[sqHead], status |-> status,
                                     phase |-> devicePhase]]
    /\ sqHead' = (sqHead + 1) % Depth
    /\ sqCount' = sqCount - 1
    /\ cqTail' = (cqTail + 1) % Depth
    /\ cqCount' = cqCount + 1
    /\ processed' = processed + 1
    /\ devicePhase' = IF cqTail' = 0 THEN 1 - devicePhase ELSE devicePhase
    /\ UNCHANGED <<sq, sqTail, cqHead, hostPhase, ringing, limit, announced,
                   out>>

(* One turn of the loop.                                                   *)
Execute(status) ==
    /\ ringing /\ MoreWork
    /\ sq[sqHead] # None   \* else "submission ring ownership corruption"
    /\ cq' = [cq EXCEPT ![cqTail] = [cmd |-> sq[sqHead], status |-> status,
                                     phase |-> devicePhase]]
    /\ sq' = [sq EXCEPT ![sqHead] = None]
    /\ sqHead' = (sqHead + 1) % Depth
    /\ sqCount' = sqCount - 1
    /\ cqTail' = (cqTail + 1) % Depth
    /\ cqCount' = cqCount + 1
    /\ processed' = processed + 1
    /\ devicePhase' = IF cqTail' = 0 THEN 1 - devicePhase ELSE devicePhase
    /\ UNCHANGED <<sqTail, cqHead, hostPhase, ringing, limit, announced, out>>

(* Deviation: the interrupt reports the budget, not the work done.         *)
DoorbellReportsLimit ==
    /\ ringing /\ ~MoreWork
    /\ announced' = IF processed > 0 THEN announced + limit ELSE announced
    /\ ringing' = FALSE /\ limit' = 0 /\ processed' = 0
    /\ UNCHANGED <<sqVars, cqVars, out>>

(* The loop ends; interrupt(processed) is called if anything was done.     *)
(* The callback may call the engine again: every field is up to date.      *)
DoorbellDone ==
    /\ ringing /\ ~MoreWork
    /\ announced' = announced + processed
    /\ ringing' = FALSE /\ limit' = 0 /\ processed' = 0
    /\ UNCHANGED <<sqVars, cqVars, out>>

(* consume_completion(): None if there is nothing, or if the entry at the  *)
(* head does not carry the host's phase.                                   *)
Consumable == cqCount > 0 /\ cq[cqHead] # None /\ cq[cqHead].phase = hostPhase

(* Deviation: the host phase does not flip when cq_head wraps.             *)
ConsumeWithoutFlip ==
    /\ ~ringing
    /\ IF Consumable
       THEN /\ out' = cq[cqHead]
            /\ cq' = [cq EXCEPT ![cqHead] = None]
            /\ cqHead' = (cqHead + 1) % Depth
            /\ cqCount' = cqCount - 1
            /\ announced' = announced - 1
       ELSE out' = None /\ UNCHANGED <<cq, cqHead, cqCount, announced>>
    /\ UNCHANGED <<sqVars, cqTail, devicePhase, hostPhase, doorbellVars>>

(* Deviation: the entry is read after cq_head has advanced.                *)
ConsumeAfterAdvance ==
    /\ ~ringing
    /\ IF Consumable
       THEN /\ cqHead' = (cqHead + 1) % Depth
            /\ out' = cq[cqHead']
            /\ cq' = [cq EXCEPT ![cqHead] = None]
            /\ cqCount' = cqCount - 1
            /\ hostPhase' = IF cqHead' = 0 THEN 1 - hostPhase ELSE hostPhase
            /\ announced' = announced - 1
       ELSE out' = None /\ UNCHANGED <<cq, cqHead, cqCount, hostPhase,
                                       announced>>
    /\ UNCHANGED <<sqVars, cqTail, devicePhase, doorbellVars>>

ConsumeCompletion ==
    /\ ~ringing
    /\ IF Consumable
       THEN /\ out' = cq[cqHead]
            /\ cq' = [cq EXCEPT ![cqHead] = None]
            /\ cqHead' = (cqHead + 1) % Depth
            /\ cqCount' = cqCount - 1
            /\ hostPhase' = IF cqHead' = 0 THEN 1 - hostPhase ELSE hostPhase
            /\ announced' = announced - 1
       ELSE out' = None /\ UNCHANGED <<cq, cqHead, cqCount, hostPhase,
                                       announced>>
    /\ UNCHANGED <<sqVars, cqTail, devicePhase, doorbellVars>>

Reset ==
    /\ ~ringing
    /\ sq' = [i \in Slots |-> None] /\ cq' = [i \in Slots |-> None]
    /\ sqHead' = 0 /\ sqTail' = 0 /\ sqCount' = 0
    /\ cqHead' = 0 /\ cqTail' = 0 /\ cqCount' = 0
    /\ devicePhase' = 1 /\ hostPhase' = 1
    /\ announced' = 0
    /\ UNCHANGED <<doorbellVars, out>>

Next ==
    \/ \E c \in Cmds : Submit(c)
    \/ \E budget \in Budgets : RingDoorbell(budget)
    \/ \E status \in Statuses : Execute(status)
    \/ DoorbellDone
    \/ ConsumeCompletion
    \/ Reset

Spec == Init /\ [][Next]_vars

-----------------------------------------------------------------------------
(* Properties.                                                             *)

(* Slot i is one of the count slots that start at head.                    *)
InWindow(i, head, count) ==
    (head <= i /\ i < head + count) \/ i + Depth < head + count

(* The slot where a window of count slots starting at head ends.           *)
WindowEnd(head, count) ==
    IF head + count < Depth THEN head + count ELSE head + count - Depth

(* The submission ring holds commands exactly in the sq_count slots from   *)
(* sq_head to sq_tail: submit() never overwrites a command, and the        *)
(* "submission ring ownership corruption" branch is unreachable.           *)
SubmissionRing ==
    /\ sqTail = WindowEnd(sqHead, sqCount)
    /\ \A i \in Slots : sq[i] # None <=> InWindow(i, sqHead, sqCount)

(* The completion ring holds completions exactly in its window, and each   *)
(* carries the phase the host will expect when it gets there; so           *)
(* consume_completion() returns None only when cq_count is 0.              *)
CompletionRing ==
    /\ cqTail = WindowEnd(cqHead, cqCount)
    /\ devicePhase = IF cqHead + cqCount < Depth THEN hostPhase
                                                 ELSE 1 - hostPhase
    /\ \A i \in Slots : cq[i] # None <=> InWindow(i, cqHead, cqCount)
    /\ \A i \in Slots : cq[i] # None =>
         cq[i].phase = IF cqHead <= i THEN hostPhase ELSE 1 - hostPhase

(* Every completion the host can consume was announced by exactly one      *)
(* interrupt batch, and every announced one can be consumed.               *)
AnnouncedExactly == announced + processed = cqCount

-----------------------------------------------------------------------------
(* The engine implements the ring-free queue pair.                         *)
WithoutPhase(e) == IF e = None THEN None
                   ELSE [cmd |-> e.cmd, status |-> e.status]

(* The contents of a ring, oldest first.                                   *)
Pending == [i \in 1 .. sqCount |-> sq[WindowEnd(sqHead, i - 1)]]
Done == [i \in 1 .. cqCount |-> WithoutPhase(cq[WindowEnd(cqHead, i - 1)])]

Abstract == INSTANCE QueuePair WITH
    Capacity <- Depth, pending <- Pending, done <- Done,
    out <- WithoutPhase(out)

(* Commands execute, and completions are returned, in submission order,    *)
(* each exactly once, through every wrap, budget and reset.                *)
ImplementsQueuePair == Abstract!Spec
=============================================================================

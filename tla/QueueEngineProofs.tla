------------------------- MODULE QueueEngineProofs -------------------------
(***************************************************************************)
(* Theorems about QueueEngine for every depth of at least two, any set of  *)
(* commands and any budgets.  The ring invariants are inductive together   *)
(* with the types: the windows [head, head + count) and the phase rule     *)
(* determine which slot may be filled, fetched or consumed next.           *)
(***************************************************************************)
EXTENDS QueueEngine, SequenceTheorems, TLAPS

(* Between doorbells nothing is waiting to be announced.                   *)
IdleDoorbell == ~ringing => processed = 0

EngineInv ==
    /\ TypeOK /\ SubmissionRing /\ CompletionRing
    /\ AnnouncedExactly /\ IdleDoorbell

(* The masked increment of an index, without the remainder.                *)
LEMMA Increment ==
    \A i \in Slots : (i + 1) % Depth = IF i = Depth - 1 THEN 0 ELSE i + 1
BY DepthAssumption DEF Slots

(* A window that grows at its end, or gives up its first slot.             *)
LEMMA WindowGrows ==
    ASSUME NEW head \in Slots, NEW count \in 0 .. Depth - 1
    PROVE  WindowEnd(head, count + 1) = (WindowEnd(head, count) + 1) % Depth
<1>1. WindowEnd(head, count) \in Slots
  BY DepthAssumption DEF Slots, WindowEnd
<1>2. (WindowEnd(head, count) + 1) % Depth =
        IF WindowEnd(head, count) = Depth - 1 THEN 0
        ELSE WindowEnd(head, count) + 1
  BY <1>1, Increment
<1> QED
  BY <1>2, DepthAssumption DEF Slots, WindowEnd

(* The window after its first slot has been given up.                      *)
LEMMA WindowShrinks ==
    ASSUME NEW head \in Slots, NEW count \in 1 .. Depth
    PROVE  WindowEnd((head + 1) % Depth, count - 1) = WindowEnd(head, count)
<1>1. (head + 1) % Depth = IF head = Depth - 1 THEN 0 ELSE head + 1
  BY Increment
<1> QED
  BY <1>1, DepthAssumption DEF Slots, WindowEnd

(* The constructor of QueuePair establishes the invariant.                 *)
LEMMA EngineInit == Init => EngineInv
<1> SUFFICES ASSUME Init PROVE EngineInv
  OBVIOUS
<1>1. TypeOK
  <2>1. SqType
    BY DepthAssumption DEF Init, SqType, Slots
  <2>2. CqType
    BY DepthAssumption DEF Init, CqType, Slots, Phases
  <2>3. DoorbellType
    <3>1. 0 \in 0 .. Depth /\ 0 \in Nat
      BY DepthAssumption
    <3> QED
      BY <3>1 DEF Init, DoorbellType
  <2> QED
    BY <2>1, <2>2, <2>3 DEF TypeOK
<1>2. SubmissionRing /\ CompletionRing
  BY DepthAssumption DEF Init, Slots, SubmissionRing, CompletionRing,
     InWindow, WindowEnd
<1> QED
  BY <1>1, <1>2 DEF Init, EngineInv, AnnouncedExactly, IdleDoorbell

(* submit() fills the free slot at the tail.                               *)
LEMMA SubmitStep ==
    ASSUME EngineInv, NEW c \in Cmds, Submit(c)
    PROVE  EngineInv'
<1> USE DepthAssumption DEF Slots
<1> TypeOK /\ SubmissionRing /\ CompletionRing /\ AnnouncedExactly
    /\ IdleDoorbell
  BY DEF EngineInv
<1>1. SqType'
  BY Increment DEF Submit, TypeOK, SqType
<1>2. CqType' /\ DoorbellType' /\ CompletionRing' /\ AnnouncedExactly'
        /\ IdleDoorbell'
  BY DEF Submit, TypeOK, CqType, DoorbellType, CompletionRing,
     AnnouncedExactly, IdleDoorbell, cqVars, doorbellVars
<1>3. sqTail' = WindowEnd(sqHead', sqCount')
  BY WindowGrows DEF Submit, TypeOK, SqType, SubmissionRing
<1>4. \A i \in Slots : sq'[i] # None <=> InWindow(i, sqHead', sqCount')
  BY NoneAssumption DEF Submit, TypeOK, SqType, SubmissionRing, InWindow,
     WindowEnd
<1> QED
  BY <1>1, <1>2, <1>3, <1>4 DEF EngineInv, TypeOK, SubmissionRing

(* One turn of the doorbell loop moves the head command into the           *)
(* completion ring, with the phase of the current lap.                     *)
LEMMA ExecuteStep ==
    ASSUME EngineInv, NEW status \in Statuses, Execute(status)
    PROVE  EngineInv'
<1> USE DepthAssumption DEF Slots
<1> TypeOK /\ SubmissionRing /\ CompletionRing /\ AnnouncedExactly
    /\ IdleDoorbell
  BY DEF EngineInv
<1> DEFINE entry == [cmd |-> sq[sqHead], status |-> status,
                     phase |-> devicePhase]
<1>1. entry \in Completion /\ entry # None /\ entry.phase = devicePhase
  <2>1. sq[sqHead] \in Cmds /\ devicePhase \in {0, 1}
    BY DEF Execute, TypeOK, SqType, CqType, Phases
  <2>2. entry \in Completion /\ entry.phase = devicePhase
    BY <2>1 DEF Completion
  <2> QED
    BY <2>2, NoneAssumption
<1>2. cq' = [cq EXCEPT ![cqTail] = entry]
  BY DEF Execute
<1> HIDE DEF entry
<1>3. SqType'
  BY Increment DEF Execute, MoreWork, TypeOK, SqType
<1>4. CqType'
  BY <1>1, <1>2, Increment DEF Execute, MoreWork, TypeOK, CqType, Phases
<1>5. DoorbellType' /\ AnnouncedExactly' /\ IdleDoorbell'
  BY DEF Execute, MoreWork, TypeOK, CqType, DoorbellType, AnnouncedExactly,
     IdleDoorbell
<1>6. SubmissionRing'
  <2>1. sqTail' = WindowEnd(sqHead', sqCount')
    BY WindowShrinks DEF Execute, MoreWork, TypeOK, SqType, SubmissionRing
  <2>2. \A i \in Slots : sq'[i] # None <=> InWindow(i, sqHead', sqCount')
    BY Increment DEF Execute, MoreWork, TypeOK, SqType, SubmissionRing,
       InWindow
  <2> QED
    BY <2>1, <2>2 DEF SubmissionRing
<1>7. CompletionRing'
  <2>1. cqTail' = WindowEnd(cqHead', cqCount')
    BY WindowGrows DEF Execute, MoreWork, TypeOK, CqType, CompletionRing
  <2>2. devicePhase' = IF cqHead' + cqCount' < Depth THEN hostPhase'
                                                     ELSE 1 - hostPhase'
    <3>1. cqTail' = 0 <=> cqHead + cqCount = Depth - 1
      BY <2>1 DEF Execute, MoreWork, TypeOK, CqType, WindowEnd
    <3> QED
      BY <3>1 DEF Execute, MoreWork, TypeOK, CqType, CompletionRing, Phases
  <2>3. \A i \in Slots : cq'[i] # None <=> InWindow(i, cqHead', cqCount')
    BY <1>1, <1>2 DEF Execute, MoreWork, TypeOK, CqType, CompletionRing,
       InWindow, WindowEnd
  <2>4. \A i \in Slots : cq'[i] # None =>
          cq'[i].phase = IF cqHead' <= i THEN hostPhase' ELSE 1 - hostPhase'
    BY <1>1, <1>2 DEF Execute, MoreWork, TypeOK, CqType, CompletionRing,
       InWindow, WindowEnd
  <2> QED
    BY <2>1, <2>2, <2>3, <2>4 DEF CompletionRing
<1> QED
  BY <1>3, <1>4, <1>5, <1>6, <1>7 DEF EngineInv, TypeOK

(* consume_completion() takes the oldest completion and flips the expected *)
(* phase where the ring wraps.                                             *)
LEMMA ConsumeStep ==
    ASSUME EngineInv, ConsumeCompletion
    PROVE  EngineInv'
<1> USE DepthAssumption DEF Slots
<1> TypeOK /\ SubmissionRing /\ CompletionRing /\ AnnouncedExactly
    /\ IdleDoorbell
  BY DEF EngineInv
<1>1. SqType' /\ SubmissionRing'
  BY DEF ConsumeCompletion, TypeOK, SqType, SubmissionRing, sqVars
<1>2. CASE ~Consumable
  BY <1>1, <1>2 DEF ConsumeCompletion, EngineInv, TypeOK, CqType,
     DoorbellType, CompletionRing, AnnouncedExactly, IdleDoorbell,
     doorbellVars
<1>3. CASE Consumable
  <2>1. CqType'
    BY <1>3, Increment DEF ConsumeCompletion, Consumable, TypeOK, CqType,
       Phases
  <2>2. DoorbellType' /\ AnnouncedExactly' /\ IdleDoorbell'
    BY <1>3 DEF ConsumeCompletion, Consumable, TypeOK, CqType, DoorbellType,
       AnnouncedExactly, IdleDoorbell, doorbellVars
  <2>3. cqTail' = WindowEnd(cqHead', cqCount')
    BY <1>3, WindowShrinks DEF ConsumeCompletion, Consumable, TypeOK, CqType,
       CompletionRing
  <2>4. /\ cqHead' = IF cqHead = Depth - 1 THEN 0 ELSE cqHead + 1
        /\ cqCount' = cqCount - 1 /\ cqCount > 0
        /\ hostPhase' = IF cqHead' = 0 THEN 1 - hostPhase ELSE hostPhase
        /\ devicePhase' = devicePhase
        /\ cq' = [cq EXCEPT ![cqHead] = None]
    BY <1>3, Increment DEF ConsumeCompletion, Consumable, TypeOK, CqType
  <2>5. devicePhase' = IF cqHead' + cqCount' < Depth THEN hostPhase'
                                                     ELSE 1 - hostPhase'
    BY <2>4 DEF TypeOK, CqType, CompletionRing, Phases
  <2>6. \A i \in Slots : cq'[i] # None <=> InWindow(i, cqHead', cqCount')
    BY <2>4 DEF TypeOK, CqType, CompletionRing, InWindow
  <2>7. \A i \in Slots : cq'[i] # None =>
          cq'[i].phase = IF cqHead' <= i THEN hostPhase' ELSE 1 - hostPhase'
    BY <2>4 DEF TypeOK, CqType, CompletionRing, InWindow, Phases
  <2> QED
    BY <1>1, <2>1, <2>2, <2>3, <2>5, <2>6, <2>7 DEF EngineInv, TypeOK,
       CompletionRing
<1> QED
  BY <1>2, <1>3

(* Entering and leaving ring_doorbell() changes no ring.                   *)
LEMMA DoorbellStep ==
    ASSUME EngineInv,
           (\E budget \in Budgets : RingDoorbell(budget)) \/ DoorbellDone
    PROVE  EngineInv'
<1> TypeOK /\ SubmissionRing /\ CompletionRing /\ AnnouncedExactly
    /\ IdleDoorbell
  BY DEF EngineInv
<1>1. SqType' /\ SubmissionRing' /\ CqType' /\ CompletionRing'
  BY DEF RingDoorbell, DoorbellDone, TypeOK, SqType, CqType, SubmissionRing,
     CompletionRing, sqVars, cqVars
<1>2. ASSUME NEW budget \in Budgets, RingDoorbell(budget)
      PROVE  DoorbellType' /\ AnnouncedExactly' /\ IdleDoorbell'
  <2>1. budget \in Nat /\ 0 \in 0 .. Depth
    BY DepthAssumption, BudgetsAssumption
  <2>2. AnnouncedExactly'
    BY <1>2 DEF RingDoorbell, AnnouncedExactly, IdleDoorbell, cqVars
  <2> QED
    BY <1>2, <2>1, <2>2 DEF RingDoorbell, TypeOK, DoorbellType, IdleDoorbell
<1>3. ASSUME DoorbellDone
      PROVE  DoorbellType' /\ AnnouncedExactly' /\ IdleDoorbell'
  <2>1. AnnouncedExactly' /\ announced' \in 0 .. Depth
    BY <1>3 DEF DoorbellDone, TypeOK, CqType, DoorbellType, AnnouncedExactly,
       cqVars
  <2>2. 0 \in Nat /\ 0 \in 0 .. Depth
    BY DepthAssumption
  <2> QED
    BY <1>3, <2>1, <2>2 DEF DoorbellDone, TypeOK, DoorbellType, IdleDoorbell
<1> QED
  BY <1>1, <1>2, <1>3 DEF EngineInv, TypeOK

(* reset() empties both rings and restores both phases.                    *)
LEMMA ResetStep ==
    ASSUME EngineInv, Reset
    PROVE  EngineInv'
<1> USE DepthAssumption DEF Slots
<1> TypeOK /\ IdleDoorbell
  BY DEF EngineInv
<1>1. SqType' /\ SubmissionRing'
  BY DEF Reset, SqType, SubmissionRing, InWindow, WindowEnd
<1>2. CqType' /\ CompletionRing'
  BY DEF Reset, CqType, CompletionRing, InWindow, WindowEnd, Phases
<1>3. DoorbellType' /\ AnnouncedExactly' /\ IdleDoorbell'
  BY DEF Reset, TypeOK, DoorbellType, AnnouncedExactly, IdleDoorbell,
     doorbellVars
<1> QED
  BY <1>1, <1>2, <1>3 DEF EngineInv, TypeOK

(* A step that changes nothing keeps the invariant.                        *)
LEMMA EngineStutter == EngineInv /\ UNCHANGED vars => EngineInv'
BY DEF EngineInv, TypeOK, SqType, CqType, DoorbellType, SubmissionRing,
   CompletionRing, AnnouncedExactly, IdleDoorbell, vars, sqVars, cqVars,
   doorbellVars

(* The inductive invariant holds in every reachable state.                 *)
LEMMA EngineInvariant == Spec => []EngineInv
<1>1. EngineInv /\ [Next]_vars => EngineInv'
  BY SubmitStep, ExecuteStep, ConsumeStep, DoorbellStep, ResetStep,
     EngineStutter DEF Next
<1> QED
  BY EngineInit, <1>1, PTL DEF Spec

(* Types and bounds: no index leaves its ring, no count exceeds the depth. *)
THEOREM EngineTypeCorrect == Spec => []TypeOK
BY EngineInvariant, PTL DEF EngineInv

(* The submission ring is never overwritten and never corrupt.             *)
THEOREM SubmissionRingIntact == Spec => []SubmissionRing
BY EngineInvariant, PTL DEF EngineInv

(* The phase bit of every waiting completion is the one the host expects.  *)
THEOREM CompletionRingIntact == Spec => []CompletionRing
BY EngineInvariant, PTL DEF EngineInv

(* Interrupt batches add up to the completions that can be consumed.       *)
THEOREM InterruptsAccountFor == Spec => []AnnouncedExactly
BY EngineInvariant, PTL DEF EngineInv

-----------------------------------------------------------------------------
(* Refinement.                                                             *)

(* When a function on 1 .. n is a sequence extended, or shortened.         *)
LEMMA Extended ==
    ASSUME NEW S, NEW n \in Nat, NEW f \in [1 .. n -> S],
           NEW g \in [1 .. n + 1 -> S], \A i \in 1 .. n : g[i] = f[i]
    PROVE  g = Append(f, g[n + 1]) /\ Len(f) = n
<1>1. f \in Seq(S) /\ Len(f) = n /\ g \in Seq(S) /\ Len(g) = n + 1
  OBVIOUS
<1>2. Append(f, g[n + 1]) \in Seq(S) /\ Len(Append(f, g[n + 1])) = n + 1
  BY <1>1
<1>3. \A i \in 1 .. n + 1 : g[i] = Append(f, g[n + 1])[i]
  BY <1>1
<1> QED
  BY <1>1, <1>2, <1>3, SeqEqual

(* When a function on 1 .. n is the tail of a sequence.                    *)
LEMMA Shortened ==
    ASSUME NEW S, NEW n \in Nat, n > 0, NEW f \in [1 .. n -> S],
           NEW g \in [1 .. n - 1 -> S], \A i \in 1 .. n - 1 : g[i] = f[i + 1]
    PROVE  g = Tail(f) /\ f[1] = Head(f) /\ f # <<>>
<1>1. f \in Seq(S) /\ Len(f) = n /\ g \in Seq(S) /\ Len(g) = n - 1
  OBVIOUS
<1>2. Tail(f) \in Seq(S) /\ Len(Tail(f)) = n - 1
  BY <1>1
<1>3. \A i \in 1 .. n - 1 : g[i] = Tail(f)[i]
  BY <1>1
<1>4. g = Tail(f)
  BY <1>1, <1>2, <1>3, SeqEqual
<1> QED
  BY <1>1, <1>4

(* A completion as the abstract queue pair knows it.                       *)
Result == [cmd : Cmds, status : Statuses]

(* The contents of a window, oldest first, is a function into the values   *)
(* of the ring.                                                            *)
LEMMA WindowContents ==
    ASSUME NEW S, NEW f \in [Slots -> S], NEW head \in Slots,
           NEW count \in 0 .. Depth
    PROVE  /\ count \in Nat
           /\ [i \in 1 .. count |-> f[WindowEnd(head, i - 1)]]
                \in [1 .. count -> S]
BY DepthAssumption DEF WindowEnd, Slots

(* The abstract queue of waiting commands, element by element.             *)
LEMMA PendingContents ==
    (TypeOK => /\ sqCount \in Nat
               /\ Pending \in [1 .. sqCount -> Cmds \cup {None}])
BY WindowContents DEF TypeOK, SqType, Pending

(* The same in the next state.                                             *)
LEMMA PendingContentsNext ==
    (TypeOK => /\ sqCount \in Nat
               /\ Pending \in [1 .. sqCount -> Cmds \cup {None}])'
BY WindowContents DEF TypeOK, SqType, Pending

(* The same for the completions, without their phase.                      *)
LEMMA ResultContents ==
    ASSUME NEW f \in [Slots -> Completion \cup {None}], NEW head \in Slots,
           NEW count \in 0 .. Depth
    PROVE  /\ count \in Nat
           /\ [i \in 1 .. count |-> WithoutPhase(f[WindowEnd(head, i - 1)])]
                \in [1 .. count -> Result \cup {None}]
<1>1. \A e \in Completion \cup {None} : WithoutPhase(e) \in Result \cup {None}
  BY DEF WithoutPhase, Result, Completion
<1>2. \A i \in 1 .. count : WindowEnd(head, i - 1) \in Slots
  BY DepthAssumption DEF WindowEnd, Slots
<1> QED
  BY <1>1, <1>2

(* The abstract queue of completions, element by element.                  *)
LEMMA DoneContents ==
    (TypeOK => /\ cqCount \in Nat
               /\ Done \in [1 .. cqCount -> Result \cup {None}])
BY ResultContents DEF TypeOK, CqType, Done

(* The same in the next state.                                             *)
LEMMA DoneContentsNext ==
    (TypeOK => /\ cqCount \in Nat
               /\ Done \in [1 .. cqCount -> Result \cup {None}])'
BY ResultContents DEF TypeOK, CqType, Done

(* submit() is the abstract Submit.                                        *)
LEMMA RefineSubmit ==
    ASSUME EngineInv, EngineInv', NEW c \in Cmds, Submit(c)
    PROVE  Abstract!Submit(c)
<1> USE DepthAssumption DEF Slots
<1> TypeOK /\ TypeOK' /\ SubmissionRing
  BY DEF EngineInv
<1>1. Done' = Done /\ out' = out /\ sqCount' = sqCount + 1 /\ sqHead' = sqHead
  BY DEF Submit, Done, cqVars
<1>2. \A i \in 1 .. sqCount : Pending'[i] = Pending[i]
  BY DEF Submit, Pending, TypeOK, SqType, SubmissionRing, WindowEnd
<1>3. Pending'[sqCount + 1] = c
  BY DEF Submit, Pending, TypeOK, SqType, SubmissionRing
<1>4. Pending' = Append(Pending, c) /\ Len(Pending) = sqCount
  BY <1>1, <1>2, <1>3, PendingContents, PendingContentsNext, Extended
<1>5. sqCount < Depth
  BY DEF Submit, TypeOK, SqType
<1> QED
  BY <1>1, <1>4, <1>5 DEF Abstract!Submit

(* A turn of the doorbell loop is the abstract Execute.                    *)
LEMMA RefineExecute ==
    ASSUME EngineInv, EngineInv', NEW status \in Statuses, Execute(status)
    PROVE  Abstract!Execute(status)
<1> USE DepthAssumption DEF Slots
<1> TypeOK /\ TypeOK' /\ SubmissionRing /\ CompletionRing
  BY DEF EngineInv
<1> DEFINE result == [cmd |-> sq[sqHead], status |-> status]
<1>1. /\ sqCount' = sqCount - 1 /\ sqCount > 0
      /\ cqCount' = cqCount + 1 /\ cqCount < Depth
      /\ cqHead' = cqHead /\ out' = out
      /\ sqHead' = (sqHead + 1) % Depth
  BY DEF Execute, MoreWork
<1>2. \A i \in 1 .. sqCount - 1 : Pending'[i] = Pending[i + 1]
  <2> SUFFICES ASSUME NEW i \in 1 .. sqCount - 1
               PROVE  Pending'[i] = Pending[i + 1]
    OBVIOUS
  <2>1. WindowEnd(sqHead', i - 1) = WindowEnd(sqHead, i)
    BY <1>1, WindowShrinks DEF TypeOK, SqType
  <2>2. WindowEnd(sqHead, i) \in Slots \ {sqHead}
    BY DEF WindowEnd, TypeOK, SqType
  <2> QED
    BY <1>1, <2>1, <2>2 DEF Execute, Pending, TypeOK, SqType
<1>3. Pending' = Tail(Pending) /\ Pending[1] = Head(Pending) /\ Pending # <<>>
  BY <1>1, <1>2, PendingContents, PendingContentsNext, Shortened
<1>4. Pending[1] = sq[sqHead]
  BY <1>1 DEF Pending, WindowEnd, TypeOK, SqType
<1>5. \A i \in 1 .. cqCount : Done'[i] = Done[i]
  BY <1>1 DEF Execute, Done, TypeOK, CqType, CompletionRing, WindowEnd
<1>6. cqTail = WindowEnd(cqHead', cqCount)
  BY <1>1 DEF CompletionRing
<1>7. Done'[cqCount + 1] = result
  <2>1. Done'[cqCount + 1] = WithoutPhase(cq'[cqTail])
    BY <1>1, <1>6 DEF Done, TypeOK, CqType
  <2>2. cq'[cqTail] = [cmd |-> sq[sqHead], status |-> status,
                       phase |-> devicePhase]
    BY DEF Execute, TypeOK, CqType
  <2>3. cq'[cqTail] # None
    <3>1. sq[sqHead] \in Cmds /\ devicePhase \in {0, 1}
      BY DEF Execute, TypeOK, SqType, CqType, Phases
    <3> QED
      BY <2>2, <3>1, NoneAssumption DEF Completion
  <2> QED
    BY <2>1, <2>2, <2>3 DEF WithoutPhase
<1>8. Done' = Append(Done, result) /\ Len(Done) = cqCount
  BY <1>1, <1>5, <1>7, DoneContents, DoneContentsNext, Extended
<1> QED
  BY <1>1, <1>3, <1>4, <1>8 DEF Abstract!Execute

(* consume_completion() is the abstract Consume.                           *)
LEMMA RefineConsume ==
    ASSUME EngineInv, EngineInv', ConsumeCompletion
    PROVE  Abstract!Consume
<1> USE DepthAssumption DEF Slots
<1> TypeOK /\ TypeOK' /\ CompletionRing
  BY DEF EngineInv
<1>1. Pending' = Pending
  BY DEF ConsumeCompletion, Pending, sqVars
<1>2. cqCount > 0 => Consumable
  BY DEF Consumable, CompletionRing, InWindow, TypeOK, CqType
<1>3. CASE cqCount = 0
  <2>1. Done = <<>> /\ Done' = Done /\ out' = None
    BY <1>3 DEF ConsumeCompletion, Consumable, Done
  <2> QED
    BY <1>1, <2>1 DEF Abstract!Consume, WithoutPhase
<1>4. CASE cqCount > 0
  <2>1. /\ cqCount' = cqCount - 1
        /\ cqHead' = (cqHead + 1) % Depth
        /\ cq' = [cq EXCEPT ![cqHead] = None] /\ out' = cq[cqHead]
    BY <1>2, <1>4 DEF ConsumeCompletion
  <2>2. \A i \in 1 .. cqCount - 1 : Done'[i] = Done[i + 1]
    <3> SUFFICES ASSUME NEW i \in 1 .. cqCount - 1
                 PROVE  Done'[i] = Done[i + 1]
      OBVIOUS
    <3>1. WindowEnd(cqHead', i - 1) = WindowEnd(cqHead, i)
      BY <2>1, WindowShrinks DEF TypeOK, CqType
    <3>2. WindowEnd(cqHead, i) \in Slots \ {cqHead}
      BY DEF WindowEnd, TypeOK, CqType
    <3> QED
      BY <2>1, <3>1, <3>2 DEF Done, TypeOK, CqType
  <2>3. Done' = Tail(Done) /\ Done[1] = Head(Done) /\ Done # <<>>
    BY <1>4, <2>1, <2>2, DoneContents, DoneContentsNext, Shortened
  <2>4. Done[1] = WithoutPhase(cq[cqHead])
    BY <1>4 DEF Done, WindowEnd, TypeOK, CqType
  <2> QED
    BY <1>1, <2>1, <2>3, <2>4 DEF Abstract!Consume
<1> QED
  BY <1>3, <1>4 DEF TypeOK, CqType

(* The rings implement the ring-free queue pair, for every depth: FIFO     *)
(* order and exactly-once completion survive wraps, budgets and resets.    *)
THEOREM EngineImplementsQueuePair == Spec => ImplementsQueuePair
<1>1. Init => Abstract!Init
  BY DEF Init, Abstract!Init, Pending, Done, WithoutPhase
<1>2. ASSUME EngineInv, EngineInv', [Next]_vars
      PROVE  [Abstract!Next]_(Abstract!vars)
  <2>1. ASSUME NEW budget \in Budgets, RingDoorbell(budget)
        PROVE  UNCHANGED Abstract!vars
    BY <2>1 DEF RingDoorbell, Abstract!vars, Pending, Done, sqVars, cqVars
  <2>2. ASSUME DoorbellDone
        PROVE  UNCHANGED Abstract!vars
    BY <2>2 DEF DoorbellDone, Abstract!vars, Pending, Done, sqVars, cqVars
  <2>3. ASSUME Reset
        PROVE  Abstract!Reset
    BY <2>3 DEF Reset, Abstract!Reset, Pending, Done
  <2>4. ASSUME UNCHANGED vars
        PROVE  UNCHANGED Abstract!vars
    BY <2>4 DEF vars, Abstract!vars, Pending, Done, sqVars, cqVars
  <2> QED
    BY <1>2, <2>1, <2>2, <2>3, <2>4, RefineSubmit, RefineExecute,
       RefineConsume DEF Next, Abstract!Next
<1> QED
  BY EngineInvariant, <1>1, <1>2, PTL DEF Spec, ImplementsQueuePair,
     Abstract!Spec
=============================================================================

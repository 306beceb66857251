------------------------- MODULE DeviceConformance -------------------------
(***************************************************************************)
(* The Python reference device is the behavioural oracle for the QEMU      *)
(* controller (README.md).  Here both run side by side: the host gives     *)
(* every command to the controller and to the oracle, and a power cycle    *)
(* hits both.                                                              *)
(*                                                                         *)
(* The oracle knows no scatter-gather lists: a command whose data          *)
(* descriptor docs/ABI.md accepts reaches it with the blocks the list      *)
(* leads to, any other without a buffer.  A backing file that cannot be    *)
(* written is the fault INTERNAL injected into the oracle; the host        *)
(* injects it for a command that needs the file, as other faults have no   *)
(* counterpart in the controller.                                          *)
(***************************************************************************)
EXTENDS ReferenceDevice, QemuDevice

ASSUME SameDeviceAssumption ==
    /\ QemuBlocks = CapacityBlocks
    /\ Data = [1 .. UnitsPerBlock -> UnitData]
    /\ Zero = [i \in 1 .. UnitsPerBlock |-> UnitZero]
    /\ "INTERNAL" \in Faults

(* History: the units that may differ from the oracle's, in the storage    *)
(* and in the backing file, because the controller stored or saved them    *)
(* for a command the oracle refused; and whether the offset of the last    *)
(* command wrapped.                                                        *)
VARIABLES strayed, strayedSafe, wrapped

astray == <<strayed, strayedSafe, wrapped>>
conformVars == <<vars, qemuVars, astray>>

-----------------------------------------------------------------------------
(* docs/ABI.md on data descriptors: a non-zero buffer address, and for a   *)
(* list at most MaxSgl entries, none empty, exactly the command's length.  *)
DescriptorValid(c) ==
    /\ c.addr
    /\ c.sgl => /\ Len(c.segs) \in 1 .. MaxSgl
                /\ \A k \in 1 .. Len(c.segs) :
                     c.segs[k].addr /\ c.segs[k].data # <<>>
                /\ Transferred(c)[Len(c.segs)] = Length(c)

OracleBuffer(c) ==
    IF DescriptorValid(c)
    THEN [b \in 1 .. c.n |->
            [i \in 1 .. UnitsPerBlock |->
               Payload(c, (b - 1) * UnitsPerBlock + i - 1)]]
    ELSE <<>>

OracleCommand(c) ==
    [op |-> c.op, fua |-> c.fua, lba |-> c.lba, n |-> c.n,
     buf |-> OracleBuffer(c)]

ASSUME SameCommandsAssumption ==
    \A c \in QemuCommands : OracleCommand(c) \in Commands

(* The oracle's contents, unit by unit.                                    *)
UnitOf(block, u) == block[(u % UnitsPerBlock) + 1]
OracleNow(u) == UnitOf(Lookup(u \div UnitsPerBlock), u)
OracleSafe(u) ==
    LET entry == stable[u \div UnitsPerBlock]
    IN IF entry = Absent THEN UnitZero ELSE UnitOf(entry, u)

-----------------------------------------------------------------------------
ConformInit ==
    Init /\ QemuInit /\ strayed = {} /\ strayedSafe = {} /\ wrapped = FALSE

(* What the oracle would lose at a power loss.                             *)
OnlyCached == {u \in Units : OracleNow(u) # OracleSafe(u)}

(* What the completion says was stored: for a refused command, astray.  An *)
(* FUA write that only the controller carried out has saved what the       *)
(* oracle still caches.                                                    *)
Track(c) ==
    /\ strayed' = IF c.op \notin {"WRITE", "DISCARD"} THEN strayed
                  ELSE IF reply'.status # "SUCCESS"
                       THEN strayed \cup DOMAIN cqe'.data
                       ELSE strayed \ DOMAIN cqe'.data
    /\ strayedSafe' = IF ~Persists(c) \/ cqe'.status # "SUCCESS"
                      THEN strayedSafe
                      ELSE IF reply'.status = "SUCCESS" THEN strayed'
                           ELSE strayed' \cup OnlyCached
    /\ wrapped' = (c.lba * UnitsPerBlock >= OffsetMod)

Both(c) ==
    /\ \/ nextFault = NoFault /\ QemuExecute(c, TRUE)
       \/ nextFault # NoFault /\ Persists(c) /\ QemuExecute(c, FALSE)
    /\ Execute(OracleCommand(c))
    /\ Track(c)

FileFails ==
    /\ nextFault = NoFault /\ InjectNextFault("INTERNAL")
    /\ UNCHANGED <<qemuVars, astray>>

PowerCycle ==
    /\ PowerLoss /\ Exit
    /\ strayed' = strayedSafe /\ UNCHANGED <<strayedSafe, wrapped>>

QemuOnly ==
    /\ Realize \/ \E enable \in BOOLEAN : WriteControl(enable)
    /\ UNCHANGED <<vars, astray>>

ConformNext ==
    \/ \E c \in QemuCommands : Both(c)
    \/ FileFails \/ PowerCycle \/ QemuOnly

ConformSpec == ConformInit /\ [][ConformNext]_conformVars

-----------------------------------------------------------------------------
SameContents == on => \A u \in Units \ strayed : storage[u] = OracleNow(u)
SameDurable == \A u \in Units \ strayedSafe : Durable[u] = OracleSafe(u)

(* An unknown opcode may be refused for its fields; a wrapping address,    *)
(* which the oracle refuses, is not refused.                               *)
SameAnswer ==
    /\ cqe.op = reply.op /\ cqe.fua = reply.fua
    /\ IF cqe.op = "UNKNOWN" THEN cqe.status # "SUCCESS"
       ELSE wrapped \/ cqe.status = reply.status

(* The controller agrees with its oracle: the same contents for reads and  *)
(* the same contents after a power cycle, but for units it stored or saved *)
(* for a command that the oracle refused, and the same verdict on every    *)
(* command but the two kinds above.                                        *)
Conformance == SameContents /\ SameDurable /\ SameAnswer
=============================================================================

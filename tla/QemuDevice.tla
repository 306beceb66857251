----------------------------- MODULE QemuDevice -----------------------------
(***************************************************************************)
(* The QEMU controller behind its queues (openflash.c): execute() of one   *)
(* command, the scatter-gather walk of transfer(), persist() to the        *)
(* backing file, the control register, and realize() and exit().  Rings    *)
(* and doorbells are in IoQueue and AdminQueue.                            *)
(*                                                                         *)
(* Storage is counted in units, the grain of a segment: a block has        *)
(* UnitsPerBlock of them.  A command carries what its DMA addresses lead   *)
(* to: sgl is the SGL flag, addr tells that data_addr is not 0, and segs   *)
(* is the list, or the one contiguous buffer of a command without it.      *)
(* Byte offsets are computed modulo 2^64 in the code, modulo OffsetMod     *)
(* here.  g_file_set_contents() replaces the file as a whole or fails.     *)
(***************************************************************************)
EXTENDS Integers, Sequences

CONSTANTS
    QemuBlocks,           \* capacity in blocks
    UnitsPerBlock,
    OffsetMod,            \* offsets wrap here
    MaxSgl,               \* OF_MAX_SGL_ENTRIES
    UnitData, UnitZero,   \* contents of a unit; zero bytes
    HasBackingFile,       \* the backing-file property is set
    NoImage,              \* the backing file does not exist yet
    QemuCommands

ASSUME QemuGeometryAssumption ==
    /\ QemuBlocks \in Nat \ {0} /\ UnitsPerBlock \in Nat \ {0}
    /\ MaxSgl \in Nat \ {0}
    /\ OffsetMod \in Nat /\ OffsetMod > QemuBlocks * UnitsPerBlock

Capacity == QemuBlocks * UnitsPerBlock
Units == 0 .. Capacity - 1
ZeroImage == [u \in Units |-> UnitZero]

QemuOpcodes == {"READ", "WRITE", "FLUSH", "DISCARD", "IDENTIFY", "UNKNOWN"}
QemuRefusals == {"INVALID_OPCODE", "INVALID_FIELD", "LBA_RANGE", "INTERNAL"}

ASSUME QemuDataAssumption ==
    /\ UnitZero \in UnitData /\ HasBackingFile \in BOOLEAN
    /\ NoImage \notin [Units -> UnitData]

SglEntries == [addr : BOOLEAN, data : Seq(UnitData)]

(* A buffer without a list is as long as the command says.                 *)
ASSUME QemuCommandsAssumption ==
    /\ QemuCommands \subseteq
          [op : QemuOpcodes, fua : BOOLEAN, lba : Nat, n : Nat,
           sgl : BOOLEAN, addr : BOOLEAN, segs : Seq(SglEntries)]
    /\ \A c \in QemuCommands : ~c.sgl /\ c.addr =>
          Len(c.segs) = 1 /\ Len(c.segs[1].data) = c.n * UnitsPerBlock

VARIABLES on,        \* the device is realized
          ready,     \* STATUS_READY
          storage,   \* s->storage
          image,     \* the backing file
          cqe        \* the last completion, with the units that were moved

qemuVars == <<on, ready, storage, image, cqe>>

QemuReply(c, status, data) ==
    [op |-> c.op, fua |-> c.fua, status |-> status, data |-> data]

QemuInit ==
    /\ on = FALSE /\ ready = FALSE
    /\ storage = ZeroImage /\ image = NoImage
    /\ cqe = [op |-> "NONE", fua |-> FALSE, status |-> "SUCCESS",
              data |-> <<>>]

-----------------------------------------------------------------------------
Length(c) == c.n * UnitsPerBlock
Offset(c) == (c.lba * UnitsPerBlock) % OffsetMod

(* The two comparisons that keep an extent inside the storage.             *)
InRange(c) == Offset(c) <= Capacity /\ Length(c) <= Capacity - Offset(c)

(* transferred before segment k + 1 of the list.                           *)
Transferred(c) ==
    LET sum[k \in 0 .. Len(c.segs)] ==
          IF k = 0 THEN 0 ELSE sum[k - 1] + Len(c.segs[k].data)
    IN sum

(* The checks in front of the loop.                                        *)
ListAccepted(c) == Len(c.segs) \in 1 .. MaxSgl /\ c.addr

(* Deviation: the loop does not look at what is left of the command, only  *)
(* the sum at its end does.                                                *)
BadSegmentsOfAnyLength(c) ==
    {k \in 1 .. Len(c.segs) :
        ~c.segs[k].addr \/ Len(c.segs[k].data) = 0}

(* The segments the loop refuses: no address, empty, or longer than what   *)
(* is left of the command.                                                 *)
BadSegments(c) ==
    {k \in 1 .. Len(c.segs) :
        \/ ~c.segs[k].addr \/ Len(c.segs[k].data) = 0
        \/ Len(c.segs[k].data) > Length(c) - Transferred(c)[k - 1]}

(* How many segments the loop moves before it ends or refuses one.         *)
Walked(c) ==
    IF BadSegments(c) = {} THEN Len(c.segs)
    ELSE (CHOOSE k \in BadSegments(c) : \A j \in BadSegments(c) : k <= j) - 1

(* How many units transfer() moves, whether it succeeds or not.            *)
Moved(c) ==
    IF ~c.sgl THEN IF c.addr THEN Length(c) ELSE 0
    ELSE IF ListAccepted(c) THEN Transferred(c)[Walked(c)] ELSE 0

(* Deviation: a list that is too short is taken for complete.              *)
TransferredUnlessRefused(c) ==
    IF ~c.sgl THEN c.addr ELSE ListAccepted(c) /\ BadSegments(c) = {}

(* What transfer() returns.                                                *)
TransferOk(c) ==
    IF ~c.sgl THEN c.addr
    ELSE /\ ListAccepted(c) /\ BadSegments(c) = {}
         /\ Transferred(c)[Len(c.segs)] = Length(c)

(* Unit i of the data the segments lead to.                                *)
Payload(c, i) ==
    LET k == CHOOSE k \in 1 .. Len(c.segs) :
               Transferred(c)[k - 1] <= i /\ i < Transferred(c)[k]
    IN c.segs[k].data[i - Transferred(c)[k - 1] + 1]

Touched(c) == Offset(c) .. Offset(c) + Moved(c) - 1
Written(c) == [u \in Touched(c) |-> Payload(c, u - Offset(c))]

(* The storage with data copied to it, wherever that lies.                 *)
Overlay(data) ==
    [u \in Units \cup DOMAIN data |->
        IF u \in DOMAIN data THEN data[u] ELSE storage[u]]

-----------------------------------------------------------------------------
(* execute(): saved tells whether g_file_set_contents() works this time.   *)

(* Reads, writes and discards pass these checks first.                     *)
Checked(c) == c.n > 0 /\ InRange(c)

Persists(c) ==
    \/ c.op = "FLUSH"
    \/ c.op = "WRITE" /\ c.fua /\ Checked(c) /\ TransferOk(c)

(* Deviation: the image is saved before the data of the command arrives.   *)
PersistBefore(saved) == image' = IF saved /\ HasBackingFile THEN storage
                                 ELSE image

(* persist(), after the storage was updated.                               *)
Persist(saved) == image' = IF saved /\ HasBackingFile THEN storage' ELSE image

QemuRefuse(c) ==
    /\ c.op \notin {"FLUSH", "IDENTIFY"}
    /\ ~Checked(c) \/ c.op = "UNKNOWN"
    /\ cqe' = QemuReply(c, IF c.n = 0 THEN "INVALID_FIELD"
                           ELSE IF ~InRange(c) THEN "LBA_RANGE"
                           ELSE "INVALID_OPCODE", <<>>)
    /\ UNCHANGED <<storage, image>>

QemuIdentify(c) ==
    /\ c.op = "IDENTIFY"
    /\ cqe' = QemuReply(c, "SUCCESS", <<>>)
    /\ UNCHANGED <<storage, image>>

QemuFlush(c, saved) ==
    /\ c.op = "FLUSH"
    /\ UNCHANGED storage
    /\ Persist(saved)
    /\ cqe' = QemuReply(c, IF saved THEN "SUCCESS" ELSE "INTERNAL", <<>>)

(* A list that is refused half-way has already received its first units.   *)
QemuRead(c) ==
    /\ c.op = "READ" /\ Checked(c)
    /\ cqe' = QemuReply(c, IF TransferOk(c) THEN "SUCCESS"
                           ELSE "INVALID_FIELD",
                        [u \in Touched(c) |-> storage[u]])
    /\ UNCHANGED <<storage, image>>

(* A list that is refused half-way has already stored its first segments.  *)
QemuWrite(c, saved) ==
    /\ c.op = "WRITE" /\ Checked(c)
    /\ storage' = Overlay(Written(c))
    /\ IF Persists(c) THEN Persist(saved) ELSE UNCHANGED image
    /\ cqe' = QemuReply(c, IF ~TransferOk(c) THEN "INVALID_FIELD"
                           ELSE IF c.fua /\ ~saved THEN "INTERNAL"
                           ELSE "SUCCESS", Written(c))

QemuDiscard(c) ==
    /\ c.op = "DISCARD" /\ Checked(c)
    /\ LET zeroed == [u \in Offset(c) .. Offset(c) + Length(c) - 1 |->
                         UnitZero]
       IN storage' = Overlay(zeroed) /\ cqe' = QemuReply(c, "SUCCESS", zeroed)
    /\ UNCHANGED image

QemuExecute(c, saved) ==
    /\ on /\ ready
    /\ \/ QemuRefuse(c) \/ QemuIdentify(c) \/ QemuFlush(c, saved)
       \/ QemuRead(c) \/ QemuWrite(c, saved) \/ QemuDiscard(c)
    /\ UNCHANGED <<on, ready>>

-----------------------------------------------------------------------------
(* The control register.  A reset clears the queues and not the storage.   *)
WriteControl(enable) ==
    /\ on /\ ready' = enable
    /\ UNCHANGED <<on, storage, image, cqe>>

(* realize(): zeroed storage, or the backing file if there is one.  When   *)
(* the file cannot be read nothing is realized and nothing changes.        *)
Realize ==
    /\ ~on /\ on' = TRUE /\ ready' = FALSE
    /\ storage' = IF HasBackingFile /\ image # NoImage
                  THEN image ELSE ZeroImage
    /\ UNCHANGED <<image, cqe>>

(* exit(), or the end of the QEMU process: the storage is gone.            *)
Exit ==
    /\ on /\ on' = FALSE /\ ready' = FALSE
    /\ storage' = ZeroImage
    /\ UNCHANGED <<image, cqe>>

QemuNext == \/ \E c \in QemuCommands, saved \in BOOLEAN :
                 (saved \/ HasBackingFile) /\ QemuExecute(c, saved)
            \/ \E enable \in BOOLEAN : WriteControl(enable)
            \/ Realize \/ Exit

QemuSpec == QemuInit /\ [][QemuNext]_qemuVars

-----------------------------------------------------------------------------
(* Everything a transfer reads or stores, one that is refused half-way     *)
(* included, and everything a discard zeroes lies inside the capacity,     *)
(* whatever the address, the length and the list of the command; and only  *)
(* whole images are saved and loaded.                                      *)
QemuTypeOK ==
    /\ on \in BOOLEAN /\ ready \in BOOLEAN
    /\ storage \in [Units -> UnitData]
    /\ image \in [Units -> UnitData] \cup {NoImage}
    /\ cqe.status \in QemuRefusals \cup {"SUCCESS"}
    /\ DOMAIN cqe.data \subseteq Units

Durable == IF image = NoImage THEN ZeroImage ELSE image

QemuStore == INSTANCE DurableStore WITH
    Blocks <- Units, Data <- UnitData, Zero <- UnitZero,
    Opcodes <- QemuOpcodes, Refusals <- QemuRefusals, TornTransfers <- TRUE,
    now <- IF on THEN storage ELSE Durable,
    safe <- Durable,
    answer <- cqe

(* With a backing file the device is a durable store that may tear: a      *)
(* power cycle goes back to the last FLUSH or FUA write that succeeded,    *)
(* reads see the last update, a refused write may have stored some of its  *)
(* units and is not durable, and a refused read may have returned some.    *)
QemuImplementsDurableStore == QemuStore!Spec
=============================================================================

-------------------------- MODULE QemuDeviceProofs --------------------------
(***************************************************************************)
(* QemuDevice stays inside its storage and implements DurableStore for     *)
(* every geometry, every offset width and every set of commands, well      *)
(* formed or not, whose scatter-gather lists may be of any length; and it  *)
(* conforms to the oracle of DeviceConformance.                            *)
(*                                                                         *)
(* What the recursive function Transferred computes is proved by looking   *)
(* at the least index at which it would fail.                              *)
(***************************************************************************)
EXTENDS DeviceConformance, ReferenceDeviceProofs, NaturalFacts

(* The running sums of a list of lengths exist.                            *)
LEMMA SumExists ==
    ASSUME NEW N \in Nat, NEW len, \A k \in 1 .. N : len[k] \in Nat
    PROVE  \E f : f = [k \in 0 .. N |->
                         IF k = 0 THEN 0 ELSE f[k - 1] + len[k]]
<1> DEFINE Sums(f, m) == f = [k \in 0 .. m |->
                                IF k = 0 THEN 0 ELSE f[k - 1] + len[k]]
           Missing == {m \in 0 .. N : ~ \E f : Sums(f, m)}
<1> SUFFICES ASSUME ~ \E f : Sums(f, N) PROVE FALSE
  OBVIOUS
<1>1. PICK m \in Missing : \A y \in Missing : m <= y
  <2>1. N \in Missing /\ Missing \subseteq Nat
    OBVIOUS
  <2> QED
    BY <2>1, LeastNatural
<1>2. CASE m = 0
  <2>1. Sums([k \in 0 .. 0 |-> 0], 0)
    OBVIOUS
  <2> QED
    BY <1>1, <1>2, <2>1
<1>3. CASE m > 0
  <2>1. m \in Nat /\ m - 1 \in 0 .. N /\ m - 1 \notin Missing
    BY <1>1, <1>3
  <2>2. PICK g : Sums(g, m - 1)
    BY <2>1
  <2> DEFINE h == [k \in 0 .. m |->
                     IF k = m THEN g[m - 1] + len[m] ELSE g[k]]
  <2>3. \A k \in 0 .. m : h[k] = IF k = 0 THEN 0 ELSE h[k - 1] + len[k]
    <3> SUFFICES ASSUME NEW k \in 0 .. m
                 PROVE  h[k] = IF k = 0 THEN 0 ELSE h[k - 1] + len[k]
      OBVIOUS
    <3>1. CASE k = m
      BY <1>3, <2>1, <3>1
    <3>2. CASE k # m
      <4>1. k \in 0 .. m - 1 /\ (k # 0 => k - 1 \in 0 .. m - 1)
        BY <2>1, <3>2
      <4>2. g[k] = IF k = 0 THEN 0 ELSE g[k - 1] + len[k]
        BY <2>2, <4>1
      <4> QED
        BY <2>1, <3>2, <4>1, <4>2
    <3> QED
      BY <3>1, <3>2
  <2>4. Sums(h, m)
    BY <2>3
  <2> QED
    BY <1>1, <2>4
<1> QED
  BY <1>1, <1>2, <1>3

(* What a command is made of.                                              *)
LEMMA CommandType ==
    ASSUME NEW c \in QemuCommands
    PROVE  /\ c.op \in QemuOpcodes /\ c.fua \in BOOLEAN
           /\ c.lba \in Nat /\ c.n \in Nat
           /\ c.sgl \in BOOLEAN /\ c.addr \in BOOLEAN
           /\ Len(c.segs) \in Nat
           /\ \A k \in 1 .. Len(c.segs) :
                 /\ c.segs[k].data \in Seq(UnitData)
                 /\ Len(c.segs[k].data) \in Nat
<1>1. c \in [op : QemuOpcodes, fua : BOOLEAN, lba : Nat, n : Nat,
             sgl : BOOLEAN, addr : BOOLEAN, segs : Seq(SglEntries)]
  BY QemuCommandsAssumption
<1>2. c.segs \in Seq(SglEntries)
  BY <1>1
<1>3. \A k \in 1 .. Len(c.segs) : c.segs[k] \in SglEntries
  BY <1>2
<1>4. \A k \in 1 .. Len(c.segs) : c.segs[k].data \in Seq(UnitData)
  BY <1>3 DEF SglEntries
<1> QED
  BY <1>1, <1>2, <1>4

(* transferred starts at zero and grows by the length of each segment.     *)
LEMMA TransferredSums ==
    ASSUME NEW c \in QemuCommands
    PROVE  /\ Transferred(c)[0] = 0
           /\ \A k \in 1 .. Len(c.segs) :
                 Transferred(c)[k]
                   = Transferred(c)[k - 1] + Len(c.segs[k].data)
           /\ \A k \in 0 .. Len(c.segs) : Transferred(c)[k] \in Nat
<1> DEFINE N == Len(c.segs)
           len == [k \in 1 .. N |-> Len(c.segs[k].data)]
           sum == Transferred(c)
<1>1. N \in Nat /\ \A k \in 1 .. N : len[k] \in Nat
  BY CommandType
<1>2. \E f : f = [k \in 0 .. N |->
                   IF k = 0 THEN 0 ELSE f[k - 1] + Len(c.segs[k].data)]
  <2>1. PICK f : f = [k \in 0 .. N |->
                        IF k = 0 THEN 0 ELSE f[k - 1] + len[k]]
    BY <1>1, SumExists, Zenon
  <2>2. \A k \in 0 .. N :
          (IF k = 0 THEN 0 ELSE f[k - 1] + len[k])
            = IF k = 0 THEN 0 ELSE f[k - 1] + Len(c.segs[k].data)
    BY <1>1
  <2> QED
    BY <2>1, <2>2, Zenon
<1>3. sum = [k \in 0 .. N |->
               IF k = 0 THEN 0 ELSE sum[k - 1] + Len(c.segs[k].data)]
  BY <1>2, Zenon DEF Transferred
<1> HIDE DEF sum
<1>4. sum[0] = 0
  BY <1>1, <1>3
<1>5. \A k \in 1 .. N : sum[k] = sum[k - 1] + Len(c.segs[k].data)
  BY <1>1, <1>3
<1>6. \A k \in 0 .. N : sum[k] \in Nat
  <2> DEFINE Bad == {k \in 0 .. N : sum[k] \notin Nat}
  <2> SUFFICES ASSUME Bad # {} PROVE FALSE
    OBVIOUS
  <2>1. PICK k \in Bad : \A y \in Bad : k <= y
    <3>1. Bad \subseteq Nat
      BY <1>1
    <3> QED
      BY <3>1, LeastNatural
  <2>2. k # 0
    BY <2>1, <1>4
  <2>3. k - 1 \in 0 .. N /\ k \in 1 .. N /\ k - 1 \notin Bad
    BY <1>1, <2>1, <2>2
  <2>4. sum[k] = sum[k - 1] + len[k] /\ sum[k - 1] \in Nat /\ len[k] \in Nat
    BY <1>1, <1>5, <2>3
  <2> QED
    BY <2>1, <2>4
<1> QED
  BY <1>4, <1>5, <1>6 DEF sum

(* The same for one segment.                                               *)
LEMMA SegmentFacts ==
    ASSUME NEW c \in QemuCommands, NEW k \in 1 .. Len(c.segs)
    PROVE  /\ c.segs[k].data \in Seq(UnitData)
           /\ Len(c.segs[k].data) \in Nat
           /\ Transferred(c)[k]
                = Transferred(c)[k - 1] + Len(c.segs[k].data)
           /\ Transferred(c)[k] \in Nat /\ Transferred(c)[k - 1] \in Nat
<1>1. Len(c.segs) \in Nat
  BY CommandType
<1>2. /\ \A j \in 1 .. Len(c.segs) :
            Transferred(c)[j] = Transferred(c)[j - 1] + Len(c.segs[j].data)
      /\ \A j \in 0 .. Len(c.segs) : Transferred(c)[j] \in Nat
  BY TransferredSums, Zenon
<1>3. k \in 0 .. Len(c.segs) /\ k - 1 \in 0 .. Len(c.segs)
  BY <1>1
<1>4. /\ c.segs[k].data \in Seq(UnitData)
      /\ Len(c.segs[k].data) \in Nat
  BY CommandType
<1>5. Transferred(c)[k] = Transferred(c)[k - 1] + Len(c.segs[k].data)
  BY <1>2, Zenon
<1>6. Transferred(c)[k] \in Nat /\ Transferred(c)[k - 1] \in Nat
  BY <1>2, <1>3, Zenon
<1> QED
  BY <1>4, <1>5, <1>6

(* The loop stops at the first segment it refuses, and has moved every     *)
(* segment before.                                                         *)
LEMMA WalkedRange ==
    ASSUME NEW c \in QemuCommands
    PROVE  /\ Walked(c) \in 0 .. Len(c.segs)
           /\ \A k \in 1 .. Walked(c) : k \notin BadSegments(c)
<1> DEFINE B == BadSegments(c)
<1>1. Len(c.segs) \in Nat /\ B \subseteq 1 .. Len(c.segs)
  BY CommandType DEF BadSegments
<1> HIDE DEF B
<1>2. CASE B = {}
  BY <1>1, <1>2 DEF Walked, B
<1>3. CASE B # {}
  <2> DEFINE m == CHOOSE k \in B : \A j \in B : k <= j
  <2>1. B \subseteq Nat
    BY <1>1
  <2>2. \E k \in B : \A j \in B : k <= j
    BY <1>3, <2>1, LeastNatural
  <2>3. m \in B /\ \A j \in B : m <= j
    BY <2>2, Zenon
  <2>4. Walked(c) = m - 1
    BY <1>3, Zenon DEF Walked, B
  <2> HIDE DEF m
  <2>5. m \in 1 .. Len(c.segs)
    BY <1>1, <2>3
  <2>6. \A k \in 1 .. m - 1 : k \notin B
    BY <2>3, <2>5
  <2> QED
    BY <1>1, <2>4, <2>5, <2>6 DEF B
<1> QED
  BY <1>2, <1>3

(* transfer() never moves more than the command asks for, even when it     *)
(* fails half-way.                                                         *)
LEMMA MovedBound ==
    ASSUME NEW c \in QemuCommands
    PROVE  Length(c) \in Nat /\ Moved(c) \in Nat /\ Moved(c) <= Length(c)
<1>1. Length(c) \in Nat
  BY CommandType, QemuGeometryAssumption DEF Length
<1>2. CASE ~c.sgl \/ ~ListAccepted(c)
  BY <1>1, <1>2 DEF Moved
<1>3. CASE c.sgl /\ ListAccepted(c)
  <2> DEFINE w == Walked(c)
  <2>1. Moved(c) = Transferred(c)[w]
    BY <1>3 DEF Moved
  <2>2. w \in 0 .. Len(c.segs) /\ Len(c.segs) \in Nat
          /\ \A k \in 1 .. w : k \notin BadSegments(c)
    BY WalkedRange, CommandType
  <2> HIDE DEF w
  <2>3. CASE w = 0
    BY <1>1, <2>1, <2>3, TransferredSums
  <2>4. CASE w # 0
    <3>1. w \in 1 .. Len(c.segs) /\ w - 1 \in 0 .. Len(c.segs)
            /\ w \notin BadSegments(c)
      BY <2>2, <2>4
    <3>2. Len(c.segs[w].data) <= Length(c) - Transferred(c)[w - 1]
      <4>1. ~(Len(c.segs[w].data) > Length(c) - Transferred(c)[w - 1])
        BY <3>1 DEF BadSegments
      <4>2. Len(c.segs[w].data) \in Nat /\ Transferred(c)[w - 1] \in Nat
        BY <3>1, CommandType, TransferredSums
      <4> QED
        BY <1>1, <4>1, <4>2
    <3>3. /\ Transferred(c)[w]
               = Transferred(c)[w - 1] + Len(c.segs[w].data)
          /\ Transferred(c)[w] \in Nat /\ Transferred(c)[w - 1] \in Nat
          /\ Len(c.segs[w].data) \in Nat
      BY <3>1, SegmentFacts
    <3> QED
      BY <1>1, <2>1, <3>2, <3>3
  <2> QED
    BY <2>3, <2>4
<1> QED
  BY <1>2, <1>3

(* A checked command touches units of the device only, although its offset *)
(* may have wrapped: for a transfer, what was moved; for a discard, all.   *)
LEMMA TouchedUnits ==
    ASSUME NEW c \in QemuCommands, Checked(c)
    PROVE  /\ Touched(c) \subseteq Units
           /\ Offset(c) .. Offset(c) + Length(c) - 1 \subseteq Units
           /\ Offset(c) \in Nat
<1>1. Offset(c) \in Nat
  <2>1. c.lba * UnitsPerBlock \in Nat /\ OffsetMod \in Nat \ {0}
    <3>1. c.lba \in Nat /\ UnitsPerBlock \in Nat /\ QemuBlocks \in Nat
            /\ OffsetMod \in Nat /\ OffsetMod > QemuBlocks * UnitsPerBlock
      BY CommandType, QemuGeometryAssumption
    <3>2. c.lba * UnitsPerBlock \in Nat /\ QemuBlocks * UnitsPerBlock \in Nat
      BY <3>1
    <3> QED
      BY <3>1, <3>2
  <2> QED
    BY <2>1 DEF Offset
<1>2. Capacity \in Nat
  BY QemuGeometryAssumption DEF Capacity
<1>3. Offset(c) + Length(c) <= Capacity
  <2>1. Offset(c) <= Capacity /\ Length(c) <= Capacity - Offset(c)
    BY DEF Checked, InRange
  <2> QED
    BY <1>1, <1>2, <2>1, MovedBound
<1>4. \A u \in Offset(c) .. Offset(c) + Length(c) - 1 : u \in Units
  BY <1>1, <1>2, <1>3, MovedBound DEF Units
<1>5. \A u \in Touched(c) : u \in Offset(c) .. Offset(c) + Length(c) - 1
  BY <1>1, MovedBound DEF Touched
<1> QED
  BY <1>1, <1>4, <1>5

(* Every unit that was moved comes from a segment of the list.             *)
LEMMA PayloadData ==
    ASSUME NEW c \in QemuCommands, NEW i \in 0 .. Moved(c) - 1
    PROVE  Payload(c, i) \in UnitData
<1> DEFINE N == Len(c.segs)
           sum == Transferred(c)
           Holds(k) == sum[k - 1] <= i /\ i < sum[k]
           seg == CHOOSE k \in 1 .. N : Holds(k)
<1>0. i \in Nat /\ i < Moved(c)
  BY MovedBound
<1>1. N \in Nat /\ sum[0] = 0 /\ \A k \in 0 .. N : sum[k] \in Nat
  BY CommandType, TransferredSums
<1>2. \E w \in 1 .. N : i < sum[w]
  <2>1. CASE ~c.sgl
    <3>1. c.addr /\ Moved(c) = Length(c)
      BY <1>0, <2>1 DEF Moved
    <3>2. N = 1 /\ Len(c.segs[1].data) = Length(c)
      BY <2>1, <3>1, QemuCommandsAssumption DEF Length
    <3>3. sum[1] = sum[0] + Len(c.segs[1].data)
      <4>1. 1 \in 1 .. Len(c.segs)
        BY <3>2
      <4>2. sum[1] = sum[1 - 1] + Len(c.segs[1].data)
        BY <4>1, SegmentFacts
      <4> QED
        BY <4>2
    <3>4. sum[1] = Length(c)
      BY <1>1, <3>2, <3>3, MovedBound
    <3> QED
      BY <1>0, <3>1, <3>2, <3>4
  <2>2. CASE c.sgl
    <3>1. Moved(c) = sum[Walked(c)]
      BY <1>0, <2>2 DEF Moved
    <3>2. Walked(c) \in 0 .. N
      BY WalkedRange
    <3>3. Walked(c) # 0
      BY <1>0, <1>1, <3>1
    <3>4. Walked(c) \in 1 .. N
      BY <1>1, <3>2, <3>3
    <3> QED
      BY <1>0, <3>1, <3>4
  <2> QED
    BY <2>1, <2>2
<1>3. \E k \in 1 .. N : Holds(k)
  <2> DEFINE Past == {k \in 1 .. N : i < sum[k]}
  <2>1. Past \subseteq Nat /\ Past # {}
    BY <1>1, <1>2
  <2>2. PICK k \in Past : \A y \in Past : k <= y
    BY <2>1, LeastNatural
  <2>3. k \in 1 .. N /\ i < sum[k] /\ k - 1 \in 0 .. N /\ k - 1 \notin Past
    BY <1>1, <2>2
  <2>4. sum[k - 1] <= i
    BY <1>0, <1>1, <2>3
  <2> QED
    BY <2>3, <2>4
<1>4. seg \in 1 .. N /\ Holds(seg)
  BY <1>3, Zenon
<1>5. Payload(c, i) = c.segs[seg].data[i - sum[seg - 1] + 1]
  BY Zenon DEF Payload
<1> HIDE DEF seg, sum
<1>6. /\ c.segs[seg].data \in Seq(UnitData)
      /\ Len(c.segs[seg].data) \in Nat
      /\ sum[seg] = sum[seg - 1] + Len(c.segs[seg].data)
      /\ sum[seg - 1] \in Nat /\ sum[seg] \in Nat
  BY <1>4, SegmentFacts DEF sum
<1>7. i - sum[seg - 1] + 1 \in 1 .. Len(c.segs[seg].data)
  <2>1. ASSUME NEW j \in Nat, NEW a \in Nat, NEW n \in Nat, NEW b,
               b = a + n, a <= j, j < b
        PROVE  j - a + 1 \in 1 .. n
    BY <2>1
  <2>2. sum[seg - 1] <= i /\ i < sum[seg]
    BY <1>4, Zenon
  <2> QED
    BY <1>0, <1>6, <2>1, <2>2, Zenon
<1> QED
  BY <1>5, <1>6, <1>7

(* So a transfer stores contents, inside the device.                       *)
LEMMA WrittenType ==
    ASSUME NEW c \in QemuCommands, Checked(c)
    PROVE  Written(c) \in [Touched(c) -> UnitData]
<1> SUFFICES ASSUME NEW u \in Touched(c)
             PROVE  Payload(c, u - Offset(c)) \in UnitData
  BY DEF Written
<1>1. u - Offset(c) \in 0 .. Moved(c) - 1
  BY TouchedUnits, MovedBound DEF Touched
<1> QED
  BY <1>1, PayloadData

-----------------------------------------------------------------------------
(* Storing inside the device keeps the size of the storage.                *)
LEMMA OverlayType ==
    ASSUME storage \in [Units -> UnitData],
           NEW D, D \subseteq Units, NEW data \in [D -> UnitData]
    PROVE  Overlay(data) \in [Units -> UnitData]
<1>1. DOMAIN data = D /\ Units \cup D = Units
  OBVIOUS
<1> QED
  BY <1>1 DEF Overlay

LEMMA ZeroImageType == ZeroImage \in [Units -> UnitData]
BY QemuDataAssumption DEF ZeroImage

(* Every step keeps storage, file and answer well formed.                  *)
LEMMA QemuTypeStep == QemuTypeOK /\ [QemuNext]_qemuVars => QemuTypeOK'
<1> SUFFICES ASSUME QemuTypeOK, [QemuNext]_qemuVars PROVE QemuTypeOK'
  OBVIOUS
<1> USE DEF QemuTypeOK
<1>1. ASSUME NEW c \in QemuCommands, NEW saved \in BOOLEAN,
             QemuExecute(c, saved)
      PROVE  QemuTypeOK'
  <2>0. UNCHANGED <<on, ready>>
    BY <1>1 DEF QemuExecute
  <2> HIDE DEF QemuTypeOK
  <2>s. storage \in [Units -> UnitData]
          /\ image \in [Units -> UnitData] \cup {NoImage}
    BY DEF QemuTypeOK
  <2>q. ASSUME storage' \in [Units -> UnitData],
               image' \in [Units -> UnitData] \cup {NoImage},
               cqe'.status \in QemuRefusals \cup {"SUCCESS"},
               DOMAIN cqe'.data \subseteq Units
        PROVE  QemuTypeOK'
    BY <2>0, <2>q DEF QemuTypeOK
  <2>1. CASE QemuRefuse(c)
    <3>1. UNCHANGED <<storage, image>>
      BY <2>1 DEF QemuRefuse
    <3>2. /\ cqe'.status \in {"INVALID_FIELD", "LBA_RANGE", "INVALID_OPCODE"}
          /\ cqe'.data = <<>>
      BY <2>1 DEF QemuRefuse, QemuReply
    <3> QED
      BY <2>s, <2>q, <3>1, <3>2 DEF QemuRefusals
  <2>2. CASE QemuIdentify(c)
    <3>1. UNCHANGED <<storage, image>>
      BY <2>2 DEF QemuIdentify
    <3>2. cqe'.status = "SUCCESS" /\ cqe'.data = <<>>
      BY <2>2 DEF QemuIdentify, QemuReply
    <3> QED
      BY <2>s, <2>q, <3>1, <3>2
  <2>3. CASE QemuFlush(c, saved)
    <3>1. storage' = storage /\ image' \in {storage, image}
      BY <2>3 DEF QemuFlush, Persist
    <3>2. cqe'.status \in {"SUCCESS", "INTERNAL"} /\ cqe'.data = <<>>
      BY <2>3 DEF QemuFlush, QemuReply
    <3> QED
      BY <2>s, <2>q, <3>1, <3>2 DEF QemuRefusals
  <2>4. CASE QemuRead(c)
    <3>1. UNCHANGED <<storage, image>> /\ Touched(c) \subseteq Units
      BY <2>4, TouchedUnits DEF QemuRead
    <3>2. /\ cqe'.status \in {"SUCCESS", "INVALID_FIELD"}
          /\ cqe'.data = [u \in Touched(c) |-> storage[u]]
      BY <2>4 DEF QemuRead, QemuReply
    <3> QED
      BY <2>s, <2>q, <3>1, <3>2 DEF QemuRefusals
  <2>5. CASE QemuWrite(c, saved)
    <3>1. /\ Touched(c) \subseteq Units
          /\ Written(c) \in [Touched(c) -> UnitData]
      BY <2>5, TouchedUnits, WrittenType DEF QemuWrite
    <3>2. storage' = Overlay(Written(c))
      BY <2>5 DEF QemuWrite
    <3>3. storage' \in [Units -> UnitData]
      BY <2>s, <3>1, <3>2, OverlayType
    <3>4. image' \in {storage', image}
      BY <2>5 DEF QemuWrite, Persist
    <3>5. /\ cqe'.status \in {"SUCCESS", "INTERNAL", "INVALID_FIELD"}
          /\ cqe'.data = Written(c)
      BY <2>5 DEF QemuWrite, QemuReply
    <3> QED
      BY <2>s, <2>q, <3>1, <3>3, <3>4, <3>5 DEF QemuRefusals
  <2>6. CASE QemuDiscard(c)
    <3> DEFINE extent == Offset(c) .. Offset(c) + Length(c) - 1
               zeroed == [u \in extent |-> UnitZero]
    <3>1. extent \subseteq Units /\ zeroed \in [extent -> UnitData]
      BY <2>6, TouchedUnits, QemuDataAssumption DEF QemuDiscard
    <3>2. /\ storage' = Overlay(zeroed) /\ image' = image
          /\ cqe'.status = "SUCCESS" /\ cqe'.data = zeroed
      BY <2>6 DEF QemuDiscard, QemuReply
    <3>3. storage' \in [Units -> UnitData]
      BY <2>s, <3>1, <3>2, OverlayType
    <3> QED
      BY <2>s, <2>q, <3>1, <3>2, <3>3
  <2> QED
    BY <1>1, <2>1, <2>2, <2>3, <2>4, <2>5, <2>6 DEF QemuExecute
<1>2. ASSUME NEW enable \in BOOLEAN, WriteControl(enable) PROVE QemuTypeOK'
  BY <1>2 DEF WriteControl
<1>3. CASE Realize
  <2>1. storage' \in [Units -> UnitData]
    BY <1>3, ZeroImageType DEF Realize
  <2> QED
    BY <1>3, <2>1 DEF Realize
<1>4. CASE Exit
  BY <1>4, ZeroImageType DEF Exit
<1>5. CASE UNCHANGED qemuVars
  BY <1>5 DEF qemuVars
<1> QED
  BY <1>1, <1>2, <1>3, <1>4, <1>5 DEF QemuNext

(* A device that is not realized yet.                                      *)
LEMMA QemuTypeInit == QemuInit => QemuTypeOK
<1> SUFFICES ASSUME QemuInit PROVE QemuTypeOK
  OBVIOUS
<1>1. on \in BOOLEAN /\ ready \in BOOLEAN
  BY DEF QemuInit
<1>2. storage \in [Units -> UnitData] /\ image = NoImage
  BY ZeroImageType DEF QemuInit
<1>3. cqe.status = "SUCCESS" /\ cqe.data = <<>>
  BY DEF QemuInit
<1> QED
  BY <1>1, <1>2, <1>3 DEF QemuTypeOK

(* Nothing outside the capacity is ever read or stored, by a command that  *)
(* succeeds or by one that is refused half-way, whatever address, length   *)
(* or scatter-gather list it has: the checks of execute() and the bound    *)
(* that transfer() keeps at every segment suffice.                         *)
THEOREM QemuTypeCorrect == QemuSpec => []QemuTypeOK
BY QemuTypeInit, QemuTypeStep, PTL DEF QemuSpec

-----------------------------------------------------------------------------
(* The refinement.  What a read sees is the storage while the device is    *)
(* realized, and otherwise what the next realize() will load.              *)
Visible == IF on THEN storage ELSE Durable

(* A step of the device is a step of the store, or changes nothing of it.  *)
LEMMA QemuStep ==
    ASSUME HasBackingFile, QemuTypeOK, [QemuNext]_qemuVars
    PROVE  [QemuStore!Next]_(QemuStore!vars)
<1>t. /\ storage \in [Units -> UnitData] /\ storage' \in [Units -> UnitData]
      /\ storage # NoImage /\ storage' # NoImage
  BY QemuTypeStep, QemuDataAssumption DEF QemuTypeOK
<1>1. ASSUME NEW c \in QemuCommands, NEW saved \in BOOLEAN,
             QemuExecute(c, saved)
      PROVE  QemuStore!Next
  <2>c. c.fua \in BOOLEAN /\ c.op \in QemuOpcodes
    BY CommandType
  <2>o. Visible = storage /\ Visible' = storage'
    BY <1>1 DEF QemuExecute, Visible
  <2>r. ASSUME NEW status \in QemuRefusals, UNCHANGED <<storage, image>>,
               cqe' = QemuReply(c, status, <<>>)
        PROVE  QemuStore!Next
    <3>1. QemuStore!Refuse(c.op, c.fua, status)
      BY <2>r, <2>o DEF QemuStore!Refuse, QemuStore!Answer, QemuReply,
         Visible, Durable
    <3> QED
      BY <3>1, <2>c DEF QemuStore!Next
  <2>w. ASSUME NEW data, DOMAIN data \subseteq Units,
               storage' = Overlay(data)
        PROVE  QemuStore!Store(data)
    BY <2>w, <2>o DEF QemuStore!Store, Overlay, Visible
  <2>1. CASE QemuRefuse(c)
    <3> DEFINE status == IF c.n = 0 THEN "INVALID_FIELD"
                         ELSE IF ~InRange(c) THEN "LBA_RANGE"
                         ELSE "INVALID_OPCODE"
    <3>1. status \in QemuRefusals
      BY DEF QemuRefusals
    <3>2. cqe' = QemuReply(c, status, <<>>) /\ UNCHANGED <<storage, image>>
      BY <2>1 DEF QemuRefuse
    <3> QED
      BY <3>1, <3>2, <2>r
  <2>2. CASE QemuIdentify(c)
    <3>1. QemuStore!Identify(c.fua)
      BY <2>2, <2>o DEF QemuIdentify, QemuReply, QemuStore!Identify,
         QemuStore!Answer, Visible, Durable
    <3> QED
      BY <3>1, <2>c DEF QemuStore!Next
  <2>3. CASE QemuFlush(c, saved)
    <3>1. CASE saved
      <4>1. Durable' = storage /\ storage' = storage
        BY <2>3, <3>1, <1>t DEF QemuFlush, Persist, Durable
      <4>2. QemuStore!Flush(c.fua)
        BY <2>3, <3>1, <4>1, <2>o DEF QemuFlush, QemuReply,
           QemuStore!Flush, QemuStore!Answer, Visible
      <4> QED
        BY <4>2, <2>c DEF QemuStore!Next
    <3>2. CASE ~saved
      BY <2>3, <3>2, <2>r DEF QemuFlush, Persist, QemuRefusals
    <3> QED
      BY <3>1, <3>2
  <2>4. CASE QemuRead(c)
    <3> DEFINE data == [u \in Touched(c) |-> storage[u]]
    <3>1. Touched(c) \subseteq Units
      BY <2>4, TouchedUnits DEF QemuRead
    <3>2. data \in QemuStore!Extents
      BY <3>1, <1>t DEF QemuStore!Extents
    <3>3. \A u \in DOMAIN data : data[u] = Visible[u]
      BY <2>o
    <3>4. /\ cqe' = QemuReply(c, IF TransferOk(c) THEN "SUCCESS"
                                ELSE "INVALID_FIELD", data)
          /\ c.op = "READ" /\ UNCHANGED <<storage, image>>
      BY <2>4 DEF QemuRead
    <3>5. data = cqe'.data
      BY <3>4 DEF QemuReply
    <3> HIDE DEF data
    <3>6. CASE TransferOk(c)
      <4>1. QemuStore!Read(c.fua, data)
        BY <3>3, <3>4, <3>6, <2>o DEF QemuReply, QemuStore!Read,
           QemuStore!Answer, Visible, Durable
      <4> QED
        BY <3>2, <3>5, <4>1, <2>c DEF QemuStore!Next
    <3>7. CASE ~TransferOk(c)
      <4>1. QemuStore!Tear(c.fua, "INVALID_FIELD", data)
        BY <3>3, <3>4, <3>7, <2>o DEF QemuReply, QemuStore!Tear,
           QemuStore!Answer, Visible, Durable
      <4>2. "INVALID_FIELD" \in QemuRefusals
        BY DEF QemuRefusals
      <4> QED
        BY <3>2, <3>5, <4>1, <4>2, <2>c DEF QemuStore!Next
    <3> QED
      BY <3>6, <3>7
  <2>5. CASE QemuWrite(c, saved)
    <3> DEFINE data == Written(c)
    <3>1. /\ Touched(c) \subseteq Units
          /\ data \in [Touched(c) -> UnitData]
      BY <2>5, TouchedUnits, WrittenType DEF QemuWrite
    <3>2. data \in QemuStore!Extents /\ DOMAIN data \subseteq Units
      BY <3>1 DEF QemuStore!Extents
    <3>3. storage' = Overlay(data)
      BY <2>5 DEF QemuWrite
    <3>4. QemuStore!Store(data)
      BY <3>2, <3>3, <2>w
    <3> HIDE DEF data
    <3>5. CASE TransferOk(c) /\ (c.fua => saved)
      <4>1. /\ cqe' = QemuReply(c, "SUCCESS", data) /\ c.op = "WRITE"
        BY <2>5, <3>5 DEF QemuWrite, data
      <4>2. Durable' = IF c.fua THEN storage' ELSE Durable
        <5>1. CASE c.fua
          <6>1. Persists(c) /\ saved
            BY <2>5, <3>5, <5>1 DEF QemuWrite, Persists
          <6>2. image' = storage'
            BY <2>5, <6>1 DEF QemuWrite, Persist
          <6> QED
            BY <5>1, <6>2, <1>t DEF Durable
        <5>2. CASE ~c.fua
          <6>1. ~Persists(c)
            BY <2>5, <5>2 DEF QemuWrite, Persists
          <6>2. image' = image
            BY <2>5, <6>1 DEF QemuWrite
          <6> QED
            BY <5>2, <6>2 DEF Durable
        <5> QED
          BY <5>1, <5>2
      <4>3. QemuStore!Write(c.fua, data)
        BY <3>4, <4>1, <4>2, <2>o DEF QemuReply, QemuStore!Write,
           QemuStore!Answer, Visible
      <4>4. data = cqe'.data
        BY <4>1 DEF QemuReply
      <4> QED
        BY <3>2, <4>3, <4>4, <2>c DEF QemuStore!Next
    <3>6. CASE ~TransferOk(c) \/ (c.fua /\ ~saved)
      <4> DEFINE status == IF ~TransferOk(c) THEN "INVALID_FIELD"
                           ELSE "INTERNAL"
      <4>1. /\ cqe' = QemuReply(c, status, data) /\ c.op = "WRITE"
            /\ status \in QemuRefusals
        BY <2>5, <3>6 DEF QemuWrite, data, QemuRefusals
      <4>2. image' = image
        BY <2>5, <3>6 DEF QemuWrite, Persists, Persist
      <4> HIDE DEF status
      <4>3. QemuStore!Tear(c.fua, status, data)
        BY <3>4, <4>1, <4>2 DEF QemuReply, QemuStore!Tear,
           QemuStore!Answer, Durable
      <4>4. data = cqe'.data
        BY <4>1 DEF QemuReply
      <4> QED
        BY <3>2, <4>1, <4>3, <4>4, <2>c DEF QemuStore!Next
    <3> QED
      BY <3>5, <3>6
  <2>6. CASE QemuDiscard(c)
    <3> DEFINE extent == Offset(c) .. Offset(c) + Length(c) - 1
               data == [u \in extent |-> UnitZero]
    <3>1. extent \subseteq Units /\ data \in [extent -> UnitData]
      BY <2>6, TouchedUnits, QemuDataAssumption DEF QemuDiscard
    <3>2. /\ storage' = Overlay(data) /\ image' = image
          /\ cqe' = QemuReply(c, "SUCCESS", data) /\ c.op = "DISCARD"
      BY <2>6 DEF QemuDiscard
    <3>3. data \in QemuStore!Extents /\ DOMAIN data \subseteq Units
      BY <3>1 DEF QemuStore!Extents
    <3>4. QemuStore!Store(data)
      BY <3>2, <3>3, <2>w
    <3>5. \A u \in DOMAIN data : data[u] = UnitZero
      OBVIOUS
    <3> HIDE DEF data
    <3>6. QemuStore!Discard(c.fua, data)
      BY <3>2, <3>4, <3>5 DEF QemuReply, QemuStore!Discard,
         QemuStore!Answer, Durable
    <3>7. data = cqe'.data
      BY <3>2 DEF QemuReply
    <3> QED
      BY <3>3, <3>6, <3>7, <2>c DEF QemuStore!Next
  <2> QED
    BY <1>1, <2>1, <2>2, <2>3, <2>4, <2>5, <2>6 DEF QemuExecute
<1>2. ASSUME NEW enable \in BOOLEAN, WriteControl(enable)
      PROVE  UNCHANGED QemuStore!vars
  BY <1>2 DEF WriteControl, QemuStore!vars, Durable
<1>3. CASE Realize
  BY <1>3 DEF Realize, QemuStore!vars, Durable
<1>4. CASE Exit
  <2>1. QemuStore!PowerLoss
    BY <1>4 DEF Exit, QemuStore!PowerLoss, Durable
  <2> QED
    BY <2>1 DEF QemuStore!Next
<1>5. CASE UNCHANGED qemuVars
  BY <1>5 DEF qemuVars, QemuStore!vars, Durable
<1> QED
  BY <1>1, <1>2, <1>3, <1>4, <1>5 DEF QemuNext

(* A controller with a backing file is a durable store that may tear:      *)
(* FLUSH and FUA writes that succeed survive the end of the process, reads *)
(* see the last update, a write that is refused half-way stores some of    *)
(* its own units and makes nothing durable, and a read that is refused     *)
(* half-way returns units as they are.                                     *)
THEOREM QemuIsDurable ==
    HasBackingFile => (QemuSpec => QemuImplementsDurableStore)
<1> SUFFICES ASSUME HasBackingFile
             PROVE  QemuSpec => QemuImplementsDurableStore
  OBVIOUS
<1>1. QemuInit => QemuStore!Init
  BY DEF QemuInit, Durable, ZeroImage, QemuStore!Init, QemuStore!Answer
<1>2. QemuTypeOK /\ [QemuNext]_qemuVars => [QemuStore!Next]_(QemuStore!vars)
  BY QemuStep
<1> QED
  BY <1>1, <1>2, QemuTypeCorrect, PTL
  DEF QemuSpec, QemuImplementsDurableStore, QemuStore!Spec

-----------------------------------------------------------------------------
(* Conformance.  The argument compares what one command does to each       *)
(* device (QemuEffect, OracleEffect) and needs the arithmetic that relates *)
(* them, as the controller counts units and the oracle blocks.             *)
LEMMA SameSize ==
    /\ QemuBlocks = CapacityBlocks /\ CapacityBlocks \in Nat \ {0}
    /\ UnitsPerBlock \in Nat \ {0} /\ OffsetMod \in Nat \ {0}
    /\ Capacity \in Nat /\ Capacity = CapacityBlocks * UnitsPerBlock
    /\ OffsetMod > Capacity
<1>1. /\ QemuBlocks = CapacityBlocks /\ CapacityBlocks \in Nat \ {0}
      /\ UnitsPerBlock \in Nat \ {0} /\ OffsetMod \in Nat
      /\ OffsetMod > QemuBlocks * UnitsPerBlock
  BY SameDeviceAssumption, QemuGeometryAssumption
<1>2. QemuBlocks * UnitsPerBlock \in Nat
  BY <1>1
<1> QED
  BY <1>1, <1>2 DEF Capacity

(* Every unit belongs to a block of the device.                            *)
LEMMA UnitBlock ==
    ASSUME NEW u \in Units
    PROVE  /\ u \in Nat /\ u \div UnitsPerBlock \in Lbas
           /\ u % UnitsPerBlock \in 0 .. UnitsPerBlock - 1
           /\ u = UnitsPerBlock * (u \div UnitsPerBlock)
                    + (u % UnitsPerBlock)
<1>1. u \in Nat /\ u < CapacityBlocks * UnitsPerBlock
  BY SameSize DEF Units
<1>2. u \div UnitsPerBlock \in 0 .. CapacityBlocks - 1
  <2>1. CapacityBlocks \in Nat /\ UnitsPerBlock \in Nat \ {0}
    BY SameSize
  <2> QED
    BY <1>1, <2>1, DivBound
<1> QED
  BY <1>1, <1>2, SameSize, DivMod DEF Lbas

(* An extent of blocks is an extent of units.                              *)
LEMMA BlockExtent ==
    ASSUME NEW u \in Nat, NEW d \in Nat \ {0}, NEW lba \in Nat, NEW n \in Nat
    PROVE  u \div d \in lba .. lba + n - 1
             <=> u \in lba * d .. lba * d + n * d - 1
<1> DEFINE q == u \div d
           r == u % d
<1>1. q \in Nat /\ r \in Nat /\ r < d /\ u = d * q + r
  BY DivMod
<1> HIDE DEF q, r
<1>2. ASSUME lba <= q PROVE lba * d <= u
  <2>1. d * lba <= d * q
    BY <1>1, <1>2
  <2> QED
    BY <1>1, <2>1
<1>3. ASSUME q < lba PROVE u < lba * d
  <2>1. d * (q + 1) <= d * lba
    BY <1>1, <1>3
  <2>2. d * (q + 1) = d * q + d
    BY <1>1
  <2> QED
    BY <1>1, <2>1, <2>2
<1>4. ASSUME q <= lba + n - 1 PROVE u <= lba * d + n * d - 1
  <2>1. d * (q + 1) <= d * (lba + n)
    BY <1>1, <1>4
  <2>2. d * (q + 1) = d * q + d /\ d * (lba + n) = lba * d + n * d
    BY <1>1
  <2> QED
    BY <1>1, <2>1, <2>2
<1>5. ASSUME q > lba + n - 1 PROVE u > lba * d + n * d - 1
  <2>1. d * (lba + n) <= d * q
    BY <1>1, <1>5
  <2>2. d * (lba + n) = lba * d + n * d
    OBVIOUS
  <2> QED
    BY <1>1, <2>1, <2>2
<1>6. lba * d \in Nat /\ n * d \in Nat
  OBVIOUS
<1> QED
  BY <1>1, <1>2, <1>3, <1>4, <1>5, <1>6 DEF q

(* Where the offset does not wrap, the two range checks agree; where it    *)
(* does, the oracle refuses the command.                                   *)
LEMMA RangeAgrees ==
    ASSUME NEW c \in QemuCommands
    PROVE  /\ c.lba * UnitsPerBlock < OffsetMod =>
                /\ Offset(c) = c.lba * UnitsPerBlock
                /\ InRange(c) <=> c.lba + c.n <= CapacityBlocks
           /\ c.lba * UnitsPerBlock >= OffsetMod =>
                c.lba + c.n > CapacityBlocks
<1> DEFINE off == c.lba * UnitsPerBlock
           len == c.n * UnitsPerBlock
<1>1. c.lba \in Nat /\ c.n \in Nat /\ UnitsPerBlock \in Nat \ {0}
      /\ CapacityBlocks \in Nat
  BY CommandType, SameSize
<1>2. off \in Nat /\ len \in Nat
  BY <1>1
<1>3. c.lba + c.n <= CapacityBlocks <=> off + len <= Capacity
  <2>1. (c.lba + c.n) * UnitsPerBlock = off + len
    BY <1>1
  <2>2. ASSUME NEW x \in Nat, NEW y \in Nat
        PROVE  x <= y <=> x * UnitsPerBlock <= y * UnitsPerBlock
    <3>1. ASSUME x > y PROVE x * UnitsPerBlock > y * UnitsPerBlock
      <4>1. x * UnitsPerBlock >= (y + 1) * UnitsPerBlock
        BY <1>1, <3>1
      <4>2. (y + 1) * UnitsPerBlock = y * UnitsPerBlock + UnitsPerBlock
        BY <1>1
      <4> QED
        BY <1>1, <4>1, <4>2
    <3>2. ASSUME x <= y PROVE x * UnitsPerBlock <= y * UnitsPerBlock
      BY <1>1, <3>2
    <3>3. x * UnitsPerBlock \in Nat /\ y * UnitsPerBlock \in Nat
      BY <1>1
    <3> QED
      BY <3>1, <3>2, <3>3
  <2>3. c.lba + c.n \in Nat /\ Capacity = CapacityBlocks * UnitsPerBlock
    BY <1>1, SameSize
  <2> QED
    BY <1>1, <2>1, <2>2, <2>3
<1>4. ASSUME off < OffsetMod
      PROVE  Offset(c) = off /\ (InRange(c) <=> off + len <= Capacity)
  <2>1. Offset(c) = off
    BY <1>2, <1>4, SameSize DEF Offset
  <2>2. InRange(c) <=> off <= Capacity /\ len <= Capacity - off
    BY <2>1 DEF InRange, Length
  <2> HIDE DEF off, len
  <2> QED
    BY <1>2, <2>1, <2>2, SameSize
<1>5. ASSUME off >= OffsetMod
      PROVE  ~(off + len <= Capacity)
  <2> HIDE DEF off, len
  <2> QED
    BY <1>2, <1>5, SameSize
<1>6. c.lba + c.n > CapacityBlocks <=> ~(c.lba + c.n <= CapacityBlocks)
  BY <1>1
<1> QED
  BY <1>3, <1>4, <1>5, <1>6

(* The sums of a list never shrink.                                        *)
LEMMA SumsGrow ==
    ASSUME NEW c \in QemuCommands, NEW k \in 0 .. Len(c.segs)
    PROVE  Transferred(c)[k] <= Transferred(c)[Len(c.segs)]
<1> DEFINE N == Len(c.segs)
           sum == Transferred(c)
           Bad == {j \in 0 .. N : ~(sum[N - j] <= sum[N])}
<1>1. N \in Nat /\ \A i \in 0 .. N : sum[i] \in Nat
  BY CommandType, TransferredSums
<1>2. \A i \in 1 .. N : sum[i] >= sum[i - 1]
  <2> SUFFICES ASSUME NEW i \in 1 .. N PROVE sum[i] >= sum[i - 1]
    OBVIOUS
  <2>1. /\ sum[i] = sum[i - 1] + Len(c.segs[i].data)
        /\ Len(c.segs[i].data) \in Nat /\ sum[i - 1] \in Nat
    BY SegmentFacts
  <2> HIDE DEF sum
  <2> QED
    BY <2>1
<1> HIDE DEF N, sum
<1> SUFFICES ASSUME ~(sum[k] <= sum[N]) PROVE FALSE
  BY DEF N, sum
<1>3. k \in 0 .. N
  BY DEF N
<1>4. N - k \in Bad
  BY <1>1, <1>3
<1>5. PICK j \in Bad : \A y \in Bad : j <= y
  <2>1. Bad \subseteq Nat
    BY <1>1
  <2> QED
    BY <1>4, <2>1, LeastNatural
<1>6. j # 0
  BY <1>1, <1>5
<1>7. j - 1 \in 0 .. N /\ j - 1 \notin Bad
  <2>1. j \in 0 .. N /\ j - 1 \in 0 .. N /\ ~(j <= j - 1)
    BY <1>1, <1>6
  <2> HIDE DEF Bad
  <2> QED
    BY <1>5, <2>1
<1>8. sum[N - (j - 1)] <= sum[N]
  BY <1>7
<1>9. N - (j - 1) \in 1 .. N /\ N - (j - 1) - 1 = N - j
  BY <1>1, <1>5, <1>6
<1>10. sum[N - (j - 1)] >= sum[N - j]
  BY <1>2, <1>9
<1>11. sum[N - (j - 1)] \in Nat /\ sum[N - j] \in Nat /\ sum[N] \in Nat
  BY <1>1, <1>5, <1>9
<1> QED
  BY <1>5, <1>8, <1>10, <1>11

(* transfer() succeeds for exactly the descriptors docs/ABI.md accepts,    *)
(* although it compares segment by segment with what is left, and moves    *)
(* the whole length then.                                                  *)
LEMMA DescriptorAgrees ==
    ASSUME NEW c \in QemuCommands
    PROVE  /\ DescriptorValid(c) <=> TransferOk(c)
           /\ TransferOk(c) => Moved(c) = Length(c)
<1>1. c.sgl \in BOOLEAN /\ c.addr \in BOOLEAN /\ Len(c.segs) \in Nat
      /\ Length(c) \in Nat
  BY CommandType, MovedBound
<1>2. ASSUME NEW k \in 1 .. Len(c.segs),
             Transferred(c)[Len(c.segs)] = Length(c)
      PROVE  ~(Len(c.segs[k].data) > Length(c) - Transferred(c)[k - 1])
  <2>1. k \in 0 .. Len(c.segs)
    BY <1>1
  <2>2. Transferred(c)[k] <= Length(c)
    BY <1>2, <2>1, SumsGrow
  <2>3. /\ Transferred(c)[k]
             = Transferred(c)[k - 1] + Len(c.segs[k].data)
        /\ Len(c.segs[k].data) \in Nat /\ Transferred(c)[k - 1] \in Nat
    BY SegmentFacts
  <2> QED
    BY <1>1, <2>2, <2>3
<1>3. \A k \in 1 .. Len(c.segs) :
        c.segs[k].data # <<>> <=> Len(c.segs[k].data) # 0
  BY CommandType
<1>4. CASE ~c.sgl
  BY <1>1, <1>4 DEF DescriptorValid, TransferOk, Moved
<1>5. CASE c.sgl
  <2>1. DescriptorValid(c) =>
          /\ ListAccepted(c) /\ BadSegments(c) = {}
          /\ Transferred(c)[Len(c.segs)] = Length(c)
    BY <1>2, <1>3, <1>5 DEF DescriptorValid, ListAccepted, BadSegments
  <2>2. /\ ListAccepted(c) /\ BadSegments(c) = {}
        /\ Transferred(c)[Len(c.segs)] = Length(c)
        => DescriptorValid(c)
    BY <1>3, <1>5 DEF DescriptorValid, ListAccepted, BadSegments
  <2>3. TransferOk(c) <=> /\ ListAccepted(c) /\ BadSegments(c) = {}
                          /\ Transferred(c)[Len(c.segs)] = Length(c)
    BY <1>5 DEF TransferOk
  <2>4. TransferOk(c) => Moved(c) = Length(c)
    BY <1>5, <2>3 DEF Moved, Walked
  <2> QED
    BY <2>1, <2>2, <2>3, <2>4
<1> QED
  BY <1>1, <1>4, <1>5

(* What the oracle makes of a command.                                     *)
LEMMA OracleVerdict ==
    ASSUME NEW c \in QemuCommands
    PROVE  LET o == OracleCommand(c)
           IN /\ o \in Commands /\ o.op = c.op /\ o.fua = c.fua
              /\ o.lba = c.lba /\ o.n = c.n /\ o.buf = OracleBuffer(c)
              /\ Dispatch(o) =
                   IF c.op = "UNKNOWN" THEN "INVALID_OPCODE"
                   ELSE IF c.op \in {"IDENTIFY", "FLUSH"} THEN "SUCCESS"
                   ELSE IF c.n = 0 THEN "INVALID_FIELD"
                   ELSE IF c.lba + c.n > CapacityBlocks THEN "LBA_RANGE"
                   ELSE IF c.op # "DISCARD" /\ ~TransferOk(c)
                   THEN "INVALID_FIELD" ELSE "SUCCESS"
<1> DEFINE o == OracleCommand(c)
<1>1. o \in Commands
  BY SameCommandsAssumption
<1>2. o.op = c.op /\ o.fua = c.fua /\ o.lba = c.lba /\ o.n = c.n
      /\ o.buf = OracleBuffer(c)
  BY DEF OracleCommand
<1>3. c.n \in Nat
  BY CommandType
<1>4. TransferOk(c) => Len(OracleBuffer(c)) = c.n
  <2> SUFFICES ASSUME TransferOk(c) PROVE Len(OracleBuffer(c)) = c.n
    OBVIOUS
  <2>1. DescriptorValid(c)
    BY DescriptorAgrees
  <2>2. DOMAIN OracleBuffer(c) = 1 .. c.n
    BY <2>1 DEF OracleBuffer
  <2>3. OracleBuffer(c) \in Seq(Data)
    BY <1>1, <1>2, CommandsAssumption
  <2> HIDE DEF o
  <2> QED
    BY <1>3, <2>2, <2>3
<1>5. ~TransferOk(c) => Len(OracleBuffer(c)) = 0
  BY DescriptorAgrees DEF OracleBuffer
<1> HIDE DEF o
<1>6. c.n <= 0 <=> c.n = 0
  BY <1>3
<1>7. c.n # 0 => (Len(o.buf) < c.n <=> ~TransferOk(c))
  BY <1>2, <1>3, <1>4, <1>5
<1>8. Dispatch(o) =
        IF c.op = "UNKNOWN" THEN "INVALID_OPCODE"
        ELSE IF c.op \in {"IDENTIFY", "FLUSH"} THEN "SUCCESS"
        ELSE IF c.n = 0 THEN "INVALID_FIELD"
        ELSE IF c.lba + c.n > CapacityBlocks THEN "LBA_RANGE"
        ELSE IF c.op # "DISCARD" /\ ~TransferOk(c)
        THEN "INVALID_FIELD" ELSE "SUCCESS"
  BY <1>2, <1>6, <1>7 DEF Dispatch
<1> QED
  BY <1>1, <1>2, <1>8 DEF o

(* The status execute() reports.                                           *)
Verdict(c, saved) ==
    IF c.op = "IDENTIFY" THEN "SUCCESS"
    ELSE IF c.op = "FLUSH" THEN IF saved THEN "SUCCESS" ELSE "INTERNAL"
    ELSE IF c.n = 0 THEN "INVALID_FIELD"
    ELSE IF ~InRange(c) THEN "LBA_RANGE"
    ELSE IF c.op = "UNKNOWN" THEN "INVALID_OPCODE"
    ELSE IF c.op # "DISCARD" /\ ~TransferOk(c) THEN "INVALID_FIELD"
    ELSE IF c.op = "WRITE" /\ c.fua /\ ~saved THEN "INTERNAL"
    ELSE "SUCCESS"

(* What one command does to the controller: its completion tells the units *)
(* it stored, and a FLUSH or FUA write that succeeds saves the storage.    *)
LEMMA QemuEffect ==
    ASSUME HasBackingFile, QemuTypeOK, NEW c \in QemuCommands,
           NEW saved \in BOOLEAN, QemuExecute(c, saved)
    PROVE  /\ cqe'.op = c.op /\ cqe'.fua = c.fua
           /\ cqe'.status = Verdict(c, saved)
           /\ \A u \in Units : storage'[u] =
                IF c.op \in {"WRITE", "DISCARD"} /\ u \in DOMAIN cqe'.data
                THEN cqe'.data[u] ELSE storage[u]
           /\ image' = IF Persists(c) /\ cqe'.status = "SUCCESS"
                       THEN storage' ELSE image
           /\ cqe'.status = "SUCCESS" =>
                /\ c.op = "WRITE" => cqe'.data = Written(c)
                /\ c.op = "DISCARD" =>
                     cqe'.data = [u \in Offset(c) .. Offset(c) + Length(c) - 1
                                    |-> UnitZero]
<1>1. c.n \in Nat /\ c.op \in QemuOpcodes /\ c.fua \in BOOLEAN
      /\ (c.n > 0 <=> c.n # 0)
  <2>1. c.n \in Nat /\ c.op \in QemuOpcodes /\ c.fua \in BOOLEAN
    BY CommandType
  <2> QED
    BY <2>1
<1>2. Checked(c) <=> c.n # 0 /\ InRange(c)
  BY <1>1 DEF Checked
<1>3. storage \in [Units -> UnitData]
  BY DEF QemuTypeOK
<1>4. CASE QemuRefuse(c)
  <2>1. c.op \notin {"FLUSH", "IDENTIFY"}
        /\ (~Checked(c) \/ c.op = "UNKNOWN")
        /\ UNCHANGED <<storage, image>>
    BY <1>4 DEF QemuRefuse
  <2>2. cqe' = QemuReply(c, IF c.n = 0 THEN "INVALID_FIELD"
                            ELSE IF ~InRange(c) THEN "LBA_RANGE"
                            ELSE "INVALID_OPCODE", <<>>)
    BY <1>4 DEF QemuRefuse
  <2>3. /\ cqe'.op = c.op /\ cqe'.fua = c.fua /\ cqe'.data = <<>>
        /\ cqe'.status = IF c.n = 0 THEN "INVALID_FIELD"
                         ELSE IF ~InRange(c) THEN "LBA_RANGE"
                         ELSE "INVALID_OPCODE"
    BY <2>2 DEF QemuReply
  <2>4. cqe'.status = Verdict(c, saved) /\ cqe'.status # "SUCCESS"
    BY <1>2, <2>1, <2>3 DEF Verdict
  <2>5. DOMAIN cqe'.data = {}
    BY <2>3
  <2> QED
    BY <2>1, <2>3, <2>4, <2>5
<1>5. CASE QemuIdentify(c)
  BY <1>5 DEF QemuIdentify, QemuReply, Verdict, Persists
<1>6. CASE QemuFlush(c, saved)
  <2>1. /\ c.op = "FLUSH" /\ storage' = storage
        /\ image' = IF saved THEN storage' ELSE image
        /\ cqe' = QemuReply(c, IF saved THEN "SUCCESS" ELSE "INTERNAL", <<>>)
    BY <1>6 DEF QemuFlush, Persist
  <2> QED
    BY <2>1 DEF QemuReply, Verdict, Persists
<1>7. CASE QemuRead(c)
  <2>1. /\ c.op = "READ" /\ Checked(c) /\ UNCHANGED <<storage, image>>
        /\ cqe'.op = c.op /\ cqe'.fua = c.fua
        /\ cqe'.status = IF TransferOk(c) THEN "SUCCESS" ELSE "INVALID_FIELD"
    BY <1>7 DEF QemuRead, QemuReply
  <2>2. cqe'.status = Verdict(c, saved)
    BY <1>2, <2>1 DEF Verdict
  <2> QED
    BY <2>1, <2>2 DEF Persists
<1>8. CASE QemuWrite(c, saved)
  <2>1. /\ c.op = "WRITE" /\ Checked(c) /\ storage' = Overlay(Written(c))
        /\ image' = IF Persists(c) /\ saved THEN storage' ELSE image
        /\ cqe' = QemuReply(c, IF ~TransferOk(c) THEN "INVALID_FIELD"
                               ELSE IF c.fua /\ ~saved THEN "INTERNAL"
                               ELSE "SUCCESS", Written(c))
    BY <1>8 DEF QemuWrite, Persist
  <2>2. /\ cqe'.op = c.op /\ cqe'.fua = c.fua /\ cqe'.data = Written(c)
        /\ cqe'.status = IF ~TransferOk(c) THEN "INVALID_FIELD"
                         ELSE IF c.fua /\ ~saved THEN "INTERNAL"
                         ELSE "SUCCESS"
    BY <2>1 DEF QemuReply
  <2>3. cqe'.status = Verdict(c, saved)
    BY <1>2, <2>1, <2>2 DEF Verdict
  <2>4. Persists(c) <=> c.fua /\ TransferOk(c)
    BY <2>1 DEF Persists
  <2>5. Persists(c) => (saved <=> cqe'.status = "SUCCESS")
    BY <2>2, <2>4
  <2>6. \A u \in Units : storage'[u] = IF u \in DOMAIN cqe'.data
                                       THEN cqe'.data[u] ELSE storage[u]
    BY <2>1, <2>2 DEF Overlay
  <2> QED
    BY <2>1, <2>2, <2>3, <2>5, <2>6
<1>9. CASE QemuDiscard(c)
  <2> DEFINE zeroed == [u \in Offset(c) .. Offset(c) + Length(c) - 1 |->
                          UnitZero]
  <2>1. /\ c.op = "DISCARD" /\ Checked(c) /\ storage' = Overlay(zeroed)
        /\ image' = image /\ cqe' = QemuReply(c, "SUCCESS", zeroed)
    BY <1>9 DEF QemuDiscard
  <2>2. /\ cqe'.op = c.op /\ cqe'.fua = c.fua /\ cqe'.data = zeroed
        /\ cqe'.status = "SUCCESS"
    BY <2>1 DEF QemuReply
  <2>3. cqe'.status = Verdict(c, saved) /\ ~Persists(c)
    BY <1>2, <2>1, <2>2 DEF Verdict, Persists
  <2>4. \A u \in Units : storage'[u] = IF u \in DOMAIN cqe'.data
                                       THEN cqe'.data[u] ELSE storage[u]
    BY <2>1, <2>2 DEF Overlay
  <2> QED
    BY <2>1, <2>2, <2>3, <2>4
<1> QED
  BY <1>4, <1>5, <1>6, <1>7, <1>8, <1>9 DEF QemuExecute

(* What one command does to the oracle.                                    *)
LEMMA OracleEffect ==
    ASSUME TypeOK, NEW o \in Commands, Execute(o)
    PROVE  /\ reply'.op = o.op /\ reply'.fua = o.fua
           /\ reply'.status = Status(o) /\ nextFault' = NoFault
           /\ \A l \in Lbas : Now'[l] =
                IF Succeeds(o, "WRITE") /\ l \in Extent(o)
                THEN o.buf[l - o.lba + 1]
                ELSE IF Succeeds(o, "DISCARD") /\ l \in Extent(o) THEN Zero
                ELSE Now[l]
           /\ \A l \in Lbas : Safe'[l] =
                IF Succeeds(o, "FLUSH") \/ (Succeeds(o, "WRITE") /\ o.fua)
                THEN Now'[l] ELSE Safe[l]
<1>t. TypeOK'
  BY DeviceTypeStep DEF Next
<1>1. ASSUME Status(o) = "SUCCESS" PROVE nextFault = NoFault
  BY <1>1, FaultsAssumption DEF Status, TypeOK
<1>2. CASE Refuse(o)
  BY <1>2 DEF Refuse, Reply, Succeeds, Now, Safe, Lookup
<1>3. CASE Identify(o)
  BY <1>1, <1>3 DEF Identify, Reply, Succeeds, Now, Safe, Lookup
<1>4. CASE Flush(o)
  <2>1. \A l \in Lbas : Safe'[l] = Now[l] /\ Now'[l] = Now[l]
    BY <1>4, FlushedContents DEF Flush, Lookup, Safe, Now, TypeOK
  <2> QED
    BY <1>1, <1>4, <2>1 DEF Flush, Reply, Succeeds
<1>5. CASE Discard(o)
  <2>1. \A l \in Lbas :
          Now'[l] = IF l \in Extent(o) THEN Zero ELSE Now[l]
    BY <1>5, DataAssumption DEF Discard, Lookup, Now, TypeOK
  <2>2. \A l \in Lbas : Safe'[l] = Safe[l]
    BY <1>5 DEF Discard, Safe
  <2> QED
    BY <1>1, <1>5, <2>1, <2>2 DEF Discard, Reply, Succeeds
<1>6. CASE Write(o)
  <2> DEFINE cache == [l \in Lbas |-> IF l \in Extent(o)
                                      THEN o.buf[l - o.lba + 1]
                                      ELSE volatile[l]]
  <2>1. /\ Extent(o) \in SUBSET Lbas
        /\ \A l \in Extent(o) : o.buf[l - o.lba + 1] \in Data
    BY <1>6, AcceptedExtent DEF Write, Succeeds
  <2>2. cache \in [Lbas -> Data \cup {Absent, Discarded}]
    BY <2>1 DEF TypeOK
  <2>3. \A l \in Lbas : Now'[l] = IF l \in Extent(o)
                                  THEN o.buf[l - o.lba + 1] ELSE Now[l]
    <3>1. CASE o.fua
      BY <1>6, <3>1, <2>1, <2>2, FlushedContents, DataAssumption
      DEF Write, Lookup, TypeOK, Now
    <3>2. CASE ~o.fua
      BY <1>6, <3>2, <2>1, DataAssumption DEF Write, Lookup, TypeOK, Now
    <3> QED
      BY <3>1, <3>2
  <2>4. \A l \in Lbas : Safe'[l] = IF o.fua THEN Now'[l] ELSE Safe[l]
    <3>1. CASE o.fua
      BY <1>6, <3>1 DEF Write, Safe, Now, Lookup
    <3>2. CASE ~o.fua
      BY <1>6, <3>2 DEF Write, Safe
    <3> QED
      BY <3>1, <3>2
  <2> QED
    BY <1>1, <1>6, <2>3, <2>4 DEF Write, Reply, Succeeds
<1>7. CASE Read(o)
  BY <1>1, <1>7 DEF Read, Reply, Succeeds, Now, Safe, Lookup
<1> QED
  BY <1>2, <1>3, <1>4, <1>5, <1>6, <1>7 DEF Execute

-----------------------------------------------------------------------------
(* The oracle's contents in units.                                         *)
LEMMA OracleUnits ==
    ASSUME NEW u \in Units
    PROVE  /\ OracleNow(u) = UnitOf(Now[u \div UnitsPerBlock], u)
           /\ OracleSafe(u) = UnitOf(Safe[u \div UnitsPerBlock], u)
           /\ OracleNow(u)' = UnitOf(Now'[u \div UnitsPerBlock], u)
           /\ OracleSafe(u)' = UnitOf(Safe'[u \div UnitsPerBlock], u)
           /\ UnitOf(Zero, u) = UnitZero
<1>1. u \div UnitsPerBlock \in Lbas
      /\ u % UnitsPerBlock \in 0 .. UnitsPerBlock - 1
  BY UnitBlock
<1>2. (u % UnitsPerBlock) + 1 \in 1 .. UnitsPerBlock
  BY <1>1, SameSize
<1>3. UnitOf(Zero, u) = UnitZero
  BY <1>2, SameDeviceAssumption DEF UnitOf
<1>4. OracleNow(u) = UnitOf(Now[u \div UnitsPerBlock], u)
      /\ OracleNow(u)' = UnitOf(Now'[u \div UnitsPerBlock], u)
  BY <1>1 DEF OracleNow, Now
<1>5. OracleSafe(u) = UnitOf(Safe[u \div UnitsPerBlock], u)
      /\ OracleSafe(u)' = UnitOf(Safe'[u \div UnitsPerBlock], u)
  BY <1>1, <1>3 DEF OracleSafe, Safe
<1> QED
  BY <1>3, <1>4, <1>5

(* A command that does not wrap touches the units of the oracle's blocks.  *)
LEMMA ExtentAgrees ==
    ASSUME NEW c \in QemuCommands, NEW u \in Units,
           Offset(c) = c.lba * UnitsPerBlock
    PROVE  u \div UnitsPerBlock \in Extent(OracleCommand(c))
             <=> u \in Offset(c) .. Offset(c) + Length(c) - 1
<1>1. u \in Nat /\ UnitsPerBlock \in Nat \ {0} /\ c.lba \in Nat /\ c.n \in Nat
  BY UnitBlock, SameSize, CommandType
<1>2. u \div UnitsPerBlock \in c.lba .. c.lba + c.n - 1
        <=> u \in c.lba * UnitsPerBlock
                    .. c.lba * UnitsPerBlock + c.n * UnitsPerBlock - 1
  BY <1>1, BlockExtent
<1>3. Extent(OracleCommand(c)) = c.lba .. c.lba + c.n - 1
  BY DEF Extent, OracleCommand
<1> QED
  BY <1>2, <1>3 DEF Length

(* It brings each unit the data that the oracle's buffer has for it.       *)
LEMMA PayloadAgrees ==
    ASSUME NEW c \in QemuCommands, NEW u \in Units, TransferOk(c),
           Offset(c) = c.lba * UnitsPerBlock,
           u \in Offset(c) .. Offset(c) + Length(c) - 1
    PROVE  UnitOf(OracleBuffer(c)[(u \div UnitsPerBlock) - c.lba + 1], u)
             = Written(c)[u]
<1> DEFINE q == u \div UnitsPerBlock
           r == u % UnitsPerBlock
           b == q - c.lba + 1
<1>1. u \in Nat /\ q \in Nat /\ r \in 0 .. UnitsPerBlock - 1
      /\ u = UnitsPerBlock * q + r
  <2>1. q \in Lbas
    BY UnitBlock
  <2> QED
    BY <2>1, UnitBlock, SameSize DEF Lbas
<1>2. c.lba \in Nat /\ c.n \in Nat /\ UnitsPerBlock \in Nat \ {0}
  BY CommandType, SameSize
<1>3. q \in c.lba .. c.lba + c.n - 1
  BY ExtentAgrees DEF Extent, OracleCommand
<1>4. u \in Touched(c)
  BY DescriptorAgrees DEF Touched
<1> HIDE DEF q, r
<1>5. b \in 1 .. c.n /\ r + 1 \in 1 .. UnitsPerBlock
  BY <1>1, <1>2, <1>3
<1>6. (b - 1) * UnitsPerBlock + (r + 1) - 1 = u - c.lba * UnitsPerBlock
  <2>1. (b - 1) * UnitsPerBlock = UnitsPerBlock * q - c.lba * UnitsPerBlock
    BY <1>1, <1>2
  <2>2. UnitsPerBlock * q \in Nat /\ c.lba * UnitsPerBlock \in Nat
    BY <1>1, <1>2
  <2> QED
    BY <1>1, <2>1, <2>2
<1>7. OracleBuffer(c)[b][r + 1]
        = Payload(c, (b - 1) * UnitsPerBlock + (r + 1) - 1)
  BY <1>5, DescriptorAgrees DEF OracleBuffer
<1> HIDE DEF b
<1>8. Written(c)[u] = Payload(c, u - c.lba * UnitsPerBlock)
  BY <1>4 DEF Written
<1>9. OracleBuffer(c)[b][r + 1] = Written(c)[u]
  BY <1>6, <1>7, <1>8
<1> QED
  BY <1>9 DEF UnitOf, b, q, r

(* The two verdicts on one command.                                        *)
LEMMA VerdictsAgree ==
    ASSUME NEW c \in QemuCommands, NEW saved \in BOOLEAN,
           nextFault \in {NoFault, "INTERNAL"},
           saved <=> nextFault = NoFault,
           saved \/ Persists(c)
    PROVE  /\ Status(OracleCommand(c)) = "SUCCESS" =>
                /\ Verdict(c, saved) = "SUCCESS"
                /\ c.op \in {"WRITE", "DISCARD"} =>
                     Checked(c) /\ Offset(c) = c.lba * UnitsPerBlock
                /\ c.op = "WRITE" => TransferOk(c)
           /\ c.op = "UNKNOWN" => Verdict(c, saved) # "SUCCESS"
           /\ c.op # "UNKNOWN" => \/ c.lba * UnitsPerBlock >= OffsetMod
                                  \/ Verdict(c, saved)
                                       = Status(OracleCommand(c))
<1> DEFINE o == OracleCommand(c)
           wraps == c.lba * UnitsPerBlock >= OffsetMod
           outside == c.lba + c.n > CapacityBlocks
<1>1. c.op \in QemuOpcodes /\ c.n \in Nat /\ c.lba \in Nat
  BY CommandType
<1>2. ~wraps => /\ Offset(c) = c.lba * UnitsPerBlock
                /\ InRange(c) <=> ~outside
  <2>1. c.lba * UnitsPerBlock \in Nat /\ c.lba + c.n \in Nat
        /\ OffsetMod \in Nat /\ CapacityBlocks \in Nat
    BY <1>1, SameSize
  <2>2. ~wraps => c.lba * UnitsPerBlock < OffsetMod
    BY <2>1
  <2>3. outside <=> ~(c.lba + c.n <= CapacityBlocks)
    BY <2>1
  <2> QED
    BY <2>2, <2>3, RangeAgrees
<1>3. wraps => outside
  BY RangeAgrees
<1>4. Dispatch(o) = IF c.op = "UNKNOWN" THEN "INVALID_OPCODE"
                    ELSE IF c.op \in {"IDENTIFY", "FLUSH"} THEN "SUCCESS"
                    ELSE IF c.n = 0 THEN "INVALID_FIELD"
                    ELSE IF outside THEN "LBA_RANGE"
                    ELSE IF c.op # "DISCARD" /\ ~TransferOk(c)
                    THEN "INVALID_FIELD" ELSE "SUCCESS"
  BY OracleVerdict
<1>5. c.n # 0 <=> c.n > 0
  BY <1>1
<1>6. Status(o) = IF saved THEN Dispatch(o) ELSE "INTERNAL"
  BY DEF Status
<1> HIDE DEF o, wraps, outside
<1>7. CASE saved
  <2>1. Status(o) = "SUCCESS" /\ c.op \in {"READ", "WRITE", "DISCARD"} =>
          /\ c.n # 0 /\ ~outside /\ ~wraps /\ InRange(c)
          /\ Offset(c) = c.lba * UnitsPerBlock
          /\ c.op # "DISCARD" => TransferOk(c)
    BY <1>2, <1>3, <1>4, <1>6, <1>7
  <2>2. Status(o) = "SUCCESS" => Verdict(c, saved) = "SUCCESS"
    BY <1>1, <1>4, <1>6, <1>7, <2>1 DEF Verdict, QemuOpcodes
  <2>3. c.op = "UNKNOWN" => Verdict(c, saved) # "SUCCESS"
    BY DEF Verdict
  <2>4. c.op # "UNKNOWN" /\ ~wraps => Verdict(c, saved) = Status(o)
    BY <1>1, <1>2, <1>4, <1>6, <1>7 DEF Verdict, QemuOpcodes
  <2> QED
    BY <1>5, <2>1, <2>2, <2>3, <2>4 DEF Checked, o, wraps
<1>8. CASE ~saved
  <2>1. Persists(c)
    BY <1>8
  <2>2. Verdict(c, saved) = "INTERNAL" /\ c.op # "UNKNOWN"
    BY <1>5, <1>8, <2>1 DEF Verdict, Persists, Checked
  <2> QED
    BY <1>6, <1>8, <2>2 DEF o
<1> QED
  BY <1>7, <1>8

-----------------------------------------------------------------------------
(* The history variables account for every difference, in the states       *)
(* between two commands and while the controller is off.                   *)
ConformInv ==
    /\ TypeOK /\ QemuTypeOK /\ Conformance
    /\ nextFault \in {NoFault, "INTERNAL"}
    /\ ~on => volatile = [l \in Lbas |-> Absent] /\ strayed = strayedSafe

(* Where the oracle carries out a command, both stores change alike.       *)
LEMMA StoredAlike ==
    ASSUME TypeOK, QemuTypeOK, HasBackingFile, NEW c \in QemuCommands,
           nextFault = NoFault, QemuExecute(c, TRUE),
           Execute(OracleCommand(c)), reply'.status = "SUCCESS",
           c.op \in {"WRITE", "DISCARD"}, NEW u \in Units
    PROVE  IF u \in DOMAIN cqe'.data THEN storage'[u] = OracleNow(u)'
           ELSE storage'[u] = storage[u] /\ OracleNow(u)' = OracleNow(u)
<1> DEFINE o == OracleCommand(c)
           l == u \div UnitsPerBlock
<1>1. Status(o) = "SUCCESS"
  BY OracleVerdict, OracleEffect
<1>2. /\ Verdict(c, TRUE) = "SUCCESS"
      /\ Checked(c) /\ Offset(c) = c.lba * UnitsPerBlock
      /\ c.op = "WRITE" => TransferOk(c)
  BY <1>1, VerdictsAgree
<1>3. /\ storage'[u] = IF u \in DOMAIN cqe'.data
                       THEN cqe'.data[u] ELSE storage[u]
      /\ c.op = "WRITE" => cqe'.data = Written(c)
      /\ c.op = "DISCARD" =>
           cqe'.data = [v \in Offset(c) .. Offset(c) + Length(c) - 1
                          |-> UnitZero]
  BY <1>2, QemuEffect
<1>4. DOMAIN cqe'.data = Offset(c) .. Offset(c) + Length(c) - 1
  <2>1. CASE c.op = "WRITE"
    BY <1>2, <1>3, <2>1, DescriptorAgrees DEF Written, Touched
  <2>2. CASE c.op = "DISCARD"
    BY <1>3, <2>2
  <2> QED
    BY <2>1, <2>2
<1>5. l \in Extent(o) <=> u \in DOMAIN cqe'.data
  BY <1>2, <1>4, ExtentAgrees
<1>6. /\ l \in Lbas
      /\ OracleNow(u) = UnitOf(Now[l], u) /\ OracleNow(u)' = UnitOf(Now'[l], u)
      /\ UnitOf(Zero, u) = UnitZero
  BY UnitBlock, OracleUnits
<1>7. o.op = c.op /\ o.lba = c.lba /\ o.buf = OracleBuffer(c) /\ o \in Commands
  BY OracleVerdict
<1> HIDE DEF o
<1>8. Now'[l] = IF l \notin Extent(o) THEN Now[l]
                ELSE IF c.op = "WRITE" THEN OracleBuffer(c)[l - c.lba + 1]
                ELSE Zero
  BY <1>1, <1>6, <1>7, OracleEffect DEF Succeeds, o
<1>9. CASE u \notin DOMAIN cqe'.data
  BY <1>3, <1>5, <1>6, <1>8, <1>9
<1>10. CASE u \in DOMAIN cqe'.data /\ c.op = "WRITE"
  <2>1. UnitOf(OracleBuffer(c)[l - c.lba + 1], u) = Written(c)[u]
    BY <1>2, <1>4, <1>10, PayloadAgrees
  <2> QED
    BY <1>3, <1>5, <1>6, <1>8, <1>10, <2>1
<1>11. CASE u \in DOMAIN cqe'.data /\ c.op = "DISCARD"
  BY <1>3, <1>4, <1>5, <1>6, <1>8, <1>11
<1> QED
  BY <1>9, <1>10, <1>11

(* A command given to both.                                                *)
LEMMA BothConform ==
    ASSUME HasBackingFile, ConformInv, NEW c \in QemuCommands, Both(c),
           QemuTypeOK'
    PROVE  Conformance'
<1> DEFINE o == OracleCommand(c)
           saved == nextFault = NoFault
<1>1. TypeOK /\ QemuTypeOK /\ Conformance /\ nextFault \in {NoFault, "INTERNAL"}
  BY DEF ConformInv
<1>2. /\ saved \in BOOLEAN /\ QemuExecute(c, saved) /\ (saved \/ Persists(c))
      /\ Execute(o) /\ Track(c)
  BY DEF Both
<1>3. on /\ on'
  BY <1>2 DEF QemuExecute
<1>4. /\ o \in Commands /\ o.op = c.op /\ o.fua = c.fua
  BY OracleVerdict
<1>5. /\ cqe'.op = c.op /\ cqe'.fua = c.fua
      /\ cqe'.status = Verdict(c, saved)
      /\ \A u \in Units : storage'[u] =
           IF c.op \in {"WRITE", "DISCARD"} /\ u \in DOMAIN cqe'.data
           THEN cqe'.data[u] ELSE storage[u]
      /\ image' = IF Persists(c) /\ cqe'.status = "SUCCESS"
                  THEN storage' ELSE image
  BY <1>1, <1>2, QemuEffect
<1> HIDE DEF o, saved
<1>6. /\ reply'.op = c.op /\ reply'.fua = c.fua
      /\ reply'.status = Status(o)
      /\ \A l \in Lbas : Now'[l] =
           IF Succeeds(o, "WRITE") /\ l \in Extent(o)
           THEN o.buf[l - o.lba + 1]
           ELSE IF Succeeds(o, "DISCARD") /\ l \in Extent(o) THEN Zero
           ELSE Now[l]
      /\ \A l \in Lbas : Safe'[l] =
           IF Succeeds(o, "FLUSH") \/ (Succeeds(o, "WRITE") /\ o.fua)
           THEN Now'[l] ELSE Safe[l]
  BY <1>1, <1>2, <1>4, OracleEffect
<1>7. /\ Status(o) = "SUCCESS" =>
           /\ saved /\ Verdict(c, saved) = "SUCCESS"
           /\ c.op \in {"WRITE", "DISCARD"} => Checked(c)
           /\ c.op = "WRITE" => TransferOk(c)
      /\ c.op = "UNKNOWN" => Verdict(c, saved) # "SUCCESS"
      /\ c.op # "UNKNOWN" => \/ c.lba * UnitsPerBlock >= OffsetMod
                             \/ Verdict(c, saved) = Status(o)
  <2>1. saved <=> nextFault = NoFault
    BY DEF saved
  <2>2. Status(o) = "SUCCESS" => nextFault = NoFault
    BY <1>1, FaultsAssumption DEF Status, TypeOK
  <2> QED
    BY <1>1, <1>2, <2>1, <2>2, VerdictsAgree DEF o
<1>8. SameAnswer'
  BY <1>2, <1>5, <1>6, <1>7 DEF SameAnswer, Track
<1>9. \A u \in Units \ strayed : storage[u] = OracleNow(u)
  BY <1>1, <1>3 DEF Conformance, SameContents
<1>10. \A u \in Units \ strayedSafe : Durable[u] = OracleSafe(u)
  BY <1>1 DEF Conformance, SameDurable
<1>11. \A u \in Units :
         /\ u \div UnitsPerBlock \in Lbas
         /\ OracleNow(u) = UnitOf(Now[u \div UnitsPerBlock], u)
         /\ OracleSafe(u) = UnitOf(Safe[u \div UnitsPerBlock], u)
         /\ OracleNow(u)' = UnitOf(Now'[u \div UnitsPerBlock], u)
         /\ OracleSafe(u)' = UnitOf(Safe'[u \div UnitsPerBlock], u)
  BY UnitBlock, OracleUnits
<1>12. Durable' = IF Persists(c) /\ cqe'.status = "SUCCESS"
                  THEN storage' ELSE Durable
  <2>1. storage' \in [Units -> UnitData]
    BY DEF QemuTypeOK
  <2>2. storage' # NoImage
    BY <2>1, QemuDataAssumption
  <2> QED
    BY <1>5, <2>2 DEF Durable
<1>13. CASE reply'.status # "SUCCESS"
  <2>1. \A u \in Units :
          OracleNow(u)' = OracleNow(u) /\ OracleSafe(u)' = OracleSafe(u)
    BY <1>6, <1>11, <1>13 DEF Succeeds
  <2>2. \A u \in Units \ strayed' : u \notin strayed /\ storage'[u] = storage[u]
    BY <1>2, <1>5, <1>13 DEF Track
  <2>3. \A u \in Units \ strayed' : storage'[u] = OracleNow(u)'
    BY <1>9, <2>1, <2>2
  <2>4. CASE Persists(c) /\ cqe'.status = "SUCCESS"
    <3>1. strayedSafe' = strayed' \cup OnlyCached
      BY <1>2, <1>13, <2>4 DEF Track
    <3>2. \A u \in Units \ strayedSafe' : OracleNow(u) = OracleSafe(u)
      BY <3>1 DEF OnlyCached
    <3>3. \A u \in Units \ strayedSafe' : Durable'[u] = OracleSafe(u)'
      BY <1>12, <2>1, <2>3, <2>4, <3>1, <3>2
    <3> QED
      BY <1>8, <2>3, <3>3 DEF Conformance, SameContents, SameDurable
  <2>5. CASE ~(Persists(c) /\ cqe'.status = "SUCCESS")
    <3>1. strayedSafe' = strayedSafe
      BY <1>2, <2>5 DEF Track
    <3>2. \A u \in Units \ strayedSafe' : Durable'[u] = OracleSafe(u)'
      BY <1>10, <1>12, <2>1, <2>5, <3>1
    <3> QED
      BY <1>8, <2>3, <3>2 DEF Conformance, SameContents, SameDurable
  <2> QED
    BY <2>4, <2>5
<1>14. CASE reply'.status = "SUCCESS"
  <2>1. saved /\ nextFault = NoFault /\ cqe'.status = "SUCCESS"
        /\ QemuExecute(c, TRUE) /\ Status(o) = "SUCCESS"
    BY <1>2, <1>5, <1>6, <1>7, <1>14 DEF saved
  <2>2. \A u \in Units \ strayed' : storage'[u] = OracleNow(u)'
    <3> SUFFICES ASSUME NEW u \in Units \ strayed'
                 PROVE  storage'[u] = OracleNow(u)'
      OBVIOUS
    <3>1. CASE c.op \in {"WRITE", "DISCARD"}
      <4>1. IF u \in DOMAIN cqe'.data THEN storage'[u] = OracleNow(u)'
            ELSE storage'[u] = storage[u] /\ OracleNow(u)' = OracleNow(u)
        BY <1>1, <1>2, <1>14, <2>1, <3>1, StoredAlike DEF o
      <4>2. u \notin DOMAIN cqe'.data => u \notin strayed
        BY <1>2, <1>14, <3>1 DEF Track
      <4> QED
        BY <1>9, <4>1, <4>2
    <3>2. CASE c.op \notin {"WRITE", "DISCARD"}
      <4>1. u \notin strayed /\ storage'[u] = storage[u]
        BY <1>2, <1>5, <3>2 DEF Track
      <4>2. OracleNow(u)' = OracleNow(u)
        BY <1>4, <1>6, <1>11, <3>2 DEF Succeeds
      <4> QED
        BY <1>9, <4>1, <4>2
    <3> QED
      BY <3>1, <3>2
  <2>3. Persists(c)
          <=> Succeeds(o, "FLUSH") \/ (Succeeds(o, "WRITE") /\ o.fua)
    BY <1>4, <1>7, <2>1 DEF Persists, Succeeds
  <2>4. \A u \in Units \ strayedSafe' : Durable'[u] = OracleSafe(u)'
    <3>1. CASE Persists(c)
      <4>1. strayedSafe' = strayed' /\ Durable' = storage'
        BY <1>2, <1>12, <1>14, <2>1, <3>1 DEF Track
      <4>2. \A u \in Units : OracleSafe(u)' = OracleNow(u)'
        BY <1>6, <1>11, <2>3, <3>1
      <4> QED
        BY <2>2, <4>1, <4>2
    <3>2. CASE ~Persists(c)
      <4>1. strayedSafe' = strayedSafe /\ Durable' = Durable
        BY <1>2, <1>12, <3>2 DEF Track
      <4>2. \A u \in Units : OracleSafe(u)' = OracleSafe(u)
        BY <1>6, <1>11, <2>3, <3>2
      <4> QED
        BY <1>10, <4>1, <4>2
    <3> QED
      BY <3>1, <3>2
  <2> QED
    BY <1>8, <2>2, <2>4 DEF Conformance, SameContents, SameDurable
<1> QED
  BY <1>13, <1>14

(* Every step of the pair is a step of each device, or leaves it alone.    *)
LEMMA PairSteps ==
    ASSUME HasBackingFile, [ConformNext]_conformVars
    PROVE  [Next]_vars /\ [QemuNext]_qemuVars
<1>1. ASSUME NEW c \in QemuCommands, Both(c)
      PROVE  [Next]_vars /\ [QemuNext]_qemuVars
  <2>1. OracleCommand(c) \in Commands /\ Execute(OracleCommand(c))
    BY <1>1, OracleVerdict DEF Both
  <2>2. \E saved \in BOOLEAN : QemuExecute(c, saved)
    BY <1>1 DEF Both
  <2> QED
    BY <2>1, <2>2 DEF Next, QemuNext
<1>2. CASE FileFails
  BY <1>2, SameDeviceAssumption DEF FileFails, Next
<1>3. CASE PowerCycle
  BY <1>3 DEF PowerCycle, Next, QemuNext
<1>4. CASE QemuOnly
  BY <1>4 DEF QemuOnly, QemuNext
<1>5. CASE UNCHANGED conformVars
  BY <1>5 DEF conformVars
<1> QED
  BY <1>1, <1>2, <1>3, <1>4, <1>5 DEF ConformNext

(* Every step of the pair keeps the invariant: a power cycle drops the     *)
(* cache on both sides, and realize() loads what the oracle has stable.    *)
LEMMA ConformStep ==
    ASSUME HasBackingFile, ConformInv, [ConformNext]_conformVars
    PROVE  ConformInv'
<1>1. TypeOK' /\ QemuTypeOK'
  BY PairSteps, DeviceTypeStep, QemuTypeStep DEF ConformInv
<1>2. ASSUME NEW c \in QemuCommands, Both(c) PROVE ConformInv'
  <2>1. Conformance'
    BY <1>1, <1>2, BothConform
  <2>2. nextFault' = NoFault
    BY <1>2, OracleVerdict, OracleEffect DEF Both, ConformInv
  <2>3. on'
    <3>1. PICK saved \in BOOLEAN : QemuExecute(c, saved)
      BY <1>2 DEF Both
    <3> QED
      BY <3>1 DEF QemuExecute
  <2> QED
    BY <1>1, <2>1, <2>2, <2>3 DEF ConformInv
<1>3. CASE FileFails
  <2>1. /\ nextFault' = "INTERNAL" /\ UNCHANGED <<stable, volatile, reply>>
        /\ UNCHANGED <<on, ready, storage, image, cqe>>
        /\ UNCHANGED <<strayed, strayedSafe, wrapped>>
    BY <1>3 DEF FileFails, InjectNextFault, qemuVars, astray
  <2>2. Conformance'
    BY <2>1 DEF ConformInv, Conformance, SameContents, SameDurable,
       SameAnswer, OracleNow, OracleSafe, Lookup, Durable
  <2> QED
    BY <1>1, <2>1, <2>2 DEF ConformInv
<1>4. CASE PowerCycle
  <2>1. /\ volatile' = [l \in Lbas |-> Absent] /\ ~on'
        /\ strayed' = strayedSafe'
        /\ UNCHANGED <<stable, nextFault, reply, image, cqe>>
        /\ UNCHANGED <<strayedSafe, wrapped>>
    BY <1>4 DEF PowerCycle, PowerLoss, Exit
  <2>2. Conformance'
    BY <2>1 DEF ConformInv, Conformance, SameContents, SameDurable,
       SameAnswer, OracleSafe, Durable
  <2> QED
    BY <1>1, <2>1, <2>2 DEF ConformInv
<1>5. CASE QemuOnly
  <2>1. UNCHANGED <<stable, volatile, nextFault, reply>>
        /\ UNCHANGED <<strayed, strayedSafe, wrapped, image, cqe>>
        /\ on'
    BY <1>5 DEF QemuOnly, Realize, WriteControl, vars, astray, QemuTypeOK,
       ConformInv
  <2>2. SameDurable' /\ SameAnswer'
    BY <2>1 DEF ConformInv, Conformance, SameDurable, SameAnswer,
       OracleSafe, Durable
  <2>3. CASE Realize
    <3>1. ~on /\ storage' = Durable
      BY <2>3 DEF Realize, Durable
    <3>2. /\ volatile = [l \in Lbas |-> Absent] /\ strayed = strayedSafe
          /\ \A u \in Units \ strayedSafe : Durable[u] = OracleSafe(u)
      BY <3>1 DEF ConformInv, Conformance, SameDurable
    <3>3. \A l \in Lbas : Now'[l] = Safe[l]
      BY <2>1, <3>2 DEF Now, Safe, Lookup
    <3>4. \A u \in Units : OracleNow(u)' = OracleSafe(u)
      BY <3>3, UnitBlock, OracleUnits
    <3>5. SameContents'
      BY <2>1, <3>1, <3>2, <3>4 DEF SameContents
    <3> QED
      BY <1>1, <2>1, <2>2, <3>5 DEF ConformInv, Conformance
  <2>4. CASE \E enable \in BOOLEAN : WriteControl(enable)
    <3>1. on /\ storage' = storage
      BY <2>4 DEF WriteControl
    <3>2. SameContents'
      BY <2>1, <3>1 DEF ConformInv, Conformance, SameContents, OracleNow,
         Lookup
    <3> QED
      BY <1>1, <2>1, <2>2, <3>2 DEF ConformInv, Conformance
  <2> QED
    BY <1>5, <2>3, <2>4 DEF QemuOnly
<1>6. CASE UNCHANGED conformVars
  <2>1. /\ UNCHANGED <<stable, volatile, nextFault, reply>>
        /\ UNCHANGED <<on, ready, storage, image, cqe>>
        /\ UNCHANGED <<strayed, strayedSafe, wrapped>>
    BY <1>6 DEF conformVars, vars, qemuVars, astray
  <2>2. Conformance'
    BY <2>1 DEF ConformInv, Conformance, SameContents, SameDurable,
       SameAnswer, OracleNow, OracleSafe, Lookup, Durable
  <2> QED
    BY <1>1, <2>1, <2>2 DEF ConformInv
<1> QED
  BY <1>2, <1>3, <1>4, <1>5, <1>6 DEF ConformNext

(* The QEMU controller with a backing file agrees with the Python oracle,  *)
(* for every geometry, offset width and set of commands: execute() and     *)
(* _dispatch() give the same verdict, store the same contents and keep the *)
(* same contents over a power cycle, whatever scatter-gather list leads to *)
(* the data and wherever the backing file fails, but for what Track tells. *)
THEOREM ControllerConforms ==
    HasBackingFile => (ConformSpec => []Conformance)
<1> SUFFICES ASSUME HasBackingFile PROVE ConformSpec => []Conformance
  OBVIOUS
<1>1. ConformInit => ConformInv
  <2> SUFFICES ASSUME ConformInit PROVE ConformInv
    OBVIOUS
  <2>1. QemuTypeOK
    BY QemuTypeInit DEF ConformInit
  <2> USE DEF ConformInit, Init, QemuInit
  <2>2. TypeOK
    BY DEF TypeOK
  <2>3. SameContents /\ SameAnswer
    BY DEF SameContents, SameAnswer
  <2>4. SameDurable
    BY UnitBlock DEF SameDurable, Durable, ZeroImage, OracleSafe
  <2> QED
    BY <2>1, <2>2, <2>3, <2>4 DEF ConformInv, Conformance
<1>2. ConformInv /\ [ConformNext]_conformVars => ConformInv'
  BY ConformStep
<1>3. ConformInv => Conformance
  BY DEF ConformInv
<1> QED
  BY <1>1, <1>2, <1>3, PTL DEF ConformSpec
=============================================================================

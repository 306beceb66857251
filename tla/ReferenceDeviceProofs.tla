----------------------- MODULE ReferenceDeviceProofs -----------------------
(***************************************************************************)
(* ReferenceDevice implements DurableStore for every capacity, every set   *)
(* of block contents and every set of commands.                            *)
(***************************************************************************)
EXTENDS ReferenceDevice, TLAPS

Now == [l \in Lbas |-> Lookup(l)]
Safe == [l \in Lbas |-> IF stable[l] = Absent THEN Zero ELSE stable[l]]

(* A command that passes the checks of _dispatch() addresses blocks of the *)
(* device, and a WRITE or READ has a buffer for all of them.               *)
LEMMA AcceptedExtent ==
    ASSUME TypeOK, NEW c \in Commands, Status(c) = "SUCCESS",
           c.op \in {"READ", "WRITE", "DISCARD"}
    PROVE  /\ Extent(c) \in SUBSET Lbas
           /\ c.op # "DISCARD" =>
                \A l \in Extent(c) : c.buf[l - c.lba + 1] \in Data
<1>1. c \in [op : Opcodes, fua : BOOLEAN, lba : Nat, n : Nat,
             buf : Seq(Data)]
  BY CommandsAssumption
<1>2. Dispatch(c) = "SUCCESS"
  BY FaultsAssumption DEF Status, TypeOK
<1>3. c.n > 0 /\ c.lba + c.n <= CapacityBlocks
        /\ (c.op # "DISCARD" => Len(c.buf) >= c.n)
  BY <1>1, <1>2, CapacityAssumption DEF Dispatch, Opcodes
<1>4. \A l \in Extent(c) : l \in Lbas /\ l - c.lba + 1 \in 1 .. c.n
  BY <1>1, <1>3, CapacityAssumption DEF Extent, Lbas
<1> QED
  BY <1>1, <1>3, <1>4

(* Every step keeps the dictionaries within their types.                   *)
LEMMA DeviceTypeStep == TypeOK /\ [Next]_vars => TypeOK'
<1> SUFFICES ASSUME TypeOK, [Next]_vars PROVE TypeOK'
  OBVIOUS
<1> USE DEF TypeOK
<1>1. ASSUME NEW c \in Commands, Refuse(c) PROVE TypeOK'
  BY <1>1 DEF Refuse
<1>2. ASSUME NEW c \in Commands, Identify(c) PROVE TypeOK'
  BY <1>2 DEF Identify
<1>3. ASSUME NEW c \in Commands, Flush(c) PROVE TypeOK'
  BY <1>3 DEF Flush, Flushed
<1>4. ASSUME NEW c \in Commands, Discard(c) PROVE TypeOK'
  BY <1>4 DEF Discard
<1>5. ASSUME NEW c \in Commands, Write(c) PROVE TypeOK'
  <2>1. \A l \in Extent(c) : c.buf[l - c.lba + 1] \in Data
    BY <1>5, AcceptedExtent DEF Write, Succeeds
  <2> QED
    BY <1>5, <2>1 DEF Write, Flushed
<1>6. ASSUME NEW c \in Commands, Read(c) PROVE TypeOK'
  BY <1>6 DEF Read
<1>7. ASSUME NEW status \in Faults, InjectNextFault(status) PROVE TypeOK'
  BY <1>7 DEF InjectNextFault
<1>8. CASE PowerLoss
  BY <1>8 DEF PowerLoss
<1>9. CASE UNCHANGED vars
  BY <1>9 DEF vars
<1> QED
  BY <1>1, <1>2, <1>3, <1>4, <1>5, <1>6, <1>7, <1>8, <1>9
  DEF Next, Execute

(* _volatile holds contents or discards, _stable only contents.            *)
THEOREM DeviceTypeCorrect == Spec => []TypeOK
<1>1. Init => TypeOK
  BY DEF Init, TypeOK
<1> QED
  BY <1>1, DeviceTypeStep, PTL DEF Spec

(* After a FLUSH of a cache, every block is stable as the cache had it.    *)
LEMMA FlushedContents ==
    ASSUME TypeOK, NEW cache \in [Lbas -> Data \cup {Absent, Discarded}],
           NEW l \in Lbas
    PROVE  (IF Flushed(cache)[l] = Absent THEN Zero ELSE Flushed(cache)[l])
             = IF cache[l] = Absent
               THEN IF stable[l] = Absent THEN Zero ELSE stable[l]
               ELSE IF cache[l] = Discarded THEN Zero ELSE cache[l]
BY DataAssumption DEF Flushed, TypeOK

(* A step of the device is a step of the store, or changes nothing of it.  *)
LEMMA DeviceStep == TypeOK /\ [Next]_vars => [Store!Next]_(Store!vars)
<1> SUFFICES ASSUME TypeOK, [Next]_vars PROVE [Store!Next]_(Store!vars)
  OBVIOUS
<1>t. TypeOK'
  BY DeviceTypeStep
<1>c. ASSUME NEW c \in Commands PROVE c.fua \in BOOLEAN /\ c.op \in Opcodes
  BY CommandsAssumption
<1>1. ASSUME NEW c \in Commands, Refuse(c) PROVE Store!Next
  <2>1. Status(c) \in Refusals
    BY <1>1 DEF Refuse, Status, Dispatch, Refusals, TypeOK
  <2>2. Store!Refuse(c.op, c.fua, Status(c))
    BY <1>1 DEF Refuse, Reply, Lookup, Store!Refuse, Store!Answer
  <2> QED
    BY <2>1, <2>2, <1>c DEF Store!Next
<1>2. ASSUME NEW c \in Commands, Identify(c) PROVE Store!Next
  <2>1. Store!Identify(c.fua)
    BY <1>2 DEF Identify, Succeeds, Reply, Lookup, Store!Identify,
       Store!Answer
  <2> QED
    BY <2>1, <1>c DEF Store!Next
<1>3. ASSUME NEW c \in Commands, Flush(c) PROVE Store!Next
  <2>1. \A l \in Lbas : Lookup(l)' = Lookup(l)
    BY <1>3, FlushedContents DEF Flush, Lookup, TypeOK
  <2>2. Safe' = Now /\ Now' = Now
    BY <1>3, <2>1, FlushedContents DEF Flush, Lookup, Safe, Now, TypeOK
  <2>3. Store!Flush(c.fua)
    BY <1>3, <2>2 DEF Flush, Succeeds, Reply, Safe, Now, Store!Flush,
       Store!Answer
  <2> QED
    BY <2>3, <1>c DEF Store!Next
<1>4. ASSUME NEW c \in Commands, Discard(c) PROVE Store!Next
  <2> DEFINE data == [l \in Extent(c) |-> Zero]
  <2>1. Extent(c) \in SUBSET Lbas
    BY <1>4, AcceptedExtent DEF Discard, Succeeds
  <2>2. data \in Store!Extents
    BY <2>1, DataAssumption DEF Store!Extents
  <2>3. \A l \in Lbas :
          Lookup(l)' = IF l \in Extent(c) THEN Zero ELSE Lookup(l)
    BY <1>4, DataAssumption DEF Discard, Lookup, TypeOK
  <2>4. Store!Store(data)
    BY <2>3 DEF Store!Store
  <2>5. Store!Discard(c.fua, data)
    BY <1>4, <2>4 DEF Discard, Succeeds, Reply, Store!Discard, Store!Answer
  <2>6. data = reply'.data
    BY <1>4 DEF Discard, Reply
  <2> QED
    BY <2>2, <2>5, <2>6, <1>c DEF Store!Next
<1>5. ASSUME NEW c \in Commands, Write(c) PROVE Store!Next
  <2> DEFINE data == [l \in Extent(c) |-> c.buf[l - c.lba + 1]]
             cache == [l \in Lbas |-> IF l \in Extent(c)
                                      THEN c.buf[l - c.lba + 1]
                                      ELSE volatile[l]]
  <2>1. /\ Extent(c) \in SUBSET Lbas
        /\ \A l \in Extent(c) : c.buf[l - c.lba + 1] \in Data
    BY <1>5, AcceptedExtent DEF Write, Succeeds
  <2>2. data \in Store!Extents
    BY <2>1 DEF Store!Extents
  <2>3. cache \in [Lbas -> Data \cup {Absent, Discarded}]
    BY <2>1 DEF TypeOK
  <2>4. \A l \in Lbas :
          Lookup(l)' = IF l \in Extent(c) THEN data[l] ELSE Lookup(l)
    <3>1. CASE c.fua
      BY <1>5, <3>1, <2>1, <2>3, FlushedContents, DataAssumption
      DEF Write, Lookup, TypeOK
    <3>2. CASE ~c.fua
      BY <1>5, <3>2, <2>1, DataAssumption DEF Write, Lookup, TypeOK
    <3> QED
      BY <3>1, <3>2
  <2>5. Store!Store(data)
    BY <2>4 DEF Store!Store
  <2>6. Safe' = IF c.fua THEN Now' ELSE Safe
    <3>1. CASE c.fua
      BY <1>5, <3>1 DEF Write, Safe, Now, Lookup
    <3>2. CASE ~c.fua
      BY <1>5, <3>2 DEF Write, Safe
    <3> QED
      BY <3>1, <3>2
  <2>7. Store!Write(c.fua, data)
    BY <1>5, <2>5, <2>6 DEF Write, Succeeds, Reply, Safe, Now, Store!Write,
       Store!Answer
  <2>8. data = reply'.data
    BY <1>5 DEF Write, Reply
  <2> QED
    BY <2>2, <2>7, <2>8, <1>c DEF Store!Next
<1>6. ASSUME NEW c \in Commands, Read(c) PROVE Store!Next
  <2> DEFINE data == [l \in Extent(c) |-> Lookup(l)]
  <2>1. Extent(c) \in SUBSET Lbas
    BY <1>6, AcceptedExtent DEF Read, Succeeds
  <2>2. data \in Store!Extents
    BY <2>1, DataAssumption DEF Store!Extents, Lookup, TypeOK
  <2>3. Store!Read(c.fua, data)
    BY <1>6, <2>1 DEF Read, Succeeds, Reply, Lookup, Store!Read,
       Store!Answer
  <2>4. data = reply'.data
    BY <1>6 DEF Read, Reply
  <2> QED
    BY <2>2, <2>3, <2>4, <1>c DEF Store!Next
<1>7. ASSUME NEW status \in Faults, InjectNextFault(status)
      PROVE  UNCHANGED Store!vars
  BY <1>7 DEF InjectNextFault, Lookup, Store!vars
<1>8. CASE PowerLoss
  <2>1. Store!PowerLoss
    BY <1>8 DEF PowerLoss, Lookup, Store!PowerLoss
  <2> QED
    BY <2>1 DEF Store!Next
<1>9. CASE UNCHANGED vars
  BY <1>9 DEF vars, Lookup, Store!vars
<1> QED
  BY <1>1, <1>2, <1>3, <1>4, <1>5, <1>6, <1>7, <1>8, <1>9
  DEF Next, Execute

(* The device refines the durable store: FLUSH and FUA writes survive a    *)
(* power loss, and reads return what was last stored or discarded.         *)
THEOREM DeviceIsDurable == Spec => ImplementsDurableStore
<1>1. Init => Store!Init
  BY DEF Init, Lookup, Store!Init, Store!Answer
<1> QED
  BY <1>1, DeviceStep, DeviceTypeCorrect, PTL
  DEF Spec, ImplementsDurableStore, Store!Spec
=============================================================================

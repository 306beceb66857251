-------------------------- MODULE ReferenceDevice --------------------------
(***************************************************************************)
(* ReferenceDevice (device.py): the behavioural oracle of the command ABI, *)
(* with its stable blocks, its volatile write cache, one-shot fault        *)
(* injection and power loss.                                               *)
(*                                                                         *)
(* The two dictionaries are functions that map a missing key to Absent; a  *)
(* cached discard is the code's None.  A DMA buffer is the sequence of the *)
(* blocks it holds; a missing one and an empty one fail alike.  The        *)
(* completion keeps the command, the status and the transferred blocks;    *)
(* the fields copied from the command and the completed counter, which     *)
(* nothing reads back, are left out.                                       *)
(***************************************************************************)
EXTENDS Integers, Sequences

CONSTANTS
    CapacityBlocks,
    Data, Zero,         \* contents of a block; all zero bytes
    Absent, Discarded,  \* no dictionary entry; the value None
    NoFault, Faults,    \* no injected fault; statuses that are injected
    Commands            \* commands the host issues, with their buffers

ASSUME CapacityAssumption == CapacityBlocks \in Nat \ {0}
ASSUME DataAssumption ==
    Zero \in Data /\ Absent \notin Data /\ Discarded \notin Data
      /\ Absent # Discarded
ASSUME FaultsAssumption == "SUCCESS" \notin Faults /\ NoFault \notin Faults

Lbas == 0 .. CapacityBlocks - 1
Opcodes == {"READ", "WRITE", "FLUSH", "DISCARD", "IDENTIFY", "UNKNOWN"}
Refusals == {"INVALID_OPCODE", "INVALID_FIELD", "LBA_RANGE"} \cup Faults

ASSUME CommandsAssumption ==
    Commands \subseteq [op : Opcodes, fua : BOOLEAN, lba : Nat, n : Nat,
                        buf : Seq(Data)]

VARIABLES stable, volatile, nextFault, reply

vars == <<stable, volatile, nextFault, reply>>

Reply(c, status, data) ==
    [op |-> c.op, fua |-> c.fua, status |-> status, data |-> data]

Init ==
    /\ stable = [l \in Lbas |-> Absent]
    /\ volatile = [l \in Lbas |-> Absent]
    /\ nextFault = NoFault
    /\ reply = [op |-> "NONE", fua |-> FALSE, status |-> "SUCCESS",
                data |-> <<>>]

-----------------------------------------------------------------------------
Extent(c) == c.lba .. c.lba + c.n - 1

(* What a read of block l returns.                                         *)
Lookup(l) ==
    IF volatile[l] # Absent
    THEN IF volatile[l] = Discarded THEN Zero ELSE volatile[l]
    ELSE IF stable[l] = Absent THEN Zero ELSE stable[l]

(* Deviation: FLUSH leaves out the cached discards.                        *)
FlushedKeepsDiscarded(cache) ==
    [l \in Lbas |-> IF cache[l] \in {Absent, Discarded} THEN stable[l]
                    ELSE cache[l]]

(* Deviation: a cached discard becomes a stable entry.                     *)
FlushedStoresDiscarded(cache) ==
    [l \in Lbas |-> IF cache[l] = Absent THEN stable[l] ELSE cache[l]]

(* The stable blocks after a FLUSH of the given cache.                     *)
Flushed(cache) ==
    [l \in Lbas |-> IF cache[l] = Absent THEN stable[l]
                    ELSE IF cache[l] = Discarded THEN Absent ELSE cache[l]]

(* The status _dispatch() returns.                                         *)
Dispatch(c) ==
    IF c.op = "UNKNOWN" THEN "INVALID_OPCODE"
    ELSE IF c.op \in {"IDENTIFY", "FLUSH"} THEN "SUCCESS"
    ELSE IF c.n <= 0 THEN "INVALID_FIELD"
    ELSE IF c.lba + c.n > CapacityBlocks THEN "LBA_RANGE"
    ELSE IF c.op # "DISCARD" /\ Len(c.buf) < c.n THEN "INVALID_FIELD"
    ELSE "SUCCESS"

(* execute(): an injected fault comes before everything else, once.        *)
Status(c) == IF nextFault # NoFault THEN nextFault ELSE Dispatch(c)

Succeeds(c, op) == c.op = op /\ Status(c) = "SUCCESS"

-----------------------------------------------------------------------------
InjectNextFault(status) ==
    /\ nextFault' = status
    /\ UNCHANGED <<stable, volatile, reply>>

Refuse(c) ==
    /\ Status(c) # "SUCCESS"
    /\ nextFault' = NoFault
    /\ reply' = Reply(c, Status(c), <<>>)
    /\ UNCHANGED <<stable, volatile>>

Identify(c) ==
    /\ Succeeds(c, "IDENTIFY")
    /\ reply' = Reply(c, "SUCCESS", <<>>)
    /\ UNCHANGED <<stable, volatile, nextFault>>

Flush(c) ==
    /\ Succeeds(c, "FLUSH")
    /\ stable' = Flushed(volatile)
    /\ volatile' = [l \in Lbas |-> Absent]
    /\ reply' = Reply(c, "SUCCESS", <<>>)
    /\ UNCHANGED nextFault

Discard(c) ==
    /\ Succeeds(c, "DISCARD")
    /\ volatile' = [l \in Lbas |-> IF l \in Extent(c) THEN Discarded
                                   ELSE volatile[l]]
    /\ reply' = Reply(c, "SUCCESS", [l \in Extent(c) |-> Zero])
    /\ UNCHANGED <<stable, nextFault>>

(* An FUA write flushes the whole cache before it completes.               *)
Write(c) ==
    /\ Succeeds(c, "WRITE")
    /\ LET cache == [l \in Lbas |-> IF l \in Extent(c)
                                    THEN c.buf[l - c.lba + 1]
                                    ELSE volatile[l]]
       IN IF c.fua THEN /\ stable' = Flushed(cache)
                        /\ volatile' = [l \in Lbas |-> Absent]
          ELSE volatile' = cache /\ UNCHANGED stable
    /\ reply' = Reply(c, "SUCCESS",
                      [l \in Extent(c) |-> c.buf[l - c.lba + 1]])
    /\ UNCHANGED nextFault

Read(c) ==
    /\ Succeeds(c, "READ")
    /\ reply' = Reply(c, "SUCCESS", [l \in Extent(c) |-> Lookup(l)])
    /\ UNCHANGED <<stable, volatile, nextFault>>

PowerLoss ==
    /\ volatile' = [l \in Lbas |-> Absent]
    /\ UNCHANGED <<stable, nextFault, reply>>

Execute(c) == Refuse(c) \/ Identify(c) \/ Flush(c) \/ Discard(c)
                \/ Write(c) \/ Read(c)

Next == \/ \E c \in Commands : Execute(c)
        \/ \E status \in Faults : InjectNextFault(status)
        \/ PowerLoss

Spec == Init /\ [][Next]_vars

-----------------------------------------------------------------------------
(* The two dictionaries hold what _dispatch() may put there: a cached      *)
(* block may be a discard, a stable one may not.                           *)
TypeOK ==
    /\ stable \in [Lbas -> Data \cup {Absent}]
    /\ volatile \in [Lbas -> Data \cup {Absent, Discarded}]
    /\ nextFault \in Faults \cup {NoFault}

Store == INSTANCE DurableStore WITH
    Blocks <- Lbas, TornTransfers <- FALSE,
    now <- [l \in Lbas |-> Lookup(l)],
    safe <- [l \in Lbas |-> IF stable[l] = Absent THEN Zero ELSE stable[l]],
    answer <- reply

(* The device implements a durable store: reads see the last update, a     *)
(* power loss loses exactly what was not flushed, an FUA write and a FLUSH *)
(* are durable when they complete, and a refused command has no effect.    *)
ImplementsDurableStore == Store!Spec
=============================================================================

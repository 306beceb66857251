-------------------------------- MODULE Ftl --------------------------------
(***************************************************************************)
(* PageMappingFTL (ftl.py), driven the way Simulator.run() drives it: a    *)
(* write request first collects one block if needs_gc says so, then calls  *)
(* write().  Garbage collection is one action per relocated page, so that  *)
(* an allocation that fails half way leaves what it really leaves.         *)
(*                                                                         *)
(* OutOfSpaceError returns to the caller with whatever the call changed    *)
(* before it was raised; the object can be used again.                     *)
(*                                                                         *)
(* Between requests the tables may be saved with CheckpointJournal, and    *)
(* the process may be killed at any point and recover() from what the      *)
(* journal holds.  The file system keeps what a killed process has         *)
(* written; the flash keeps every page that was programmed.                *)
(***************************************************************************)
EXTENDS Integers, Sequences, FiniteSets

CONSTANTS
    Channels, DiesPerChannel, BlocksPerDie, PagesPerBlock, \* geometry
    GcLowWatermark,   \* gc_low_watermark_blocks
    Lpns,             \* logical page numbers the host writes
    MaxErase,         \* bound: requests stop after this many erases
    MaxCheckpoints    \* bound: how often the journal is written

ASSUME GeometryAssumption ==
    {Channels, DiesPerChannel, BlocksPerDie, PagesPerBlock}
        \subseteq Nat \ {0}
ASSUME FtlAssumption ==
    /\ GcLowWatermark \in Nat /\ MaxErase \in Nat /\ Lpns \subseteq Nat
    /\ MaxCheckpoints \in Nat

Dies == Channels * DiesPerChannel
CapacityPages == Dies * BlocksPerDie * PagesPerBlock

(* A block is <<channel, die, block>>, a page <<channel, die, block, page>>. *)
Blocks == (0 .. Channels - 1) \X (0 .. DiesPerChannel - 1)
            \X (0 .. BlocksPerDie - 1)
Pages == {Append(b, p) : b \in Blocks, p \in 0 .. PagesPerBlock - 1}
NoPage == <<>>
NoBlock == <<>>
NoJournal == <<>>

BlockKey(page) == <<page[1], page[2], page[3]>>

(* _physical_from_linear(): consecutive pages go to consecutive channels,  *)
(* then dies, and only then to the next page of a block.                   *)
PhysicalFromLinear(linear) ==
    LET stripe == linear % Dies
        perDie == linear \div Dies
    IN <<stripe % Channels, stripe \div Channels,
         perDie \div PagesPerBlock, perDie % PagesPerBlock>>

VARIABLES
    mapping,      \* [Lpns -> Pages \cup {NoPage}]
    validLpns,    \* [Blocks -> SUBSET Lpns]
    invalidPages, \* [Blocks -> Nat]; a missing key counts 0
    invalidKeys,  \* the blocks that are keys of invalid_pages
    eraseCounts,  \* [Blocks -> Nat]
    nextPage,     \* _next_page, the linear cursor
    reclaimed,    \* _reclaimed, a queue of pages
    pc,           \* "idle", "relocate", "write" or "journal"
    lpn,          \* the request in progress
    victim, todo, \* garbage_collect(): the block, live_lpns not moved yet
    overlap,      \* history: a victim still had free pages
    failed,       \* history: a write() found no page for an overwrite
    journal,      \* the journal file: NoJournal or a checkpoint
    checkpoints,  \* how many were written
    erased,       \* history: blocks erased since the journal was written,
    clobbered     \* and pages it maps that were programmed without an erase

tables == <<mapping, validLpns, invalidPages, invalidKeys, eraseCounts>>
space == <<nextPage, reclaimed>>
control == <<pc, lpn, victim, todo>>
history == <<overlap, failed>>
saved == <<journal, checkpoints, erased, clobbered>>
vars == <<tables, space, control, history, saved>>

Init ==
    /\ mapping = [l \in Lpns |-> NoPage]
    /\ validLpns = [b \in Blocks |-> {}]
    /\ invalidPages = [b \in Blocks |-> 0] /\ invalidKeys = {}
    /\ eraseCounts = [b \in Blocks |-> 0]
    /\ nextPage = 0 /\ reclaimed = <<>>
    /\ pc = "idle" /\ lpn = 0 /\ victim = NoBlock /\ todo = {}
    /\ overlap = FALSE /\ failed = FALSE
    /\ journal = NoJournal /\ checkpoints = 0
    /\ erased = {} /\ clobbered = {}

-----------------------------------------------------------------------------
FreePages == CapacityPages - nextPage + Len(reclaimed)

NeedsGc == /\ FreePages <= GcLowWatermark * PagesPerBlock
           /\ invalidKeys # {}

Candidates == {b \in invalidKeys : invalidPages[b] > 0}

(* a is preferred to b: more invalid pages, then fewer erases, then the    *)
(* smaller channel, die and block.                                         *)
Preferred(a, b) ==
    LET key(x) == <<invalidPages[x], -eraseCounts[x], -x[1], -x[2], -x[3]>>
    IN \E i \in 1 .. 5 : /\ key(a)[i] > key(b)[i]
                         /\ \A j \in 1 .. i - 1 : key(a)[j] = key(b)[j]

Victim == CHOOSE b \in Candidates :
              \A c \in Candidates \ {b} : Preferred(b, c)

(* _allocate(avoid): the first reclaimed page outside avoid, the ones      *)
(* before it moved to the back of the queue; else the page at the cursor.  *)
Usable(avoid) == {i \in 1 .. Len(reclaimed) : BlockKey(reclaimed[i]) # avoid}
FirstUsable(avoid) ==
    CHOOSE i \in Usable(avoid) : \A j \in Usable(avoid) : i <= j
CanAllocate(avoid) == Usable(avoid) # {} \/ nextPage < CapacityPages
AllocatedPage(avoid) ==
    IF Usable(avoid) # {} THEN reclaimed[FirstUsable(avoid)]
    ELSE PhysicalFromLinear(nextPage)
TakePage(avoid) ==
    IF Usable(avoid) # {}
    THEN LET k == FirstUsable(avoid)
         IN /\ reclaimed' = SubSeq(reclaimed, k + 1, Len(reclaimed))
                              \o SubSeq(reclaimed, 1, k - 1)
            /\ UNCHANGED nextPage
    ELSE nextPage' = nextPage + 1 /\ UNCHANGED reclaimed

(* map_read(): where a read looks, also for a page never written.          *)
MapRead(l) ==
    IF mapping[l] # NoPage THEN mapping[l]
    ELSE LET stripe == l % Dies
         IN <<stripe % Channels, stripe \div Channels,
              (l \div Dies) % BlocksPerDie,
              (l \div (Dies * BlocksPerDie)) % PagesPerBlock>>

(* History: the page an allocation hands out is programmed.                *)
JournalPages == IF journal = NoJournal THEN {}
                ELSE {journal.mapping[l] : l \in Lpns} \ {NoPage}
Program(page) ==
    clobbered' = IF page \in JournalPages /\ BlockKey(page) \notin erased
                 THEN clobbered \cup {page} ELSE clobbered

(* The pages that an allocation may still hand out.                        *)
FreeSet == {reclaimed[i] : i \in 1 .. Len(reclaimed)}
             \cup {PhysicalFromLinear(n) : n \in nextPage .. CapacityPages - 1}

-----------------------------------------------------------------------------
(* The bound on erases.                                                    *)
Erases == {e \in Blocks \X (1 .. MaxErase) : e[2] <= eraseCounts[e[1]]}

(* Deviation: garbage collection starts without its workspace check.       *)
WorkspaceUnchecked == Candidates # {}

(* garbage_collect() goes ahead: a block has invalid pages and there are   *)
(* as many free pages as it has live ones.                                 *)
Workspace == /\ Candidates # {}
             /\ FreePages >= Cardinality(validLpns[Victim])

(* The request loop of Simulator.run(): collect first if needed.           *)
(* garbage_collect() raises before it changes anything when no block has   *)
(* invalid pages or the workspace is too small.                            *)
WriteRequest(l) ==
    /\ pc = "idle" /\ Cardinality(Erases) < MaxErase
    /\ IF ~NeedsGc
       THEN /\ pc' = "write" /\ lpn' = l
            /\ UNCHANGED <<victim, todo, overlap>>
       ELSE IF ~Workspace
       THEN UNCHANGED <<control, overlap>>
       ELSE /\ pc' = "relocate" /\ lpn' = l
            /\ victim' = Victim /\ todo' = validLpns[Victim]
            /\ overlap' = (overlap \/ \E p \in FreeSet : BlockKey(p) = Victim)
    /\ UNCHANGED <<tables, space, failed, saved>>

(* Move the next live page of the victim.                                  *)
Relocate ==
    /\ pc = "relocate" /\ todo # {}
    /\ LET l == CHOOSE x \in todo : \A y \in todo : x <= y
           page == AllocatedPage(victim)
       IN IF CanAllocate(victim)
          THEN /\ TakePage(victim)
               /\ mapping' = [mapping EXCEPT ![l] = page]
               /\ validLpns' = [validLpns EXCEPT ![BlockKey(page)] =
                                  @ \cup {l}]
               /\ todo' = todo \ {l} /\ Program(page)
               /\ UNCHANGED <<pc, lpn, victim>>
          ELSE /\ pc' = "idle" /\ todo' = {} /\ victim' = NoBlock /\ lpn' = 0
               /\ UNCHANGED <<mapping, validLpns, space, clobbered>>
    /\ UNCHANGED <<invalidPages, invalidKeys, eraseCounts, history, journal,
                   checkpoints, erased>>

(* Deviation: the victim is erased before its live pages have moved.       *)
AllMovedUnchecked == TRUE

(* The loop over live_lpns has ended.                                      *)
AllMoved == todo = {}

(* Deviation: the victim's reverse index survives the erase.               *)
ClearKeepsIndex == /\ invalidPages' = [invalidPages EXCEPT ![victim] = 0]
                   /\ UNCHANGED validLpns

ClearVictim == /\ validLpns' = [validLpns EXCEPT ![victim] = {}]
               /\ invalidPages' = [invalidPages EXCEPT ![victim] = 0]

(* Deviation: the reclaimed pages are counted from one.                    *)
ErasedPagesFromOne == [i \in 1 .. PagesPerBlock |-> Append(victim, i)]

ErasedPages == [i \in 1 .. PagesPerBlock |-> Append(victim, i - 1)]

(* Every live page moved: erase the victim and append all its pages to the *)
(* free queue; then the request goes on to write().                        *)
Reclaim ==
    /\ pc = "relocate" /\ AllMoved
    /\ ClearVictim
    /\ eraseCounts' = [eraseCounts EXCEPT ![victim] = @ + 1]
    /\ reclaimed' = reclaimed \o ErasedPages
    /\ erased' = IF journal = NoJournal THEN {} ELSE erased \cup {victim}
    /\ pc' = "write" /\ victim' = NoBlock /\ todo' = {}
    /\ UNCHANGED <<mapping, invalidKeys, nextPage, lpn, history, journal,
                   checkpoints, clobbered>>

(* write(): the old page is invalidated before the new one is allocated.   *)
Write ==
    /\ pc = "write"
    /\ LET old == mapping[lpn]
           page == AllocatedPage(NoBlock)
           oldBlock == BlockKey(old)
           dropped == IF old = NoPage THEN validLpns
                      ELSE [validLpns EXCEPT ![oldBlock] = @ \ {lpn}]
       IN /\ IF old = NoPage THEN UNCHANGED <<invalidPages, invalidKeys>>
             ELSE /\ invalidPages' = [invalidPages EXCEPT ![oldBlock] = @ + 1]
                  /\ invalidKeys' = invalidKeys \cup {oldBlock}
          /\ IF CanAllocate(NoBlock)
             THEN /\ TakePage(NoBlock)
                  /\ mapping' = [mapping EXCEPT ![lpn] = page]
                  /\ validLpns' = [dropped EXCEPT ![BlockKey(page)] =
                                     @ \cup {lpn}]
                  /\ Program(page)
                  /\ UNCHANGED failed
             ELSE /\ validLpns' = dropped
                  /\ failed' = (failed \/ old # NoPage)
                  /\ UNCHANGED <<mapping, space, clobbered>>
    /\ pc' = "idle" /\ lpn' = 0
    /\ UNCHANGED <<eraseCounts, victim, todo, overlap, journal, checkpoints,
                   erased>>

-----------------------------------------------------------------------------
(* Deviation: the cursor is left out of the checkpoint.                    *)
CheckpointWithoutCursor ==
    [nextPage |-> 0, mapping |-> mapping,
     invalidPages |-> invalidPages, invalidKeys |-> invalidKeys,
     validLpns |-> validLpns, eraseCounts |-> eraseCounts,
     reclaimed |-> reclaimed, overlap |-> overlap, failed |-> failed]

(* checkpoint(): what recover() gets back from the encoded tables, with    *)
(* the history that belongs to them.                                       *)
Checkpoint ==
    [nextPage |-> nextPage, mapping |-> mapping,
     invalidPages |-> invalidPages, invalidKeys |-> invalidKeys,
     validLpns |-> validLpns, eraseCounts |-> eraseCounts,
     reclaimed |-> reclaimed, overlap |-> overlap, failed |-> failed]

(* CheckpointJournal.write(): first the temporary file ...                 *)
WriteTemporary ==
    /\ pc = "idle" /\ checkpoints < MaxCheckpoints
    /\ pc' = "journal" /\ checkpoints' = checkpoints + 1
    /\ UNCHANGED <<tables, space, lpn, victim, todo, history, journal,
                   erased, clobbered>>

(* ... then os.replace().                                                  *)
ReplaceJournal ==
    /\ pc = "journal" /\ pc' = "idle"
    /\ journal' = Checkpoint /\ erased' = {} /\ clobbered' = {}
    /\ UNCHANGED <<tables, space, lpn, victim, todo, history, checkpoints>>

(* The process is killed, and a new one calls read() and recover(): a      *)
(* cursor beyond the capacity is refused.                                  *)
Recover ==
    /\ journal # NoJournal /\ journal.nextPage \in 0 .. CapacityPages
    /\ nextPage' = journal.nextPage /\ reclaimed' = journal.reclaimed
    /\ mapping' = journal.mapping /\ validLpns' = journal.validLpns
    /\ invalidPages' = journal.invalidPages
    /\ invalidKeys' = journal.invalidKeys
    /\ eraseCounts' = journal.eraseCounts
    /\ pc' = "idle" /\ lpn' = 0 /\ victim' = NoBlock /\ todo' = {}
    /\ overlap' = journal.overlap /\ failed' = journal.failed
    /\ UNCHANGED saved

Next == \/ \E l \in Lpns : WriteRequest(l)
        \/ Relocate \/ Reclaim \/ Write
        \/ WriteTemporary \/ ReplaceJournal \/ Recover

Spec == Init /\ [][Next]_vars

-----------------------------------------------------------------------------
(* Properties.                                                             *)

TableTypes ==
    /\ mapping \in [Lpns -> Pages \cup {NoPage}]
    /\ validLpns \in [Blocks -> SUBSET Lpns]
    /\ invalidPages \in [Blocks -> Nat] /\ invalidKeys \subseteq Blocks
    /\ eraseCounts \in [Blocks -> 0 .. MaxErase]
    /\ nextPage \in 0 .. CapacityPages
    /\ reclaimed \in Seq(Pages)
    /\ pc \in {"idle", "relocate", "write", "journal"} /\ lpn \in Lpns \cup {0}
    /\ victim \in Blocks \cup {NoBlock} /\ todo \subseteq Lpns
    /\ overlap \in BOOLEAN /\ failed \in BOOLEAN
    /\ checkpoints \in 0 .. MaxCheckpoints
    /\ erased \subseteq Blocks /\ clobbered \subseteq Pages

(* Every table names pages and blocks of the geometry, the cursor of       *)
(* _allocate() stays within the capacity, and so does every page that      *)
(* map_read() answers with.                                                *)
TypeOK == TableTypes /\ \A l \in Lpns : MapRead(l) \in Pages

Mapped == {l \in Lpns : mapping[l] # NoPage}

(* No two logical pages share a physical page and no mapped page can be    *)
(* allocated again: the FTL never overwrites live data.                    *)
LiveDataKept ==
    /\ \A l, m \in Mapped : l # m => mapping[l] # mapping[m]
    /\ \A l \in Mapped : mapping[l] \notin FreeSet

(* How far the tables can be trusted.  No victim was chosen that still had *)
(* free pages; and with a single page in a block no overwrite ran out of   *)
(* space, because write() has by then taken the page it keeps mapped out   *)
(* of the reverse index, and the block counts as empty.                    *)
Trusted(o, f) == ~o /\ (PagesPerBlock = 1 => ~f)

(* Garbage collection, overwrites and recovery keep live data, and the     *)
(* free queue never lists a page twice nor one the cursor will reach, as   *)
(* long as the tables can be trusted.                                      *)
LiveDataKeptUntilOverlap ==
    Trusted(overlap, failed) =>
        LiveDataKept /\ Cardinality(FreeSet) = FreePages

(* The pages a recovery would map still hold what they held when the       *)
(* journal was written, through any number of crashes and recoveries: none *)
(* was programmed again, unless garbage collection has since erased its    *)
(* block.                                                                  *)
CheckpointStaysReadable ==
    journal # NoJournal /\ Trusted(journal.overlap, journal.failed) =>
        clobbered = {}

(* Between requests the copies that garbage collection trusts agree with   *)
(* the mapping, also after a recovery: the reverse index misses no live    *)
(* page and lists no dead one, and invalid_pages counts exactly the pages  *)
(* that hold neither live data nor free space.                             *)
TablesAgree ==
    (~overlap /\ ~failed /\ pc # "relocate") =>
        \A b \in Blocks :
            LET live == {l \in Mapped : BlockKey(mapping[l]) = b}
            IN /\ validLpns[b] = live
               /\ invalidPages[b] =
                    PagesPerBlock - Cardinality(live)
                    - Cardinality({p \in FreeSet : BlockKey(p) = b})

(* The workspace check of garbage_collect() is enough: once relocation has *)
(* started, no allocation of it fails.                                     *)
RelocationNeverFails ==
    (~overlap /\ pc = "relocate" /\ todo # {}) => CanAllocate(victim)
=============================================================================

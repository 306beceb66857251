----------------------------- MODULE FtlProofs -----------------------------
(***************************************************************************)
(* Ftl keeps live data, its tables agree and relocation never fails, for   *)
(* every geometry, watermark and set of logical pages.                     *)
(***************************************************************************)
EXTENDS Ftl, FiniteSetTheorems, FunctionTheorems, SequenceTheorems,
        NaturalFacts

(* The pages the cursor has not reached, and the free ones, as functions   *)
(* of the allocation state: it is in the program and in the journal.       *)
Beyond(np) == {PhysicalFromLinear(n) : n \in np .. CapacityPages - 1}
Free(r, np) == {r[i] : i \in 1 .. Len(r)} \cup Beyond(np)

Room(r, np) == CapacityPages - np + Len(r)

(* The free queue has no page twice, and none the cursor will reach.       *)
SpaceOK(r, np) ==
    /\ \A i, j \in 1 .. Len(r) : r[i] = r[j] => i = j
    /\ \A i \in 1 .. Len(r) : r[i] \notin Beyond(np)

(* No page is mapped twice, and no mapped page is free.                    *)
Kept(m, F) ==
    /\ \A l, k \in Lpns : m[l] # NoPage /\ m[l] = m[k] => l = k
    /\ \A l \in Lpns : m[l] \notin F

(* The logical pages in a block, and its pages that are neither mapped nor *)
(* free.                                                                   *)
Live(m, b) == {l \in Lpns : m[l] # NoPage /\ BlockKey(m[l]) = b}
Dead(m, F, b) == {p \in Pages : /\ BlockKey(p) = b /\ p \notin F
                                /\ \A l \in Lpns : m[l] # p}

(* The reverse index and the count of invalid pages, but for a victim v.   *)
Indexed(m, vl, v) == \A b \in Blocks \ {v} : vl[b] = Live(m, b)
Counted(m, F, ip, v) ==
    \A b \in Blocks \ {v} : ip[b] = Cardinality(Dead(m, F, b))

(* After an overwrite that found no page: nothing is free, and every block *)
(* with an invalid page has a live one that could not be moved.            *)
Stuck(r, np, ip, ik, vl) ==
    /\ r = <<>> /\ np = CapacityPages /\ ik # {}
    /\ \A b \in Blocks : ip[b] > 0 => vl[b] # {}

(* What holds of the tables, in the program and in the journal.            *)
TablesInv(m, vl, ip, ik, r, np, o, f, v) ==
    /\ \A b \in Blocks : IsFiniteSet(vl[b])
    /\ \A b \in Blocks \ ik : ip[b] = 0
    /\ Trusted(o, f) => SpaceOK(r, np) /\ Kept(m, Free(r, np))
    /\ ~o /\ ~f => Indexed(m, vl, v) /\ Counted(m, Free(r, np), ip, v)
    /\ ~o /\ f /\ PagesPerBlock > 1 => Stuck(r, np, ip, ik, vl)

StateInv == TablesInv(mapping, validLpns, invalidPages, invalidKeys,
                      reclaimed, nextPage, overlap, failed, victim)

(* The request in progress.                                                *)
ControlInv ==
    /\ pc = "relocate" <=> victim # NoBlock
    /\ pc # "relocate" => todo = {}
    /\ pc \in {"relocate", "write"} => lpn \in Lpns
    /\ pc = "write" => Room(reclaimed, nextPage) > 0 \/ invalidKeys = {}
    /\ pc = "relocate" => \A b \in Blocks : eraseCounts[b] < MaxErase

(* Garbage collection: the victim has no free page, and there is one for   *)
(* each of its live pages that has not been moved.                         *)
WorkspaceInv ==
    (~overlap /\ pc = "relocate") =>
        /\ \A p \in Free(reclaimed, nextPage) : BlockKey(p) # victim
        /\ Room(reclaimed, nextPage) >= Cardinality(todo)

MovingInv ==
    /\ IsFiniteSet(todo)
    /\ (~overlap /\ ~failed /\ pc = "relocate") =>
          Live(mapping, victim) = todo
    /\ (~overlap /\ failed /\ PagesPerBlock > 1) => pc \in {"idle", "journal"}

JournalTables ==
    [nextPage : 0 .. CapacityPages, mapping : [Lpns -> Pages \cup {NoPage}],
     invalidPages : [Blocks -> Nat], invalidKeys : SUBSET Blocks,
     validLpns : [Blocks -> SUBSET Lpns],
     eraseCounts : [Blocks -> 0 .. MaxErase], reclaimed : Seq(Pages),
     overlap : BOOLEAN, failed : BOOLEAN]

(* The journal could be recovered from, and no page it maps is free unless *)
(* its block was erased since.                                             *)
JournalInv ==
    journal # NoJournal =>
        /\ journal \in JournalTables
        /\ TablesInv(journal.mapping, journal.validLpns,
                     journal.invalidPages, journal.invalidKeys,
                     journal.reclaimed, journal.nextPage, journal.overlap,
                     journal.failed, NoBlock)
        /\ Trusted(journal.overlap, journal.failed) =>
              /\ clobbered = {}
              /\ \A l \in Lpns : \/ journal.mapping[l] = NoPage
                                 \/ journal.mapping[l]
                                      \notin Free(reclaimed, nextPage)
                                 \/ BlockKey(journal.mapping[l]) \in erased

FtlInv == /\ TableTypes /\ StateInv /\ ControlInv /\ WorkspaceInv
          /\ MovingInv /\ JournalInv

-----------------------------------------------------------------------------
(* Arithmetic of the geometry.                                             *)

(* Quotient and remainder determine a number.                              *)
LEMMA DivModEqual ==
    ASSUME NEW a \in Nat, NEW b \in Nat, NEW d \in Nat \ {0},
           a \div d = b \div d, a % d = b % d
    PROVE  a = b
  BY DivMod

LEMMA Geometry ==
    /\ Channels \in Nat \ {0} /\ DiesPerChannel \in Nat \ {0}
    /\ BlocksPerDie \in Nat \ {0} /\ PagesPerBlock \in Nat \ {0}
    /\ Dies \in Nat \ {0} /\ CapacityPages \in Nat
    /\ CapacityPages = (BlocksPerDie * PagesPerBlock) * Dies
<1>1. /\ Channels \in Nat \ {0} /\ DiesPerChannel \in Nat \ {0}
      /\ BlocksPerDie \in Nat \ {0} /\ PagesPerBlock \in Nat \ {0}
  BY GeometryAssumption
<1>2. ASSUME NEW a \in Nat \ {0}, NEW b \in Nat \ {0}
      PROVE  a * b \in Nat \ {0}
  OBVIOUS
<1>3. Dies \in Nat \ {0}
  BY <1>1, <1>2 DEF Dies
<1>4. Dies * BlocksPerDie \in Nat \ {0} /\ BlocksPerDie * PagesPerBlock \in Nat
  BY <1>1, <1>2, <1>3
<1>5. (Dies * BlocksPerDie) * PagesPerBlock
        = (BlocksPerDie * PagesPerBlock) * Dies
  BY <1>1, <1>3, <1>4
<1> QED
  BY <1>1, <1>2, <1>3, <1>4, <1>5 DEF CapacityPages

(* Appending to a triple.                                                 *)
LEMMA TupleAppend ==
    ASSUME NEW a, NEW b, NEW c, NEW d
    PROVE  Append(<<a, b, c>>, d) = <<a, b, c, d>>
<1> DEFINE S == {a, b, c, d}
           s == <<a, b, c>>
           t == <<a, b, c, d>>
           u == Append(s, d)
<1>1. s \in Seq(S) /\ Len(s) = 3
  OBVIOUS
<1>2. t \in Seq(S) /\ Len(t) = 4
  OBVIOUS
<1>3. d \in S
  OBVIOUS
<1>4. u \in Seq(S) /\ Len(u) = 4 /\ u[4] = d /\ \A i \in 1 .. 3 : u[i] = s[i]
  BY <1>1, <1>3, AppendProperties
<1>5. s[1] = a /\ s[2] = b /\ s[3] = c
  OBVIOUS
<1>6. t[1] = a /\ t[2] = b /\ t[3] = c /\ t[4] = d
  OBVIOUS
<1> HIDE DEF u, t, s
<1>7. \A i \in 1 .. 4 : u[i] = t[i]
  BY <1>4, <1>5, <1>6
<1>8. u = t
  BY <1>2, <1>4, <1>7, SeqEqual
<1> QED
  BY <1>8 DEF u, t, s

(* A page is its block's three numbers and its own.                        *)
LEMMA PageShape ==
    /\ \A p \in Pages : /\ BlockKey(p) \in Blocks
                        /\ p[4] \in 0 .. PagesPerBlock - 1
                        /\ p = <<p[1], p[2], p[3], p[4]>>
                        /\ p = Append(BlockKey(p), p[4])
    /\ \A b \in Blocks, q \in 0 .. PagesPerBlock - 1 :
          /\ Append(b, q) \in Pages
          /\ BlockKey(Append(b, q)) = b /\ Append(b, q)[4] = q
<1>1. ASSUME NEW b \in Blocks, NEW q
      PROVE  /\ Append(b, q) = <<b[1], b[2], b[3], q>>
             /\ b = <<b[1], b[2], b[3]>>
  <2>1. b = <<b[1], b[2], b[3]>>
    BY DEF Blocks
  <2>2. Append(<<b[1], b[2], b[3]>>, q) = <<b[1], b[2], b[3], q>>
    BY TupleAppend, Zenon
  <2> QED
    BY <2>1, <2>2
<1>2. ASSUME NEW b \in Blocks, NEW q \in 0 .. PagesPerBlock - 1
      PROVE  /\ Append(b, q) \in Pages
             /\ BlockKey(Append(b, q)) = b /\ Append(b, q)[4] = q
  <2>1. Append(b, q) \in Pages
    BY DEF Pages
  <2>2. /\ Append(b, q)[1] = b[1] /\ Append(b, q)[2] = b[2]
        /\ Append(b, q)[3] = b[3] /\ Append(b, q)[4] = q
    BY <1>1
  <2> QED
    BY <1>1, <2>1, <2>2 DEF BlockKey
<1>3. ASSUME NEW p \in Pages
      PROVE  /\ BlockKey(p) \in Blocks /\ p[4] \in 0 .. PagesPerBlock - 1
             /\ p = <<p[1], p[2], p[3], p[4]>> /\ p = Append(BlockKey(p), p[4])
  <2>1. PICK b \in Blocks, q \in 0 .. PagesPerBlock - 1 : p = Append(b, q)
    BY DEF Pages
  <2>2. BlockKey(p) = b /\ p[4] = q /\ p = <<b[1], b[2], b[3], q>>
    BY <1>1, <1>2, <2>1
  <2>3. p[1] = b[1] /\ p[2] = b[2] /\ p[3] = b[3]
    BY <2>2
  <2> QED
    BY <2>1, <2>2, <2>3
<1> QED
  BY <1>2, <1>3

(* So a tuple of four numbers in range is a page.                          *)
LEMMA PageOf ==
    ASSUME NEW c \in 0 .. Channels - 1, NEW d \in 0 .. DiesPerChannel - 1,
           NEW b \in 0 .. BlocksPerDie - 1, NEW q \in 0 .. PagesPerBlock - 1
    PROVE  <<c, d, b, q>> \in Pages
<1>1. <<c, d, b>> \in Blocks
  BY DEF Blocks
<1>2. Append(<<c, d, b>>, q) = <<c, d, b, q>>
  BY TupleAppend, Zenon
<1> QED
  BY <1>1, <1>2, PageShape

(* The placement of consecutive pages covers the geometry without meeting  *)
(* itself.                                                                 *)
LEMMA PhysicalInPages ==
    ASSUME NEW n \in 0 .. CapacityPages - 1
    PROVE  PhysicalFromLinear(n) \in Pages
<1> DEFINE stripe == n % Dies
           perDie == n \div Dies
<1>1. n \in Nat /\ n < CapacityPages
  BY Geometry
<1>2. stripe \in 0 .. Dies - 1 /\ perDie \in Nat
  BY <1>1, Geometry, DivMod
<1>3. perDie \in 0 .. BlocksPerDie * PagesPerBlock - 1
  <2>1. BlocksPerDie * PagesPerBlock \in Nat
    BY Geometry
  <2>2. n < (BlocksPerDie * PagesPerBlock) * Dies
    BY <1>1, Geometry
  <2> QED
    BY <1>1, <2>1, <2>2, Geometry, DivBound
<1> HIDE DEF stripe, perDie
<1>4. stripe \div Channels \in 0 .. DiesPerChannel - 1
  <2>1. stripe \in Nat /\ stripe < DiesPerChannel * Channels
    BY <1>2, Geometry DEF Dies
  <2> QED
    BY <2>1, Geometry, DivBound
<1>5. perDie \div PagesPerBlock \in 0 .. BlocksPerDie - 1
  <2>1. perDie \in Nat /\ perDie < BlocksPerDie * PagesPerBlock
    BY <1>2, <1>3, Geometry
  <2> QED
    BY <2>1, Geometry, DivBound
<1>6. /\ stripe % Channels \in 0 .. Channels - 1
      /\ perDie % PagesPerBlock \in 0 .. PagesPerBlock - 1
  BY <1>2, Geometry, DivMod
<1>7. PhysicalFromLinear(n)
        = <<stripe % Channels, stripe \div Channels,
            perDie \div PagesPerBlock, perDie % PagesPerBlock>>
  BY DEF PhysicalFromLinear, stripe, perDie
<1> QED
  BY <1>4, <1>5, <1>6, <1>7, PageOf

LEMMA PhysicalInjective ==
    ASSUME NEW n \in 0 .. CapacityPages - 1, NEW k \in 0 .. CapacityPages - 1,
           PhysicalFromLinear(n) = PhysicalFromLinear(k)
    PROVE  n = k
<1> DEFINE s(x) == x % Dies
           d(x) == x \div Dies
<1>1. n \in Nat /\ k \in Nat
  BY Geometry
<1>2. s(n) \in Nat /\ s(k) \in Nat /\ d(n) \in Nat /\ d(k) \in Nat
  <2>1. s(n) \in 0 .. Dies - 1 /\ s(k) \in 0 .. Dies - 1
    BY <1>1, Geometry, DivMod
  <2>2. d(n) \in Nat /\ d(k) \in Nat
    BY <1>1, Geometry, DivMod
  <2> HIDE DEF s, d
  <2> QED
    BY <2>1, <2>2, Geometry
<1>3. /\ s(n) % Channels = s(k) % Channels
      /\ s(n) \div Channels = s(k) \div Channels
      /\ d(n) \div PagesPerBlock = d(k) \div PagesPerBlock
      /\ d(n) % PagesPerBlock = d(k) % PagesPerBlock
  <2>1. ASSUME NEW a1, NEW a2, NEW a3, NEW a4, NEW b1, NEW b2, NEW b3, NEW b4,
               <<a1, a2, a3, a4>> = <<b1, b2, b3, b4>>
        PROVE  a1 = b1 /\ a2 = b2 /\ a3 = b3 /\ a4 = b4
    BY <2>1
  <2> QED
    BY <2>1 DEF PhysicalFromLinear
<1> HIDE DEF s, d
<1>4. s(n) = s(k) /\ d(n) = d(k)
  BY <1>2, <1>3, Geometry, DivModEqual
<1> QED
  BY <1>1, <1>4, Geometry, DivModEqual DEF s, d

(* A number from its quotient and its remainder.                           *)
LEMMA Compose ==
    ASSUME NEW n \in Nat, NEW d \in Nat \ {0}, NEW q \in 0 .. n - 1,
           NEW r \in 0 .. d - 1
    PROVE  /\ d * q + r \in 0 .. n * d - 1
           /\ (d * q + r) \div d = q /\ (d * q + r) % d = r
<1> DEFINE a == d * q + r
<1>1. q \in Nat /\ r \in Nat /\ r < d /\ d * q \in Nat /\ a \in Nat
  OBVIOUS
<1>2. a < n * d
  <2>1. d * q <= d * (n - 1)
    OBVIOUS
  <2>2. d * (n - 1) = n * d - d
    OBVIOUS
  <2> QED
    BY <1>1, <2>1, <2>2
<1>3. /\ a \div d \in Nat /\ a % d \in 0 .. d - 1
      /\ a = d * (a \div d) + (a % d)
  BY <1>1, DivMod
<1>4. ASSUME NEW x \in Nat, NEW y \in Nat, NEW u \in 0 .. d - 1,
             NEW w \in 0 .. d - 1, d * x + u = d * y + w
      PROVE  x = y /\ u = w
  <2>1. CASE x < y
    <3>1. d * (x + 1) <= d * y
      BY <2>1
    <3> QED
      BY <1>4, <3>1
  <2>2. CASE y < x
    <3>1. d * (y + 1) <= d * x
      BY <2>2
    <3> QED
      BY <1>4, <3>1
  <2>3. CASE x = y
    BY <1>4, <2>3
  <2> QED
    BY <2>1, <2>2, <2>3
<1>5. a \div d = q /\ a % d = r
  BY <1>1, <1>3, <1>4
<1> QED
  BY <1>1, <1>2, <1>5

LEMMA PhysicalOnto ==
    ASSUME NEW p \in Pages
    PROVE  \E n \in 0 .. CapacityPages - 1 : p = PhysicalFromLinear(n)
<1> DEFINE stripe == Channels * p[2] + p[1]
           perDie == PagesPerBlock * p[3] + p[4]
           n == Dies * perDie + stripe
<1>1. /\ p[1] \in 0 .. Channels - 1 /\ p[2] \in 0 .. DiesPerChannel - 1
      /\ p[3] \in 0 .. BlocksPerDie - 1 /\ p[4] \in 0 .. PagesPerBlock - 1
      /\ p = <<p[1], p[2], p[3], p[4]>>
  <2>1. /\ BlockKey(p) \in Blocks /\ p[4] \in 0 .. PagesPerBlock - 1
        /\ p = <<p[1], p[2], p[3], p[4]>>
    BY PageShape
  <2> QED
    BY <2>1 DEF BlockKey, Blocks
<1>2. /\ stripe \in 0 .. DiesPerChannel * Channels - 1
      /\ stripe \div Channels = p[2] /\ stripe % Channels = p[1]
  BY <1>1, Geometry, Compose
<1>3. /\ perDie \in 0 .. BlocksPerDie * PagesPerBlock - 1
      /\ perDie \div PagesPerBlock = p[3] /\ perDie % PagesPerBlock = p[4]
  BY <1>1, Geometry, Compose
<1> HIDE DEF stripe, perDie
<1>4. stripe \in 0 .. Dies - 1
  BY <1>2, Geometry DEF Dies
<1>5. /\ n \in 0 .. (BlocksPerDie * PagesPerBlock) * Dies - 1
      /\ n \div Dies = perDie /\ n % Dies = stripe
  <2>1. BlocksPerDie * PagesPerBlock \in Nat
    BY Geometry
  <2> QED
    BY <1>3, <1>4, <2>1, Geometry, Compose
<1>6. n \in 0 .. CapacityPages - 1
  BY <1>5, Geometry
<1> HIDE DEF n
<1>7. PhysicalFromLinear(n) = <<p[1], p[2], p[3], p[4]>>
  BY <1>2, <1>3, <1>5 DEF PhysicalFromLinear
<1> QED
  BY <1>1, <1>6, <1>7

(* map_read() answers with a page of the geometry for every logical page.  *)
LEMMA MapReadInPages ==
    ASSUME mapping \in [Lpns -> Pages \cup {NoPage}], NEW l \in Lpns
    PROVE  MapRead(l) \in Pages
<1>1. CASE mapping[l] # NoPage
  BY <1>1 DEF MapRead
<1>2. CASE mapping[l] = NoPage
  <2> DEFINE stripe == l % Dies
             q == l \div Dies
             w == l \div (Dies * BlocksPerDie)
  <2>1. l \in Nat /\ Dies * BlocksPerDie \in Nat \ {0}
    <3>1. ASSUME NEW a \in Nat \ {0}, NEW b \in Nat \ {0}
          PROVE  a * b \in Nat \ {0}
      OBVIOUS
    <3> QED
      BY <3>1, Geometry, FtlAssumption
  <2>2. stripe \in 0 .. Dies - 1 /\ q \in Nat /\ w \in Nat
    BY <2>1, Geometry, DivMod
  <2>3. MapRead(l) = <<stripe % Channels, stripe \div Channels,
                       q % BlocksPerDie, w % PagesPerBlock>>
    BY <1>2 DEF MapRead
  <2> HIDE DEF stripe, q, w
  <2>4. stripe \in Nat /\ stripe < DiesPerChannel * Channels
    BY <2>2, Geometry DEF Dies
  <2>5. stripe \div Channels \in 0 .. DiesPerChannel - 1
    BY <2>4, Geometry, DivBound
  <2>6. /\ stripe % Channels \in 0 .. Channels - 1
        /\ q % BlocksPerDie \in 0 .. BlocksPerDie - 1
        /\ w % PagesPerBlock \in 0 .. PagesPerBlock - 1
    BY <2>2, <2>4, Geometry, DivMod
  <2> QED
    BY <2>3, <2>5, <2>6, PageOf
<1> QED
  BY <1>1, <1>2

-----------------------------------------------------------------------------
(* Free pages.                                                             *)

LEMMA NoneIsNoPage == NoPage \notin Pages /\ NoBlock \notin Blocks
<1>1. ASSUME NEW p \in Pages PROVE p # NoPage
  <2>1. PICK a, b, c, d : p = <<a, b, c, d>>
    BY PageShape
  <2> QED
    BY <2>1 DEF NoPage
<1>2. ASSUME NEW b \in Blocks PROVE b # NoBlock
  BY DEF Blocks, NoBlock
<1> QED
  BY <1>1, <1>2

LEMMA FreeInPages ==
    ASSUME NEW r \in Seq(Pages), NEW np \in 0 .. CapacityPages
    PROVE  Free(r, np) \subseteq Pages
<1>1. \A i \in 1 .. Len(r) : r[i] \in Pages
  OBVIOUS
<1>2. \A n \in np .. CapacityPages - 1 : PhysicalFromLinear(n) \in Pages
  <2> SUFFICES ASSUME NEW n \in np .. CapacityPages - 1
               PROVE  PhysicalFromLinear(n) \in Pages
    OBVIOUS
  <2>1. n \in 0 .. CapacityPages - 1
    BY Geometry
  <2> QED
    BY <2>1, PhysicalInPages
<1> QED
  BY <1>1, <1>2 DEF Free, Beyond

(* _allocate() takes page k of the queue and rotates the ones before it to *)
(* the back: position i of what is left held position From(i) before.      *)
Rotated(r, k) == SubSeq(r, k + 1, Len(r)) \o SubSeq(r, 1, k - 1)

LEMMA QueueRotated ==
    ASSUME NEW r \in Seq(Pages), NEW k \in 1 .. Len(r)
    PROVE  LET r2 == Rotated(r, k)
               From(i) == IF i <= Len(r) - k THEN k + i ELSE i - (Len(r) - k)
           IN /\ r2 \in Seq(Pages) /\ Len(r2) = Len(r) - 1
              /\ \A i \in 1 .. Len(r2) : r2[i] = r[From(i)]
<1> DEFINE a == SubSeq(r, k + 1, Len(r))
           b == SubSeq(r, 1, k - 1)
           n == Len(r)
<1>1. n \in Nat /\ k \in 1 .. n /\ k \in Nat /\ \A i \in 1 .. n : r[i] \in Pages
  OBVIOUS
<1>2. /\ a \in Seq(Pages) /\ Len(a) = n - k
      /\ \A i \in 1 .. n - k : a[i] = r[k + i]
  <2>1. \A i \in k + 1 .. n : r[i] \in Pages
    BY <1>1
  <2>2. /\ a \in Seq(Pages)
        /\ Len(a) = IF k + 1 <= n THEN n - (k + 1) + 1 ELSE 0
        /\ \A i \in 1 .. n - (k + 1) + 1 : a[i] = r[(k + 1) + i - 1]
    BY <1>1, <2>1, SubSeqProperties
  <2> HIDE DEF a
  <2>3. Len(a) = n - k
    BY <1>1, <2>2
  <2>4. \A i \in 1 .. n - k : /\ i \in 1 .. n - (k + 1) + 1
                               /\ (k + 1) + i - 1 = k + i
    BY <1>1
  <2>5. \A i \in 1 .. n - k : a[i] = r[k + i]
    BY <2>2, <2>4, Zenon
  <2> QED
    BY <2>2, <2>3, <2>5
<1>3. /\ b \in Seq(Pages) /\ Len(b) = k - 1
      /\ \A i \in 1 .. k - 1 : b[i] = r[i]
  <2>1. \A i \in 1 .. k - 1 : r[i] \in Pages
    BY <1>1
  <2>2. /\ b \in Seq(Pages)
        /\ Len(b) = IF 1 <= k - 1 THEN (k - 1) - 1 + 1 ELSE 0
        /\ \A i \in 1 .. (k - 1) - 1 + 1 : b[i] = r[1 + i - 1]
    BY <1>1, <2>1, SubSeqProperties
  <2> HIDE DEF b
  <2>3. Len(b) = k - 1
    BY <1>1, <2>2
  <2>4. \A i \in 1 .. k - 1 : i \in 1 .. (k - 1) - 1 + 1 /\ 1 + i - 1 = i
    BY <1>1
  <2>5. \A i \in 1 .. k - 1 : b[i] = r[i]
    BY <2>2, <2>4, Zenon
  <2> QED
    BY <2>2, <2>3, <2>5
<1> HIDE DEF a, b
<1>4. /\ a \o b \in Seq(Pages) /\ Len(a \o b) = Len(a) + Len(b)
      /\ \A i \in 1 .. Len(a) + Len(b) :
            (a \o b)[i] = IF i <= Len(a) THEN a[i] ELSE b[i - Len(a)]
  BY <1>2, <1>3, ConcatProperties
<1>5. \A i \in 1 .. n - 1 :
        (a \o b)[i] = r[IF i <= n - k THEN k + i ELSE i - (n - k)]
  BY <1>1, <1>2, <1>3, <1>4
<1>6. Len(a \o b) = n - 1
  BY <1>1, <1>2, <1>3, <1>4
<1> QED
  BY <1>4, <1>5, <1>6 DEF a, b, Rotated

(* So exactly that page leaves the queue.                                  *)
LEMMA QueueTaken ==
    ASSUME NEW r \in Seq(Pages), NEW np \in 0 .. CapacityPages,
           NEW k \in 1 .. Len(r)
    PROVE  /\ Rotated(r, k) \in Seq(Pages)
           /\ Len(Rotated(r, k)) = Len(r) - 1
           /\ Free(Rotated(r, k), np) \subseteq Free(r, np)
           /\ r[k] \in Free(r, np)
           /\ SpaceOK(r, np) =>
                 /\ SpaceOK(Rotated(r, k), np)
                 /\ Free(Rotated(r, k), np) = Free(r, np) \ {r[k]}
<1> DEFINE r2 == Rotated(r, k)
<1> DEFINE From(i) == IF i <= Len(r) - k THEN k + i ELSE i - (Len(r) - k)
           n == Len(r)
<1>1. n \in Nat /\ k \in 1 .. n
  OBVIOUS
<1>2. /\ r2 \in Seq(Pages) /\ Len(r2) = n - 1
      /\ \A i \in 1 .. n - 1 : r2[i] = r[From(i)]
  BY QueueRotated
<1> HIDE DEF r2
<1>3. \A i \in 1 .. n - 1 : From(i) \in 1 .. n /\ From(i) # k
  BY <1>1
<1>4. \A i, j \in 1 .. n - 1 : From(i) = From(j) => i = j
  BY <1>1
<1>5. \A j \in 1 .. n : j # k => \E i \in 1 .. n - 1 : From(i) = j
  <2> SUFFICES ASSUME NEW j \in 1 .. n, j # k
               PROVE  \E i \in 1 .. n - 1 : From(i) = j
    OBVIOUS
  <2>1. CASE j > k
    <3>1. j - k \in 1 .. n - 1 /\ From(j - k) = j
      BY <1>1, <2>1
    <3> QED
      BY <3>1
  <2>2. CASE j < k
    <3>1. j + (n - k) \in 1 .. n - 1 /\ From(j + (n - k)) = j
      BY <1>1, <2>2
    <3> QED
      BY <3>1
  <2> QED
    BY <1>1, <2>1, <2>2
<1> HIDE DEF From
<1>6. Free(r2, np) \subseteq Free(r, np) /\ r[k] \in Free(r, np)
  BY <1>1, <1>2, <1>3 DEF Free
<1>7. ASSUME SpaceOK(r, np)
      PROVE  SpaceOK(r2, np) /\ Free(r2, np) = Free(r, np) \ {r[k]}
  <2>1. \A i \in 1 .. n - 1 : r2[i] # r[k]
    BY <1>1, <1>2, <1>3, <1>7 DEF SpaceOK
  <2>2. \A i, j \in 1 .. n - 1 : r2[i] = r2[j] => i = j
    <3> SUFFICES ASSUME NEW i \in 1 .. n - 1, NEW j \in 1 .. n - 1,
                        r2[i] = r2[j]
                 PROVE  i = j
      OBVIOUS
    <3>1. r[From(i)] = r[From(j)]
      BY <1>2, Zenon
    <3>2. From(i) = From(j)
      BY <1>3, <1>7, <3>1, Zenon DEF SpaceOK
    <3> QED
      BY <1>4, <3>2, Zenon
  <2>3. \A i \in 1 .. n - 1 : r2[i] \notin Beyond(np)
    BY <1>2, <1>3, <1>7 DEF SpaceOK
  <2>4. r[k] \notin Beyond(np)
    BY <1>1, <1>7 DEF SpaceOK
  <2>5. \A j \in 1 .. n : r[j] # r[k] => \E i \in 1 .. n - 1 : r2[i] = r[j]
    BY <1>2, <1>5
  <2>6. Free(r2, np) = Free(r, np) \ {r[k]}
    <3>1. \A i \in 1 .. n - 1 : \E j \in 1 .. n : r2[i] = r[j]
      BY <1>2, <1>3, Zenon
    <3>2. {r2[i] : i \in 1 .. n - 1} = {r[i] : i \in 1 .. n} \ {r[k]}
      BY <2>1, <2>5, <3>1, Zenon
    <3>3. Free(r2, np) = {r2[i] : i \in 1 .. n - 1} \cup Beyond(np)
      BY <1>2, Zenon DEF Free
    <3> QED
      BY <2>4, <3>2, <3>3 DEF Free
  <2> QED
    BY <1>2, <2>2, <2>3, <2>6 DEF SpaceOK
<1> QED
  BY <1>2, <1>6, <1>7 DEF r2

(* And the page at the cursor leaves what is beyond it.                    *)
LEMMA CursorTaken ==
    ASSUME NEW r \in Seq(Pages), NEW np \in 0 .. CapacityPages,
           np < CapacityPages
    PROVE  /\ np + 1 \in 0 .. CapacityPages
           /\ PhysicalFromLinear(np) \in Free(r, np)
           /\ Free(r, np + 1) \subseteq Free(r, np)
           /\ SpaceOK(r, np) =>
                /\ SpaceOK(r, np + 1)
                /\ Free(r, np + 1) = Free(r, np) \ {PhysicalFromLinear(np)}
<1> DEFINE page == PhysicalFromLinear(np)
<1>1. np \in Nat /\ np + 1 \in 0 .. CapacityPages
      /\ np \in np .. CapacityPages - 1
  BY Geometry
<1>2. \A n : n \in np .. CapacityPages - 1
               <=> n = np \/ n \in np + 1 .. CapacityPages - 1
  BY Geometry
<1>3. Beyond(np) = Beyond(np + 1) \cup {page}
  BY <1>1, <1>2, Zenon DEF Beyond
<1>4. page \notin Beyond(np + 1)
  <2> SUFFICES ASSUME NEW n \in np + 1 .. CapacityPages - 1,
                      page = PhysicalFromLinear(n)
               PROVE  FALSE
    BY DEF Beyond
  <2>1. n \in 0 .. CapacityPages - 1 /\ np \in 0 .. CapacityPages - 1 /\ n # np
    BY Geometry
  <2> QED
    BY <2>1, PhysicalInjective
<1>5. page \in Free(r, np) /\ Free(r, np + 1) \subseteq Free(r, np)
  BY <1>3 DEF Free
<1>6. ASSUME SpaceOK(r, np)
      PROVE  SpaceOK(r, np + 1) /\ Free(r, np + 1) = Free(r, np) \ {page}
  <2>1. \A i \in 1 .. Len(r) : r[i] \notin Beyond(np + 1) /\ r[i] # page
    BY <1>3, <1>6 DEF SpaceOK
  <2>2. SpaceOK(r, np + 1)
    BY <1>6, <2>1 DEF SpaceOK
  <2> QED
    BY <1>3, <1>4, <2>1, <2>2 DEF Free
<1> QED
  BY <1>1, <1>5, <1>6

(* _allocate() finds the first page of the queue that is outside avoid.    *)
LEMMA FirstUsableIndex ==
    ASSUME reclaimed \in Seq(Pages), NEW avoid, Usable(avoid) # {}
    PROVE  FirstUsable(avoid) \in 1 .. Len(reclaimed)
<1>1. Usable(avoid) \subseteq Nat
  BY DEF Usable
<1>2. \E i \in Usable(avoid) : \A j \in Usable(avoid) : i <= j
  BY <1>1, LeastNatural
<1>3. FirstUsable(avoid) \in Usable(avoid)
  BY <1>2, Zenon DEF FirstUsable
<1> QED
  BY <1>3 DEF Usable

LEMMA FreeIsFree ==
    FreeSet = Free(reclaimed, nextPage) /\ FreePages = Room(reclaimed, nextPage)
  BY DEF FreeSet, FreePages, Free, Beyond, Room

(* What an allocation does to the free pages.                              *)
LEMMA Allocation ==
    ASSUME reclaimed \in Seq(Pages), nextPage \in 0 .. CapacityPages,
           NEW avoid, CanAllocate(avoid), TakePage(avoid)
    PROVE  LET page == AllocatedPage(avoid)
               F == Free(reclaimed, nextPage)
               F2 == Free(reclaimed', nextPage')
           IN /\ reclaimed' \in Seq(Pages) /\ nextPage' \in 0 .. CapacityPages
              /\ page \in F /\ page \in Pages /\ F2 \subseteq F
              /\ Room(reclaimed', nextPage') = Room(reclaimed, nextPage) - 1
              /\ SpaceOK(reclaimed, nextPage) =>
                    /\ SpaceOK(reclaimed', nextPage')
                    /\ F2 = F \ {page}
<1> DEFINE page == AllocatedPage(avoid)
<1>1. CapacityPages \in Nat /\ nextPage \in Nat /\ Len(reclaimed) \in Nat
  BY Geometry
<1>2. page \in Free(reclaimed, nextPage) => page \in Pages
  BY FreeInPages
<1>3. CASE Usable(avoid) # {}
  <2> DEFINE k == FirstUsable(avoid)
  <2>1. k \in 1 .. Len(reclaimed)
    BY <1>3, FirstUsableIndex
  <2>2. /\ page = reclaimed[k] /\ nextPage' = nextPage
        /\ reclaimed' = Rotated(reclaimed, k)
    BY <1>3 DEF AllocatedPage, TakePage, Rotated
  <2> HIDE DEF k, page
  <2>3. /\ reclaimed' \in Seq(Pages) /\ Len(reclaimed') = Len(reclaimed) - 1
        /\ Free(reclaimed', nextPage) \subseteq Free(reclaimed, nextPage)
        /\ page \in Free(reclaimed, nextPage)
        /\ SpaceOK(reclaimed, nextPage) =>
              /\ SpaceOK(reclaimed', nextPage)
              /\ Free(reclaimed', nextPage)
                   = Free(reclaimed, nextPage) \ {page}
    <3>1. /\ Rotated(reclaimed, k) \in Seq(Pages)
          /\ Len(Rotated(reclaimed, k)) = Len(reclaimed) - 1
          /\ Free(Rotated(reclaimed, k), nextPage)
               \subseteq Free(reclaimed, nextPage)
          /\ reclaimed[k] \in Free(reclaimed, nextPage)
          /\ SpaceOK(reclaimed, nextPage) =>
                /\ SpaceOK(Rotated(reclaimed, k), nextPage)
                /\ Free(Rotated(reclaimed, k), nextPage)
                     = Free(reclaimed, nextPage) \ {reclaimed[k]}
      BY <2>1, QueueTaken, Zenon
    <3> QED
      BY <2>2, <3>1, Zenon
  <2>4. Room(reclaimed', nextPage') = Room(reclaimed, nextPage) - 1
    <3>1. Len(reclaimed') = Len(reclaimed) - 1 /\ nextPage' = nextPage
      BY <2>2, <2>3
    <3> QED
      BY <1>1, <3>1 DEF Room
  <2> QED
    BY <1>2, <2>2, <2>3, <2>4 DEF page
<1>4. CASE Usable(avoid) = {}
  <2>1. /\ page = PhysicalFromLinear(nextPage) /\ nextPage' = nextPage + 1
        /\ reclaimed' = reclaimed /\ nextPage < CapacityPages
    BY <1>4 DEF AllocatedPage, TakePage, CanAllocate
  <2> HIDE DEF page
  <2>2. /\ nextPage' \in 0 .. CapacityPages
        /\ page \in Free(reclaimed, nextPage)
        /\ Free(reclaimed, nextPage') \subseteq Free(reclaimed, nextPage)
        /\ SpaceOK(reclaimed, nextPage) =>
              /\ SpaceOK(reclaimed, nextPage')
              /\ Free(reclaimed, nextPage')
                   = Free(reclaimed, nextPage) \ {page}
    BY <2>1, CursorTaken
  <2>3. Room(reclaimed', nextPage') = Room(reclaimed, nextPage) - 1
    BY <1>1, <2>1 DEF Room
  <2> QED
    BY <1>2, <2>1, <2>2, <2>3 DEF page
<1> QED
  BY <1>3, <1>4

(* The pages of one block.                                                 *)
PagesOf(b) == {p \in Pages : BlockKey(p) = b}

(* Erasing a block adds its pages, each once, to the free ones.            *)
LEMMA BlockErased ==
    ASSUME NEW r \in Seq(Pages), NEW np \in 0 .. CapacityPages,
           NEW b \in Blocks
    PROVE  LET E == [i \in 1 .. PagesPerBlock |-> Append(b, i - 1)]
           IN /\ r \o E \in Seq(Pages) /\ Len(r \o E) = Len(r) + PagesPerBlock
              /\ Free(r \o E, np) = Free(r, np) \cup PagesOf(b)
              /\ SpaceOK(r, np) /\ Free(r, np) \cap PagesOf(b) = {} =>
                    SpaceOK(r \o E, np)
<1> DEFINE E == [i \in 1 .. PagesPerBlock |-> Append(b, i - 1)]
           n == Len(r)
           N == PagesPerBlock
<1>1. n \in Nat /\ N \in Nat
  BY Geometry
<1>2. \A i \in 1 .. N : E[i] = Append(b, i - 1) /\ i - 1 \in 0 .. N - 1
  BY <1>1
<1>3. \A i \in 1 .. N : /\ E[i] \in Pages /\ BlockKey(E[i]) = b
                        /\ E[i][4] = i - 1
  BY <1>2, PageShape, Zenon
<1>4. E \in Seq(Pages) /\ Len(E) = N
  BY <1>1, <1>3
<1>5. \A i, j \in 1 .. N : E[i] = E[j] => i = j
  <2> SUFFICES ASSUME NEW i \in 1 .. N, NEW j \in 1 .. N, E[i] = E[j]
               PROVE  i = j
    OBVIOUS
  <2>1. i - 1 = j - 1
    BY <1>3, Zenon
  <2> QED
    BY <1>1, <2>1
<1>6. \A p \in PagesOf(b) : \E i \in 1 .. N : E[i] = p
  <2> SUFFICES ASSUME NEW p \in PagesOf(b)
               PROVE  \E i \in 1 .. N : E[i] = p
    OBVIOUS
  <2>1. p[4] \in 0 .. N - 1 /\ p = Append(b, p[4])
    BY PageShape DEF PagesOf
  <2>2. p[4] + 1 \in 1 .. N /\ (p[4] + 1) - 1 = p[4]
    BY <1>1, <2>1
  <2>3. E[p[4] + 1] = p
    BY <1>2, <2>1, <2>2
  <2> QED
    BY <2>2, <2>3
<1> HIDE DEF E
<1>7. /\ r \o E \in Seq(Pages) /\ Len(r \o E) = n + N
      /\ \A i \in 1 .. n + N :
            (r \o E)[i] = IF i <= n THEN r[i] ELSE E[i - n]
  BY <1>4, ConcatProperties
<1> DEFINE s == r \o E
<1>8. /\ \A i \in 1 .. n + N : \/ i \in 1 .. n /\ s[i] = r[i]
                               \/ i - n \in 1 .. N /\ s[i] = E[i - n]
      /\ \A i \in 1 .. n : i \in 1 .. n + N /\ s[i] = r[i]
      /\ \A i \in 1 .. N : i + n \in 1 .. n + N /\ s[i + n] = E[i]
  <2>1. \A i \in 1 .. n : i \in 1 .. n + N /\ s[i] = r[i]
    BY <1>1, <1>7
  <2>2. \A i \in 1 .. N : i + n \in 1 .. n + N /\ s[i + n] = E[i]
    <3> SUFFICES ASSUME NEW i \in 1 .. N
                 PROVE  i + n \in 1 .. n + N /\ s[i + n] = E[i]
      OBVIOUS
    <3>1. i + n \in 1 .. n + N /\ ~(i + n <= n) /\ (i + n) - n = i
      BY <1>1
    <3> QED
      BY <1>7, <3>1
  <2>3. \A i \in 1 .. n + N : i <= n \/ i - n \in 1 .. N
    BY <1>1
  <2>4. \A i \in 1 .. n + N : \/ i \in 1 .. n /\ s[i] = r[i]
                              \/ i - n \in 1 .. N /\ s[i] = E[i - n]
    BY <1>1, <1>7, <2>3
  <2> QED
    BY <2>1, <2>2, <2>4
<1>9. Len(s) = n + N
  BY <1>7
<1> HIDE DEF s
<1>10. {s[i] : i \in 1 .. n + N} = {r[i] : i \in 1 .. n} \cup PagesOf(b)
  <2>1. {E[i] : i \in 1 .. N} = PagesOf(b)
    BY <1>3, <1>6, Zenon DEF PagesOf
  <2>2. {s[i] : i \in 1 .. n + N}
          = {r[i] : i \in 1 .. n} \cup {E[i] : i \in 1 .. N}
    <3>1. \A i \in 1 .. n + N : s[i] \in {r[j] : j \in 1 .. n}
                                       \cup {E[j] : j \in 1 .. N}
      BY <1>8, Zenon
    <3>2. \A i \in 1 .. n : r[i] \in {s[j] : j \in 1 .. n + N}
      BY <1>8, Zenon
    <3>3. \A i \in 1 .. N : E[i] \in {s[j] : j \in 1 .. n + N}
      BY <1>8, Zenon
    <3> QED
      BY <3>1, <3>2, <3>3, Zenon
  <2> QED
    BY <2>1, <2>2
<1>11. Free(s, np) = Free(r, np) \cup PagesOf(b)
  BY <1>9, <1>10 DEF Free
<1>12. ASSUME SpaceOK(r, np), Free(r, np) \cap PagesOf(b) = {}
       PROVE  SpaceOK(s, np)
  <2>1. \A i \in 1 .. N : E[i] \in PagesOf(b)
    BY <1>3 DEF PagesOf
  <2>2. /\ \A i \in 1 .. n : r[i] \notin PagesOf(b)
        /\ \A p \in Beyond(np) : p \notin PagesOf(b)
    BY <1>12 DEF Free
  <2>3. \A i \in 1 .. n + N : s[i] \notin Beyond(np)
    BY <1>8, <1>12, <2>1, <2>2, Zenon DEF SpaceOK
  <2>4. ASSUME NEW i \in 1 .. n + N, NEW j \in 1 .. n + N, s[i] = s[j]
        PROVE  i = j
    <3>1. CASE i \in 1 .. n /\ s[i] = r[i] /\ j \in 1 .. n /\ s[j] = r[j]
      BY <1>12, <2>4, <3>1, Zenon DEF SpaceOK
    <3>2. CASE i - n \in 1 .. N /\ s[i] = E[i - n] /\ j - n \in 1 .. N
                 /\ s[j] = E[j - n]
      <4>1. i - n = j - n
        BY <1>5, <2>4, <3>2, Zenon
      <4> QED
        BY <1>1, <4>1
    <3>3. CASE i \in 1 .. n /\ s[i] = r[i] /\ j - n \in 1 .. N
                 /\ s[j] = E[j - n]
      BY <2>1, <2>2, <2>4, <3>3, Zenon
    <3>4. CASE j \in 1 .. n /\ s[j] = r[j] /\ i - n \in 1 .. N
                 /\ s[i] = E[i - n]
      BY <2>1, <2>2, <2>4, <3>4, Zenon
    <3> QED
      BY <1>8, <3>1, <3>2, <3>3, <3>4, Zenon
  <2> QED
    BY <1>9, <2>3, <2>4, Zenon DEF SpaceOK
<1> QED
  BY <1>7, <1>11, <1>12, Zenon DEF s, E

(* Sets that a function pairs off have the same size.                      *)
LEMMA SameSize ==
    ASSUME NEW S, NEW T, IsFiniteSet(S), NEW f \in [S -> T],
           \A x, y \in S : f[x] = f[y] => x = y,
           \A t \in T : \E x \in S : f[x] = t
    PROVE  IsFiniteSet(T) /\ Cardinality(T) = Cardinality(S)
<1>1. f \in Bijection(S, T)
  BY Fun_IsBij, Zenon
<1>2. ExistsBijection(S, T)
  BY <1>1, Fun_ExistsBij, Zenon
<1> QED
  BY <1>2, FS_Bijection, Zenon

(* A block has PagesPerBlock pages.                                        *)
LEMMA BlockSize ==
    ASSUME NEW b \in Blocks
    PROVE  /\ IsFiniteSet(PagesOf(b))
           /\ Cardinality(PagesOf(b)) = PagesPerBlock
<1> DEFINE I == 0 .. PagesPerBlock - 1
           f == [q \in I |-> Append(b, q)]
<1>1. PagesPerBlock \in Nat \ {0}
  BY Geometry
<1>2. IsFiniteSet(I) /\ Cardinality(I) = PagesPerBlock
  <2>1. /\ IsFiniteSet(I)
        /\ Cardinality(I) = IF 0 > PagesPerBlock - 1 THEN 0
                            ELSE PagesPerBlock - 1 - 0 + 1
    BY <1>1, FS_Interval
  <2> QED
    BY <1>1, <2>1
<1>3. /\ f \in [I -> PagesOf(b)]
      /\ \A q \in I : f[q][4] = q
      /\ \A p \in PagesOf(b) : p[4] \in I /\ f[p[4]] = p
  BY PageShape, Zenon DEF PagesOf
<1>4. \A x, y \in I : f[x] = f[y] => x = y
  BY <1>3, Zenon
<1>5. \A p \in PagesOf(b) : \E q \in I : f[q] = p
  BY <1>3, Zenon
<1> HIDE DEF f
<1>6. IsFiniteSet(PagesOf(b)) /\ Cardinality(PagesOf(b)) = Cardinality(I)
  BY <1>2, <1>3, <1>4, <1>5, SameSize, Zenon
<1> QED
  BY <1>2, <1>6

-----------------------------------------------------------------------------
(* The tables.                                                             *)

Remap(m, l, page) == [m EXCEPT ![l] = page]

(* Mapping a logical page to a page taken from the free ones: live data    *)
(* stays apart, the page joins its new block and leaves its old one, where *)
(* its old page is now dead.                                               *)
Remapped(m, l, F, page, m2, F2) ==
    /\ Kept(m2, F2)
    /\ Live(m2, BlockKey(page)) = Live(m, BlockKey(page)) \cup {l}
    /\ \A b \in Blocks : b # BlockKey(page) =>
          Live(m2, b) = Live(m, b) \ {l}
    /\ m[l] # NoPage =>
          /\ Dead(m2, F2, BlockKey(m[l]))
               = Dead(m, F, BlockKey(m[l])) \cup {m[l]}
          /\ m[l] \notin Dead(m, F, BlockKey(m[l]))
    /\ \A b \in Blocks : m[l] = NoPage \/ b # BlockKey(m[l]) =>
          Dead(m2, F2, b) = Dead(m, F, b)

LEMMA PageMapped ==
    ASSUME NEW m \in [Lpns -> Pages \cup {NoPage}], NEW l \in Lpns,
           NEW F, F \subseteq Pages, NEW page \in F, Kept(m, F)
    PROVE  Remapped(m, l, F, page, Remap(m, l, page), F \ {page})
<1> DEFINE m2 == Remap(m, l, page)
           F2 == F \ {page}
<1>1. page \in Pages /\ page # NoPage
  BY NoneIsNoPage
<1>2. m2[l] = page /\ \A k \in Lpns : k # l => m2[k] = m[k]
  BY DEF Remap
<1> HIDE DEF m2
<1>4. \A k \in Lpns : m[k] # page /\ m[k] \in Pages \cup {NoPage}
  BY DEF Kept
<1>5. Kept(m2, F2)
  <2>1. \A k \in Lpns : m2[k] \notin F2
    BY <1>2 DEF Kept
  <2>2. ASSUME NEW i \in Lpns, NEW j \in Lpns, m2[i] # NoPage, m2[i] = m2[j]
        PROVE  i = j
    BY <1>2, <1>4, <2>2, Zenon DEF Kept
  <2> QED
    BY <2>1, <2>2 DEF Kept
<1>6. Live(m2, BlockKey(page)) = Live(m, BlockKey(page)) \cup {l}
  BY <1>1, <1>2, Zenon DEF Live
<1>7. ASSUME NEW b, b # BlockKey(page)
      PROVE  Live(m2, b) = Live(m, b) \ {l}
  BY <1>2, <1>7, Zenon DEF Live
<1>8. ASSUME m[l] # NoPage
      PROVE  /\ Dead(m2, F2, BlockKey(m[l]))
                  = Dead(m, F, BlockKey(m[l])) \cup {m[l]}
             /\ m[l] \notin Dead(m, F, BlockKey(m[l]))
  <2>1. m[l] \in Pages /\ m[l] \notin F
    BY <1>4, <1>8 DEF Kept
  <2>2. \A k \in Lpns : m2[k] # m[l]
    BY <1>2, <1>4, <1>8 DEF Kept
  <2>3. m[l] \in Dead(m2, F2, BlockKey(m[l]))
    BY <2>1, <2>2 DEF Dead
  <2>4. m[l] \notin Dead(m, F, BlockKey(m[l]))
    BY DEF Dead
  <2>5. ASSUME NEW p, p # m[l]
        PROVE  p \in Dead(m2, F2, BlockKey(m[l]))
                 <=> p \in Dead(m, F, BlockKey(m[l]))
    BY <1>2, <2>5, Zenon DEF Dead
  <2> QED
    BY <2>3, <2>4, <2>5
<1>9. ASSUME NEW b, m[l] = NoPage \/ b # BlockKey(m[l])
      PROVE  Dead(m2, F2, b) = Dead(m, F, b)
  <2>1. ASSUME NEW p \in Pages, BlockKey(p) = b
        PROVE  m[l] # p
    BY <1>9, <2>1, NoneIsNoPage
  <2> QED
    BY <1>2, <2>1, Zenon DEF Dead
<1> QED
  BY <1>5, <1>6, <1>7, <1>8, <1>9, Zenon DEF m2, Remapped

(* Erasing a block without live data.                                      *)
LEMMA BlockFreed ==
    ASSUME NEW m \in [Lpns -> Pages \cup {NoPage}], NEW v \in Blocks,
           NEW F, F \subseteq Pages
    PROVE  /\ Kept(m, F) /\ Live(m, v) = {} => Kept(m, F \cup PagesOf(v))
           /\ Dead(m, F \cup PagesOf(v), v) = {}
           /\ \A b : b # v => Dead(m, F \cup PagesOf(v), b) = Dead(m, F, b)
<1>1. ASSUME Kept(m, F), Live(m, v) = {}
      PROVE  Kept(m, F \cup PagesOf(v))
  <2>1. \A l \in Lpns : m[l] \notin PagesOf(v)
    BY <1>1, NoneIsNoPage DEF Live, PagesOf
  <2> QED
    BY <1>1, <2>1 DEF Kept
<1>2. Dead(m, F \cup PagesOf(v), v) = {}
  BY DEF Dead, PagesOf
<1>3. ASSUME NEW b, b # v
      PROVE  Dead(m, F \cup PagesOf(v), b) = Dead(m, F, b)
  BY <1>3 DEF Dead, PagesOf
<1> QED
  BY <1>1, <1>2, <1>3

LEMMA DeadFinite ==
    ASSUME NEW m, NEW F, NEW b \in Blocks
    PROVE  IsFiniteSet(Dead(m, F, b)) /\ Cardinality(Dead(m, F, b)) \in Nat
<1>1. Dead(m, F, b) \in SUBSET PagesOf(b)
  BY DEF Dead, PagesOf
<1>2. IsFiniteSet(Dead(m, F, b))
  BY <1>1, BlockSize, FS_Subset, Zenon
<1> QED
  BY <1>2, FS_CardinalityType, Zenon

-----------------------------------------------------------------------------
(* The victim.                                                             *)

LEMMA BlocksFinite == IsFiniteSet(Blocks)
<1> DEFINE A == 0 .. Channels - 1
           B == 0 .. DiesPerChannel - 1
           C == 0 .. BlocksPerDie - 1
           S == (A \X B) \X C
           f == [x \in S |-> <<x[1][1], x[1][2], x[2]>>]
<1>1. IsFiniteSet(A) /\ IsFiniteSet(B) /\ IsFiniteSet(C)
  BY Geometry, FS_Interval
<1> HIDE DEF A, B, C
<1>2. IsFiniteSet(S)
  BY <1>1, FS_Product
<1>3. Blocks = A \X B \X C
  BY DEF Blocks, A, B, C
<1>4. f \in [S -> Blocks]
  BY <1>3
<1>5. \A x, y \in S : f[x] = f[y] => x = y
  OBVIOUS
<1>6. \A t \in Blocks : \E x \in S : f[x] = t
  <2> SUFFICES ASSUME NEW t \in A \X B \X C PROVE \E x \in S : f[x] = t
    BY <1>3
  <2>1. <<<<t[1], t[2]>>, t[3]>> \in S
    OBVIOUS
  <2>2. f[<<<<t[1], t[2]>>, t[3]>>] = t
    BY <2>1
  <2> QED
    BY <2>1, <2>2
<1> HIDE DEF f, S
<1> QED
  BY <1>2, <1>4, <1>5, <1>6, SameSize, Zenon

(* The order of garbage_collect()'s key, written out.                      *)
Before(a, b) ==
    \/ invalidPages[a] > invalidPages[b]
    \/ /\ invalidPages[a] = invalidPages[b]
       /\ \/ eraseCounts[a] < eraseCounts[b]
          \/ /\ eraseCounts[a] = eraseCounts[b]
             /\ \/ a[1] < b[1]
                \/ a[1] = b[1] /\ a[2] < b[2]
                \/ a[1] = b[1] /\ a[2] = b[2] /\ a[3] < b[3]

LEMMA BeforeIsPreferred ==
    ASSUME invalidPages \in [Blocks -> Nat],
           eraseCounts \in [Blocks -> 0 .. MaxErase],
           NEW a \in Blocks, NEW b \in Blocks, Before(a, b)
    PROVE  Preferred(a, b)
<1> DEFINE key(x) == <<invalidPages[x], -eraseCounts[x], -x[1], -x[2], -x[3]>>
<1>1. ASSUME NEW x
      PROVE  /\ key(x)[1] = invalidPages[x] /\ key(x)[2] = -eraseCounts[x]
             /\ key(x)[3] = -x[1] /\ key(x)[4] = -x[2] /\ key(x)[5] = -x[3]
  OBVIOUS
<1>2. ASSUME NEW x \in Blocks
      PROVE  /\ invalidPages[x] \in Int /\ eraseCounts[x] \in Int
             /\ x[1] \in Int /\ x[2] \in Int /\ x[3] \in Int
  BY FtlAssumption DEF Blocks
<1> HIDE DEF key
<1>3. ASSUME NEW i \in 1 .. 5, key(a)[i] > key(b)[i],
             \A j \in 1 .. i - 1 : key(a)[j] = key(b)[j]
      PROVE  Preferred(a, b)
  BY <1>3, Zenon DEF Preferred, key
<1>4. CASE invalidPages[a] > invalidPages[b]
  <2>1. key(a)[1] > key(b)[1] /\ \A j \in 1 .. 1 - 1 : key(a)[j] = key(b)[j]
    BY <1>1, <1>4
  <2> QED
    BY <1>3, <2>1
<1>5. CASE invalidPages[a] = invalidPages[b] /\ eraseCounts[a] < eraseCounts[b]
  <2>1. key(a)[2] > key(b)[2]
    BY <1>1, <1>2, <1>5
  <2>2. \A j \in 1 .. 2 - 1 : key(a)[j] = key(b)[j]
    BY <1>1, <1>5
  <2> QED
    BY <1>3, <2>1, <2>2
<1>6. CASE /\ invalidPages[a] = invalidPages[b]
           /\ eraseCounts[a] = eraseCounts[b] /\ a[1] < b[1]
  <2>1. key(a)[3] > key(b)[3]
    BY <1>1, <1>2, <1>6
  <2>2. \A j \in 1 .. 3 - 1 : key(a)[j] = key(b)[j]
    BY <1>1, <1>6
  <2> QED
    BY <1>3, <2>1, <2>2
<1>7. CASE /\ invalidPages[a] = invalidPages[b]
           /\ eraseCounts[a] = eraseCounts[b] /\ a[1] = b[1] /\ a[2] < b[2]
  <2>1. key(a)[4] > key(b)[4]
    BY <1>1, <1>2, <1>7
  <2>2. \A j \in 1 .. 4 - 1 : key(a)[j] = key(b)[j]
    BY <1>1, <1>7
  <2> QED
    BY <1>3, <2>1, <2>2
<1>8. CASE /\ invalidPages[a] = invalidPages[b]
           /\ eraseCounts[a] = eraseCounts[b] /\ a[1] = b[1] /\ a[2] = b[2]
           /\ a[3] < b[3]
  <2>1. key(a)[5] > key(b)[5]
    BY <1>1, <1>2, <1>8
  <2>2. \A j \in 1 .. 5 - 1 : key(a)[j] = key(b)[j]
    BY <1>1, <1>8
  <2> QED
    BY <1>3, <2>1, <2>2
<1> QED
  BY <1>4, <1>5, <1>6, <1>7, <1>8 DEF Before

(* max() has an answer: a smallest set of candidates without a preferred   *)
(* one would still be without one after losing an element.                 *)
LEMMA VictimIsCandidate ==
    ASSUME invalidPages \in [Blocks -> Nat], invalidKeys \subseteq Blocks,
           eraseCounts \in [Blocks -> 0 .. MaxErase], Candidates # {}
    PROVE  Victim \in Candidates /\ Victim \in Blocks
<1> DEFINE Best(T) == \E b \in T : \A c \in T \ {b} : Before(b, c)
           Bad == {T \in SUBSET Blocks : T # {} /\ ~Best(T)}
           R == StrictSubsetOrdering(Blocks)
<1>1. ASSUME NEW x \in Blocks
      PROVE  /\ invalidPages[x] \in Int /\ eraseCounts[x] \in Int
             /\ x[1] \in Int /\ x[2] \in Int /\ x[3] \in Int
  BY FtlAssumption DEF Blocks
<1>2. ASSUME NEW a \in Blocks, NEW b \in Blocks, a # b
      PROVE  Before(a, b) \/ Before(b, a)
  <2>1. a[1] # b[1] \/ a[2] # b[2] \/ a[3] # b[3]
    BY <1>2 DEF Blocks
  <2> QED
    BY <1>1, <2>1 DEF Before
<1>3. ASSUME NEW a \in Blocks, NEW b \in Blocks, NEW c \in Blocks,
             Before(a, b), Before(b, c)
      PROVE  Before(a, c)
  BY <1>1, <1>3 DEF Before
<1>4. Bad = {}
  <2> SUFFICES ASSUME Bad # {} PROVE FALSE
    OBVIOUS
  <2>1. IsWellFoundedOn(R, SUBSET Blocks)
    BY BlocksFinite, FS_FiniteSubsetsOfFinite,
       FS_StrictSubsetOrderingWellFounded, Zenon
  <2>2. Bad \subseteq SUBSET Blocks
    OBVIOUS
  <2>3. PICK T \in Bad : \A U \in Bad : ~(<<U, T>> \in R)
    <3> HIDE DEF Bad, R
    <3> QED
      BY <2>1, <2>2, WFMin, Zenon
  <2>4. PICK x : x \in T
    BY <2>3
  <2> DEFINE U == T \ {x}
  <2>5. <<U, T>> \in R
    BY <2>2, <2>3, <2>4 DEF StrictSubsetOrdering
  <2>6. T \in SUBSET Blocks /\ ~Best(T) /\ U \in SUBSET Blocks /\ x \in Blocks
    BY <2>3, <2>4
  <2>7. U = {} \/ Best(U)
    BY <2>3, <2>5, <2>6
  <2>8. CASE U = {}
    BY <2>4, <2>6, <2>8
  <2>9. CASE Best(U)
    <3>1. PICK b \in U : \A c \in U \ {b} : Before(b, c)
      BY <2>9
    <3>2. b \in Blocks /\ b \in T /\ b # x
      BY <2>6, <3>1
    <3>3. CASE Before(b, x)
      <4>1. \A c \in T \ {b} : Before(b, c)
        BY <3>1, <3>3
      <4> QED
        BY <2>6, <3>2, <4>1
    <3>4. CASE Before(x, b)
      <4>1. ASSUME NEW c \in T \ {x} PROVE Before(x, c)
        <5>1. c \in Blocks /\ (c = b \/ Before(b, c))
          BY <2>6, <3>1
        <5> QED
          BY <1>3, <2>6, <3>2, <3>4, <5>1
      <4> QED
        BY <2>4, <2>6, <4>1
    <3> QED
      BY <1>2, <2>6, <3>2, <3>3, <3>4
  <2> QED
    BY <2>7, <2>8, <2>9
<1>5. Candidates \subseteq Blocks
  BY DEF Candidates
<1>6. Best(Candidates)
  BY <1>4, <1>5
<1>7. \E b \in Candidates : \A c \in Candidates \ {b} : Preferred(b, c)
  BY <1>5, <1>6, BeforeIsPreferred
<1>8. Victim \in Candidates
  BY <1>7, Zenon DEF Victim
<1> QED
  BY <1>5, <1>8

(* The bound on erases leaves room for one more of any block.              *)
LEMMA EraseBound ==
    ASSUME eraseCounts \in [Blocks -> 0 .. MaxErase],
           Cardinality(Erases) < MaxErase, NEW b \in Blocks
    PROVE  eraseCounts[b] < MaxErase
<1> DEFINE I == 1 .. MaxErase
           f == [n \in I |-> <<b, n>>]
<1>1. MaxErase \in Nat /\ eraseCounts[b] \in 0 .. MaxErase
  BY FtlAssumption
<1> SUFFICES ASSUME eraseCounts[b] = MaxErase PROVE FALSE
  BY <1>1
<1>2. IsFiniteSet(I) /\ Cardinality(I) = MaxErase
  <2>1. /\ IsFiniteSet(I)
        /\ Cardinality(I) = IF 1 > MaxErase THEN 0 ELSE MaxErase - 1 + 1
    BY <1>1, FS_Interval
  <2> QED
    BY <1>1, <2>1
<1> HIDE DEF I
<1>3. IsFiniteSet(Blocks \X I)
  BY <1>2, BlocksFinite, FS_Product
<1>4. Erases \in SUBSET (Blocks \X I)
  BY DEF Erases, I
<1>5. IsFiniteSet(Erases)
  BY <1>3, <1>4, FS_Subset, Zenon
<1>6. f \in [I -> Erases]
  <2>1. ASSUME NEW n \in I PROVE <<b, n>> \in Erases
    BY <1>1, <2>1 DEF Erases, I
  <2> QED
    BY <2>1
<1>7. \A x, y \in I : f[x] = f[y] => x = y
  OBVIOUS
<1> HIDE DEF f
<1>8. f \in Injection(I, Erases)
  BY <1>6, <1>7, Fun_IsInj, Zenon
<1>9. Cardinality(I) <= Cardinality(Erases)
  BY <1>5, <1>8, FS_Injection, Zenon
<1>10. Cardinality(Erases) \in Nat
  BY <1>5, FS_CardinalityType, Zenon
<1> QED
  BY <1>1, <1>2, <1>9, <1>10

-----------------------------------------------------------------------------
(* The inductive invariant.                                                *)

LEMMA FtlInit == Init => FtlInv
<1> SUFFICES ASSUME Init PROVE FtlInv
  OBVIOUS
<1> USE DEF Init
<1>1. TableTypes
  <2>1. /\ mapping \in [Lpns -> Pages \cup {NoPage}]
        /\ validLpns \in [Blocks -> SUBSET Lpns]
    OBVIOUS
  <2>2. /\ invalidPages \in [Blocks -> Nat] /\ invalidKeys \subseteq Blocks
        /\ eraseCounts \in [Blocks -> 0 .. MaxErase]
    BY FtlAssumption
  <2>3. nextPage \in 0 .. CapacityPages /\ reclaimed \in Seq(Pages)
    BY Geometry
  <2>4. /\ pc \in {"idle", "relocate", "write", "journal"}
        /\ lpn \in Lpns \cup {0} /\ victim \in Blocks \cup {NoBlock}
        /\ todo \subseteq Lpns
    OBVIOUS
  <2>5. /\ overlap \in BOOLEAN /\ failed \in BOOLEAN
        /\ erased \subseteq Blocks /\ clobbered \subseteq Pages
    OBVIOUS
  <2>6. checkpoints \in 0 .. MaxCheckpoints
    BY FtlAssumption
  <2> QED
    BY <2>1, <2>2, <2>3, <2>4, <2>5, <2>6 DEF TableTypes
<1>2. /\ \A b \in Blocks : IsFiniteSet(validLpns[b])
      /\ \A b \in Blocks \ invalidKeys : invalidPages[b] = 0
  BY FS_EmptySet
<1>3. SpaceOK(reclaimed, nextPage) /\ Kept(mapping, Free(reclaimed, nextPage))
  <2>1. Free(reclaimed, nextPage) \subseteq Pages
    BY <1>1, FreeInPages DEF TableTypes
  <2> QED
    BY <2>1, NoneIsNoPage DEF SpaceOK, Kept
<1>4. Indexed(mapping, validLpns, victim)
  BY DEF Indexed, Live
<1>5. Counted(mapping, Free(reclaimed, nextPage), invalidPages, victim)
  <2>1. \A p \in Pages : p \in Free(reclaimed, nextPage)
    BY PhysicalOnto DEF Free, Beyond
  <2>2. ASSUME NEW b \in Blocks
        PROVE  Dead(mapping, Free(reclaimed, nextPage), b) = {}
    BY <2>1 DEF Dead
  <2> QED
    BY <2>2, FS_EmptySet DEF Counted
<1>6. StateInv
  BY <1>2, <1>3, <1>4, <1>5 DEF StateInv, TablesInv
<1>7. ControlInv
  BY Geometry DEF ControlInv, NoBlock
<1>8. WorkspaceInv /\ MovingInv /\ JournalInv
  BY FS_EmptySet DEF WorkspaceInv, MovingInv, JournalInv
<1> QED
  BY <1>1, <1>6, <1>7, <1>8 DEF FtlInv

(* An allocation never programs a page that the journal still maps.        *)
LEMMA JournalProgrammed ==
    ASSUME TableTypes, JournalInv, NEW avoid, CanAllocate(avoid),
           TakePage(avoid), Program(AllocatedPage(avoid)),
           journal' = journal, erased' = erased
    PROVE  JournalInv' /\ clobbered' \subseteq Pages
<1> DEFINE page == AllocatedPage(avoid)
           F == Free(reclaimed, nextPage)
           F2 == Free(reclaimed', nextPage')
<1>1. page \in F /\ page \in Pages /\ F2 \subseteq F
  BY Allocation DEF TableTypes
<1>2. clobbered' \subseteq Pages
  BY <1>1 DEF Program, TableTypes
<1>3. clobbered' = IF page \in JournalPages /\ BlockKey(page) \notin erased
                   THEN clobbered \cup {page} ELSE clobbered
  BY DEF Program
<1> HIDE DEF page
<1>4. ASSUME journal # NoJournal,
             Trusted(journal.overlap, journal.failed)
      PROVE  /\ clobbered' = {}
             /\ \A l \in Lpns : \/ journal.mapping[l] = NoPage
                                \/ journal.mapping[l] \notin F2
                                \/ BlockKey(journal.mapping[l]) \in erased
  <2>1. /\ clobbered = {}
        /\ \A l \in Lpns : \/ journal.mapping[l] = NoPage
                           \/ journal.mapping[l] \notin F
                           \/ BlockKey(journal.mapping[l]) \in erased
    BY <1>4 DEF JournalInv
  <2>2. page \in JournalPages => BlockKey(page) \in erased
    BY <1>1, <1>4, <2>1, Zenon DEF JournalPages
  <2> QED
    BY <1>1, <1>3, <2>1, <2>2
<1> QED
  BY <1>2, <1>4 DEF JournalInv

(* The same while nothing is allocated or erased.                          *)
LEMMA JournalKept ==
    ASSUME JournalInv, UNCHANGED <<space, saved>>
    PROVE  JournalInv'
  BY DEF JournalInv, space, saved

(* After a failed overwrite every request finds garbage collection needed  *)
(* and impossible.                                                         *)
LEMMA StuckRoom ==
    ASSUME StateInv, ~overlap, failed, PagesPerBlock > 1
    PROVE  /\ Room(reclaimed, nextPage) = 0 /\ invalidKeys # {}
           /\ \A b \in Blocks : invalidPages[b] > 0 => validLpns[b] # {}
<1>1. /\ reclaimed = <<>> /\ nextPage = CapacityPages /\ invalidKeys # {}
      /\ \A b \in Blocks : invalidPages[b] > 0 => validLpns[b] # {}
  BY DEF StateInv, TablesInv, Stuck
<1> QED
  BY <1>1, Geometry DEF Room

LEMMA WriteRequestStep ==
    ASSUME FtlInv, NEW l \in Lpns, WriteRequest(l)
    PROVE  FtlInv'
<1> USE DEF FtlInv
<1>1. /\ UNCHANGED <<mapping, validLpns, invalidPages, invalidKeys>>
      /\ UNCHANGED <<eraseCounts, nextPage, reclaimed, failed>>
      /\ UNCHANGED <<space, saved>> /\ UNCHANGED <<checkpoints, erased, clobbered>>
      /\ pc = "idle" /\ Cardinality(Erases) < MaxErase
  BY DEF WriteRequest, tables, space, saved
<1>2. JournalInv'
  BY <1>1, JournalKept
<1>3. victim = NoBlock /\ todo = {}
  BY <1>1 DEF ControlInv
<1>4. CASE ~NeedsGc
  <2>1. /\ pc' = "write" /\ lpn' = l /\ victim' = victim /\ todo' = todo
        /\ overlap' = overlap
    BY <1>4 DEF WriteRequest
  <2>2. TableTypes'
    BY <1>1, <2>1 DEF TableTypes
  <2>3. StateInv' /\ WorkspaceInv'
    BY <1>1, <2>1 DEF StateInv, WorkspaceInv
  <2>4. Room(reclaimed, nextPage) > 0 \/ invalidKeys = {}
    <3>1. GcLowWatermark * PagesPerBlock \in Nat
      BY Geometry, FtlAssumption
    <3>2. Room(reclaimed, nextPage) \in Int
      BY Geometry DEF TableTypes, Room
    <3> QED
      BY <1>4, <3>1, <3>2, FreeIsFree DEF NeedsGc
  <2>5. ControlInv'
    BY <1>1, <1>3, <2>1, <2>4 DEF ControlInv
  <2>6. MovingInv'
    <3>1. ~(~overlap /\ failed /\ PagesPerBlock > 1)
      BY <2>4, StuckRoom
    <3> QED
      BY <1>1, <2>1, <3>1 DEF MovingInv
  <2> QED
    BY <1>2, <2>2, <2>3, <2>5, <2>6
<1>5. CASE NeedsGc /\ ~Workspace
  <2>1. /\ pc' = pc /\ lpn' = lpn /\ victim' = victim /\ todo' = todo
        /\ overlap' = overlap
    BY <1>5 DEF WriteRequest, control
  <2>2. TableTypes'
    BY <1>1, <2>1 DEF TableTypes
  <2>3. StateInv' /\ WorkspaceInv'
    BY <1>1, <2>1 DEF StateInv, WorkspaceInv
  <2>4. ControlInv' /\ MovingInv'
    BY <1>1, <2>1 DEF ControlInv, MovingInv
  <2> QED
    BY <1>2, <2>2, <2>3, <2>4
<1>6. CASE NeedsGc /\ Workspace
  <2>1. /\ pc' = "relocate" /\ lpn' = l /\ victim' = Victim
        /\ todo' = validLpns[Victim]
        /\ overlap' = (overlap \/ \E p \in FreeSet : BlockKey(p) = Victim)
    BY <1>6 DEF WriteRequest
  <2>2. /\ Victim \in Candidates /\ Victim \in Blocks
        /\ Room(reclaimed, nextPage) >= Cardinality(validLpns[Victim])
    BY <1>6, VictimIsCandidate, FreeIsFree DEF Workspace, TableTypes
  <2>3. IsFiniteSet(validLpns[Victim]) /\ validLpns[Victim] \subseteq Lpns
    BY <2>2 DEF StateInv, TablesInv, TableTypes
  <2>4. ~(~overlap /\ failed /\ PagesPerBlock > 1)
    <3> SUFFICES ASSUME ~overlap, failed, PagesPerBlock > 1 PROVE FALSE
      OBVIOUS
    <3>1. Room(reclaimed, nextPage) = 0 /\ validLpns[Victim] # {}
      BY <2>2, StuckRoom DEF Candidates
    <3>2. Cardinality(validLpns[Victim]) \in Nat
            /\ Cardinality(validLpns[Victim]) # 0
      BY <2>3, <3>1, FS_CardinalityType, FS_EmptySet
    <3> QED
      BY <2>2, <3>1, <3>2
  <2>5. TableTypes'
    BY <1>1, <2>1, <2>2, <2>3 DEF TableTypes
  <2>6. ControlInv'
    BY <1>1, <2>1, <2>2, NoneIsNoPage, EraseBound DEF ControlInv, TableTypes
  <2>7. ~overlap' => /\ ~overlap
                     /\ \A p \in Free(reclaimed, nextPage) : BlockKey(p) # Victim
    BY <2>1, FreeIsFree
  <2>8. WorkspaceInv'
    BY <1>1, <2>1, <2>2, <2>7 DEF WorkspaceInv
  <2>9. MovingInv'
    <3>1. ~overlap /\ ~failed => validLpns[Victim] = Live(mapping, Victim)
      BY <1>3, <2>2, NoneIsNoPage DEF StateInv, TablesInv, Indexed
    <3> QED
      BY <1>1, <2>1, <2>3, <2>4, <2>7, <3>1 DEF MovingInv
  <2>10. StateInv'
    <3>1. TablesInv(mapping, validLpns, invalidPages, invalidKeys, reclaimed,
                    nextPage, overlap, failed, NoBlock)
      BY <1>3 DEF StateInv
    <3>2. TablesInv(mapping, validLpns, invalidPages, invalidKeys, reclaimed,
                    nextPage, overlap', failed, Victim)
      BY <2>4, <2>7, <3>1, NoneIsNoPage
         DEF TablesInv, Trusted, Indexed, Counted
    <3> QED
      BY <1>1, <2>1, <3>2 DEF StateInv
  <2> QED
    BY <1>2, <2>5, <2>6, <2>8, <2>9, <2>10
<1> QED
  BY <1>4, <1>5, <1>6

(* Outside garbage collection's victim, an allocation can use every page.  *)
LEMMA RoomToAllocate ==
    ASSUME TableTypes, NEW avoid, Room(reclaimed, nextPage) > 0,
           \A p \in Free(reclaimed, nextPage) : BlockKey(p) # avoid
    PROVE  CanAllocate(avoid)
<1>1. nextPage \in Nat /\ CapacityPages \in Nat /\ nextPage <= CapacityPages
      /\ Len(reclaimed) \in Nat
  BY Geometry DEF TableTypes
<1>2. CASE Len(reclaimed) = 0
  BY <1>1, <1>2 DEF CanAllocate, Room
<1>3. CASE Len(reclaimed) > 0
  <2>1. 1 \in 1 .. Len(reclaimed) /\ reclaimed[1] \in Free(reclaimed, nextPage)
    BY <1>1, <1>3 DEF Free
  <2> QED
    BY <2>1 DEF CanAllocate, Usable
<1> QED
  BY <1>1, <1>2, <1>3

LEMMA RelocateStep ==
    ASSUME FtlInv, Relocate
    PROVE  FtlInv'
<1> USE DEF FtlInv
<1> DEFINE l == CHOOSE x \in todo : \A y \in todo : x <= y
           page == AllocatedPage(victim)
           F == Free(reclaimed, nextPage)
           F2 == Free(reclaimed', nextPage')
<1>1. /\ UNCHANGED <<invalidPages, invalidKeys, eraseCounts>>
      /\ UNCHANGED <<overlap, failed, journal, checkpoints, erased>>
      /\ pc = "relocate" /\ todo # {}
  BY DEF Relocate, history
<1>2. l \in todo /\ l \in Lpns /\ IsFiniteSet(todo)
  <2>1. todo \subseteq Nat /\ todo \subseteq Lpns
    BY FtlAssumption DEF TableTypes
  <2>2. \E x \in todo : \A y \in todo : x <= y
    BY <1>1, <2>1, LeastNatural
  <2>3. l \in todo
    BY <2>2, Zenon
  <2> QED
    BY <2>1, <2>3 DEF MovingInv
<1>3. Cardinality(todo) \in Nat /\ Cardinality(todo) > 0
  BY <1>1, <1>2, FS_CardinalityType, FS_EmptySet
<1>4. victim \in Blocks
  BY <1>1 DEF ControlInv, TableTypes
<1>5. CASE CanAllocate(victim)
  <2>1. /\ TakePage(victim) /\ Program(page) /\ todo' = todo \ {l}
        /\ mapping' = [mapping EXCEPT ![l] = page]
        /\ validLpns' = [validLpns EXCEPT ![BlockKey(page)] = @ \cup {l}]
        /\ UNCHANGED <<pc, lpn, victim>>
    BY <1>5 DEF Relocate
  <2>2. /\ reclaimed' \in Seq(Pages) /\ nextPage' \in 0 .. CapacityPages
        /\ page \in F /\ page \in Pages /\ F2 \subseteq F
        /\ Room(reclaimed', nextPage') = Room(reclaimed, nextPage) - 1
        /\ SpaceOK(reclaimed, nextPage) =>
              SpaceOK(reclaimed', nextPage') /\ F2 = F \ {page}
    BY <1>5, <2>1, Allocation DEF TableTypes
  <2>3. BlockKey(page) \in Blocks
    BY <2>2, PageShape
  <2>4. JournalInv' /\ clobbered' \subseteq Pages
    BY <1>1, <1>5, <2>1, JournalProgrammed
  <2>5. F \subseteq Pages
    BY FreeInPages DEF TableTypes
  <2> HIDE DEF l, page
  <2>6. TableTypes'
    <3>1. /\ mapping' \in [Lpns -> Pages \cup {NoPage}]
          /\ validLpns' \in [Blocks -> SUBSET Lpns] /\ todo' \subseteq Lpns
      BY <1>2, <2>1, <2>2, <2>3 DEF TableTypes
    <3> QED
      BY <1>1, <2>1, <2>2, <2>4, <3>1 DEF TableTypes
  <2>7. ControlInv'
    BY <1>1, <2>1 DEF ControlInv
  <2>8. /\ IsFiniteSet(todo')
        /\ Cardinality(todo') = Cardinality(todo) - 1
    BY <1>2, <2>1, FS_RemoveElement
  <2>9. WorkspaceInv'
    <3> SUFFICES ASSUME ~overlap
                 PROVE  /\ \A p \in F2 : BlockKey(p) # victim
                        /\ Room(reclaimed', nextPage') >= Cardinality(todo')
      BY <1>1, <2>1 DEF WorkspaceInv
    <3>1. /\ \A p \in F : BlockKey(p) # victim
          /\ Room(reclaimed, nextPage) >= Cardinality(todo)
      BY <1>1 DEF WorkspaceInv
    <3>2. Room(reclaimed, nextPage) \in Int
      BY Geometry DEF TableTypes, Room
    <3> QED
      BY <1>3, <2>2, <2>8, <3>1, <3>2
  <2>10. ASSUME ~overlap, ~failed
         PROVE  /\ Live(mapping', victim) = todo'
                /\ Indexed(mapping', validLpns', victim)
                /\ Counted(mapping', F2, invalidPages, victim)
    <3>1. /\ SpaceOK(reclaimed, nextPage) /\ Kept(mapping, F)
          /\ Indexed(mapping, validLpns, victim)
          /\ Counted(mapping, F, invalidPages, victim)
      BY <2>10 DEF StateInv, TablesInv, Trusted
    <3>2. Live(mapping, victim) = todo
      BY <1>1, <2>10 DEF MovingInv
    <3>3. BlockKey(page) # victim
      BY <1>1, <2>2, <2>10 DEF WorkspaceInv
    <3>4. mapping[l] # NoPage /\ BlockKey(mapping[l]) = victim
      BY <1>2, <3>2 DEF Live
    <3>5. F2 = F \ {page}
      BY <2>2, <3>1
    <3>6. mapping \in [Lpns -> Pages \cup {NoPage}]
          /\ validLpns \in [Blocks -> SUBSET Lpns]
      BY DEF TableTypes
    <3>7. Remapped(mapping, l, F, page, mapping', F2)
      <4>1. mapping' = Remap(mapping, l, page)
        BY <2>1 DEF Remap
      <4> HIDE DEF F, F2
      <4> QED
        BY <1>2, <2>2, <2>5, <3>1, <3>5, <3>6, <4>1, PageMapped
    <3> HIDE DEF F, F2
    <3>8. Live(mapping', victim) = todo'
      BY <1>4, <2>1, <3>2, <3>3, <3>7 DEF Remapped
    <3>9. ASSUME NEW b \in Blocks \ {victim}
          PROVE  validLpns'[b] = Live(mapping', b)
      <4>1. l \notin Live(mapping, b)
        BY <3>4 DEF Live
      <4>2. validLpns[b] = Live(mapping, b)
        BY <3>1 DEF Indexed
      <4>3. CASE b = BlockKey(page)
        BY <2>1, <2>3, <3>6, <3>7, <4>2, <4>3 DEF Remapped
      <4>4. CASE b # BlockKey(page)
        <5>1. validLpns'[b] = validLpns[b]
          BY <2>1, <2>3, <3>6, <4>4
        <5>2. Live(mapping', b) = Live(mapping, b) \ {l}
          BY <3>7, <4>4, Zenon DEF Remapped
        <5> QED
          BY <4>1, <4>2, <5>1, <5>2
      <4> QED
        BY <4>3, <4>4
    <3>10. Counted(mapping', F2, invalidPages, victim)
      <4>1. \A b \in Blocks \ {victim} :
              Dead(mapping', F2, b) = Dead(mapping, F, b)
        BY <3>4, <3>7, Zenon DEF Remapped
      <4> QED
        BY <3>1, <4>1 DEF Counted
    <3> QED
      BY <3>8, <3>9, <3>10 DEF Indexed
  <2>11. MovingInv'
    BY <1>1, <2>1, <2>8, <2>10 DEF MovingInv
  <2>12. \A b \in Blocks : IsFiniteSet(validLpns'[b])
    <3> SUFFICES ASSUME NEW b \in Blocks PROVE IsFiniteSet(validLpns'[b])
      OBVIOUS
    <3>1. IsFiniteSet(validLpns[b])
      BY DEF StateInv, TablesInv
    <3>2. validLpns'[b] = validLpns[b] \/ validLpns'[b] = validLpns[b] \cup {l}
      BY <2>1, <2>3 DEF TableTypes
    <3> QED
      BY <3>1, <3>2, FS_AddElement
  <2>13. ASSUME Trusted(overlap, failed)
         PROVE  SpaceOK(reclaimed', nextPage') /\ Kept(mapping', F2)
    <3>1. SpaceOK(reclaimed, nextPage) /\ Kept(mapping, F)
      BY <2>13 DEF StateInv, TablesInv
    <3>2. F2 = F \ {page} /\ SpaceOK(reclaimed', nextPage')
      BY <2>2, <3>1
    <3>3. mapping \in [Lpns -> Pages \cup {NoPage}]
      BY DEF TableTypes
    <3>4. Kept(mapping', F2)
      <4> HIDE DEF F, F2
      <4>1. mapping' = Remap(mapping, l, page)
        BY <2>1 DEF Remap
      <4> QED
        BY <1>2, <2>2, <2>5, <3>1, <3>2, <3>3, <4>1, PageMapped DEF Remapped
    <3> QED
      BY <3>2, <3>4
  <2>14. ~(~overlap /\ failed /\ PagesPerBlock > 1)
    BY <1>1 DEF MovingInv
  <2>15. \A b \in Blocks \ invalidKeys : invalidPages[b] = 0
    BY DEF StateInv, TablesInv
  <2>16. StateInv'
    BY <1>1, <2>1, <2>10, <2>12, <2>13, <2>14, <2>15 DEF StateInv, TablesInv
  <2> QED
    BY <2>4, <2>6, <2>7, <2>9, <2>11, <2>16
<1>6. CASE ~CanAllocate(victim)
  <2>1. /\ pc' = "idle" /\ todo' = {} /\ victim' = NoBlock /\ lpn' = 0
        /\ UNCHANGED <<mapping, validLpns, space, clobbered>>
    BY <1>6 DEF Relocate
  <2>2. UNCHANGED <<nextPage, reclaimed>> /\ UNCHANGED <<space, saved>>
    BY <1>1, <2>1 DEF space, saved
  <2>3. JournalInv'
    BY <2>2, JournalKept
  <2>4. overlap
    <3> SUFFICES ASSUME ~overlap PROVE FALSE
      OBVIOUS
    <3>1. /\ \A p \in F : BlockKey(p) # victim
          /\ Room(reclaimed, nextPage) >= Cardinality(todo)
      BY <1>1 DEF WorkspaceInv
    <3>2. Room(reclaimed, nextPage) \in Int
      BY Geometry DEF TableTypes, Room
    <3> QED
      BY <1>3, <1>6, <3>1, <3>2, RoomToAllocate
  <2>5. TableTypes'
    BY <1>1, <2>1, <2>2 DEF TableTypes
  <2>6. ControlInv' /\ WorkspaceInv'
    BY <2>1 DEF ControlInv, WorkspaceInv
  <2>7. MovingInv'
    BY <1>1, <2>1, <2>4, FS_EmptySet DEF MovingInv
  <2>8. StateInv'
    BY <1>1, <2>1, <2>2, <2>4 DEF StateInv, TablesInv, Trusted
  <2> QED
    BY <2>3, <2>5, <2>6, <2>7, <2>8
<1> QED
  BY <1>5, <1>6

LEMMA ReclaimStep ==
    ASSUME FtlInv, Reclaim
    PROVE  FtlInv'
<1> USE DEF FtlInv
<1> DEFINE F == Free(reclaimed, nextPage)
           F2 == Free(reclaimed', nextPage')
<1>1. /\ UNCHANGED <<mapping, invalidKeys, nextPage, lpn>>
      /\ UNCHANGED <<overlap, failed, journal, checkpoints, clobbered>>
      /\ pc = "relocate" /\ todo = {}
      /\ pc' = "write" /\ victim' = NoBlock /\ todo' = {}
  BY DEF Reclaim, AllMoved, history
<1>2. /\ validLpns' = [validLpns EXCEPT ![victim] = {}]
      /\ invalidPages' = [invalidPages EXCEPT ![victim] = 0]
      /\ eraseCounts' = [eraseCounts EXCEPT ![victim] = @ + 1]
      /\ reclaimed' = reclaimed
                        \o [i \in 1 .. PagesPerBlock |-> Append(victim, i - 1)]
      /\ erased' = IF journal = NoJournal THEN {} ELSE erased \cup {victim}
  BY DEF Reclaim, ClearVictim, ErasedPages
<1>3. victim \in Blocks /\ lpn \in Lpns
  BY <1>1 DEF ControlInv, TableTypes
<1>4. /\ mapping \in [Lpns -> Pages \cup {NoPage}]
      /\ reclaimed \in Seq(Pages) /\ nextPage \in 0 .. CapacityPages
      /\ F \subseteq Pages
  BY FreeInPages DEF TableTypes
<1>5. /\ reclaimed' \in Seq(Pages)
      /\ Len(reclaimed') = Len(reclaimed) + PagesPerBlock
      /\ F2 = F \cup PagesOf(victim)
      /\ SpaceOK(reclaimed, nextPage) /\ F \cap PagesOf(victim) = {} =>
            SpaceOK(reclaimed', nextPage')
  BY <1>1, <1>2, <1>3, <1>4, BlockErased, Zenon
<1>6. TableTypes'
  <2>1. /\ validLpns' \in [Blocks -> SUBSET Lpns]
        /\ invalidPages' \in [Blocks -> Nat]
    BY <1>2, <1>3 DEF TableTypes
  <2>2. eraseCounts' \in [Blocks -> 0 .. MaxErase]
    <3>1. eraseCounts[victim] + 1 \in 0 .. MaxErase
      BY <1>1, <1>3, FtlAssumption DEF TableTypes, ControlInv
    <3> QED
      BY <1>2, <3>1 DEF TableTypes
  <2>3. erased' \subseteq Blocks
    BY <1>2, <1>3 DEF TableTypes
  <2> QED
    BY <1>1, <1>3, <1>5, <2>1, <2>2, <2>3 DEF TableTypes
<1>7. ControlInv'
  <2>1. Room(reclaimed', nextPage') > 0
    BY <1>1, <1>5, Geometry DEF Room, TableTypes
  <2> QED
    BY <1>1, <1>3, <2>1 DEF ControlInv
<1>8. WorkspaceInv'
  BY <1>1 DEF WorkspaceInv
<1>9. ~(~overlap /\ failed /\ PagesPerBlock > 1)
  BY <1>1 DEF MovingInv
<1>10. MovingInv'
  BY <1>1, <1>9, FS_EmptySet DEF MovingInv
<1>11. JournalInv'
  <2>1. ASSUME journal # NoJournal, Trusted(journal.overlap, journal.failed)
        PROVE  /\ clobbered = {}
               /\ \A l \in Lpns : \/ journal.mapping[l] = NoPage
                                  \/ journal.mapping[l] \notin F2
                                  \/ BlockKey(journal.mapping[l]) \in erased'
    <3>1. /\ clobbered = {}
          /\ \A l \in Lpns : \/ journal.mapping[l] = NoPage
                             \/ journal.mapping[l] \notin F
                             \/ BlockKey(journal.mapping[l]) \in erased
      BY <2>1 DEF JournalInv
    <3> HIDE DEF F, F2
    <3>2. erased' = erased \cup {victim}
      BY <1>2, <2>1
    <3> QED
      BY <1>5, <3>1, <3>2, Zenon DEF PagesOf
  <2> QED
    BY <1>1, <2>1 DEF JournalInv
<1>12. ASSUME ~overlap
       PROVE  F \cap PagesOf(victim) = {}
  BY <1>1, <1>12 DEF WorkspaceInv, PagesOf
<1>13. ASSUME Trusted(overlap, failed)
       PROVE  /\ SpaceOK(reclaimed', nextPage') /\ Kept(mapping, F2)
              /\ Live(mapping, victim) = {}
  <2>1. /\ SpaceOK(reclaimed, nextPage) /\ Kept(mapping, F)
        /\ ~overlap /\ ~failed
    BY <1>9, <1>13, Geometry DEF StateInv, TablesInv, Trusted
  <2>2. Live(mapping, victim) = {}
    BY <1>1, <2>1 DEF MovingInv
  <2> HIDE DEF F, F2
  <2>3. Kept(mapping, F \cup PagesOf(victim))
    BY <1>3, <1>4, <2>1, <2>2, BlockFreed
  <2> QED
    BY <1>5, <1>12, <2>1, <2>2, <2>3
<1>14. ASSUME ~overlap, ~failed
       PROVE  /\ Indexed(mapping, validLpns', NoBlock)
              /\ Counted(mapping, F2, invalidPages', NoBlock)
  <2>1. /\ Indexed(mapping, validLpns, victim)
        /\ Counted(mapping, F, invalidPages, victim)
    BY <1>14 DEF StateInv, TablesInv
  <2>2. Live(mapping, victim) = {}
    BY <1>13, <1>14 DEF Trusted
  <2>3. /\ validLpns \in [Blocks -> SUBSET Lpns]
        /\ invalidPages \in [Blocks -> Nat]
    BY DEF TableTypes
  <2> HIDE DEF F, F2
  <2>4. ASSUME NEW b \in Blocks PROVE validLpns'[b] = Live(mapping, b)
    BY <1>2, <2>1, <2>2, <2>3 DEF Indexed
  <2>5. ASSUME NEW b \in Blocks
        PROVE  invalidPages'[b] = Cardinality(Dead(mapping, F2, b))
    <3>1. CASE b = victim
      <4>1. Dead(mapping, F2, b) = {}
        BY <1>3, <1>4, <1>5, <3>1, BlockFreed
      <4>2. invalidPages'[b] = 0
        BY <1>2, <2>3, <3>1
      <4> QED
        BY <4>1, <4>2, FS_EmptySet
    <3>2. CASE b # victim
      <4>1. Dead(mapping, F2, b) = Dead(mapping, F, b)
        BY <1>5, <3>2, Zenon DEF Dead, PagesOf
      <4>2. invalidPages'[b] = invalidPages[b]
        BY <1>2, <2>3, <3>2
      <4> QED
        BY <2>1, <3>2, <4>1, <4>2 DEF Counted
    <3> QED
      BY <3>1, <3>2
  <2> QED
    BY <2>4, <2>5 DEF Indexed, Counted
<1>15. /\ \A b \in Blocks : IsFiniteSet(validLpns'[b])
       /\ \A b \in Blocks \ invalidKeys : invalidPages'[b] = 0
  <2>1. /\ \A b \in Blocks : IsFiniteSet(validLpns[b])
        /\ \A b \in Blocks \ invalidKeys : invalidPages[b] = 0
    BY DEF StateInv, TablesInv
  <2> QED
    BY <1>2, <2>1, FS_EmptySet DEF TableTypes
<1>16. StateInv'
  BY <1>1, <1>9, <1>13, <1>14, <1>15 DEF StateInv, TablesInv
<1> QED
  BY <1>6, <1>7, <1>8, <1>10, <1>11, <1>16

LEMMA WriteTemporaryStep ==
    ASSUME FtlInv, WriteTemporary
    PROVE  FtlInv'
<1> USE DEF FtlInv
<1>1. /\ UNCHANGED <<mapping, validLpns, invalidPages, invalidKeys>>
      /\ UNCHANGED <<eraseCounts, nextPage, reclaimed, overlap, failed>>
      /\ UNCHANGED <<lpn, victim, todo, journal, erased, clobbered>>
      /\ pc = "idle" /\ pc' = "journal" /\ checkpoints < MaxCheckpoints
      /\ checkpoints' = checkpoints + 1
  BY DEF WriteTemporary, tables, space, history
<1>2. checkpoints' \in 0 .. MaxCheckpoints
  BY <1>1, FtlAssumption DEF TableTypes
<1>3. TableTypes'
  BY <1>1, <1>2 DEF TableTypes
<1>4. StateInv' /\ WorkspaceInv'
  BY <1>1 DEF StateInv, WorkspaceInv
<1>5. ControlInv' /\ MovingInv'
  BY <1>1 DEF ControlInv, MovingInv
<1>6. JournalInv'
  BY <1>1 DEF JournalInv
<1> QED
  BY <1>3, <1>4, <1>5, <1>6

LEMMA ReplaceJournalStep ==
    ASSUME FtlInv, ReplaceJournal
    PROVE  FtlInv'
<1> USE DEF FtlInv
<1>1. /\ UNCHANGED <<mapping, validLpns, invalidPages, invalidKeys>>
      /\ UNCHANGED <<eraseCounts, nextPage, reclaimed, overlap, failed>>
      /\ UNCHANGED <<lpn, victim, todo, checkpoints>>
      /\ pc = "journal" /\ pc' = "idle"
      /\ journal' = Checkpoint /\ erased' = {} /\ clobbered' = {}
  BY DEF ReplaceJournal, tables, space, history
<1>2. TableTypes'
  BY <1>1 DEF TableTypes
<1>3. StateInv' /\ WorkspaceInv'
  BY <1>1 DEF StateInv, WorkspaceInv
<1>4. ControlInv' /\ MovingInv'
  BY <1>1 DEF ControlInv, MovingInv
<1>5. victim = NoBlock
  BY <1>1 DEF ControlInv
<1>6. /\ Checkpoint.mapping = mapping /\ Checkpoint.validLpns = validLpns
      /\ Checkpoint.invalidPages = invalidPages
      /\ Checkpoint.invalidKeys = invalidKeys
      /\ Checkpoint.reclaimed = reclaimed /\ Checkpoint.nextPage = nextPage
      /\ Checkpoint.overlap = overlap /\ Checkpoint.failed = failed
  BY DEF Checkpoint
<1>7. Checkpoint \in JournalTables
  BY DEF Checkpoint, JournalTables, TableTypes
<1>8. TablesInv(Checkpoint.mapping, Checkpoint.validLpns,
                Checkpoint.invalidPages, Checkpoint.invalidKeys,
                Checkpoint.reclaimed, Checkpoint.nextPage, Checkpoint.overlap,
                Checkpoint.failed, NoBlock)
  BY <1>5, <1>6 DEF StateInv
<1>9. Trusted(Checkpoint.overlap, Checkpoint.failed) =>
        \A l \in Lpns : Checkpoint.mapping[l] \notin Free(reclaimed, nextPage)
  BY <1>6 DEF StateInv, TablesInv, Kept
<1>10. JournalInv'
  BY <1>1, <1>7, <1>8, <1>9 DEF JournalInv
<1> QED
  BY <1>2, <1>3, <1>4, <1>10

LEMMA RecoverStep ==
    ASSUME FtlInv, Recover
    PROVE  FtlInv'
<1> USE DEF FtlInv
<1>1. /\ journal # NoJournal /\ journal \in JournalTables
      /\ TablesInv(journal.mapping, journal.validLpns,
                   journal.invalidPages, journal.invalidKeys,
                   journal.reclaimed, journal.nextPage, journal.overlap,
                   journal.failed, NoBlock)
  BY DEF Recover, JournalInv
<1>2. /\ nextPage' = journal.nextPage /\ reclaimed' = journal.reclaimed
      /\ mapping' = journal.mapping /\ validLpns' = journal.validLpns
      /\ invalidPages' = journal.invalidPages
      /\ invalidKeys' = journal.invalidKeys
      /\ eraseCounts' = journal.eraseCounts
  BY DEF Recover
<1>3. /\ pc' = "idle" /\ lpn' = 0 /\ victim' = NoBlock /\ todo' = {}
      /\ overlap' = journal.overlap /\ failed' = journal.failed
      /\ UNCHANGED <<journal, checkpoints, erased, clobbered>>
  BY DEF Recover, saved
<1>4. TableTypes'
  <2>1. /\ nextPage' \in 0 .. CapacityPages /\ reclaimed' \in Seq(Pages)
        /\ mapping' \in [Lpns -> Pages \cup {NoPage}]
        /\ validLpns' \in [Blocks -> SUBSET Lpns]
        /\ invalidPages' \in [Blocks -> Nat] /\ invalidKeys' \subseteq Blocks
        /\ eraseCounts' \in [Blocks -> 0 .. MaxErase]
    BY <1>1, <1>2 DEF JournalTables
  <2>2. overlap' \in BOOLEAN /\ failed' \in BOOLEAN
    BY <1>1, <1>3 DEF JournalTables
  <2> QED
    BY <1>3, <2>1, <2>2 DEF TableTypes
<1>5. StateInv'
  BY <1>1, <1>2, <1>3 DEF StateInv
<1>6. ControlInv' /\ WorkspaceInv' /\ MovingInv'
  BY <1>3, FS_EmptySet DEF ControlInv, WorkspaceInv, MovingInv
<1>7. Trusted(journal.overlap, journal.failed) =>
        \A l \in Lpns : journal.mapping[l] \notin Free(reclaimed', nextPage')
  BY <1>1, <1>2 DEF TablesInv, Kept
<1>8. JournalInv'
  BY <1>3, <1>7 DEF JournalInv
<1> QED
  BY <1>4, <1>5, <1>6, <1>8

(* write() that finds a page.                                              *)
LEMMA WriteStep ==
    ASSUME FtlInv, Write, CanAllocate(NoBlock)
    PROVE  FtlInv'
<1> USE DEF FtlInv
<1> DEFINE old == mapping[lpn]
           page == AllocatedPage(NoBlock)
           F == Free(reclaimed, nextPage)
           F2 == Free(reclaimed', nextPage')
           dropped == IF old = NoPage THEN validLpns
                      ELSE [validLpns EXCEPT ![BlockKey(old)] = @ \ {lpn}]
<1>1. /\ UNCHANGED <<eraseCounts, victim, todo, overlap, failed>>
      /\ UNCHANGED <<journal, checkpoints, erased>>
      /\ pc = "write" /\ pc' = "idle" /\ lpn' = 0
  BY DEF Write
<1>2. /\ TakePage(NoBlock) /\ Program(page)
      /\ mapping' = [mapping EXCEPT ![lpn] = page]
      /\ validLpns' = [dropped EXCEPT ![BlockKey(page)] = @ \cup {lpn}]
  BY DEF Write
<1>3. /\ old = NoPage => UNCHANGED <<invalidPages, invalidKeys>>
      /\ old # NoPage =>
            /\ invalidPages' = [invalidPages EXCEPT ![BlockKey(old)] = @ + 1]
            /\ invalidKeys' = invalidKeys \cup {BlockKey(old)}
  BY DEF Write
<1>4. /\ lpn \in Lpns /\ victim = NoBlock /\ todo = {}
      /\ ~(~overlap /\ failed /\ PagesPerBlock > 1)
  BY <1>1 DEF ControlInv, MovingInv
<1>5. /\ mapping \in [Lpns -> Pages \cup {NoPage}]
      /\ validLpns \in [Blocks -> SUBSET Lpns]
      /\ invalidPages \in [Blocks -> Nat] /\ invalidKeys \subseteq Blocks
  BY DEF TableTypes
<1>6. old # NoPage => old \in Pages /\ BlockKey(old) \in Blocks
  BY <1>4, <1>5, PageShape
<1>7. /\ reclaimed' \in Seq(Pages) /\ nextPage' \in 0 .. CapacityPages
      /\ page \in F /\ page \in Pages /\ F2 \subseteq F
      /\ SpaceOK(reclaimed, nextPage) =>
            SpaceOK(reclaimed', nextPage') /\ F2 = F \ {page}
  BY <1>2, Allocation DEF TableTypes
<1>8. BlockKey(page) \in Blocks /\ F \subseteq Pages
  BY <1>7, PageShape, FreeInPages DEF TableTypes
<1>9. JournalInv' /\ clobbered' \subseteq Pages
  BY <1>1, <1>2, JournalProgrammed
<1> HIDE DEF page, F, F2
<1>10. /\ dropped \in [Blocks -> SUBSET Lpns]
       /\ \A b \in Blocks : dropped[b] = validLpns[b]
                            \/ dropped[b] = validLpns[b] \ {lpn}
  BY <1>5, <1>6
<1> HIDE DEF dropped
<1>11. /\ validLpns' \in [Blocks -> SUBSET Lpns]
       /\ \A b \in Blocks : validLpns'[b] = IF b = BlockKey(page)
                                            THEN dropped[b] \cup {lpn}
                                            ELSE dropped[b]
  BY <1>2, <1>4, <1>8, <1>10
<1>12. TableTypes'
  <2>1. mapping' \in [Lpns -> Pages \cup {NoPage}]
    BY <1>2, <1>4, <1>5, <1>7
  <2> HIDE DEF old
  <2>2. invalidPages' \in [Blocks -> Nat] /\ invalidKeys' \subseteq Blocks
    BY <1>3, <1>5, <1>6
  <2> QED
    BY <1>1, <1>7, <1>9, <1>11, <2>1, <2>2 DEF TableTypes
<1>13. ControlInv' /\ WorkspaceInv' /\ MovingInv'
  BY <1>1, <1>4, FS_EmptySet DEF ControlInv, WorkspaceInv, MovingInv
<1>14. \A b \in Blocks : IsFiniteSet(validLpns'[b])
  <2> SUFFICES ASSUME NEW b \in Blocks PROVE IsFiniteSet(validLpns'[b])
    OBVIOUS
  <2>1. IsFiniteSet(validLpns[b])
    BY DEF StateInv, TablesInv
  <2>2. IsFiniteSet(dropped[b])
    BY <1>10, <2>1, FS_Subset
  <2>3. IsFiniteSet(dropped[b] \cup {lpn})
    BY <2>2, FS_AddElement
  <2> QED
    BY <1>11, <2>2, <2>3
<1>15. \A b \in Blocks \ invalidKeys' : invalidPages'[b] = 0
  <2>1. \A b \in Blocks \ invalidKeys : invalidPages[b] = 0
    BY DEF StateInv, TablesInv
  <2> HIDE DEF old
  <2> QED
    BY <1>3, <1>5, <1>6, <2>1
<1>16. ASSUME Trusted(overlap, failed)
       PROVE  /\ SpaceOK(reclaimed', nextPage')
              /\ Remapped(mapping, lpn, F, page, mapping', F2)
  <2>1. SpaceOK(reclaimed, nextPage) /\ Kept(mapping, F)
    BY <1>16 DEF StateInv, TablesInv, F
  <2>2. mapping' = Remap(mapping, lpn, page)
    BY <1>2 DEF Remap
  <2>3. Remapped(mapping, lpn, F, page, mapping', F \ {page})
    BY <1>4, <1>5, <1>7, <1>8, <2>1, <2>2, PageMapped
  <2> QED
    BY <1>7, <2>1, <2>3
<1>17. ASSUME ~overlap, ~failed
       PROVE  /\ Indexed(mapping', validLpns', NoBlock)
              /\ Counted(mapping', F2, invalidPages', NoBlock)
  <2>1. /\ Indexed(mapping, validLpns, NoBlock)
        /\ Counted(mapping, F, invalidPages, NoBlock)
    BY <1>4, <1>17 DEF StateInv, TablesInv, F
  <2>2. Remapped(mapping, lpn, F, page, mapping', F2)
    BY <1>16, <1>17 DEF Trusted
  <2>3. \A b \in Blocks : /\ validLpns[b] = Live(mapping, b)
                          /\ invalidPages[b] = Cardinality(Dead(mapping, F, b))
    BY <2>1, NoneIsNoPage DEF Indexed, Counted
  <2>4. ASSUME NEW b \in Blocks
        PROVE  validLpns'[b] = Live(mapping', b)
    <3>1. dropped[b] \ {lpn} = Live(mapping, b) \ {lpn}
      BY <1>10, <2>3
    <3>2. dropped[b] = Live(mapping, b) \ {lpn}
      <4>1. lpn \notin dropped[b]
        BY <1>5, <1>6, <2>3 DEF dropped, Live
      <4> QED
        BY <3>1, <4>1
    <3>3. CASE b = BlockKey(page)
      <4>1. Live(mapping', b) = Live(mapping, b) \cup {lpn}
        BY <2>2, <3>3, Zenon DEF Remapped
      <4> QED
        BY <1>11, <3>2, <3>3, <4>1
    <3>4. CASE b # BlockKey(page)
      <4>1. Live(mapping', b) = Live(mapping, b) \ {lpn}
        BY <2>2, <3>4, Zenon DEF Remapped
      <4> QED
        BY <1>11, <3>2, <3>4, <4>1
    <3> QED
      BY <3>3, <3>4
  <2>5. ASSUME NEW b \in Blocks
        PROVE  invalidPages'[b] = Cardinality(Dead(mapping', F2, b))
    <3>1. CASE old # NoPage /\ b = BlockKey(old)
      <4>1. /\ Dead(mapping', F2, b) = Dead(mapping, F, b) \cup {old}
            /\ old \notin Dead(mapping, F, b)
        BY <2>2, <3>1, Zenon DEF Remapped
      <4>2. IsFiniteSet(Dead(mapping, F, b))
        BY DeadFinite
      <4>3. Cardinality(Dead(mapping', F2, b))
              = Cardinality(Dead(mapping, F, b)) + 1
        BY <4>1, <4>2, FS_AddElement
      <4> HIDE DEF old
      <4>4. invalidPages'[b] = invalidPages[b] + 1
        BY <1>3, <1>5, <3>1
      <4> QED
        BY <2>3, <4>3, <4>4
    <3>2. CASE old = NoPage \/ b # BlockKey(old)
      <4>1. Dead(mapping', F2, b) = Dead(mapping, F, b)
        BY <2>2, <3>2, Zenon DEF Remapped
      <4> HIDE DEF old
      <4>2. invalidPages'[b] = invalidPages[b]
        BY <1>3, <1>5, <3>2
      <4> QED
        BY <2>3, <4>1, <4>2
    <3> QED
      BY <3>1, <3>2
  <2> QED
    BY <2>4, <2>5 DEF Indexed, Counted
<1>18. ASSUME Trusted(overlap, failed)
       PROVE  SpaceOK(reclaimed', nextPage') /\ Kept(mapping', F2)
  BY <1>16, <1>18, Zenon DEF Remapped
<1>19. StateInv'
  BY <1>1, <1>4, <1>14, <1>15, <1>17, <1>18 DEF StateInv, TablesInv, F2
<1> QED
  BY <1>9, <1>12, <1>13, <1>19

(* write() that finds none: the old page has left the reverse index and    *)
(* counts as invalid, but stays mapped.                                    *)
LEMMA WriteFailsStep ==
    ASSUME FtlInv, Write, ~CanAllocate(NoBlock)
    PROVE  FtlInv'
<1> USE DEF FtlInv
<1> DEFINE old == mapping[lpn]
           F == Free(reclaimed, nextPage)
<1>1. /\ UNCHANGED <<eraseCounts, victim, todo, overlap, mapping, clobbered>>
      /\ UNCHANGED <<journal, checkpoints, erased, nextPage, reclaimed>>
      /\ pc = "write" /\ pc' = "idle" /\ lpn' = 0
      /\ failed' = (failed \/ old # NoPage)
  BY DEF Write, space
<1>2. /\ old = NoPage => UNCHANGED <<invalidPages, invalidKeys, validLpns>>
      /\ old # NoPage =>
            /\ invalidPages' = [invalidPages EXCEPT ![BlockKey(old)] = @ + 1]
            /\ invalidKeys' = invalidKeys \cup {BlockKey(old)}
            /\ validLpns' = [validLpns EXCEPT ![BlockKey(old)] = @ \ {lpn}]
  BY DEF Write
<1>3. /\ lpn \in Lpns /\ victim = NoBlock /\ todo = {}
      /\ ~(~overlap /\ failed /\ PagesPerBlock > 1)
  BY <1>1 DEF ControlInv, MovingInv
<1>4. /\ mapping \in [Lpns -> Pages \cup {NoPage}]
      /\ validLpns \in [Blocks -> SUBSET Lpns]
      /\ invalidPages \in [Blocks -> Nat] /\ invalidKeys \subseteq Blocks
      /\ reclaimed \in Seq(Pages) /\ nextPage \in 0 .. CapacityPages
  BY DEF TableTypes
<1>5. old # NoPage => old \in Pages /\ BlockKey(old) \in Blocks
  BY <1>3, <1>4, PageShape
<1>6. \A p \in F : BlockKey(p) # NoBlock
  <2>1. F \subseteq Pages
    BY <1>4, FreeInPages
  <2> QED
    BY <2>1, PageShape, NoneIsNoPage
<1>7. ~(Room(reclaimed, nextPage) > 0)
  BY <1>6, RoomToAllocate
<1>8. reclaimed = <<>> /\ nextPage = CapacityPages /\ invalidKeys = {}
  <2>1. Len(reclaimed) = 0 /\ nextPage = CapacityPages
    BY <1>4, <1>7, Geometry DEF Room
  <2>2. reclaimed = <<>>
    BY <1>4, <2>1
  <2> QED
    BY <1>1, <1>7, <2>1, <2>2 DEF ControlInv
<1>9. F = {}
  BY <1>8, Geometry DEF Free, Beyond
<1>10. \A b \in Blocks : invalidPages[b] = 0
  BY <1>8 DEF StateInv, TablesInv
<1>11. JournalInv'
  BY <1>1, JournalKept DEF space, saved
<1>12. TableTypes'
  <2>1. failed' \in BOOLEAN
    BY <1>1, Zenon DEF TableTypes
  <2> HIDE DEF old
  <2>2. /\ invalidPages' \in [Blocks -> Nat] /\ invalidKeys' \subseteq Blocks
        /\ validLpns' \in [Blocks -> SUBSET Lpns]
    BY <1>2, <1>4, <1>5
  <2> QED
    BY <1>1, <2>1, <2>2 DEF TableTypes
<1>13. ControlInv' /\ WorkspaceInv' /\ MovingInv'
  BY <1>1, <1>3, FS_EmptySet DEF ControlInv, WorkspaceInv, MovingInv
<1>14. \A b \in Blocks : IsFiniteSet(validLpns'[b])
  <2> SUFFICES ASSUME NEW b \in Blocks PROVE IsFiniteSet(validLpns'[b])
    OBVIOUS
  <2>1. IsFiniteSet(validLpns[b])
    BY DEF StateInv, TablesInv
  <2> HIDE DEF old
  <2>2. validLpns'[b] = validLpns[b] \/ validLpns'[b] = validLpns[b] \ {lpn}
    BY <1>2, <1>4, <1>5
  <2> QED
    BY <2>1, <2>2, FS_Subset
<1>15. \A b \in Blocks \ invalidKeys' : invalidPages'[b] = 0
  <2> HIDE DEF old
  <2> QED
    BY <1>2, <1>4, <1>5, <1>10
<1>16. Trusted(overlap, failed') =>
          SpaceOK(reclaimed, nextPage) /\ Kept(mapping, F)
  <2>1. Trusted(overlap, failed') => Trusted(overlap, failed)
    BY <1>1, Zenon DEF Trusted
  <2> QED
    BY <2>1 DEF StateInv, TablesInv
<1>17. ASSUME ~overlap, ~failed'
       PROVE  /\ Indexed(mapping, validLpns', NoBlock)
              /\ Counted(mapping, F, invalidPages', NoBlock)
  <2>1. ~failed /\ old = NoPage
    BY <1>1, <1>17, Zenon
  <2>2. validLpns' = validLpns /\ invalidPages' = invalidPages
    BY <1>2, <2>1
  <2> QED
    BY <1>3, <1>17, <2>1, <2>2 DEF StateInv, TablesInv
<1>18. ASSUME ~overlap, failed', PagesPerBlock > 1
       PROVE  Stuck(reclaimed, nextPage, invalidPages', invalidKeys', validLpns')
  <2>1. ~failed /\ old # NoPage
    BY <1>1, <1>3, <1>18, Zenon
  <2>2. BlockKey(old) \in Blocks /\ old \in Pages
    BY <1>5, <2>1
  <2>3. invalidKeys' # {}
    BY <1>2, <2>1
  <2>4. \A b \in Blocks : b # BlockKey(old) => invalidPages'[b] = 0
    <3> HIDE DEF old
    <3> QED
      BY <1>2, <1>4, <1>10, <2>1, <2>2
  <2>5. validLpns'[BlockKey(old)] = Live(mapping, BlockKey(old)) \ {lpn}
    <3>1. validLpns[BlockKey(old)] = Live(mapping, BlockKey(old))
      BY <1>3, <1>18, <2>1, <2>2, NoneIsNoPage DEF StateInv, TablesInv, Indexed
    <3> HIDE DEF old
    <3> QED
      BY <1>2, <1>4, <2>1, <2>2, <3>1
  <2>6. Dead(mapping, F, BlockKey(old)) = {}
    <3>1. Cardinality(Dead(mapping, F, BlockKey(old))) = 0
      BY <1>3, <1>10, <1>18, <2>1, <2>2, NoneIsNoPage
         DEF StateInv, TablesInv, Counted
    <3>2. IsFiniteSet(Dead(mapping, F, BlockKey(old)))
      BY <2>2, DeadFinite
    <3> QED
      BY <3>1, <3>2, FS_EmptySet
  <2>7. PICK q \in Pages : BlockKey(q) = BlockKey(old) /\ q # old
    <3>1. PICK j \in 0 .. PagesPerBlock - 1 : j # old[4]
      <4>1. 0 \in 0 .. PagesPerBlock - 1 /\ 1 \in 0 .. PagesPerBlock - 1
        BY <1>18, Geometry
      <4>2. 0 # old[4] \/ 1 # old[4]
        OBVIOUS
      <4> QED
        BY <4>1, <4>2
    <3>2. /\ Append(BlockKey(old), j) \in Pages
          /\ BlockKey(Append(BlockKey(old), j)) = BlockKey(old)
          /\ Append(BlockKey(old), j)[4] = j
      BY <2>2, <3>1, PageShape
    <3> QED
      BY <3>1, <3>2
  <2>8. PICK k \in Lpns : mapping[k] = q
    BY <1>9, <2>6, <2>7, Zenon DEF Dead
  <2>9. k \in Live(mapping, BlockKey(old)) /\ k # lpn
    BY <2>7, <2>8, NoneIsNoPage DEF Live
  <2>10. validLpns'[BlockKey(old)] # {}
    BY <2>5, <2>9
  <2>11. \A b \in Blocks : invalidPages'[b] > 0 => validLpns'[b] # {}
    <3> HIDE DEF old
    <3> QED
      BY <2>4, <2>10
  <2> QED
    BY <1>8, <2>3, <2>11 DEF Stuck
<1>19. StateInv'
  BY <1>1, <1>3, <1>14, <1>15, <1>16, <1>17, <1>18 DEF StateInv, TablesInv
<1> QED
  BY <1>11, <1>12, <1>13, <1>19

LEMMA FtlStep == FtlInv /\ [Next]_vars => FtlInv'
<1> SUFFICES ASSUME FtlInv, [Next]_vars PROVE FtlInv'
  OBVIOUS
<1>1. ASSUME NEW l \in Lpns, WriteRequest(l) PROVE FtlInv'
  BY <1>1, WriteRequestStep
<1>2. CASE Relocate
  BY <1>2, RelocateStep
<1>3. CASE Reclaim
  BY <1>3, ReclaimStep
<1>4. CASE Write
  BY <1>4, WriteStep, WriteFailsStep
<1>5. CASE WriteTemporary
  BY <1>5, WriteTemporaryStep
<1>6. CASE ReplaceJournal
  BY <1>6, ReplaceJournalStep
<1>7. CASE Recover
  BY <1>7, RecoverStep
<1>8. CASE UNCHANGED vars
  <2>1. /\ UNCHANGED <<mapping, validLpns, invalidPages, invalidKeys>>
        /\ UNCHANGED <<eraseCounts, nextPage, reclaimed, overlap, failed>>
        /\ UNCHANGED <<pc, lpn, victim, todo>>
        /\ UNCHANGED <<journal, checkpoints, erased, clobbered>>
    BY <1>8 DEF vars, tables, space, control, history, saved
  <2>2. TableTypes' /\ StateInv'
    BY <2>1 DEF FtlInv, TableTypes, StateInv
  <2>3. ControlInv' /\ WorkspaceInv' /\ MovingInv'
    BY <2>1 DEF FtlInv, ControlInv, WorkspaceInv, MovingInv
  <2>4. JournalInv'
    BY <2>1 DEF FtlInv, JournalInv
  <2> QED
    BY <2>2, <2>3, <2>4 DEF FtlInv
<1> QED
  BY <1>1, <1>2, <1>3, <1>4, <1>5, <1>6, <1>7, <1>8 DEF Next


-----------------------------------------------------------------------------
(* What the invariant says of the properties.                              *)

(* As many pages are free as free_pages says.                              *)
LEMMA FreeCounted ==
    ASSUME NEW r \in Seq(Pages), NEW np \in 0 .. CapacityPages, SpaceOK(r, np)
    PROVE  Cardinality(Free(r, np)) = Room(r, np)
<1> DEFINE Q == {r[i] : i \in 1 .. Len(r)}
           f == [i \in 1 .. Len(r) |-> r[i]]
           g == [n \in np .. CapacityPages - 1 |-> PhysicalFromLinear(n)]
<1>1. IsFiniteSet(Q) /\ Cardinality(Q) = Len(r)
  <2>1. IsFiniteSet(1 .. Len(r)) /\ Cardinality(1 .. Len(r)) = Len(r)
    BY FS_Interval
  <2>2. f \in [1 .. Len(r) -> Q]
    OBVIOUS
  <2>3. \A x, y \in 1 .. Len(r) : f[x] = f[y] => x = y
    BY DEF SpaceOK
  <2>4. \A t \in Q : \E x \in 1 .. Len(r) : f[x] = t
    OBVIOUS
  <2> HIDE DEF f, Q
  <2> QED
    BY <2>1, <2>2, <2>3, <2>4, SameSize
<1>2. IsFiniteSet(Beyond(np)) /\ Cardinality(Beyond(np)) = CapacityPages - np
  <2> DEFINE N == np .. CapacityPages - 1
  <2>1. IsFiniteSet(N) /\ Cardinality(N) = CapacityPages - np
    <3>1. np \in Int /\ CapacityPages \in Int /\ np <= CapacityPages
      BY Geometry
    <3>2. /\ IsFiniteSet(N)
          /\ Cardinality(N) = IF np > CapacityPages - 1 THEN 0
                              ELSE CapacityPages - 1 - np + 1
      BY <3>1, FS_Interval
    <3> QED
      BY <3>1, <3>2
  <2>2. g \in [N -> Beyond(np)]
    BY DEF Beyond
  <2>3. \A x, y \in N : g[x] = g[y] => x = y
    <3> SUFFICES ASSUME NEW x \in N, NEW y \in N, g[x] = g[y] PROVE x = y
      OBVIOUS
    <3>1. x \in 0 .. CapacityPages - 1 /\ y \in 0 .. CapacityPages - 1
      BY Geometry
    <3>2. PhysicalFromLinear(x) = PhysicalFromLinear(y)
      OBVIOUS
    <3> QED
      BY <3>1, <3>2, PhysicalInjective
  <2>4. \A t \in Beyond(np) : \E x \in N : g[x] = t
    BY DEF Beyond
  <2> HIDE DEF g, N
  <2> QED
    BY <2>1, <2>2, <2>3, <2>4, SameSize
<1>3. Q \cap Beyond(np) = {}
  BY DEF SpaceOK
<1>4. Free(r, np) = Q \cup Beyond(np)
  BY DEF Free
<1> HIDE DEF Q
<1>5. Cardinality(Q \cup Beyond(np))
        = Cardinality(Q) + Cardinality(Beyond(np))
  <2>1. Cardinality(Q \cup Beyond(np))
          = Cardinality(Q) + Cardinality(Beyond(np))
            - Cardinality(Q \cap Beyond(np))
    BY <1>1, <1>2, FS_Union
  <2>2. Cardinality(Q \cap Beyond(np)) = 0
    BY <1>3, FS_EmptySet, Zenon
  <2>3. Cardinality(Q) \in Nat /\ Cardinality(Beyond(np)) \in Nat
    BY <1>1, <1>2, FS_CardinalityType
  <2> QED
    BY <2>1, <2>2, <2>3
<1> QED
  BY <1>1, <1>2, <1>4, <1>5, Geometry DEF Room

(* The pages of a block are live, free or dead, and never two of these.    *)
LEMMA BlockParts ==
    ASSUME NEW m \in [Lpns -> Pages \cup {NoPage}], NEW F, F \subseteq Pages,
           Kept(m, F), NEW b \in Blocks, IsFiniteSet(Live(m, b))
    PROVE  LET G == {p \in F : BlockKey(p) = b}
           IN  /\ Cardinality(Live(m, b)) \in Nat /\ Cardinality(G) \in Nat
               /\ Cardinality(Dead(m, F, b)) =
                    PagesPerBlock - Cardinality(Live(m, b)) - Cardinality(G)
<1> DEFINE G == {p \in F : BlockKey(p) = b}
           L == Live(m, b)
           D == Dead(m, F, b)
           M == {m[l] : l \in L}
           f == [l \in L |-> m[l]]
<1>1. IsFiniteSet(M) /\ Cardinality(M) = Cardinality(L)
  <2>1. f \in [L -> M]
    OBVIOUS
  <2>2. \A x, y \in L : f[x] = f[y] => x = y
    BY DEF Kept, Live
  <2>3. \A t \in M : \E x \in L : f[x] = t
    OBVIOUS
  <2> HIDE DEF f, M
  <2> QED
    BY <2>1, <2>2, <2>3, SameSize
<1>2. G \subseteq PagesOf(b) /\ M \subseteq PagesOf(b)
  BY DEF PagesOf, Live
<1>3. IsFiniteSet(PagesOf(b)) /\ Cardinality(PagesOf(b)) = PagesPerBlock
  BY BlockSize
<1>4. D = PagesOf(b) \ (M \cup G)
  <2>1. ASSUME NEW p \in PagesOf(b), NEW l \in Lpns, m[l] = p PROVE p \in M
    <3>1. m[l] # NoPage /\ BlockKey(m[l]) = b
      BY <2>1, NoneIsNoPage DEF PagesOf
    <3> QED
      BY <2>1, <3>1 DEF Live
  <2>2. M \cap D = {} /\ G \cap D = {} /\ D \subseteq PagesOf(b)
    BY DEF Live, Dead, PagesOf
  <2>3. ASSUME NEW p \in PagesOf(b), p \notin M, p \notin G PROVE p \in D
    BY <2>1, <2>3 DEF Dead, PagesOf
  <2> HIDE DEF M, G, D
  <2> QED
    BY <2>2, <2>3
<1>5. M \cap G = {}
  BY DEF Kept, Live
<1> HIDE DEF M, G, D, L
<1>6. /\ IsFiniteSet(G) /\ Cardinality(G) \in Nat
      /\ Cardinality(M) \in Nat
  BY <1>1, <1>2, <1>3, FS_Subset, FS_CardinalityType
<1>7. /\ IsFiniteSet(M \cup G)
      /\ Cardinality(M \cup G) = Cardinality(M) + Cardinality(G)
  <2>1. /\ IsFiniteSet(M \cup G)
        /\ Cardinality(M \cup G) = Cardinality(M) + Cardinality(G)
                                   - Cardinality(M \cap G)
    BY <1>1, <1>6, FS_Union
  <2> QED
    BY <1>5, <1>6, <2>1, FS_EmptySet
<1>8. Cardinality(D) = Cardinality(PagesOf(b)) - Cardinality(M \cup G)
  <2>1. PagesOf(b) \cap (M \cup G) = M \cup G
    BY <1>2
  <2>2. Cardinality(PagesOf(b) \ (M \cup G))
          = Cardinality(PagesOf(b)) - Cardinality(PagesOf(b) \cap (M \cup G))
    BY <1>3, FS_Difference
  <2> QED
    BY <1>4, <2>1, <2>2
<1>9. Cardinality(D) = PagesPerBlock - Cardinality(L) - Cardinality(G)
  BY <1>1, <1>3, <1>6, <1>7, <1>8, Geometry
<1> QED
  BY <1>1, <1>6, <1>9 DEF G, L, D

(* The tables of the FTL keep their types whatever the geometry, and       *)
(* map_read() never answers with a page outside it.                        *)
THEOREM FtlTypeCorrect == Spec => []TypeOK
<1>1. FtlInv => TypeOK
  BY MapReadInPages DEF FtlInv, TypeOK, TableTypes
<1> QED
  BY <1>1, FtlInit, FtlStep, PTL DEF Spec

(* write() and garbage_collect() never hand out a page that is mapped, nor *)
(* the same page twice, through any sequence of writes, collections,       *)
(* checkpoints, crashes and recoveries, while the tables can be trusted.   *)
THEOREM FtlKeepsLiveData == Spec => []LiveDataKeptUntilOverlap
<1>1. ASSUME FtlInv PROVE LiveDataKeptUntilOverlap
  <2> SUFFICES ASSUME Trusted(overlap, failed)
               PROVE  LiveDataKept /\ Cardinality(FreeSet) = FreePages
    BY DEF LiveDataKeptUntilOverlap
  <2>1. /\ SpaceOK(reclaimed, nextPage)
        /\ Kept(mapping, Free(reclaimed, nextPage))
    BY <1>1 DEF FtlInv, StateInv, TablesInv
  <2>2. Cardinality(Free(reclaimed, nextPage)) = Room(reclaimed, nextPage)
    BY <1>1, <2>1, FreeCounted DEF FtlInv, TableTypes
  <2>3. LiveDataKept
    BY <2>1, FreeIsFree DEF Kept, LiveDataKept, Mapped
  <2> QED
    BY <2>2, <2>3, FreeIsFree
<1>2. FtlInv => LiveDataKeptUntilOverlap
  BY <1>1
<1> QED
  BY <1>2, FtlInit, FtlStep, PTL DEF Spec

(* A journal that was written while the tables could be trusted stays      *)
(* readable: no page it maps is programmed before its block is erased,     *)
(* also when the process crashes and recovers any number of times.         *)
THEOREM CheckpointReadable == Spec => []CheckpointStaysReadable
<1>1. FtlInv => CheckpointStaysReadable
  BY DEF FtlInv, JournalInv, CheckpointStaysReadable
<1> QED
  BY <1>1, FtlInit, FtlStep, PTL DEF Spec

(* Outside garbage collection valid_lpns lists exactly the live pages of   *)
(* each block and invalid_pages counts exactly its dead ones, until a      *)
(* victim overlaps free space or an overwrite fails.                       *)
THEOREM TablesAlwaysAgree == Spec => []TablesAgree
<1>1. ASSUME FtlInv PROVE TablesAgree
  <2> DEFINE F == Free(reclaimed, nextPage)
  <2> SUFFICES ASSUME ~overlap, ~failed, pc # "relocate", NEW b \in Blocks
               PROVE  /\ validLpns[b] = Live(mapping, b)
                      /\ invalidPages[b] =
                           PagesPerBlock - Cardinality(Live(mapping, b))
                           - Cardinality({p \in F : BlockKey(p) = b})
    <3>1. \A c : {l \in Mapped : BlockKey(mapping[l]) = c} = Live(mapping, c)
      BY DEF Mapped, Live
    <3> QED
      BY <3>1, FreeIsFree, Zenon DEF TablesAgree
  <2>1. victim = NoBlock /\ b # NoBlock
    BY <1>1, NoneIsNoPage DEF FtlInv, ControlInv
  <2>2. /\ Kept(mapping, F) /\ validLpns[b] = Live(mapping, b)
        /\ invalidPages[b] = Cardinality(Dead(mapping, F, b))
        /\ IsFiniteSet(validLpns[b])
    BY <1>1, <2>1 DEF FtlInv, StateInv, TablesInv, Trusted, Indexed, Counted
  <2>3. mapping \in [Lpns -> Pages \cup {NoPage}] /\ F \subseteq Pages
    BY <1>1, FreeInPages DEF FtlInv, TableTypes
  <2> HIDE DEF F
  <2>4. Cardinality(Dead(mapping, F, b)) =
          PagesPerBlock - Cardinality(Live(mapping, b))
          - Cardinality({p \in F : BlockKey(p) = b})
    BY <2>2, <2>3, BlockParts
  <2> QED
    BY <2>2, <2>4
<1>2. FtlInv => TablesAgree
  BY <1>1
<1> QED
  BY <1>2, FtlInit, FtlStep, PTL DEF Spec

(* Once garbage_collect() has passed its workspace check, every call of    *)
(* _allocate() that it makes finds a page, so it is never abandoned with   *)
(* its victim half empty.                                                  *)
THEOREM RelocationSucceeds == Spec => []RelocationNeverFails
<1>1. ASSUME FtlInv, ~overlap, pc = "relocate", todo # {}
      PROVE  CanAllocate(victim)
  <2>1. IsFiniteSet(todo) /\ Cardinality(todo) \in Nat /\ Cardinality(todo) > 0
    BY <1>1, FS_CardinalityType, FS_EmptySet DEF FtlInv, MovingInv
  <2>2. /\ \A p \in Free(reclaimed, nextPage) : BlockKey(p) # victim
        /\ Room(reclaimed, nextPage) >= Cardinality(todo)
    BY <1>1 DEF FtlInv, WorkspaceInv
  <2>3. Room(reclaimed, nextPage) \in Int
    BY <1>1, Geometry DEF FtlInv, TableTypes, Room
  <2> QED
    BY <1>1, <2>1, <2>2, <2>3, RoomToAllocate DEF FtlInv
<1>2. FtlInv => RelocationNeverFails
  BY <1>1 DEF RelocationNeverFails
<1> QED
  BY <1>2, FtlInit, FtlStep, PTL DEF Spec
=============================================================================

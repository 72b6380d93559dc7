--------------------------- MODULE PartedGpt_proofs ---------------------------
(***************************************************************************)
(* What parted.py keeps up for every disk, table and sector size and every  *)
(* sequence of commands: partitions clear of the tables, overlaps limited   *)
(* to one sector, a hybrid MBR that describes a partition.                  *)
(***************************************************************************)
EXTENDS PartedGpt, WellFoundedInduction, TLAPS

\* A set of naturals has a least element.
LEMMA LeastNatural ==
  ASSUME NEW T, T \subseteq Nat, T # {}
  PROVE  \E n \in T : \A m \in T : n <= m
<1> DEFINE Less == {ss \in Nat \X Nat : ss[1] < ss[2]}
<1>1. IsWellFoundedOn(Less, Nat)
  BY NatLessThanWellFounded DEF OpToRel
<1>2. PICK n \in T : \A m \in T : <<m, n>> \notin Less
  BY <1>1, WFMin
<1>3. ASSUME NEW m \in T PROVE n <= m
  <2>1. m \in Nat /\ n \in Nat
    OBVIOUS
  <2>2. <<m, n>> \in Nat \X Nat /\ <<m, n>>[1] = m /\ <<m, n>>[2] = n
    BY <2>1
  <2>3. m < n => <<m, n>> \in Less
    BY <2>2
  <2>4. QED
    BY <1>2, <2>1, <2>3
<1>4. QED
  BY <1>3

\* div_round_up rounds up, and by less than a sector.
LEMMA RoundUp ==
  ASSUME NEW a \in Int
  PROVE  /\ DivRoundUp(a, Sector) \in Int
         /\ DivRoundUp(a, Sector) * Sector >= a
         /\ DivRoundUp(a, Sector) * Sector < a + Sector
<1>0. Sector \in Nat \ {0}
  BY PartedAssumption
<1>1. PICK q \in Int, r \in 0 .. Sector - 1 :
        q = (a + Sector - 1) \div Sector /\ a + Sector - 1 = Sector * q + r
  <2>1. a + Sector - 1 \in Int
    BY <1>0
  <2>2. QED
    BY <1>0, <2>1, SMTT(30)
<1>2. q * Sector = Sector * q
  BY <1>0
<1>3. q * Sector = a + Sector - 1 - r
  BY <1>0, <1>1, <1>2
<1>4. QED
  BY <1>0, <1>1, <1>3 DEF DivRoundUp

\* Sectors that begin below a boundary of sectors lie below it.
LEMMA SectorOrder ==
  ASSUME NEW x \in Int, NEW y \in Int, x * Sector < (y + 1) * Sector
  PROVE  x <= y
<1>1. Sector \in Nat \ {0}
  BY PartedAssumption
<1>2. QED
  BY <1>1

-----------------------------------------------------------------------------
\* The entries hold sector numbers.
Entry == [name : Names, start : Int, end : Int]

\* The loop of get_last_partition_end over any table: what one entry makes of the
\* end found so far, and the end after the last one.
EndAfter(es, n, v) == IF es[n].end * Sector > v THEN (es[n].end + 1) * Sector ELSE v
LoopFrom(offset) == offset + (TableSectors + 1) * Sector
EndsOf(es, offset) ==
  CHOOSE f : f = [n \in 0 .. Len(es) |-> IF n = 0 THEN LoopFrom(offset)
                                         ELSE EndAfter(es, n, f[n - 1])]

\* Whichever way the loop goes it runs through the table and finds numbers: a
\* table shortest among those for which it does not would be one entry longer
\* than one for which it does.
LEMMA LoopRuns ==
  ASSUME NEW es \in Seq(Entry), NEW offset \in Int
  PROVE  \A k \in 0 .. Len(es) :
           /\ EndsOf(es, offset)[k] \in Int
           /\ EndsOf(es, offset)[k] = IF k = 0 THEN LoopFrom(offset)
                                      ELSE EndAfter(es, k, EndsOf(es, offset)[k - 1])
<1> DEFINE base == LoopFrom(offset)
           step(v, n) == EndAfter(es, n, v)
           loop(f, k) == f = [n \in 0 .. k |-> IF n = 0 THEN base
                                                ELSE step(f[n - 1], n)]
           good(k) == \E f \in [0 .. k -> Int] : loop(f, k)
           bad == {k \in 0 .. Len(es) : ~good(k)}
<1>0. Len(es) \in Nat /\ Sector \in Nat \ {0} /\ base \in Int
  BY PartedAssumption DEF LoopFrom
<1>1. ASSUME NEW n \in 1 .. Len(es), NEW v \in Int PROVE step(v, n) \in Int
  <2>1. es[n] \in Entry
    BY <1>0
  <2>2. es[n].end \in Int
    BY <2>1 DEF Entry
  <2>3. (es[n].end + 1) * Sector \in Int
    BY <1>0, <2>2
  <2>4. QED
    BY <2>3 DEF EndAfter
<1>2. good(0)
  <2>1. [n \in 0 .. 0 |-> base] \in [0 .. 0 -> Int] /\ loop([n \in 0 .. 0 |-> base], 0)
    BY <1>0
  <2>2. QED
    BY <2>1
<1>3. ASSUME NEW k \in 1 .. Len(es), good(k - 1) PROVE good(k)
  <2>1. PICK f \in [0 .. k - 1 -> Int] : loop(f, k - 1)
    BY <1>3
  <2> DEFINE g == [n \in 0 .. k |-> IF n = k THEN step(f[k - 1], k) ELSE f[n]]
  <2>2. k - 1 \in 0 .. k - 1 /\ k \in Nat
    BY <1>0
  <2>3. f[k - 1] \in Int
    BY <2>1, <2>2
  <2>4. step(f[k - 1], k) \in Int
    BY <1>1, <2>3
  <2> HIDE DEF step, base
  <2>5. g \in [0 .. k -> Int]
    BY <2>1, <2>2, <2>4
  <2>6. ASSUME NEW n \in 0 .. k
        PROVE  g[n] = IF n = 0 THEN base ELSE step(g[n - 1], n)
    <3>1. CASE n = k
      <4>1. g[n - 1] = f[k - 1] /\ n # 0
        BY <2>2, <3>1
      <4>2. QED
        BY <3>1, <4>1
    <3>2. CASE n # k
      <4>1. n \in 0 .. k - 1 /\ g[n] = f[n]
        BY <2>2, <3>2
      <4>2. n # 0 => g[n - 1] = f[n - 1]
        BY <2>2, <3>2, <4>1
      <4>3. f[n] = IF n = 0 THEN base ELSE step(f[n - 1], n)
        BY <2>1, <4>1
      <4>4. QED
        BY <4>1, <4>2, <4>3
    <3>3. QED
      BY <3>1, <3>2
  <2>7. loop(g, k)
    BY <2>6
  <2>8. QED
    BY <2>5, <2>7
<1> HIDE DEF good, step, base
<1>4. bad = {}
  <2> SUFFICES ASSUME bad # {} PROVE FALSE
    OBVIOUS
  <2>1. bad \subseteq Nat
    BY <1>0
  <2>2. PICK m \in bad : \A k \in bad : m <= k
    BY <2>1, LeastNatural
  <2>3. m # 0
    BY <1>2, <2>2
  <2>4. m \in 1 .. Len(es) /\ m - 1 \in 0 .. Len(es) /\ m - 1 \notin bad
    BY <1>0, <2>1, <2>2, <2>3
  <2>5. QED
    BY <1>3, <2>2, <2>4
<1>5. good(Len(es))
  BY <1>0, <1>4
<1> DEFINE end == EndsOf(es, offset)
           wrong == {k \in 0 .. Len(es) : end[k] \notin Int}
<1>6. loop(end, Len(es))
  BY <1>5 DEF good, EndsOf, base, step
<1>7. ASSUME NEW k \in 0 .. Len(es)
      PROVE  end[k] = IF k = 0 THEN base ELSE step(end[k - 1], k)
  BY <1>6
<1> HIDE DEF end
<1>8. wrong = {}
  <2> SUFFICES ASSUME wrong # {} PROVE FALSE
    OBVIOUS
  <2>1. wrong \subseteq Nat
    BY <1>0
  <2>2. PICK m \in wrong : \A k \in wrong : m <= k
    BY <2>1, LeastNatural
  <2>3. m # 0
    BY <1>0, <1>7, <2>2
  <2>4. m \in 1 .. Len(es) /\ m - 1 \in 0 .. Len(es) /\ m - 1 \notin wrong
    BY <1>0, <2>1, <2>2, <2>3
  <2>5. end[m] = step(end[m - 1], m) /\ end[m - 1] \in Int
    BY <1>7, <2>2, <2>3, <2>4
  <2>6. QED
    BY <1>1, <2>2, <2>4, <2>5
<1>9. QED
  BY <1>7, <1>8 DEF base, step, end

\* get_last_partition_end is that loop, before a command and after.
LEMMA LastPartitionEndIs ==
  /\ LastPartitionEnd = EndsOf(entries, gpt_offset)[Len(entries)]
  /\ LastPartitionEnd' = EndsOf(entries', gpt_offset')[Len(entries')]
BY DEF LastPartitionEnd, EndsOf, EndAfter, LoopFrom

\* The end found is a number.
LEMMA LastPartitionEndType ==
  ASSUME entries \in Seq(Entry), gpt_offset \in Int
  PROVE  LastPartitionEnd \in Int
<1>1. Len(entries) \in 0 .. Len(entries)
  OBVIOUS
<1>2. QED
  BY <1>1, LoopRuns, LastPartitionEndIs

\* An empty table leaves it behind the tables.
LEMMA LastPartitionEndEmpty ==
  ASSUME entries = <<>>, gpt_offset \in Int
  PROVE  LastPartitionEnd = gpt_offset + (TableSectors + 1) * Sector
<1>1. entries \in Seq(Entry) /\ Len(entries) = 0 /\ 0 \in 0 .. Len(entries)
  OBVIOUS
<1>2. ASSUME NEW es \in Seq(Entry), 0 \in 0 .. Len(es)
      PROVE  EndsOf(es, gpt_offset)[0] = LoopFrom(gpt_offset)
  BY <1>2, LoopRuns
<1>3. EndsOf(entries, gpt_offset)[0] = LoopFrom(gpt_offset)
  BY <1>1, <1>2
<1>4. QED
  BY <1>1, <1>3, LastPartitionEndIs DEF LoopFrom

\* One partition more moves it behind that partition, if it ends further behind.
LEMMA LastPartitionEndGrows ==
  ASSUME entries \in Seq(Entry), gpt_offset \in Int, NEW new \in Entry,
         entries' = Append(entries, new), gpt_offset' = gpt_offset
  PROVE  LastPartitionEnd' = IF new.end * Sector > LastPartitionEnd
                             THEN (new.end + 1) * Sector ELSE LastPartitionEnd
<1> DEFINE n == Len(entries)
           f == EndsOf(entries, gpt_offset)
           g == EndsOf(entries', gpt_offset)
           differ == {k \in 0 .. n : g[k] # f[k]}
<1>1. /\ n \in Nat /\ entries' \in Seq(Entry) /\ Len(entries') = n + 1
      /\ \A k \in 1 .. n : entries'[k] = entries[k]
      /\ entries'[n + 1] = new
  OBVIOUS
<1>2. \A k \in 0 .. n : f[k] = IF k = 0 THEN LoopFrom(gpt_offset)
                                ELSE EndAfter(entries, k, f[k - 1])
  BY LoopRuns
<1>3. \A k \in 0 .. n + 1 : g[k] = IF k = 0 THEN LoopFrom(gpt_offset)
                                    ELSE EndAfter(entries', k, g[k - 1])
  BY <1>1, LoopRuns
<1> HIDE DEF f, g, n
<1>4. differ = {}
  <2> SUFFICES ASSUME differ # {} PROVE FALSE
    OBVIOUS
  <2>1. differ \subseteq Nat
    BY <1>1
  <2>2. PICK m \in differ : \A k \in differ : m <= k
    BY <2>1, LeastNatural
  <2>3. m \in 1 .. n
    BY <1>1, <1>2, <1>3, <2>2
  <2>4. g[m - 1] = f[m - 1]
    BY <1>1, <2>1, <2>2, <2>3
  <2>5. m # 0 /\ m \in 0 .. n /\ m \in 0 .. n + 1
    BY <1>1, <2>3
  <2>6. f[m] = EndAfter(entries, m, f[m - 1]) /\ g[m] = EndAfter(entries', m, g[m - 1])
    BY <1>2, <1>3, <2>5
  <2>7. g[m] = f[m]
    BY <1>1, <2>3, <2>4, <2>6 DEF EndAfter
  <2>8. QED
    BY <2>2, <2>7
<1>5. g[n + 1] = EndAfter(entries', n + 1, f[n])
  <2>1. g[n] = f[n]
    BY <1>1, <1>4
  <2>2. n + 1 # 0 /\ n + 1 \in 0 .. n + 1 /\ (n + 1) - 1 = n
    BY <1>1
  <2>3. QED
    BY <1>3, <2>1, <2>2
<1>6. LastPartitionEnd = f[n] /\ LastPartitionEnd' = g[n + 1]
  BY <1>1, LastPartitionEndIs DEF f, g, n
<1>7. QED
  BY <1>1, <1>5, <1>6 DEF EndAfter

\* What the arguments leave open is filled in with numbers.
LEMMA ArgumentTypes ==
  ASSUME entries \in Seq(Entry), gpt_offset \in Int, disk_size \in Nat,
         NEW start \in Starts \union {Unset}, NEW first \in Int,
         NEW size \in Sizes \union {Unset}
  PROVE  StartOf(start) \in Int /\ SizeOf(first, size) \in Int
<1>1. StartOf(start) \in Int
  BY LastPartitionEndType, PartedAssumption DEF StartOf
<1>2. TableSectors * Sector \in Int
  BY PartedAssumption
<1>3. SizeOf(first, size) \in Int
  BY <1>2, PartedAssumption DEF SizeOf
<1>4. QED
  BY <1>1, <1>3

\* The search by name finds a partition of that name.
LEMMA FirstNamedFinds ==
  ASSUME entries \in Seq(Entry), NEW name, FirstNamed(name) # 0
  PROVE  FirstNamed(name) \in DOMAIN entries /\ entries[FirstNamed(name)].name = name
<1> DEFINE I == {i \in 1 .. Len(entries) : entries[i].name = name}
<1>1. FirstNamed(name) = IF I # {} THEN Min(I) ELSE 0
  BY DEF FirstNamed, SelectInSeq
<1>2. Min(I) = CHOOSE x \in I : \A y \in I : x <= y
  BY DEF Min
<1>3. I \subseteq Nat
  OBVIOUS
<1>4. I # {} => \E x \in I : \A y \in I : x <= y
  BY <1>3, LeastNatural
<1>5. I # {} => Min(I) \in I
  BY <1>2, <1>4
<1> HIDE DEF I
<1>6. FirstNamed(name) \in I
  BY <1>1, <1>5
<1>7. QED
  BY <1>6 DEF I

\* It says that there is none for no other table than one without that name.
LEMMA FirstNamedMisses ==
  ASSUME entries \in Seq(Entry), NEW name
  PROVE  FirstNamed(name) = 0 <=> \A i \in DOMAIN entries : entries[i].name # name
<1> DEFINE I == {i \in 1 .. Len(entries) : entries[i].name = name}
<1>1. FirstNamed(name) = IF I # {} THEN Min(I) ELSE 0
  BY DEF FirstNamed, SelectInSeq
<1>2. I = {} <=> \A i \in DOMAIN entries : entries[i].name # name
  OBVIOUS
<1>3. CASE FirstNamed(name) # 0
  BY <1>3, FirstNamedFinds
<1>4. CASE FirstNamed(name) = 0
  <2>1. Min(I) = CHOOSE x \in I : \A y \in I : x <= y
    BY DEF Min
  <2>2. I \subseteq Nat \ {0}
    OBVIOUS
  <2> HIDE DEF I
  <2>3. I # {} => \E x \in I : \A y \in I : x <= y
    BY <2>2, LeastNatural
  <2>4. I # {} => Min(I) \in I
    BY <2>1, <2>3
  <2>5. I = {}
    BY <1>1, <1>4, <2>2, <2>4
  <2>6. QED
    BY <1>2, <1>4, <2>5
<1>5. QED
  BY <1>3, <1>4

\* A partition that passes the check, rounded to sectors, is clear of every
\* table segment, and shares at most the last sector of an older partition.
LEMMA NewEntryPlaced ==
  ASSUME entries \in Seq(Entry), NEW name \in Names, NEW s \in Int, NEW l \in Int,
         gpt_offset \in Int, disk_size \in Nat, CanPlace(s, l)
  PROVE  LET new == NewEntry(name, s, l) IN
         /\ new \in Entry
         /\ \A seg \in TableSegments : \/ (new.end + 1) * Sector < seg[1] + Sector
                                       \/ new.start * Sector >= seg[2]
         /\ \A i \in DOMAIN entries :
              Overlap(entries[i], new) => entries[i].end = new.start
<1> DEFINE new == NewEntry(name, s, l)
           up == DivRoundUp(s, Sector)
           behind == DivRoundUp(s + l, Sector)
<1>0. Sector \in Nat \ {0} /\ TableSectors \in Nat
  BY PartedAssumption
<1>1. up \in Int /\ up * Sector >= s /\ up * Sector < s + Sector
  BY RoundUp
<1>2. behind \in Int /\ behind * Sector >= s + l /\ behind * Sector < s + l + Sector
  <2>1. s + l \in Int
    OBVIOUS
  <2>2. QED
    BY <2>1, RoundUp
<1>3. new = [name |-> name, start |-> up, end |-> behind - 1]
  BY DEF NewEntry
<1> HIDE DEF up, behind, new
<1>4. new \in Entry /\ new.start = up /\ new.end = behind - 1 /\ new.end + 1 = behind
  BY <1>1, <1>2, <1>3 DEF Entry
<1>5. ASSUME NEW a \in Int, NEW b \in Int, ~Clashes(s, l, <<a, b>>)
      PROVE  s >= b \/ s + l <= a
  BY <1>5 DEF Clashes
<1>6. ASSUME NEW seg \in TableSegments
      PROVE  (new.end + 1) * Sector < seg[1] + Sector \/ new.start * Sector >= seg[2]
  <2>1. TableSectors * Sector \in Int
    BY <1>0
  <2>2. PICK a \in Int, b \in Int : seg = <<a, b>>
    BY <1>0, <2>1 DEF TableSegments
  <2>3. s >= b \/ s + l <= a
    BY <1>5, <2>2 DEF CanPlace
  <2>4. seg[1] = a /\ seg[2] = b
    BY <2>2
  <2>5. behind * Sector \in Int /\ up * Sector \in Int
    BY <1>0, <1>1, <1>2
  <2>6. CASE s >= b
    BY <2>4, <2>5, <2>6, <1>1, <1>4
  <2>7. CASE s + l <= a
    <3>1. behind * Sector < a + Sector
      BY <2>5, <2>7, <1>0, <1>2
    <3>2. QED
      BY <3>1, <2>4, <1>4
  <2>8. QED
    BY <2>3, <2>6, <2>7
<1>7. ASSUME NEW i \in DOMAIN entries, Overlap(entries[i], new)
      PROVE  entries[i].end = new.start
  <2> DEFINE old == entries[i]
  <2>1. old \in Entry
    OBVIOUS
  <2>2. old.start \in Int /\ old.end \in Int
    BY <2>1 DEF Entry
  <2>3. old.start * Sector \in Int /\ old.end * Sector \in Int
    BY <1>0, <2>2
  <2>4. ~Clashes(s, l, <<old.start * Sector, old.end * Sector>>)
    BY DEF CanPlace, PartitionSegments
  <2>5. s >= old.end * Sector \/ s + l <= old.start * Sector
    BY <1>5, <2>3, <2>4
  <2>6. up <= old.end /\ old.start <= behind - 1
    BY <1>4, <1>7 DEF Overlap
  <2> HIDE DEF old
  <2>7. behind * Sector \in Int /\ up * Sector \in Int
    BY <1>0, <1>1, <1>2
  <2>8. CASE s + l <= old.start * Sector
    <3>1. behind * Sector < old.start * Sector + Sector
      BY <2>8, <2>7, <2>3, <1>0, <1>2
    <3>2. (old.start + 1) * Sector = old.start * Sector + Sector
      BY <1>0, <2>2
    <3>3. behind <= old.start
      BY <3>1, <3>2, <2>2, <1>2, SectorOrder
    <3>4. QED
      BY <3>3, <2>6, <2>2, <1>2
  <2>9. CASE s >= old.end * Sector
    <3>1. old.end * Sector <= up * Sector
      BY <2>9, <2>7, <2>3, <1>1
    <3>2. (up + 1) * Sector = up * Sector + Sector
      BY <1>0, <1>1
    <3>3. old.end * Sector < (up + 1) * Sector
      BY <3>1, <3>2, <2>7, <2>3, <1>0
    <3>4. old.end <= up
      BY <3>3, <2>2, <1>1, SectorOrder
    <3>5. QED
      BY <3>4, <2>6, <2>2, <1>1, <1>4 DEF old
  <2>10. QED
    BY <2>5, <2>8, <2>9
<1>8. QED
  BY <1>4, <1>6, <1>7 DEF new

\* A size is negative only as the default of a start behind the backup table,
\* and one that is let through is behind the disk.
SizedFor(s, l) == l >= 0 \/ l = disk_size - TableSectors * Sector - s

\* A partition whose size is no other than those ends where it begins or later,
\* rounded to sectors, or begins behind the disk.
LEMMA NewEntryForward ==
  ASSUME NEW name \in Names, NEW s \in Int, NEW l \in Int,
         disk_size \in Nat, CanPlace(s, l), SizedFor(s, l)
  PROVE  LET new == NewEntry(name, s, l) IN
           new.end + 1 < new.start => new.start * Sector >= disk_size
<1> DEFINE up == DivRoundUp(s, Sector)
           behind == DivRoundUp(s + l, Sector)
           new == NewEntry(name, s, l)
<1>0. Sector \in Nat \ {0} /\ TableSectors \in Nat /\ TableSectors * Sector \in Int
  BY PartedAssumption
<1>1. up \in Int /\ up * Sector >= s /\ up * Sector < s + Sector
  BY RoundUp
<1>2. behind \in Int /\ behind * Sector >= s + l
  <2>1. s + l \in Int
    OBVIOUS
  <2>2. QED
    BY <2>1, RoundUp
<1>3. new.start = up /\ new.end = behind - 1
  BY DEF NewEntry
<1> HIDE DEF up, behind, new
<1>4. up * Sector \in Int /\ behind * Sector \in Int
  BY <1>0, <1>1, <1>2
<1>5. CASE l >= 0
  <2>1. (behind + 1) * Sector = behind * Sector + Sector
    BY <1>0, <1>2
  <2>2. up * Sector < (behind + 1) * Sector
    BY <1>0, <1>1, <1>2, <1>4, <1>5, <2>1
  <2>3. up <= behind
    BY <1>1, <1>2, <2>2, SectorOrder
  <2>4. QED
    BY <1>1, <1>2, <1>3, <2>3 DEF new
<1>6. CASE l < 0
  <2> DEFINE backup == <<disk_size - TableSectors * Sector, disk_size>>
  <2>1. ~Clashes(s, l, backup)
    BY DEF CanPlace, TableSegments
  <2>2. s > disk_size - TableSectors * Sector
    BY <1>0, <1>6 DEF SizedFor
  <2>3. s >= disk_size
    BY <1>0, <2>1, <2>2 DEF Clashes
  <2>4. QED
    BY <1>1, <1>3, <1>4, <2>3 DEF new
<1>7. QED
  BY <1>5, <1>6

-----------------------------------------------------------------------------
PartedInv ==
  /\ entries \in Seq(Entry)
  /\ disk_size \in Nat
  /\ gpt_offset \in Nat
  /\ disk_size = 0 => entries = <<>> /\ mbr.name = NoName
  /\ BackwardsOnlyBehindDisk
  /\ ClearOfTables
  /\ OverlapOnlyAtLastSector
  /\ HybridIsPartition

\* A partition stored after the check keeps the invariant.
LEMMA StoreKeepsInv ==
  ASSUME PartedInv, NEW name \in Names, NEW s \in Int, NEW l \in Int,
         disk_size # 0, CanPlace(s, l), SizedFor(s, l),
         entries' = Append(entries, NewEntry(name, s, l)),
         UNCHANGED <<disk_size, gpt_offset, mbr>>
  PROVE  PartedInv'
<1> DEFINE new == NewEntry(name, s, l)
<1>0. entries \in Seq(Entry) /\ gpt_offset \in Int /\ disk_size \in Nat
  BY DEF PartedInv
<1>1. /\ new \in Entry
      /\ \A seg \in TableSegments : \/ (new.end + 1) * Sector < seg[1] + Sector
                                    \/ new.start * Sector >= seg[2]
      /\ \A i \in DOMAIN entries :
           Overlap(entries[i], new) => entries[i].end = new.start
      /\ new.end + 1 < new.start => new.start * Sector >= disk_size
  BY <1>0, NewEntryPlaced, NewEntryForward
<1> HIDE DEF new
<1>2. /\ entries' \in Seq(Entry)
      /\ DOMAIN entries' = 1 .. Len(entries) + 1
      /\ DOMAIN entries = 1 .. Len(entries) /\ Len(entries) \in Nat
      /\ entries'[Len(entries) + 1] = new
      /\ \A i \in DOMAIN entries : entries'[i] = entries[i]
  BY <1>0, <1>1 DEF new
<1>3. TableSegments' = TableSegments
  BY DEF TableSegments
<1>4. ASSUME NEW i \in DOMAIN entries', NEW seg \in TableSegments
      PROVE  \/ (entries'[i].end + 1) * Sector < seg[1] + Sector
             \/ entries'[i].start * Sector >= seg[2]
  <2>1. CASE i = Len(entries) + 1
    BY <2>1, <1>1, <1>2
  <2>2. CASE i \in DOMAIN entries
    BY <2>2, <1>2 DEF PartedInv, ClearOfTables
  <2>3. QED
    BY <2>1, <2>2, <1>2
<1>5. ClearOfTables'
  BY <1>3, <1>4 DEF ClearOfTables
<1>6. ASSUME NEW i \in DOMAIN entries', NEW j \in DOMAIN entries', i # j,
             Overlap(entries'[i], entries'[j])
      PROVE  entries'[i].end = entries'[j].start \/ entries'[j].end = entries'[i].start
  <2>1. CASE i = Len(entries) + 1
    <3>1. j \in DOMAIN entries
      BY <2>1, <1>2, <1>6
    <3>2. Overlap(entries[j], new)
      BY <2>1, <3>1, <1>2, <1>6 DEF Overlap
    <3>3. QED
      BY <2>1, <3>1, <3>2, <1>1, <1>2
  <2>2. CASE j = Len(entries) + 1
    <3>1. i \in DOMAIN entries
      BY <2>2, <1>2, <1>6
    <3>2. QED
      BY <2>2, <3>1, <1>1, <1>2, <1>6
  <2>3. CASE i \in DOMAIN entries /\ j \in DOMAIN entries
    <3>1. <<i, j>> \in Pairs /\ <<i, j>>[1] = i /\ <<i, j>>[2] = j
      BY <2>3, <1>6 DEF Pairs
    <3>2. entries'[i] = entries[i] /\ entries'[j] = entries[j]
      BY <2>3, <1>2
    <3>3. Overlap(entries[i], entries[j]) =>
            entries[i].end = entries[j].start \/ entries[j].end = entries[i].start
      BY <3>1 DEF PartedInv, OverlapOnlyAtLastSector
    <3>4. QED
      BY <3>2, <3>3, <1>6
  <2>4. QED
    BY <2>1, <2>2, <2>3, <1>2
<1>7. OverlapOnlyAtLastSector'
  BY <1>6 DEF OverlapOnlyAtLastSector, Pairs, Overlap
<1>8. HybridIsPartition'
  BY <1>2 DEF PartedInv, HybridIsPartition
<1>9. BackwardsOnlyBehindDisk'
  BY <1>1, <1>2 DEF PartedInv, BackwardsOnlyBehindDisk
<1>10. QED
  BY <1>0, <1>2, <1>5, <1>7, <1>8, <1>9 DEF PartedInv

\* Every command keeps the invariant.
LEMMA PartedInvStep == PartedInv /\ [PartedNext]_partedVars => PartedInv'
<1> SUFFICES ASSUME PartedInv, [PartedNext]_partedVars PROVE PartedInv'
  OBVIOUS
<1>0. entries \in Seq(Entry) /\ gpt_offset \in Int /\ disk_size \in Nat
  BY DEF PartedInv
<1>1. ASSUME UNCHANGED <<disk_size, gpt_offset, entries, mbr>> PROVE PartedInv'
  BY <1>1 DEF PartedInv, BackwardsOnlyBehindDisk, ClearOfTables, OverlapOnlyAtLastSector,
    HybridIsPartition, TableSegments, Pairs
<1>2. ASSUME NEW size \in DiskSizes, NEW offset \in GptOffsets, CreateEmpty(size, offset)
      PROVE  PartedInv'
  <2>1. entries = <<>> /\ entries' = <<>> /\ DOMAIN entries' = {}
    BY <1>2 DEF CreateEmpty, PartedInv
  <2>2. disk_size' \in Nat /\ disk_size' # 0 /\ gpt_offset' \in Nat
    BY <1>2, PartedAssumption DEF CreateEmpty
  <2>3. mbr'.name = NoName
    BY <1>2 DEF CreateEmpty, PartedInv, ProtectiveOnly
  <2>4. BackwardsOnlyBehindDisk' /\ ClearOfTables' /\ OverlapOnlyAtLastSector'
    BY <2>1 DEF BackwardsOnlyBehindDisk, ClearOfTables, OverlapOnlyAtLastSector, Pairs
  <2>5. HybridIsPartition'
    BY <2>3 DEF HybridIsPartition
  <2>6. entries' \in Seq(Entry)
    BY <2>1
  <2>7. QED
    BY <2>2, <2>4, <2>5, <2>6 DEF PartedInv
<1>3. ASSUME NEW name \in Names, NEW start \in Starts \union {Unset},
             NEW size \in Sizes \union {Unset}, AddPartition(name, start, size)
      PROVE  PartedInv'
  <2> DEFINE first == StartOf(start)
             length == SizeOf(first, size)
  <2>1. first \in Int
    BY <1>0, ArgumentTypes
  <2>2. length \in Int
    BY <1>0, <2>1, ArgumentTypes
  <2>3. /\ disk_size # 0 /\ CanPlace(first, length)
        /\ entries' = Append(entries, NewEntry(name, first, length))
        /\ UNCHANGED <<disk_size, gpt_offset, mbr>>
    BY <1>3 DEF AddPartition
  <2>4. SizedFor(first, length)
    BY PartedAssumption DEF SizeOf, SizedFor
  <2> HIDE DEF first, length
  <2>5. QED
    BY <2>1, <2>2, <2>3, <2>4, StoreKeepsInv
<1>4. ASSUME NEW name \in Names, NEW start \in Starts \union {Unset},
             NEW img_size \in ImageSizes, NEW size \in Sizes \union {Unset},
             AddImage(name, img_size, start, size)
      PROVE  PartedInv'
  <2> DEFINE first == StartOf(start)
             length == IF size = Unset THEN img_size ELSE size
  <2>1. first \in Int
    BY <1>0, ArgumentTypes
  <2>2. length \in Int /\ length >= 0
    BY PartedAssumption
  <2>3. UNCHANGED <<disk_size, gpt_offset, mbr>> /\ disk_size # 0
    BY <1>4 DEF AddImage
  <2>4. \/ entries' = entries
        \/ /\ CanPlace(first, length)
           /\ entries' = Append(entries, NewEntry(name, first, length))
    BY <1>4 DEF AddImage
  <2> HIDE DEF first, length
  <2>5. CASE entries' = entries
    BY <2>3, <2>5, <1>1
  <2>6. CASE entries' = Append(entries, NewEntry(name, first, length)) /\ CanPlace(first, length)
    BY <2>1, <2>2, <2>3, <2>6, StoreKeepsInv DEF SizedFor
  <2>7. QED
    BY <2>4, <2>5, <2>6
<1>5. ASSUME NEW name \in Names, SetAsMbrPartition(name)
      PROVE  PartedInv'
  <2>1. UNCHANGED <<disk_size, gpt_offset, entries>> /\ entries # <<>>
    BY <1>5 DEF SetAsMbrPartition
  <2>2. PICK i \in DOMAIN entries :
          \E zone_end \in {entries[i].start - 1, (disk_size \div Sector) - 1} :
            mbr' = HybridEntry(entries[i], zone_end)
    <3>1. CASE FirstNamed(name) = 0
      <4>1. Len(entries) \in DOMAIN entries /\ Last(entries) = entries[Len(entries)]
        BY <1>0, <2>1 DEF Last
      <4>2. mbr' = HybridEntry(entries[Len(entries)], (disk_size \div Sector) - 1)
        BY <1>5, <3>1, <4>1 DEF SetAsMbrPartition
      <4>3. QED
        BY <4>1, <4>2
    <3>2. CASE FirstNamed(name) # 0
      <4>1. FirstNamed(name) \in DOMAIN entries
        BY <1>0, <3>2, FirstNamedFinds
      <4>2. mbr' = HybridEntry(entries[FirstNamed(name)], entries[FirstNamed(name)].start - 1)
        BY <1>5, <3>2 DEF SetAsMbrPartition
      <4>3. QED
        BY <4>1, <4>2
    <3>3. QED
      BY <3>1, <3>2
  <2>3. PICK zone_end \in {entries[i].start - 1, (disk_size \div Sector) - 1} :
          mbr' = HybridEntry(entries[i], zone_end)
    BY <2>2
  <2>4. /\ mbr'.name = entries[i].name /\ mbr'.start = entries[i].start
        /\ mbr'.end = entries[i].end /\ mbr'.zone_end = zone_end
    BY <2>3 DEF HybridEntry
  <2>5. HybridIsPartition'
    BY <2>1, <2>2, <2>3, <2>4 DEF HybridIsPartition
  <2>6. disk_size # 0
    BY <2>1 DEF PartedInv
  <2>7. QED
    BY <2>1, <2>5, <2>6 DEF PartedInv, BackwardsOnlyBehindDisk, ClearOfTables, OverlapOnlyAtLastSector,
      TableSegments, Pairs
<1>6. CASE UNCHANGED partedVars
  BY <1>1, <1>6 DEF partedVars
<1>7. QED
  BY <1>2, <1>3, <1>4, <1>5, <1>6 DEF PartedNext

\* The inductive invariant holds of every sequence of commands.
THEOREM PartedInvariant == PartedSpec => []PartedInv
<1>1. PartedInit => PartedInv
  BY DEF PartedInit, PartedInv, ProtectiveOnly, BackwardsOnlyBehindDisk, ClearOfTables,
    OverlapOnlyAtLastSector, HybridIsPartition, Pairs
<1>2. QED
  BY <1>1, PartedInvStep, PTL DEF PartedSpec

\* No sequence of commands makes a partition end before it begins, but by
\* starting it behind the disk.
THEOREM ForwardOnTheDisk == PartedSpec => []BackwardsOnlyBehindDisk
<1>1. PartedInv => BackwardsOnlyBehindDisk
  BY DEF PartedInv
<1>2. QED
  BY <1>1, PartedInvariant, PTL

\* No sequence of commands makes a partition reach into the MBR, the GPT or its
\* backup by a whole sector.
THEOREM TablesStayClear == PartedSpec => []ClearOfTables
<1>1. PartedInv => ClearOfTables
  BY DEF PartedInv
<1>2. QED
  BY <1>1, PartedInvariant, PTL

\* No sequence of commands makes partitions share more than the sector that is
\* the last of one and the first of the other.
THEOREM OverlapStaysSmall == PartedSpec => []OverlapOnlyAtLastSector
<1>1. PartedInv => OverlapOnlyAtLastSector
  BY DEF PartedInv
<1>2. QED
  BY <1>1, PartedInvariant, PTL

\* The MBR's hybrid entry goes on describing a partition of the table.
THEOREM HybridStaysPartition == PartedSpec => []HybridIsPartition
<1>1. PartedInv => HybridIsPartition
  BY DEF PartedInv
<1>2. QED
  BY <1>1, PartedInvariant, PTL

\* What passed the check begins at or behind the disk's first byte.
LEMMA NewEntryType ==
  ASSUME NEW name \in Names, NEW s \in Int, NEW l \in Int, CanPlace(s, l)
  PROVE  NewEntry(name, s, l) \in Extent
<1> DEFINE up == DivRoundUp(s, Sector)
           behind == DivRoundUp(s + l, Sector)
<1>0. Sector \in Nat \ {0} /\ s >= 0 /\ s + l \in Int
  BY PartedAssumption DEF CanPlace
<1>1. up \in Int /\ up * Sector >= s /\ behind \in Int
  BY <1>0, RoundUp
<1> HIDE DEF up, behind
<1>2. (up + 1) * Sector = up * Sector + Sector /\ up * Sector \in Int /\ 0 * Sector = 0
  BY <1>0, <1>1
<1>3. 0 <= up
  BY <1>0, <1>1, <1>2, SectorOrder
<1>4. QED
  BY <1>1, <1>3 DEF NewEntry, Extent, up, behind

\* Whole sectors are a number.
LEMMA WholeSectors ==
  ASSUME NEW a \in Int
  PROVE  a \div Sector \in Int
<1>1. Sector \in Nat \ {0}
  BY PartedAssumption
<1>2. QED
  BY <1>1, SMTT(30)

\* Every variable keeps its type: no partition begins before the disk, and what
\* is written, hybrid entry and images, are extents of it.
THEOREM PartedTypeCorrect == PartedSpec => []PartedTypeOK
<1>1. PartedInit => PartedTypeOK
  BY DEF PartedInit, PartedTypeOK, ProtectiveOnly
<1>2. PartedInv /\ PartedTypeOK /\ [PartedNext]_partedVars => PartedTypeOK'
  <2> SUFFICES ASSUME PartedInv, PartedTypeOK, [PartedNext]_partedVars
               PROVE  PartedTypeOK'
    OBVIOUS
  <2>0. /\ entries \in Seq(Entry) /\ entries \in Seq(Extent)
        /\ gpt_offset \in Int /\ disk_size \in Nat
        /\ Extent \subseteq Entry
    BY DEF PartedInv, PartedTypeOK, Extent, Entry
  <2>1. ASSUME NEW size \in DiskSizes, NEW offset \in GptOffsets, CreateEmpty(size, offset)
        PROVE  PartedTypeOK'
    <3>1. size \div Sector \in Int
      BY PartedAssumption, WholeSectors
    <3>2. mbr' \in [name : Names \union {NoName}, start : Nat, end : Int, zone_end : Int]
      BY <2>1, <3>1 DEF CreateEmpty, ProtectiveOnly, PartedTypeOK
    <3>3. QED
      BY <2>1, <3>2 DEF CreateEmpty, PartedTypeOK
  <2>2. ASSUME NEW name \in Names, NEW start \in Starts \union {Unset},
               NEW size \in Sizes \union {Unset}, AddPartition(name, start, size)
        PROVE  PartedTypeOK'
    <3> DEFINE first == StartOf(start)
               length == SizeOf(first, size)
    <3>1. first \in Int
      BY <2>0, ArgumentTypes
    <3>2. length \in Int
      BY <2>0, <3>1, ArgumentTypes
    <3>3. NewEntry(name, first, length) \in Extent
      BY <2>2, <3>1, <3>2, NewEntryType DEF AddPartition
    <3>4. entries' = Append(entries, NewEntry(name, first, length))
      BY <2>2 DEF AddPartition
    <3> HIDE DEF first, length
    <3>5. entries' \in Seq(Extent)
      BY <2>0, <3>3, <3>4
    <3>6. QED
      BY <2>2, <3>5 DEF AddPartition, PartedTypeOK
  <2>3. ASSUME NEW name \in Names, NEW start \in Starts \union {Unset},
               NEW img_size \in ImageSizes, NEW size \in Sizes \union {Unset},
               AddImage(name, img_size, start, size)
        PROVE  PartedTypeOK'
    <3>1. ASSUME NEW p \in Extent, WriteImage(p, img_size)
          PROVE  images' \subseteq Extent /\ written' \subseteq Names
      <4>1. p.name \in Names
        BY DEF Extent
      <4>2. DivRoundUp(img_size, Sector) \in Int
        BY PartedAssumption, RoundUp
      <4>3. ImageOn(p, img_size) \in Extent
        BY <4>2 DEF ImageOn, Extent
      <4>4. QED
        BY <3>1, <4>1, <4>3 DEF WriteImage, PartedTypeOK
    <3>2. CASE /\ FirstNamed(name) # 0
               /\ WriteImage(entries[FirstNamed(name)], img_size)
               /\ entries' = entries
      <4>1. entries[FirstNamed(name)] \in Extent
        BY <2>0, <3>2, FirstNamedFinds
      <4>2. QED
        BY <2>3, <3>1, <3>2, <4>1 DEF AddImage, PartedTypeOK
    <3>3. CASE FirstNamed(name) = 0
      <4> DEFINE first == StartOf(start)
                 length == IF size = Unset THEN img_size ELSE size
                 new == NewEntry(name, first, length)
      <4>1. first \in Int
        BY <2>0, ArgumentTypes
      <4>2. length \in Int
        BY PartedAssumption
      <4>3. CanPlace(first, length) /\ entries' = Append(entries, new) /\ WriteImage(new, img_size)
        BY <2>3, <3>3 DEF AddImage
      <4> HIDE DEF first, length
      <4>4. new \in Extent
        BY <4>1, <4>2, <4>3, NewEntryType
      <4> HIDE DEF new
      <4>5. entries' \in Seq(Extent)
        BY <2>0, <4>3, <4>4
      <4>6. QED
        BY <2>3, <3>1, <4>3, <4>4, <4>5 DEF AddImage, PartedTypeOK
    <3>4. QED
      BY <2>3, <3>2, <3>3 DEF AddImage
  <2>4. ASSUME NEW name \in Names, SetAsMbrPartition(name)
        PROVE  PartedTypeOK'
    <3>1. disk_size \div Sector \in Int
      BY <2>0, WholeSectors
    <3>2. ASSUME NEW p \in Extent, NEW zone_end \in Int
          PROVE  HybridEntry(p, zone_end) \in
                   [name : Names \union {NoName}, start : Nat, end : Int, zone_end : Int]
      BY DEF HybridEntry, Extent
    <3>3. ASSUME NEW i \in DOMAIN entries
          PROVE  entries[i] \in Extent /\ entries[i].start - 1 \in Int
      <4>1. entries[i] \in Extent
        BY <2>0
      <4>2. QED
        BY <4>1 DEF Extent
    <3>4. mbr' \in [name : Names \union {NoName}, start : Nat, end : Int, zone_end : Int]
      <4>1. CASE FirstNamed(name) = 0
        <5>1. Len(entries) \in DOMAIN entries /\ Last(entries) = entries[Len(entries)]
          BY <2>0, <2>4 DEF Last, SetAsMbrPartition
        <5>2. mbr' = HybridEntry(Last(entries), (disk_size \div Sector) - 1)
          BY <2>4, <4>1 DEF SetAsMbrPartition
        <5>3. QED
          BY <3>1, <3>2, <3>3, <5>1, <5>2
      <4>2. CASE FirstNamed(name) # 0
        <5>1. FirstNamed(name) \in DOMAIN entries
          BY <2>0, <4>2, FirstNamedFinds
        <5>2. mbr' = HybridEntry(entries[FirstNamed(name)], entries[FirstNamed(name)].start - 1)
          BY <2>4, <4>2 DEF SetAsMbrPartition
        <5>3. QED
          BY <3>2, <3>3, <5>1, <5>2
      <4>3. QED
        BY <4>1, <4>2
    <3>5. QED
      BY <2>4, <3>4 DEF SetAsMbrPartition, PartedTypeOK
  <2>5. CASE UNCHANGED partedVars
    BY <2>5 DEF partedVars, PartedTypeOK
  <2>6. QED
    BY <2>1, <2>2, <2>3, <2>4, <2>5 DEF PartedNext
<1>3. QED
  BY <1>1, <1>2, PartedInvariant, PTL DEF PartedSpec

-----------------------------------------------------------------------------
\* ImagesIntact, for a table and a set of images given.
Apart(es) == \A i, j \in DOMAIN es : i # j => ~Overlap(es[i], es[j])
Kept(es, ims, name) ==
  \E image \in ims, i \in DOMAIN es :
    /\ image.name = name /\ es[i].name = name
    /\ es[i].start = image.start /\ image.end <= es[i].end

\* ImagesIntact is what Kept says of every name written.
LEMMA IntactUnfolded ==
  ImagesIntact <=> (Apart(entries) => \A name \in written : Kept(entries, images, name))
<1>1. Disjoint <=> Apart(entries)
  <2>1. \A i, j \in DOMAIN entries : i # j => /\ <<i, j>> \in Pairs
                                            /\ <<i, j>>[1] = i /\ <<i, j>>[2] = j
    BY DEF Pairs
  <2>2. Disjoint => Apart(entries)
    <3>1. ASSUME Disjoint, NEW i \in DOMAIN entries, NEW j \in DOMAIN entries, i # j
          PROVE  ~Overlap(entries[i], entries[j])
      <4>1. <<i, j>> \in Pairs /\ <<i, j>>[1] = i /\ <<i, j>>[2] = j
        BY <2>1, <3>1
      <4>2. ~Overlap(entries[<<i, j>>[1]], entries[<<i, j>>[2]])
        BY <3>1, <4>1 DEF Disjoint
      <4>3. QED
        BY <4>1, <4>2 DEF Overlap
    <3>2. QED
      BY <3>1 DEF Apart
  <2>3. Apart(entries) => Disjoint
    BY DEF Disjoint, Apart, Pairs
  <2>4. QED
    BY <2>2, <2>3
<1>2. QED
  BY <1>1 DEF ImagesIntact, Kept

\* The same after a step.
LEMMA IntactAfter ==
  ImagesIntact' <=> (Apart(entries') => \A name \in written' : Kept(entries', images', name))
<1>1. Disjoint' <=> Apart(entries')
  <2>1. \A i, j \in DOMAIN entries' : i # j => /\ <<i, j>> \in Pairs'
                                             /\ <<i, j>>[1] = i /\ <<i, j>>[2] = j
    BY DEF Pairs
  <2>2. Disjoint' => Apart(entries')
    <3>1. ASSUME Disjoint', NEW i \in DOMAIN entries', NEW j \in DOMAIN entries', i # j
          PROVE  ~Overlap(entries'[i], entries'[j])
      <4>1. <<i, j>> \in Pairs' /\ <<i, j>>[1] = i /\ <<i, j>>[2] = j
        BY <2>1, <3>1
      <4>2. ~Overlap(entries[<<i, j>>[1]], entries[<<i, j>>[2]])'
        BY <3>1, <4>1 DEF Disjoint
      <4>3. QED
        BY <4>1, <4>2 DEF Overlap
    <3>2. QED
      BY <3>1 DEF Apart
  <2>3. Apart(entries') => Disjoint'
    BY DEF Disjoint, Apart, Pairs, Overlap
  <2>4. QED
    BY <2>2, <2>3
<1>2. QED
  BY <1>1 DEF ImagesIntact, Kept

\* The sectors of an image are numbers.
LEMMA ImageType ==
  ASSUME NEW p \in Entry, NEW img_size \in ImageSizes
  PROVE  /\ ImageOn(p, img_size) \in Entry
         /\ ImageOn(p, img_size).name = p.name
         /\ ImageOn(p, img_size).start = p.start
         /\ ImageOn(p, img_size).end = p.start + DivRoundUp(img_size, Sector) - 1
<1>1. DivRoundUp(img_size, Sector) \in Int
  BY RoundUp, PartedAssumption
<1>2. QED
  BY <1>1 DEF ImageOn, Entry

\* Fits() compares bytes, yet the sectors of the image end within the partition.
LEMMA ImageInside ==
  ASSUME NEW p \in Entry, NEW img_size \in ImageSizes, Fits(img_size, p)
  PROVE  ImageOn(p, img_size).end <= p.end
<1> DEFINE up == DivRoundUp(img_size, Sector)
<1>0. Sector \in Nat \ {0} /\ img_size \in Int
  BY PartedAssumption
<1>1. up \in Int /\ up * Sector < img_size + Sector
  BY <1>0, RoundUp
<1>2. p.start \in Int /\ p.end \in Int
  BY DEF Entry
<1> DEFINE room == p.end + 1 - p.start
<1>3. room \in Int /\ img_size <= room * Sector
  BY <1>2 DEF Fits
<1> HIDE DEF up, room
<1>4. (room + 1) * Sector = room * Sector + Sector /\ room * Sector \in Int /\ up * Sector \in Int
  BY <1>0, <1>1, <1>3
<1>5. up * Sector < (room + 1) * Sector
  BY <1>0, <1>1, <1>3, <1>4
<1>6. up <= room
  BY <1>1, <1>3, <1>5, SectorOrder
<1>7. ImageOn(p, img_size).end = p.start + up - 1
  BY ImageType DEF up
<1>8. QED
  BY <1>1, <1>2, <1>6, <1>7 DEF room

\* Writing an image into one of disjoint partitions spares what the others hold.
LEMMA WriteSparesOthers ==
  ASSUME NEW es \in Seq(Entry), NEW k \in DOMAIN es, NEW img_size \in ImageSizes,
         images \subseteq Entry, Apart(es), WriteImage(es[k], img_size),
         \A name \in written : Kept(es, images, name)
  PROVE  \A name \in written' : Kept(es, images', name)
<1> DEFINE p == es[k]
           new == ImageOn(p, img_size)
<1>0. p \in Entry
  OBVIOUS
<1>1. CASE UNCHANGED <<images, written>>
  BY <1>1
<1>2. CASE /\ Fits(img_size, p)
           /\ images' = {i \in images : i.name # p.name /\ ~Overlap(i, new)} \union {new}
           /\ written' = written \union {p.name}
  <2>1. new \in Entry /\ new.name = p.name /\ new.start = p.start /\ new.end <= p.end
    BY <1>0, <1>2, ImageType, ImageInside
  <2>2. Kept(es, images', p.name)
    BY <1>2, <2>1 DEF Kept
  <2>3. ASSUME NEW name \in written, name # p.name
        PROVE  Kept(es, images', name)
    <3>1. PICK image \in images, i \in DOMAIN es :
            /\ image.name = name /\ es[i].name = name
            /\ es[i].start = image.start /\ image.end <= es[i].end
      BY DEF Kept
    <3>2. i # k /\ ~Overlap(es[i], p)
      BY <2>3, <3>1 DEF Apart
    <3>3. es[i] \in Entry /\ image \in Entry
      BY <3>1
    <3>4. /\ es[i].start \in Int /\ es[i].end \in Int /\ image.start \in Int
          /\ image.end \in Int /\ p.start \in Int /\ p.end \in Int
          /\ new.start \in Int /\ new.end \in Int
      BY <1>0, <2>1, <3>3 DEF Entry
    <3> HIDE DEF new, p
    <3>5. ~Overlap(image, new)
      BY <2>1, <3>1, <3>2, <3>4 DEF Overlap
    <3>6. image \in images'
      BY <1>2, <2>3, <3>1, <3>5
    <3>7. QED
      BY <3>1, <3>6 DEF Kept
  <2>4. QED
    BY <1>2, <2>2, <2>3
<1>3. QED
  BY <1>1, <1>2 DEF WriteImage

ImagesInv == PartedInv /\ images \subseteq Entry /\ ImagesIntact

\* A longer table that is disjoint was disjoint before, and keeps its images.
LEMMA LongerTable ==
  ASSUME NEW new \in Entry, entries \in Seq(Entry), ImagesIntact,
         Apart(Append(entries, new))
  PROVE  \A name \in written : Kept(Append(entries, new), images, name)
<1> DEFINE es == Append(entries, new)
<1>1. \A i \in DOMAIN entries : i \in DOMAIN es /\ es[i] = entries[i]
  OBVIOUS
<1>2. Apart(entries)
  BY <1>1 DEF Apart
<1>3. \A name \in written : Kept(entries, images, name)
  BY <1>2, IntactUnfolded
<1>4. QED
  BY <1>1, <1>3 DEF Kept

\* Every command keeps what was written.
LEMMA ImagesInvStep == ImagesInv /\ [PartedNext]_partedVars => ImagesInv'
<1> SUFFICES ASSUME ImagesInv, [PartedNext]_partedVars PROVE ImagesInv'
  OBVIOUS
<1>0. /\ PartedInv /\ PartedInv' /\ images \subseteq Entry
      /\ entries \in Seq(Entry) /\ entries' \in Seq(Entry)
  BY PartedInvStep DEF ImagesInv, PartedInv
<1>1. ASSUME UNCHANGED <<entries, images, written>> PROVE ImagesInv'
  BY <1>0, <1>1 DEF ImagesInv, ImagesIntact, Disjoint, Pairs
<1>2. ASSUME NEW name \in Names, NEW start \in Starts \union {Unset},
             NEW size \in Sizes \union {Unset}, AddPartition(name, start, size)
      PROVE  ImagesInv'
  <2>1. PICK new : entries' = Append(entries, new)
    BY <1>2 DEF AddPartition
  <2>2. UNCHANGED <<images, written>>
    BY <1>2 DEF AddPartition
  <2>3. new \in Entry
    <3>1. /\ Len(entries) + 1 \in DOMAIN Append(entries, new)
          /\ Append(entries, new)[Len(entries) + 1] = new
      BY <1>0
    <3>2. QED
      BY <1>0, <2>1, <3>1
  <2>4. Apart(entries') => \A n \in written' : Kept(entries', images', n)
    BY <1>0, <2>1, <2>2, <2>3, LongerTable DEF ImagesInv
  <2>5. QED
    BY <1>0, <2>2, <2>4, IntactAfter DEF ImagesInv
<1>3. ASSUME NEW name \in Names, NEW img_size \in ImageSizes,
             NEW start \in Starts \union {Unset}, NEW size \in Sizes \union {Unset},
             AddImage(name, img_size, start, size)
      PROVE  ImagesInv'
  <2>1. CASE /\ FirstNamed(name) # 0
             /\ WriteImage(entries[FirstNamed(name)], img_size)
             /\ entries' = entries
    <3>1. FirstNamed(name) \in DOMAIN entries
      BY <1>0, <2>1, FirstNamedFinds
    <3>2. images' \subseteq Entry
      BY <1>0, <2>1, <3>1, ImageType DEF WriteImage
    <3>3. Apart(entries) => \A n \in written' : Kept(entries, images', n)
      BY <1>0, <2>1, <3>1, IntactUnfolded, WriteSparesOthers DEF ImagesInv
    <3>4. QED
      BY <1>0, <2>1, <3>2, <3>3, IntactAfter DEF ImagesInv
  <2>2. CASE FirstNamed(name) = 0
    <3>1. PICK new : entries' = Append(entries, new) /\ WriteImage(new, img_size)
      BY <1>3, <2>2 DEF AddImage
    <3> DEFINE k == Len(entries) + 1
    <3>2. k \in DOMAIN entries' /\ entries'[k] = new
      BY <1>0, <3>1
    <3>3. new \in Entry
      BY <1>0, <3>2
    <3>4. images' \subseteq Entry
      BY <1>0, <3>1, <3>3, ImageType DEF WriteImage
    <3>5. Apart(entries') => \A n \in written : Kept(entries', images, n)
      BY <1>0, <3>1, <3>3, LongerTable DEF ImagesInv
    <3>6. WriteImage(entries'[k], img_size)
      BY <3>1, <3>2
    <3>7. Apart(entries') => \A n \in written' : Kept(entries', images', n)
      <4> DEFINE es == entries'
      <4>1. es \in Seq(Entry) /\ k \in DOMAIN es /\ WriteImage(es[k], img_size)
        BY <1>0, <3>2, <3>6
      <4>2. Apart(es) => \A n \in written : Kept(es, images, n)
        BY <3>5
      <4> HIDE DEF es, k
      <4>3. Apart(es) => \A n \in written' : Kept(es, images', n)
        BY <1>0, <4>1, <4>2, WriteSparesOthers
      <4>4. QED
        BY <4>3 DEF es
    <3>8. QED
      BY <1>0, <3>4, <3>7, IntactAfter DEF ImagesInv
  <2>3. QED
    BY <1>3, <2>1, <2>2 DEF AddImage
<1>4. ASSUME NEW size \in DiskSizes, NEW offset \in GptOffsets, CreateEmpty(size, offset)
      PROVE  ImagesInv'
  BY <1>1, <1>4 DEF CreateEmpty
<1>5. ASSUME NEW name \in Names, SetAsMbrPartition(name) PROVE ImagesInv'
  BY <1>1, <1>5 DEF SetAsMbrPartition
<1>6. CASE UNCHANGED partedVars
  BY <1>1, <1>6 DEF partedVars
<1>7. QED
  BY <1>2, <1>3, <1>4, <1>5, <1>6 DEF PartedNext

\* As long as the partitions are disjoint, no later command overwrites or moves
\* what add_image wrote to one of them: add_image compares the image's bytes with
\* the whole sectors of the partition.
THEOREM ImagesStayIntact == PartedSpec => []ImagesIntact
<1>1. PartedInit => ImagesInv
  <2>1. PartedInit => PartedInv
    BY DEF PartedInit, PartedInv, ProtectiveOnly, BackwardsOnlyBehindDisk, ClearOfTables,
      OverlapOnlyAtLastSector, HybridIsPartition, Pairs
  <2>2. PartedInit => images \subseteq Entry /\ ImagesIntact
    BY DEF PartedInit, ImagesIntact
  <2>3. QED
    BY <2>1, <2>2 DEF ImagesInv
<1>2. ImagesInv => ImagesIntact
  BY DEF ImagesInv
<1>3. QED
  BY <1>1, <1>2, ImagesInvStep, PTL DEF PartedSpec
=============================================================================

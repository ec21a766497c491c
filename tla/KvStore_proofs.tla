---------------------------- MODULE KvStore_proofs ----------------------------
(***************************************************************************)
(* Proofs about KvStore, for every set of names and values, every size of  *)
(* the directory and of the disk, and any number of calls and faults.      *)
(*                                                                         *)
(* TypeInv holds whatever fails.  ContentsInv says where the contents of   *)
(* every file are while neither a write nor power has failed; SafeInv says *)
(* what a call in progress has in common with the disk for the names it    *)
(* is not about, also when sector writes fail or power is lost.            *)
(***************************************************************************)
EXTENDS KvStore, NatLemmas

-----------------------------------------------------------------------------
(* Extremes.                                                                *)

\* The least of a set of numbers.
LEMMA MinFacts ==
    ASSUME NEW S, S \subseteq Nat, S # {}
    PROVE  MinOf(S) \in S /\ \A x \in S : MinOf(S) <= x
<1>1. \E m \in S : \A x \in S : m <= x
  BY LeastNatural
<1> QED
  BY <1>1 DEF MinOf

\* The greatest of a bounded set of numbers.
LEMMA MaxFacts ==
    ASSUME NEW S, NEW b \in Nat, S \subseteq 0..b, S # {}
    PROVE  MaxOf(S) \in S /\ \A x \in S : x <= MaxOf(S)
<1> DEFINE T == {b - x : x \in S}
<1>1. T \subseteq Nat /\ T # {}
  <2>1. \A x \in S : b - x \in Nat /\ x \in Nat
    OBVIOUS
  <2> QED
    BY <2>1
<1>2. \E t \in T : \A u \in T : t <= u
  <2> HIDE DEF T
  <2> QED
    BY <1>1, LeastNatural
<1>3. PICK t \in T : \A u \in T : t <= u
  BY <1>2
<1>4. PICK m \in S : t = b - m
  BY <1>3
<1>5. ASSUME NEW x \in S PROVE x <= m
  <2>1. b - m <= b - x
    BY <1>3, <1>4
  <2>2. x \in Nat /\ m \in Nat
    OBVIOUS
  <2> QED
    BY <2>1, <2>2
<1> QED
  BY <1>4, <1>5 DEF MaxOf

-----------------------------------------------------------------------------
(* The directory.                                                           *)

FileName == {NoName} \cup Names \cup {StoredName(n) : n \in Names}

DirEntry == [name : FileName, off : Nat, size : Nat, deleted : BOOLEAN]

End(e) == e.off + e.size

Dirs == {d \in [Entries -> DirEntry] : \A i \in Entries : End(d[i]) <= DiskSize}

\* There are finitely many entries, and each lies in a sector of the directory.
LEMMA EntryFacts ==
    /\ DirSectors * PerSector \in Nat
    /\ Entries \subseteq Nat /\ IsFiniteSet(Entries)
    /\ \A i \in Entries : SectorOf(i) \in 1..DirSectors
<1> DEFINE n == DirSectors * PerSector
<1>1. DirSectors \in Nat /\ PerSector \in Nat /\ PerSector > 0 /\ DirSectors > 0
  BY KvConstants
<1>2. n \in Nat
  BY <1>1
<1>3. Entries = 1..n
  BY DEF Entries
<1>4. ASSUME NEW i \in 1..n PROVE SectorOf(i) \in 1..DirSectors
  <2> DEFINE q == (i - 1) \div PerSector
  <2>1. q \in Int /\ (i - 1) % PerSector \in 0..(PerSector - 1)
        /\ (i - 1) % PerSector = (i - 1) - PerSector * q
    BY <1>1, <1>2, DivMod
  <2> HIDE DEF q
  <2>2. PerSector * q <= i - 1 /\ i - 1 < PerSector * q + PerSector
    BY <1>1, <1>2, <2>1
  <2>3. q >= 0
    <3>1. PerSector * (q + 1) = PerSector * q + PerSector
      BY <1>1, <2>1, Z3
    <3>2. q + 1 <= 0 => PerSector * (q + 1) <= 0
      BY <1>1, <2>1, MultipleBounds
    <3> QED
      BY <1>1, <1>2, <2>1, <2>2, <3>1, <3>2
  <2>4. q < DirSectors
    <3>1. PerSector * (q - DirSectors) = PerSector * q - DirSectors * PerSector
      BY <1>1, <2>1, Z3
    <3>2. q - DirSectors >= 1 => PerSector * (q - DirSectors) >= PerSector
      BY <1>1, <2>1, MultipleBounds
    <3>3. q - DirSectors = 0 => PerSector * q = DirSectors * PerSector
      BY <1>1, <2>1, Z3
    <3> HIDE DEF n
    <3>4. i <= n /\ n = DirSectors * PerSector
      BY <1>2 DEF n
    <3> QED
      BY <1>1, <1>2, <2>1, <2>2, <3>1, <3>2, <3>3, <3>4
  <2> QED
    BY <1>1, <2>1, <2>3, <2>4 DEF SectorOf, q
<1>5. IsFiniteSet(1..n)
  BY <1>2, FS_Interval
<1> HIDE DEF n
<1> QED
  BY <1>2, <1>3, <1>4, <1>5 DEF n

\* Marking entries as deleted, and reading with some sectors unreadable, gives
\* a directory.
LEMMA DirSteps ==
    ASSUME NEW d \in Dirs, NEW n, NEW bad
    PROVE  /\ MarkDeleted(d, n) \in Dirs
           /\ dir \in Dirs => ReadDir(bad) \in Dirs
<1>1. Zero \in DirEntry /\ End(Zero) = 0 /\ DiskSize \in Nat
  BY KvConstants DEF Zero, DirEntry, FileName, End
<1>2. \A i \in Entries : d[i] \in DirEntry /\ End(d[i]) <= DiskSize
  BY DEF Dirs
<1>3. \A e \in DirEntry : LET f == [e EXCEPT !.deleted = TRUE]
                          IN  f \in DirEntry /\ End(f) = End(e)
  BY DEF DirEntry, End
<1>4. MarkDeleted(d, n) \in Dirs
  BY <1>2, <1>3 DEF MarkDeleted, Dirs
<1>5. ASSUME dir \in Dirs PROVE ReadDir(bad) \in Dirs
  BY <1>1, <1>5 DEF ReadDir, Dirs
<1> QED
  BY <1>4, <1>5

\* The data of a new file begins where all the others end.
LEMMA NextFree ==
    ASSUME NEW d \in Dirs
    PROVE  /\ find_next_free_sector(d) \in 0..DiskSize
           /\ \A i \in Entries : ~d[i].deleted => End(d[i]) <= find_next_free_sector(d)
<1> DEFINE S == {d[i].off + d[i].size : i \in {j \in Entries : ~d[j].deleted}} \cup {0}
<1>1. DiskSize \in Nat
  BY KvConstants
<1>2. \A i \in Entries : End(d[i]) \in 0..DiskSize
  BY <1>1 DEF Dirs, DirEntry, End
<1>3. S \subseteq 0..DiskSize /\ S # {}
  BY <1>1, <1>2 DEF End
<1>4. MaxOf(S) \in S /\ \A x \in S : x <= MaxOf(S)
  <2> HIDE DEF S
  <2> QED
    BY <1>1, <1>3, MaxFacts
<1>5. find_next_free_sector(d) = MaxOf(S)
  BY DEF find_next_free_sector
<1>6. \A i \in Entries : ~d[i].deleted => End(d[i]) \in S
  BY DEF End
<1> HIDE DEF S
<1> QED
  BY <1>3, <1>4, <1>5, <1>6

-----------------------------------------------------------------------------
(* Types.                                                                   *)

FaultCounts == [read : Nat, write : Nat, crash : Nat, full : {0, 1}]

Block == {None} \cup [of : Values, i : Nat]

FormatOp == [k : {"format"}, i : 0..DirSectors]

DataOp == [k : {"data"}, name : Names, value : Values, i : Nat, mem : Dirs,
           slot : Entries, next : Nat]

DirOp == [k : {"dir"}, call : {"write", "delete"}, name : Names,
          value : Values \cup {None}, i : 1..(DirSectors + 1), mem : Dirs]

\* While data is written: what has been written is there, behind all the files
\* of the directory in memory and on the disk, and the slot is free.
Writing(o) ==
    /\ o.i <= o.value.size /\ o.next + o.i <= DiskSize
    /\ o.slot \in FreeSlots(o.mem)
    /\ \A i \in Entries : ~o.mem[i].deleted => End(o.mem[i]) <= o.next
    /\ \A k \in 1..o.i : data[o.next + k - 1] = Blocks(o.value)[k]

TypeInv ==
    /\ magic \in BOOLEAN /\ dir \in Dirs
    /\ data \in [0..(DiskSize - 1) -> Block]
    /\ stored \in [Names -> Values \cup {None, Unknown}]
    /\ faults \in FaultCounts
    /\ op \in [k : {"idle", "boot"}] \cup FormatOp \cup DataOp \cup DirOp
    /\ op.k = "data" => Writing(op)

\* A step counts its faults and never takes one back.
LEMMA FaultsGrow ==
    ASSUME faults \in FaultCounts, [Next]_vars
    PROVE  /\ faults' \in FaultCounts
           /\ faults.read <= faults'.read /\ faults.write <= faults'.write
           /\ faults.crash <= faults'.crash /\ faults.full <= faults'.full
<1> DEFINE Grown == /\ faults' \in FaultCounts
                    /\ faults.read <= faults'.read /\ faults.write <= faults'.write
                    /\ faults.crash <= faults'.crash /\ faults.full <= faults'.full
<1>1. UNCHANGED faults => Grown
  BY DEF FaultCounts
<1>2. WriteFails => Grown
  BY DEF WriteFails, FaultCounts
<1>3. \A k \in Nat : ReadFails(k) => Grown
  BY DEF ReadFails, FaultCounts
<1>4. \A bad \in SUBSET (1..DirSectors) : Cardinality(bad) \in Nat
  <2> TAKE bad \in SUBSET (1..DirSectors)
  <2>1. IsFiniteSet(1..DirSectors)
    BY KvConstants, FS_Interval
  <2> QED
    BY <2>1, FS_Subset, FS_CardinalityType
<1>5. faults' = [faults EXCEPT !.full = 1] => Grown
  BY DEF FaultCounts
<1>6. faults' = [faults EXCEPT !.crash = @ + 1] => Grown
  BY DEF FaultCounts
<1> HIDE DEF Grown
<1>7. UNCHANGED vars \/ FillEntry => Grown
  BY <1>1 DEF vars, FillEntry
<1>8. Open \/ UpdateSuper => Grown
  BY <1>1, <1>2, <1>3 DEF Open, UpdateSuper
<1>9. Format \/ WriteDir => Grown
  BY <1>1, <1>2 DEF Format, WriteDir
<1>10. WriteData => Grown
  BY <1>1, <1>2, <1>5 DEF WriteData
<1>11. ASSUME NEW n \in Names, NEW v \in Values PROVE BeginWrite(n, v) => Grown
  BY <1>3, <1>4 DEF BeginWrite
<1>12. ASSUME NEW n \in Names PROVE BeginDelete(n) => Grown
  BY <1>3, <1>4 DEF BeginDelete
<1>13. Crash => Grown
  BY <1>6 DEF Crash
<1> QED
  BY <1>7, <1>8, <1>9, <1>10, <1>11, <1>12, <1>13 DEF Next, Grown

\* The entry of a new file.
LEMMA NewEntry ==
    ASSUME NEW o \in DataOp, Writing(o), o.i = o.value.size
    PROVE  /\ WithEntry(o) \in Dirs
           /\ WithEntry(o)[o.slot] = [name |-> StoredName(o.name), off |-> o.next,
                                      size |-> o.value.size, deleted |-> FALSE]
           /\ \A i \in Entries : i # o.slot => WithEntry(o)[i] = o.mem[i]
<1> DEFINE e == [name |-> StoredName(o.name), off |-> o.next,
                 size |-> o.value.size, deleted |-> FALSE]
<1>1. /\ o.mem \in Dirs /\ o.slot \in Entries /\ o.name \in Names /\ o.value \in Values
      /\ o.next \in Nat
  BY DEF DataOp
<1>2. o.value.size \in Nat /\ o.next + o.value.size <= DiskSize
  BY <1>1, KvConstants DEF Writing
<1>3. e \in DirEntry /\ End(e) <= DiskSize
  BY <1>1, <1>2 DEF DirEntry, FileName, End
<1>4. WithEntry(o) = [o.mem EXCEPT ![o.slot] = e]
  BY DEF WithEntry
<1> HIDE DEF e
<1>5. WithEntry(o) \in Dirs
  BY <1>1, <1>3, <1>4 DEF Dirs
<1> QED
  BY <1>1, <1>4, <1>5 DEF Dirs, e

\* Opening and formatting.
LEMMA OpenTypes ==
    ASSUME TypeInv, Open \/ Format \/ Crash
    PROVE  op' \in [k : {"idle", "boot"}] \cup FormatOp /\ TypeInv'
<1>1. DirSectors \in Nat
  BY KvConstants
<1>2. faults' \in FaultCounts
  BY FaultsGrow DEF TypeInv, Next
<1>3. Zero \in DirEntry /\ End(Zero) <= DiskSize
  BY KvConstants DEF Zero, DirEntry, FileName, End
<1>4. CASE Open
  <2>1. op' = Idle \/ op' = [k |-> "format", i |-> 0]
    BY <1>4 DEF Open
  <2>2. UNCHANGED << magic, dir, data, stored >>
    BY <1>4 DEF Open, disk
  <2>3. op' \in [k : {"idle", "boot"}] \cup FormatOp /\ op'.k # "data"
    BY <1>1, <2>1 DEF Idle, FormatOp
  <2> QED
    BY <1>2, <2>2, <2>3 DEF TypeInv
<1>5. CASE Crash
  <2>1. op' = [k |-> "boot"] /\ UNCHANGED << magic, dir, data, stored >>
    BY <1>5 DEF Crash, disk
  <2>2. op' \in [k : {"idle", "boot"}] \cup FormatOp /\ op'.k # "data"
    BY <2>1
  <2> QED
    BY <1>2, <2>1, <2>2 DEF TypeInv
<1>6. CASE Format
  <2>1. op.k = "format" /\ op \in FormatOp
    BY <1>6 DEF Format, TypeInv, DataOp, DirOp
  <2>2. op' = Idle \/ (op.i # DirSectors /\ op' = [op EXCEPT !.i = @ + 1])
    BY <1>6 DEF Format
  <2>3. op' \in [k : {"idle", "boot"}] \cup FormatOp /\ op'.k # "data"
    BY <1>1, <2>1, <2>2 DEF Idle, FormatOp
  <2>4. UNCHANGED << data, stored >>
    BY <1>6 DEF Format
  <2>5. magic' \in BOOLEAN
    BY <1>6 DEF Format, TypeInv
  <2>6. \/ dir' = dir
        \/ dir' = [i \in Entries |-> IF SectorOf(i) = op.i THEN Zero ELSE dir[i]]
    BY <1>6 DEF Format
  <2>7. dir' \in Dirs
    BY <1>3, <2>6 DEF TypeInv, Dirs
  <2> QED
    BY <1>2, <2>3, <2>4, <2>5, <2>7 DEF TypeInv
<1> QED
  BY <1>4, <1>5, <1>6

\* What a call keeps in memory when it begins.
LEMMA BeginWriteTypes ==
    ASSUME TypeInv, NEW n \in Names, NEW v \in Values, BeginWrite(n, v)
    PROVE  TypeInv' /\ (op' = Idle \/ op' \in DataOp)
<1>1. faults' \in FaultCounts
  BY FaultsGrow DEF TypeInv, Next
<1>2. UNCHANGED << magic, dir, data, stored >>
  BY DEF BeginWrite, disk
<1>3. DirSectors \in Nat /\ DiskSize \in Nat /\ v.size \in Nat
  BY KvConstants
<1>4. Idle \in [k : {"idle", "boot"}] /\ Idle.k # "data"
  BY DEF Idle
<1>5. CASE op' = Idle
  BY <1>1, <1>2, <1>4, <1>5 DEF TypeInv
<1>6. CASE op' # Idle
  <2>1. PICK bad \in SUBSET (1..DirSectors) :
            LET mem == MarkDeleted(ReadDir(bad), n)
            IN  op' = IF FreeSlots(mem) = {} THEN Idle
                      ELSE [k |-> "data", name |-> n, value |-> v, i |-> 0,
                            mem |-> mem, slot |-> MinOf(FreeSlots(mem)),
                            next |-> find_next_free_sector(mem)]
    BY DEF BeginWrite
  <2> DEFINE mem == MarkDeleted(ReadDir(bad), n)
             slot == MinOf(FreeSlots(mem))
             next == find_next_free_sector(mem)
  <2>2. mem \in Dirs
    BY DirSteps DEF TypeInv
  <2>3. /\ FreeSlots(mem) # {}
        /\ op' = [k |-> "data", name |-> n, value |-> v, i |-> 0, mem |-> mem,
                  slot |-> slot, next |-> next]
    BY <1>6, <2>1
  <2> HIDE DEF mem
  <2>4. slot \in FreeSlots(mem) /\ slot \in Entries
    <3>1. FreeSlots(mem) \subseteq Nat /\ FreeSlots(mem) \subseteq Entries
      BY EntryFacts DEF FreeSlots
    <3> QED
      BY <2>3, <3>1, MinFacts
  <2>5. /\ next \in 0..DiskSize
        /\ \A i \in Entries : ~mem[i].deleted => End(mem[i]) <= next
    BY <2>2, NextFree
  <2> HIDE DEF slot, next
  <2>6. op' \in DataOp
    BY <1>3, <2>2, <2>3, <2>4, <2>5 DEF DataOp
  <2>7. Writing(op)'
    <3>1. /\ op'.i = 0 /\ op'.value = v /\ op'.next = next /\ op'.slot = slot /\ op'.mem = mem
      BY <2>3
    <3> QED
      BY <1>3, <2>4, <2>5, <3>1 DEF Writing
  <2> QED
    BY <1>1, <1>2, <2>6, <2>7 DEF TypeInv
<1> QED
  BY <1>5, <1>6

\* Likewise for a call of delete.
LEMMA BeginDeleteTypes ==
    ASSUME TypeInv, NEW n \in Names, BeginDelete(n)
    PROVE  TypeInv' /\ (op' = Idle \/ op' \in DirOp)
<1>1. faults' \in FaultCounts
  BY FaultsGrow DEF TypeInv, Next
<1>2. UNCHANGED << magic, dir, data, stored >>
  BY DEF BeginDelete, disk
<1>3. DirSectors \in Nat
  BY KvConstants
<1>4. Idle \in [k : {"idle", "boot"}] /\ Idle.k # "data"
  BY DEF Idle
<1>5. CASE op' = Idle
  BY <1>1, <1>2, <1>4, <1>5 DEF TypeInv
<1>6. CASE op' # Idle
  <2>1. PICK bad \in SUBSET (1..DirSectors) :
            LET d == ReadDir(bad)
            IN  op' = IF Hits(d, n) = {} THEN Idle
                      ELSE [k |-> "dir", call |-> "delete", name |-> n, value |-> None,
                            i |-> 1, mem |-> MarkDeleted(d, n)]
    BY DEF BeginDelete
  <2> DEFINE mem == MarkDeleted(ReadDir(bad), n)
  <2>2. mem \in Dirs
    BY DirSteps DEF TypeInv
  <2>3. op' = [k |-> "dir", call |-> "delete", name |-> n, value |-> None,
               i |-> 1, mem |-> mem]
    BY <1>6, <2>1
  <2> HIDE DEF mem
  <2>4. op' \in DirOp /\ op'.k # "data"
    BY <1>3, <2>2, <2>3 DEF DirOp
  <2> QED
    BY <1>1, <1>2, <2>4 DEF TypeInv
<1> QED
  BY <1>5, <1>6

\* A sector of data has been written.
LEMMA DataStep ==
    ASSUME TypeInv, WriteData, op' # Idle
    PROVE  /\ TypeInv' /\ op \in DataOp /\ op' \in DataOp
           /\ op.i < op.value.size /\ op.next + op.i < DiskSize
           /\ data' = [data EXCEPT ![op.next + op.i] = Blocks(op.value)[op.i + 1]]
           /\ op' = [op EXCEPT !.i = @ + 1]
           /\ UNCHANGED << magic, count, dir, stored, faults >>
<1>1. op.k = "data" /\ op \in DataOp /\ Writing(op)
  BY DEF WriteData, TypeInv, FormatOp, DirOp
<1>2. /\ op.i < op.value.size /\ op.next + op.i < DiskSize
      /\ data' = [data EXCEPT ![op.next + op.i] = Blocks(op.value)[op.i + 1]]
      /\ op' = [op EXCEPT !.i = @ + 1]
      /\ UNCHANGED << magic, count, dir, stored, faults >>
  BY DEF WriteData, Fail
<1>3. /\ op.i \in Nat /\ op.next \in Nat /\ op.value \in Values /\ op.value.size \in Nat
      /\ op.mem \in Dirs /\ op.slot \in Entries /\ DiskSize \in Nat
  BY <1>1, KvConstants DEF DataOp
<1>4. /\ op' \in DataOp /\ op'.i = op.i + 1 /\ op'.value = op.value /\ op'.next = op.next
      /\ op'.mem = op.mem /\ op'.slot = op.slot
  BY <1>1, <1>2, <1>3 DEF DataOp
<1>5. /\ \A k \in 1..op.value.size : Blocks(op.value)[k] = [of |-> op.value, i |-> k]
      /\ \A k \in 1..op.value.size : Blocks(op.value)[k] \in Block
  BY <1>3 DEF Blocks, Block
<1>6. data' \in [0..(DiskSize - 1) -> Block]
  <2>1. op.i + 1 \in 1..op.value.size
    BY <1>2, <1>3
  <2>2. Blocks(op.value)[op.i + 1] \in Block
    BY <1>5, <2>1
  <2>3. data \in [0..(DiskSize - 1) -> Block]
    BY DEF TypeInv
  <2> QED
    BY <1>2, <2>2, <2>3
<1>7. ASSUME NEW k \in 1..(op.i + 1)
      PROVE  data'[op.next + k - 1] = Blocks(op.value)[k]
  <2>1. CASE k = op.i + 1
    <3>1. op.next + k - 1 = op.next + op.i /\ op.next + op.i \in 0..(DiskSize - 1)
      BY <1>2, <1>3, <2>1
    <3> QED
      BY <1>2, <2>1, <3>1 DEF TypeInv
  <2>2. CASE k \in 1..op.i
    <3>1. /\ op.next + k - 1 # op.next + op.i /\ op.next + k - 1 \in 0..(DiskSize - 1)
      BY <1>2, <1>3, <2>2
    <3>2. data'[op.next + k - 1] = data[op.next + k - 1]
      BY <1>2, <3>1 DEF TypeInv
    <3> QED
      BY <1>1, <2>2, <3>2 DEF Writing
  <2> QED
    BY <1>3, <2>1, <2>2
<1>8. Writing(op)'
  <2>1. op'.i <= op'.value.size /\ op'.next + op'.i <= DiskSize
    BY <1>2, <1>3, <1>4
  <2>2. /\ op'.slot \in FreeSlots(op'.mem)
        /\ \A i \in Entries : ~op'.mem[i].deleted => End(op'.mem[i]) <= op'.next
    BY <1>1, <1>4 DEF Writing
  <2>3. \A k \in 1..op'.i : data'[op'.next + k - 1] = Blocks(op'.value)[k]
    BY <1>4, <1>7
  <2> QED
    BY <2>1, <2>2, <2>3 DEF Writing
<1> QED
  BY <1>1, <1>2, <1>4, <1>6, <1>8 DEF TypeInv

\* The rest of a call.
LEMMA WriteTypes ==
    ASSUME TypeInv, WriteData \/ FillEntry \/ WriteDir \/ UpdateSuper
    PROVE  TypeInv'
<1>1. faults' \in FaultCounts
  BY FaultsGrow DEF TypeInv, Next
<1>2. Idle \in [k : {"idle", "boot"}] /\ Idle.k # "data" /\ DirSectors \in Nat
  BY KvConstants DEF Idle
<1>3. CASE WriteData
  <2>1. CASE op' # Idle
    BY <1>3, <2>1, DataStep
  <2>2. CASE op' = Idle
    <3>1. op \in DataOp /\ op.name \in Names
      BY <1>3 DEF WriteData, TypeInv, FormatOp, DataOp, DirOp
    <3>2. UNCHANGED << magic, dir, data >>
      BY <1>2, <1>3, <2>2, <3>1 DEF WriteData, DataOp
    <3>3. stored' = stored \/ stored' = [stored EXCEPT ![op.name] = Unknown]
      BY <1>3 DEF WriteData, Fail
    <3>4. stored' \in [Names -> Values \cup {None, Unknown}]
      BY <3>1, <3>3 DEF TypeInv
    <3> QED
      BY <1>1, <1>2, <2>2, <3>2, <3>4 DEF TypeInv
  <2> QED
    BY <2>1, <2>2
<1>4. CASE FillEntry
  <2>1. op.k = "data" /\ op \in DataOp /\ Writing(op) /\ op.i = op.value.size
    BY <1>4 DEF FillEntry, TypeInv, FormatOp, DirOp
  <2>2. WithEntry(op) \in Dirs
    BY <2>1, NewEntry
  <2>3. op' = [k |-> "dir", call |-> "write", name |-> op.name, value |-> op.value,
               i |-> 1, mem |-> WithEntry(op)]
    BY <1>4 DEF FillEntry
  <2>4. op' \in DirOp /\ op'.k # "data"
    BY <1>2, <2>1, <2>2, <2>3 DEF DirOp, DataOp
  <2>5. UNCHANGED << magic, dir, data, stored >>
    BY <1>4 DEF FillEntry, disk
  <2> QED
    BY <1>1, <2>4, <2>5 DEF TypeInv
<1>5. CASE WriteDir
  <2>1. op.k = "dir" /\ op \in DirOp /\ op.i <= DirSectors
    BY <1>5 DEF WriteDir, TypeInv, FormatOp, DataOp
  <2>2. op' = [op EXCEPT !.i = @ + 1] /\ UNCHANGED << magic, data, stored >>
    BY <1>5 DEF WriteDir
  <2>3. op' \in DirOp /\ op'.k # "data"
    BY <1>2, <2>1, <2>2 DEF DirOp
  <2>4. \/ dir' = dir
        \/ dir' = [i \in Entries |-> IF SectorOf(i) = op.i THEN op.mem[i] ELSE dir[i]]
    BY <1>5 DEF WriteDir
  <2>5. op.mem \in Dirs
    BY <2>1 DEF DirOp
  <2>6. dir' \in Dirs
    BY <2>4, <2>5 DEF TypeInv, Dirs
  <2> QED
    BY <1>1, <2>2, <2>3, <2>6 DEF TypeInv
<1>6. CASE UpdateSuper
  <2>1. op.k = "dir" /\ op \in DirOp
    BY <1>6 DEF UpdateSuper, TypeInv, FormatOp, DataOp
  <2>2. op' = Idle /\ UNCHANGED << dir, data >> /\ stored' = UpdateStored(op)
    BY <1>6 DEF UpdateSuper
  <2>3. stored' \in [Names -> Values \cup {None, Unknown}]
    BY <2>1, <2>2 DEF UpdateStored, DirOp, TypeInv
  <2>4. magic' \in BOOLEAN
    BY <1>6 DEF UpdateSuper, TypeInv
  <2> QED
    BY <1>1, <1>2, <2>2, <2>3, <2>4 DEF TypeInv
<1> QED
  BY <1>3, <1>4, <1>5, <1>6

\* Types are kept whatever fails.
LEMMA TypeStep ==
    ASSUME TypeInv, [Next]_vars
    PROVE  TypeInv'
<1>1. CASE UNCHANGED vars
  BY <1>1 DEF vars, disk, TypeInv, Writing
<1>2. CASE Next
  BY <1>2, OpenTypes, BeginWriteTypes, BeginDeleteTypes, WriteTypes DEF Next
<1> QED
  BY <1>1, <1>2

-----------------------------------------------------------------------------
(* What a call in progress has in common with the disk.                     *)

\* The directories d and e have the same files called n.
Same(d, e, n) == Hits(d, n) = Hits(e, n) /\ \A i \in Hits(d, n) : d[i] = e[i]

Empty == dir = [i \in Entries |-> Zero]

Others(o) == Names \ {o.name, StoredName(o.name)}

\* As long as no sector read fails, and either no sector write fails or power
\* is never lost: only an empty directory is ever formatted, and for the names
\* a call is not about, the directory in memory is the one on the disk.
SafeInv ==
    /\ op.k = "data" /\ faults.read = 0 => op.mem = MarkDeleted(dir, op.name)
    /\ faults.read = 0 /\ (faults.write = 0 \/ faults.crash = 0) =>
          /\ op.k = "format" => Empty
          /\ op.k = "boot" /\ ~magic => Empty
          /\ faults.write = 0 /\ ~magic =>
                op.k = "boot" \/ (op.k = "format" /\ op.i = 0)
          /\ op.k = "dir" => \A n \in Others(op) : Same(dir, op.mem, n)

\* Marking the entries of one name leaves the others the same.
LEMMA MarkSame ==
    ASSUME NEW d \in Dirs, NEW n, NEW m, m # n
    PROVE  Same(d, MarkDeleted(d, n), m)
<1>1. \A i \in Entries : d[i] \in DirEntry
  BY DEF Dirs
<1>2. ASSUME NEW i \in Entries
      PROVE  /\ i \in Hits(MarkDeleted(d, n), m) <=> i \in Hits(d, m)
             /\ i \in Hits(d, m) => MarkDeleted(d, n)[i] = d[i]
  <2>1. CASE i \in Hits(d, n)
    <3>1. MarkDeleted(d, n)[i] = [d[i] EXCEPT !.deleted = TRUE]
      BY <2>1 DEF MarkDeleted
    <3>2. MarkDeleted(d, n)[i].deleted
      BY <1>1, <3>1 DEF DirEntry
    <3> QED
      BY <2>1, <3>2 DEF Hits
  <2>2. CASE i \notin Hits(d, n)
    <3>1. MarkDeleted(d, n)[i] = d[i]
      BY <2>2 DEF MarkDeleted
    <3> QED
      BY <3>1 DEF Hits
  <2> QED
    BY <2>1, <2>2
<1> QED
  BY <1>2 DEF Same, Hits

\* Marking leaves none of the name, and what it does not mark it leaves alone.
LEMMA MarkFacts ==
    ASSUME NEW d \in Dirs, NEW n
    PROVE  /\ Hits(MarkDeleted(d, n), n) = {}
           /\ \A i \in Entries :
                 ~MarkDeleted(d, n)[i].deleted => MarkDeleted(d, n)[i] = d[i]
           /\ \A i \in Entries : MarkDeleted(d, n)[i] = d[i] \/ i \in Hits(d, n)
<1>1. \A i \in Entries : d[i] \in DirEntry
  BY DEF Dirs
<1>2. \A i \in Hits(d, n) : MarkDeleted(d, n)[i].deleted
  BY <1>1 DEF MarkDeleted, DirEntry, Hits
<1>3. \A i \in Entries : i \notin Hits(d, n) => MarkDeleted(d, n)[i] = d[i]
  BY DEF MarkDeleted
<1> QED
  BY <1>2, <1>3 DEF Hits

\* A new entry in a free slot leaves the other names the same.
LEMMA EntrySame ==
    ASSUME NEW o \in DataOp, Writing(o), o.i = o.value.size, NEW n \in Others(o)
    PROVE  Same(o.mem, WithEntry(o), n)
<1> DEFINE w == WithEntry(o)
<1>1. /\ w[o.slot].name = StoredName(o.name)
      /\ \A i \in Entries : i # o.slot => w[i] = o.mem[i]
  <2>1. w[o.slot] = [name |-> StoredName(o.name), off |-> o.next,
                     size |-> o.value.size, deleted |-> FALSE]
    BY NewEntry
  <2>2. \A i \in Entries : i # o.slot => w[i] = o.mem[i]
    BY NewEntry
  <2> HIDE DEF w
  <2> QED
    BY <2>1, <2>2
<1>2. n # StoredName(o.name) /\ n # NoName
  BY KvConstants DEF Others
<1>3. o.slot \notin Hits(o.mem, n)
  BY <1>2 DEF Writing, FreeSlots, Hits
<1>4. o.slot \notin Hits(w, n)
  BY <1>1, <1>2 DEF Hits
<1> HIDE DEF w
<1>5. \A i \in Entries : i \in Hits(w, n) <=> i \in Hits(o.mem, n)
  BY <1>1, <1>3, <1>4 DEF Hits
<1>6. \A i \in Hits(o.mem, n) : w[i] = o.mem[i]
  BY <1>1, <1>3 DEF Hits
<1> QED
  BY <1>5, <1>6 DEF Same, Hits, w

\* Files that are the same in two directories are the same in a mixture.
LEMMA MixSame ==
    ASSUME NEW d, NEW e, NEW f, NEW n, Same(d, e, n),
           \A i \in Entries : f[i] = d[i] \/ f[i] = e[i]
    PROVE  Same(d, f, n) /\ Same(f, e, n)
<1>1. ASSUME NEW i \in Entries
      PROVE  /\ i \in Hits(d, n) <=> i \in Hits(e, n)
             /\ i \in Hits(d, n) => d[i] = e[i]
  BY DEF Same
<1>2. ASSUME NEW i \in Entries
      PROVE  /\ i \in Hits(f, n) <=> i \in Hits(d, n)
             /\ i \in Hits(f, n) => f[i] = d[i]
  <2>1. CASE f[i] = d[i]
    BY <2>1 DEF Hits
  <2>2. CASE f[i] = e[i]
    <3>1. i \in Hits(f, n) <=> i \in Hits(e, n)
      BY <2>2 DEF Hits
    <3> QED
      BY <1>1, <2>2, <3>1
  <2> QED
    BY <2>1, <2>2
<1> QED
  BY <1>1, <1>2 DEF Same, Hits

\* A call that could read the whole directory works on the directory.
LEMMA AllRead ==
    ASSUME faults \in FaultCounts, dir \in Dirs, NEW bad \in SUBSET (1..DirSectors),
           ReadFails(Cardinality(bad)), faults'.read = 0
    PROVE  ReadDir(bad) = dir
<1>1. IsFiniteSet(1..DirSectors)
  BY KvConstants, FS_Interval
<1>2. IsFiniteSet(bad) /\ Cardinality(bad) \in Nat
  BY <1>1, FS_Subset, FS_CardinalityType
<1>3. faults'.read = faults.read + Cardinality(bad)
  BY DEF ReadFails, FaultCounts
<1>4. Cardinality(bad) = 0
  BY <1>2, <1>3 DEF FaultCounts
<1>5. bad = {}
  BY <1>2, <1>4, FS_EmptySet
<1>6. dir = [i \in Entries |-> dir[i]]
  BY DEF Dirs
<1> QED
  BY <1>5, <1>6 DEF ReadDir

\* SafeInv is kept.
LEMMA SafeStep ==
    ASSUME TypeInv, SafeInv, [Next]_vars
    PROVE  SafeInv'
<1> DEFINE C == faults.read = 0 /\ (faults.write = 0 \/ faults.crash = 0)
<1>1. /\ faults.read <= faults'.read /\ faults.write <= faults'.write
      /\ faults.crash <= faults'.crash /\ faults \in FaultCounts /\ faults' \in FaultCounts
  BY FaultsGrow DEF TypeInv
<1>2. (C' => C) /\ (faults'.read = 0 => faults.read = 0) /\ (faults'.write = 0 => faults.write = 0)
  BY <1>1 DEF FaultCounts
<1> HIDE DEF C
<1>3. CASE UNCHANGED vars
  BY <1>3 DEF vars, disk, SafeInv, Empty
<1>4. CASE Open
  <2>1. /\ UNCHANGED << magic, dir >> /\ op.k = "boot"
        /\ op'.k = "idle" \/ (op'.k = "format" /\ op'.i = 0)
    BY <1>4 DEF Open, disk, Idle
  <2>2. faults'.read = 0 => op' = IF magic THEN Idle ELSE [k |-> "format", i |-> 0]
    BY <1>1, <1>4 DEF Open, ReadFails, FaultCounts
  <2>3. faults'.read = 0 /\ op'.k = "format" => ~magic
    BY <2>2 DEF Idle
  <2>4. faults'.read = 0 /\ ~magic => op'.k = "format" /\ op'.i = 0
    BY <2>2
  <2> QED
    BY <1>2, <2>1, <2>3, <2>4 DEF SafeInv, Empty, C
<1>5. CASE Crash
  <2>1. op'.k = "boot" /\ op.k # "boot" /\ UNCHANGED << magic, dir >>
    BY <1>5 DEF Crash, disk
  <2>2. faults'.crash > 0
    BY <1>1, <1>5 DEF Crash, FaultCounts
  <2>3. C' => faults.write = 0
    BY <1>2, <2>2 DEF C
  <2> QED
    BY <1>2, <2>1, <2>3 DEF SafeInv, Empty, C
<1>6. CASE Format
  <2>1. op.k = "format" /\ op \in FormatOp
    BY <1>6 DEF Format, TypeInv, DataOp, DirOp
  <2>2. op'.k = "idle" \/ (op'.k = "format" /\ op'.i = op.i + 1)
    BY <1>6, <2>1 DEF Format, Idle, FormatOp
  <2>3. \/ dir' = dir
        \/ dir' = [i \in Entries |-> IF SectorOf(i) = op.i THEN Zero ELSE dir[i]]
    BY <1>6 DEF Format
  <2>4. Empty => Empty'
    BY <2>3 DEF Empty
  <2>5. faults'.write = 0 => IF op.i = 0 THEN magic' = TRUE ELSE magic' = magic
    BY <1>1, <1>6 DEF Format, WriteFails, FaultCounts
  <2>6. C' /\ faults'.write = 0 => magic'
    BY <1>2, <2>1, <2>5 DEF SafeInv, C
  <2> QED
    BY <1>2, <2>1, <2>2, <2>4, <2>6 DEF SafeInv, C
<1>7. ASSUME NEW n \in Names, NEW v \in Values, BeginWrite(n, v) PROVE SafeInv'
  <2>1. UNCHANGED << magic, dir >> /\ op.k = "idle"
    BY <1>7 DEF BeginWrite, disk, Idle
  <2>2. PICK bad \in SUBSET (1..DirSectors) :
            /\ ReadFails(Cardinality(bad))
            /\ LET mem == MarkDeleted(ReadDir(bad), n)
               IN  op' = IF FreeSlots(mem) = {} THEN Idle
                         ELSE [k |-> "data", name |-> n, value |-> v, i |-> 0,
                               mem |-> mem, slot |-> MinOf(FreeSlots(mem)),
                               next |-> find_next_free_sector(mem)]
    BY <1>7 DEF BeginWrite
  <2>3. faults'.read = 0 => ReadDir(bad) = dir
    BY <1>1, <2>2, AllRead DEF TypeInv
  <2>4. op'.k = "idle"
        \/ (op'.k = "data" /\ op'.name = n /\ op'.mem = MarkDeleted(ReadDir(bad), n))
    BY <2>2 DEF Idle
  <2> QED
    BY <1>2, <2>1, <2>3, <2>4 DEF SafeInv, Empty, C
<1>8. ASSUME NEW n \in Names, BeginDelete(n) PROVE SafeInv'
  <2>1. UNCHANGED << magic, dir >> /\ op.k = "idle" /\ dir \in Dirs
    BY <1>8 DEF BeginDelete, disk, Idle, TypeInv
  <2>2. PICK bad \in SUBSET (1..DirSectors) :
            /\ ReadFails(Cardinality(bad))
            /\ LET d == ReadDir(bad)
               IN  op' = IF Hits(d, n) = {} THEN Idle
                         ELSE [k |-> "dir", call |-> "delete", name |-> n, value |-> None,
                               i |-> 1, mem |-> MarkDeleted(d, n)]
    BY <1>8 DEF BeginDelete
  <2>3. faults'.read = 0 => ReadDir(bad) = dir
    BY <1>1, <2>2, AllRead DEF TypeInv
  <2>4. op'.k = "idle"
        \/ (op'.k = "dir" /\ op'.name = n /\ op'.mem = MarkDeleted(ReadDir(bad), n))
    BY <2>2 DEF Idle
  <2>5. faults'.read = 0 /\ op'.k = "dir" =>
           \A m \in Others(op)' : Same(dir', op'.mem, m)
    BY <2>1, <2>3, <2>4, MarkSame DEF Others
  <2> QED
    BY <1>2, <2>1, <2>4, <2>5 DEF SafeInv, Empty, C
<1>9. CASE WriteData
  <2>1. UNCHANGED << magic, dir >> /\ op.k = "data" /\ op \in DataOp
    BY <1>9 DEF WriteData, TypeInv, FormatOp, DirOp
  <2>2. op'.k = "idle" \/ (op'.k = "data" /\ op'.mem = op.mem /\ op'.name = op.name)
    BY <1>9, <2>1 DEF WriteData, Fail, Idle, DataOp
  <2> QED
    BY <1>2, <2>1, <2>2 DEF SafeInv, Empty, C
<1>10. CASE FillEntry
  <2>1. /\ UNCHANGED << magic, dir, faults >> /\ op.k = "data" /\ op \in DataOp
        /\ Writing(op) /\ op.i = op.value.size /\ dir \in Dirs
    BY <1>10 DEF FillEntry, disk, TypeInv, FormatOp, DirOp
  <2>2. op'.k = "dir" /\ op'.name = op.name /\ op'.mem = WithEntry(op)
    BY <1>10 DEF FillEntry
  <2>3. ASSUME faults.read = 0, NEW m \in Others(op) PROVE Same(dir, WithEntry(op), m)
    <3>1. op.mem = MarkDeleted(dir, op.name) /\ m # op.name
      BY <2>1, <2>3 DEF SafeInv, Others
    <3>2. Same(dir, op.mem, m)
      BY <2>1, <3>1, MarkSame
    <3>3. Same(op.mem, WithEntry(op), m)
      BY <2>1, EntrySame
    <3> QED
      BY <3>2, <3>3 DEF Same
  <2>4. Others(op)' = Others(op)
    BY <2>2 DEF Others
  <2> QED
    BY <1>2, <2>1, <2>2, <2>3, <2>4 DEF SafeInv, Empty, C
<1>11. CASE WriteDir
  <2>1. op.k = "dir" /\ op \in DirOp /\ UNCHANGED magic
    BY <1>11 DEF WriteDir, TypeInv, FormatOp, DataOp
  <2>2. op'.k = "dir" /\ op'.name = op.name /\ op'.mem = op.mem
    BY <1>11, <2>1 DEF WriteDir, DirOp
  <2>3. \A i \in Entries : dir'[i] = dir[i] \/ dir'[i] = op.mem[i]
    BY <1>11 DEF WriteDir
  <2>4. ASSUME NEW m, Same(dir, op.mem, m) PROVE Same(dir', op'.mem, m)
    BY <2>2, <2>3, <2>4, MixSame
  <2>5. Others(op)' = Others(op)
    BY <2>2 DEF Others
  <2> QED
    BY <1>2, <2>1, <2>2, <2>4, <2>5 DEF SafeInv, C
<1>12. CASE UpdateSuper
  <2>1. op.k = "dir" /\ op'.k = "idle"
    BY <1>12 DEF UpdateSuper, Idle
  <2>2. faults'.read = 0 => magic' = magic
    BY <1>1, <1>12 DEF UpdateSuper, ReadFails, FaultCounts
  <2> QED
    BY <1>2, <2>1, <2>2 DEF SafeInv, C
<1> QED
  BY <1>3, <1>4, <1>5, <1>6, <1>7, <1>8, <1>9, <1>10, <1>11, <1>12 DEF Next

\* read uses one of the entries with the name.
LEMMA LastHit ==
    ASSUME NEW d, NEW n, Hits(d, n) # {}
    PROVE  MaxOf(Hits(d, n)) \in Hits(d, n)
<1> DEFINE b == DirSectors * PerSector
<1>1. b \in Nat /\ Hits(d, n) \subseteq 0..b
  BY EntryFacts DEF Hits, Entries
<1> HIDE DEF b
<1> QED
  BY <1>1, MaxFacts

\* What is read does not change with the entries and the sectors of the file.
LEMMA ReadSame ==
    ASSUME NEW n, Same(dir, dir', n),
           \A i \in Hits(dir, n) : \A k \in 1..dir[i].size :
               data'[dir[i].off + k - 1] = data[dir[i].off + k - 1]
    PROVE  Read(n)' = Read(n)
<1>1. Hits(dir', n) = Hits(dir, n) /\ \A i \in Hits(dir, n) : dir'[i] = dir[i]
  BY DEF Same
<1>2. CASE Hits(dir, n) = {}
  BY <1>1, <1>2 DEF Read, ReadFrom
<1>3. CASE Hits(dir, n) # {}
  <2> DEFINE m == MaxOf(Hits(dir, n))
             e == dir[m]
  <2>1. m \in Hits(dir, n)
    BY <1>3, LastHit
  <2>2. dir'[m] = e /\ \A k \in 1..e.size : data'[e.off + k - 1] = data[e.off + k - 1]
    BY <1>1, <2>1
  <2>3. Read(n) = [i \in 1..e.size |-> data[e.off + i - 1]]
    BY <1>3 DEF Read, ReadFrom
  <2>4. Read(n)' = [i \in 1..e.size |-> data'[e.off + i - 1]]
    BY <1>1, <1>3, <2>2 DEF Read, ReadFrom
  <2> HIDE DEF e
  <2> QED
    BY <2>2, <2>3, <2>4
<1> QED
  BY <1>2, <1>3

\* A sector of data is written behind the files in memory.
LEMMA DataElsewhere ==
    ASSUME TypeInv, WriteData, NEW i \in Entries, ~op.mem[i].deleted
    PROVE  \A k \in 1..op.mem[i].size :
              data'[op.mem[i].off + k - 1] = data[op.mem[i].off + k - 1]
<1>1. op \in DataOp /\ Writing(op)
  BY DEF WriteData, TypeInv, FormatOp, DirOp
<1> DEFINE e == op.mem[i]
<1>2. e \in DirEntry /\ End(e) <= op.next /\ End(e) <= DiskSize
  BY <1>1 DEF Writing, DataOp, Dirs
<1>3. DiskSize \in Nat /\ op.next \in Nat /\ op.i \in Nat
  BY <1>1, KvConstants DEF DataOp
<1>4. data' = data \/ data' = [data EXCEPT ![op.next + op.i] = Blocks(op.value)[op.i + 1]]
  BY DEF WriteData
<1>5. ASSUME NEW k \in 1..e.size PROVE data'[e.off + k - 1] = data[e.off + k - 1]
  <2>1. e.off \in Nat /\ e.size \in Nat /\ e.off + e.size <= op.next /\ e.off + e.size <= DiskSize
    BY <1>2 DEF DirEntry, End
  <2>2. e.off + k - 1 \in 0..(DiskSize - 1) /\ e.off + k - 1 # op.next + op.i
    BY <1>3, <2>1
  <2> HIDE DEF e
  <2> QED
    BY <1>4, <2>2 DEF TypeInv
<1> QED
  BY <1>5

\* The parts of a step that touch what is read.
LEMMA OtherFilesStep ==
    ASSUME TypeInv, SafeInv, [Next]_vars
    PROVE  OthersKept
<1> SUFFICES ASSUME faults'.read = 0, faults'.write = 0 \/ faults'.crash = 0,
                    NEW n \in Names, n \notin Subject
             PROVE  Read(n)' = Read(n)
  BY DEF OthersKept
<1>1. faults.read = 0 /\ (faults.write = 0 \/ faults.crash = 0)
  <2>1. /\ faults.read <= faults'.read /\ faults.write <= faults'.write
        /\ faults.crash <= faults'.crash /\ faults \in FaultCounts /\ faults' \in FaultCounts
    BY FaultsGrow DEF TypeInv
  <2> QED
    BY <2>1 DEF FaultCounts
<1>2. CASE UNCHANGED << dir, data >>
  BY <1>2 DEF Read, ReadFrom
<1>3. CASE Format
  <2>1. op.k = "format" /\ UNCHANGED data
    BY <1>3 DEF Format
  <2>2. Empty
    BY <1>1, <2>1 DEF SafeInv
  <2>3. \/ dir' = dir
        \/ dir' = [i \in Entries |-> IF SectorOf(i) = op.i THEN Zero ELSE dir[i]]
    BY <1>3 DEF Format
  <2>4. dir' = dir
    BY <2>2, <2>3 DEF Empty
  <2> QED
    BY <1>2, <2>1, <2>4
<1>4. CASE WriteData
  <2>1. op.k = "data" /\ UNCHANGED dir /\ dir \in Dirs
    BY <1>4 DEF WriteData, TypeInv
  <2>2. n # op.name
    BY <2>1 DEF Subject
  <2>3. Same(dir, op.mem, n)
    BY <1>1, <2>1, <2>2, MarkSame DEF SafeInv
  <2>4. ASSUME NEW i \in Hits(dir, n)
        PROVE  \A k \in 1..dir[i].size : data'[dir[i].off + k - 1] = data[dir[i].off + k - 1]
    <3>1. i \in Entries /\ op.mem[i] = dir[i] /\ ~op.mem[i].deleted
      BY <2>3 DEF Same, Hits
    <3> QED
      BY <1>4, <3>1, DataElsewhere
  <2>5. Same(dir, dir', n)
    BY <2>1 DEF Same
  <2> QED
    BY <2>4, <2>5, ReadSame
<1>5. CASE WriteDir
  <2>1. op.k = "dir" /\ UNCHANGED data
    BY <1>5 DEF WriteDir
  <2>2. n \in Others(op)
    BY <2>1 DEF Subject, Others
  <2>3. Same(dir, op.mem, n)
    BY <1>1, <2>1, <2>2 DEF SafeInv
  <2>4. \A i \in Entries : dir'[i] = dir[i] \/ dir'[i] = op.mem[i]
    BY <1>5 DEF WriteDir
  <2>5. Same(dir, dir', n)
    BY <2>3, <2>4, MixSame
  <2> QED
    BY <2>1, <2>5, ReadSame
<1>6. CASE Next /\ ~Format /\ ~WriteData /\ ~WriteDir
  <2>1. UNCHANGED << dir, data >>
    BY <1>6 DEF Next, Open, BeginWrite, FillEntry, UpdateSuper, BeginDelete, Crash, disk
  <2> QED
    BY <1>2, <2>1
<1>7. CASE UNCHANGED vars
  BY <1>2, <1>7 DEF vars, disk
<1> QED
  BY <1>3, <1>4, <1>5, <1>6, <1>7

-----------------------------------------------------------------------------
(* Where the contents of every file are.                                    *)

\* No write and no power failed, and not both a read failed and the disk was full.
Calm == faults.write + faults.crash = 0 /\ (faults.read = 0 \/ faults.full = 0)

\* The files of the directory d share no sector.
Apart(d) ==
    \A i, j \in Valid(d) : i # j => End(d[i]) <= d[j].off \/ End(d[j]) <= d[i].off

\* Every file called n has the contents v, where the sectors are as in D.
Good(d, n, v, D) ==
    \A i \in Hits(d, n) :
        /\ v \in Values /\ d[i].size = v.size
        /\ \A k \in 1..v.size : D[d[i].off + k - 1] = Blocks(v)[k]

\* The directory d and the sectors D hold the contents s.  A file is missing only
\* after a failure, of which there have been z.
Holds(d, s, D, z) ==
    \A n \in ShortNames : s[n] # Unknown =>
        Good(d, n, s[n], D) /\ (z = 0 /\ s[n] \in Values => Hits(d, n) # {})

\* The contents during a call: those of the directory in memory, until it has been
\* written to the disk in full.
ContentsInv ==
    Calm =>
    /\ op.k \in {"boot", "format"} => Empty /\ count = 0 /\ stored = [n \in Names |-> None]
    /\ op.k = "idle" => Apart(dir) /\ Holds(dir, stored, data, Spent) /\ count = CountOf(dir)
    /\ op.k = "data" =>
          /\ Apart(op.mem)
          /\ Holds(op.mem, [stored EXCEPT ![op.name] = None], data, Spent)
          /\ faults.read = 0 => Apart(dir) /\ count = CountOf(dir)
    /\ op.k = "dir" =>
          /\ Apart(op.mem) /\ Holds(op.mem, UpdateStored(op), data, Spent)
          /\ \A i \in Entries : SectorOf(i) < op.i => dir[i] = op.mem[i]

\* The files of d are files of e.
Within(d, e) == \A i \in Entries : d[i].deleted \/ d[i].name = NoName \/ d[i] = e[i]

\* Fewer files are still apart.
LEMMA ApartWithin ==
    ASSUME NEW d, NEW e, Within(d, e), Apart(e)
    PROVE  Apart(d)
<1>1. \A i \in Valid(d) : i \in Valid(e) /\ d[i] = e[i]
  BY DEF Within, Valid
<1> QED
  BY <1>1 DEF Apart

\* Fewer files still have their contents.
LEMMA GoodWithin ==
    ASSUME NEW d, NEW e, NEW D, NEW n, NEW v, n # NoName, Within(d, e), Good(e, n, v, D)
    PROVE  Good(d, n, v, D)
<1>1. \A i \in Hits(d, n) : i \in Hits(e, n) /\ d[i] = e[i]
  BY DEF Within, Hits
<1> QED
  BY <1>1 DEF Good

\* What a call reads and marks are files of the disk.
LEMMA MarkWithin ==
    ASSUME dir \in Dirs, NEW n, NEW bad
    PROVE  Within(MarkDeleted(ReadDir(bad), n), dir)
<1> DEFINE r == ReadDir(bad)
           m == MarkDeleted(r, n)
<1>1. r \in Dirs
  BY DirSteps
<1>2. \A i \in Entries : r[i] = Zero \/ r[i] = dir[i]
  BY DEF ReadDir
<1>3. Zero.name = NoName
  BY DEF Zero
<1> HIDE DEF r
<1>4. \A i \in Entries : ~m[i].deleted => m[i] = r[i]
  BY <1>1, MarkFacts
<1> HIDE DEF m
<1>5. Within(m, dir)
  BY <1>2, <1>3, <1>4 DEF Within
<1> QED
  BY <1>5 DEF m, r

\* A call begins with the contents of the disk without those of its name.
LEMMA MarkHolds ==
    ASSUME TypeInv, NEW n \in Names, NEW bad \in SUBSET (1..DirSectors),
           ReadFails(Cardinality(bad)), Apart(dir), Holds(dir, stored, data, Spent)
    PROVE  /\ Apart(MarkDeleted(ReadDir(bad), n))
           /\ Holds(MarkDeleted(ReadDir(bad), n), [stored EXCEPT ![n] = None], data, Spent')
<1> DEFINE r == ReadDir(bad)
           m == MarkDeleted(r, n)
           s == [stored EXCEPT ![n] = None]
<1>1. dir \in Dirs /\ r \in Dirs /\ faults \in FaultCounts /\ None \notin Values
  BY DirSteps, KvConstants DEF TypeInv
<1>2. Within(m, dir)
  BY <1>1, MarkWithin
<1>3. Hits(m, n) = {}
  BY <1>1, MarkFacts
<1>4. s \in [Names -> Values \cup {None, Unknown}] /\ s[n] = None
      /\ \A q \in Names : q # n => s[q] = stored[q]
  BY DEF TypeInv
<1>5. Spent' = 0 => r = dir /\ Spent = 0
  <2>1. Cardinality(bad) \in Nat
    <3>1. IsFiniteSet(1..DirSectors)
      BY KvConstants, FS_Interval
    <3> QED
      BY <3>1, FS_Subset, FS_CardinalityType
  <2>2. faults' \in FaultCounts /\ faults'.read = faults.read + Cardinality(bad)
        /\ faults'.write = faults.write /\ faults'.crash = faults.crash
    BY <1>1, <2>1 DEF ReadFails, FaultCounts
  <2>3. Spent' = 0 => faults'.read = 0 /\ Spent = 0
    BY <1>1, <2>1, <2>2 DEF FaultCounts, Spent
  <2> QED
    BY <1>1, <2>3, AllRead
<1>6. \A q \in ShortNames : q \in Names /\ q # NoName
  BY KvConstants DEF ShortNames
<1> HIDE DEF s
<1>7. ASSUME NEW q \in ShortNames, s[q] # Unknown
      PROVE  Good(m, q, s[q], data) /\ (Spent' = 0 /\ s[q] \in Values => Hits(m, q) # {})
  <2>1. CASE q = n
    BY <1>1, <1>3, <1>4, <2>1 DEF Good
  <2>2. CASE q # n
    <3>1. /\ s[q] = stored[q] /\ q # NoName /\ Good(dir, q, stored[q], data)
          /\ Spent = 0 /\ stored[q] \in Values => Hits(dir, q) # {}
      BY <1>4, <1>6, <1>7, <2>2 DEF Holds
    <3>2. Good(m, q, s[q], data)
      <4> HIDE DEF m
      <4> QED
        BY <1>2, <3>1, GoodWithin
    <3>3. Same(r, m, q)
      <4> HIDE DEF r
      <4> QED
        BY <1>1, <2>2, MarkSame
    <3> HIDE DEF m
    <3> QED
      BY <1>5, <3>1, <3>2, <3>3 DEF Same
  <2> QED
    BY <2>1, <2>2
<1> HIDE DEF m
<1>8. Apart(m)
  BY <1>2, ApartWithin
<1>9. Holds(m, s, data, Spent')
  BY <1>7 DEF Holds
<1> QED
  BY <1>8, <1>9 DEF m, s, r

\* Data is written outside the files in memory, which keep their contents.
LEMMA DataHolds ==
    ASSUME TypeInv, WriteData, NEW s, NEW z, Holds(op.mem, s, data, z)
    PROVE  Holds(op.mem, s, data', z)
<1>1. ASSUME NEW n \in ShortNames, s[n] # Unknown PROVE Good(op.mem, n, s[n], data')
  <2>1. Good(op.mem, n, s[n], data)
    BY <1>1 DEF Holds
  <2>2. ASSUME NEW i \in Hits(op.mem, n)
        PROVE  \A k \in 1..op.mem[i].size :
                  data'[op.mem[i].off + k - 1] = data[op.mem[i].off + k - 1]
    <3>1. i \in Entries /\ ~op.mem[i].deleted
      BY DEF Hits
    <3> QED
      BY <3>1, DataElsewhere
  <2> QED
    BY <2>1, <2>2 DEF Good
<1> QED
  BY <1>1 DEF Holds

\* With the new entry the directory in memory holds the new contents as well.
LEMMA EntryHolds ==
    ASSUME NEW o \in DataOp, Writing(o), o.i = o.value.size, Apart(o.mem),
           NEW z, Holds(o.mem, [stored EXCEPT ![o.name] = None], data, z),
           stored \in [Names -> Values \cup {None, Unknown}]
    PROVE  Apart(WithEntry(o)) /\ Holds(WithEntry(o), UpdateStored(o), data, z)
<1> DEFINE w == WithEntry(o)
           s == [stored EXCEPT ![o.name] = None]
           t == UpdateStored(o)
<1>1. /\ o.mem \in Dirs /\ o.slot \in Entries /\ o.name \in Names /\ o.value \in Values
      /\ o.next \in Nat /\ o.value.size \in Nat
  BY KvConstants DEF DataOp
<1>2. w[o.slot] = [name |-> StoredName(o.name), off |-> o.next,
                   size |-> o.value.size, deleted |-> FALSE]
  BY NewEntry
<1>3. \A i \in Entries : i # o.slot => w[i] = o.mem[i]
  BY NewEntry
<1>4. w \in Dirs
  BY NewEntry
<1> HIDE DEF w
<1>5. /\ w[o.slot].name = StoredName(o.name) /\ w[o.slot].off = o.next
      /\ w[o.slot].size = o.value.size /\ ~w[o.slot].deleted
  BY <1>2
<1>6. Apart(w)
  <2> SUFFICES ASSUME NEW i \in Valid(w), NEW j \in Valid(w), i # j
               PROVE  End(w[i]) <= w[j].off \/ End(w[j]) <= w[i].off
    BY DEF Apart
  <2>1. ASSUME NEW k \in Valid(w), k # o.slot
        PROVE  k \in Valid(o.mem) /\ w[k] = o.mem[k] /\ End(w[k]) <= o.next
    BY <1>3, <2>1 DEF Valid, Writing
  <2>2. CASE i = o.slot
    BY <1>5, <2>1, <2>2
  <2>3. CASE j = o.slot
    BY <1>5, <2>1, <2>3
  <2>4. CASE i # o.slot /\ j # o.slot
    BY <2>1, <2>4 DEF Apart
  <2> QED
    BY <2>2, <2>3, <2>4
<1>7. ASSUME NEW n \in ShortNames, t[n] # Unknown
      PROVE  Good(w, n, t[n], data) /\ (z = 0 /\ t[n] \in Values => Hits(w, n) # {})
  <2>1. n \in Names /\ n # NoName /\ (StoredName(o.name) = n <=> o.name = n)
    BY <1>1, KvConstants DEF ShortNames
  <2>2. CASE n = o.name
    <3>1. t[n] = o.value /\ s[n] = None
      BY <1>1, <2>2 DEF UpdateStored
    <3>2. Good(o.mem, n, None, data) /\ None \notin Values
      <4>1. None # Unknown /\ None \notin Values
        BY KvConstants
      <4> QED
        BY <3>1, <4>1 DEF Holds
    <3>3. Hits(o.mem, n) = {}
      BY <3>2 DEF Good
    <3>4. Hits(w, n) = {o.slot}
      BY <1>1, <1>3, <1>5, <2>1, <2>2, <3>3 DEF Hits
    <3>5. \A k \in 1..o.value.size : data[o.next + k - 1] = Blocks(o.value)[k]
      BY DEF Writing
    <3> HIDE DEF t
    <3> QED
      BY <1>1, <1>5, <3>1, <3>4, <3>5 DEF Good
  <2>3. CASE n # o.name
    <3>1. t[n] = stored[n] /\ s[n] = stored[n] /\ n \in Others(o)
      BY <1>1, <2>1, <2>3 DEF UpdateStored, Others
    <3>2. Good(o.mem, n, s[n], data) /\ (z = 0 /\ s[n] \in Values => Hits(o.mem, n) # {})
      BY <1>7, <3>1 DEF Holds
    <3>3. Same(o.mem, w, n)
      BY <3>1, EntrySame DEF w
    <3>4. Hits(o.mem, n) = Hits(w, n) /\ \A i \in Hits(w, n) : w[i] = o.mem[i]
      BY <3>3 DEF Same
    <3> HIDE DEF s, t
    <3> QED
      BY <3>1, <3>2, <3>4 DEF Good
  <2> QED
    BY <2>2, <2>3
<1> HIDE DEF t
<1>8. Holds(w, t, data, z)
  BY <1>7 DEF Holds
<1> QED
  BY <1>6, <1>8 DEF w, t

\* An empty directory holds nothing.
LEMMA EmptyHolds ==
    ASSUME Empty, count = 0, stored = [n \in Names |-> None]
    PROVE  Apart(dir) /\ Holds(dir, stored, data, Spent) /\ count = CountOf(dir)
<1>1. \A i \in Entries : dir[i] = Zero
  BY DEF Empty
<1>2. Zero.name = NoName
  BY DEF Zero
<1>3. Valid(dir) = {} /\ \A n \in Names : Hits(dir, n) = {}
  BY <1>1, <1>2, KvConstants DEF Valid, Hits
<1>4. CountOf(dir) = 0
  BY <1>3, FS_EmptySet DEF CountOf
<1>5. None \notin Values
  BY KvConstants
<1> QED
  BY <1>3, <1>4, <1>5 DEF Apart, Holds, Good, ShortNames

\* A failed write leaves all but its own file.
LEMMA FailHolds ==
    ASSUME TypeInv, op \in DataOp, op.mem = MarkDeleted(dir, op.name),
           NEW D, NEW z, Holds(op.mem, [stored EXCEPT ![op.name] = None], D, z)
    PROVE  Holds(dir, [stored EXCEPT ![op.name] = Unknown], D, z)
<1> DEFINE s == [stored EXCEPT ![op.name] = None]
           u == [stored EXCEPT ![op.name] = Unknown]
<1>1. op.name \in Names /\ dir \in Dirs
  BY DEF DataOp, TypeInv
<1>2. u[op.name] = Unknown /\ \A q \in Names : q # op.name => u[q] = s[q]
  BY <1>1 DEF TypeInv
<1> HIDE DEF s, u
<1>3. ASSUME NEW n \in ShortNames, u[n] # Unknown
      PROVE  Good(dir, n, u[n], D) /\ (z = 0 /\ u[n] \in Values => Hits(dir, n) # {})
  <2>1. n # op.name /\ n \in Names
    BY <1>2, <1>3 DEF ShortNames
  <2>2. Same(dir, op.mem, n)
    BY <1>1, <2>1, MarkSame
  <2>3. Good(op.mem, n, u[n], D) /\ (z = 0 /\ u[n] \in Values => Hits(op.mem, n) # {})
    BY <1>2, <1>3, <2>1 DEF Holds, s
  <2> QED
    BY <2>2, <2>3 DEF Same, Good
<1> QED
  BY <1>3 DEF Holds, u

\* The contents stay where ContentsInv says they are.
LEMMA ContentsStep ==
    ASSUME TypeInv, SafeInv, ContentsInv, [Next]_vars
    PROVE  ContentsInv'
<1> SUFFICES ASSUME Calm' PROVE ContentsInv'
  BY DEF ContentsInv
<1>1. /\ faults.read <= faults'.read /\ faults.write <= faults'.write
      /\ faults.crash <= faults'.crash /\ faults.full <= faults'.full
      /\ faults \in FaultCounts /\ faults' \in FaultCounts
  BY FaultsGrow DEF TypeInv
<1>2. /\ Calm /\ faults'.write = 0 /\ faults'.crash = 0 /\ faults.write = 0 /\ faults.crash = 0
      /\ Spent = faults.read /\ Spent' = faults'.read
      /\ (faults'.read = 0 \/ faults'.full = 0)
  BY <1>1 DEF Calm, Spent, FaultCounts
<1>3. ~WriteFails
  BY <1>1, <1>2 DEF WriteFails, FaultCounts
<1>4. CASE UNCHANGED vars
  BY <1>2, <1>4 DEF vars, disk, ContentsInv, Empty, UpdateStored, Spent
<1>5. ASSUME op.k \in {"boot", "format"}, op'.k \in {"idle", "boot", "format"},
             UNCHANGED << dir, count, stored >>
      PROVE  ContentsInv'
  <2>1. Empty' /\ count' = 0 /\ stored' = [n \in Names |-> None]
    BY <1>2, <1>5 DEF ContentsInv, Empty
  <2>2. Apart(dir') /\ Holds(dir', stored', data', Spent') /\ count' = CountOf(dir')
    <3>1. (Empty /\ count = 0 /\ stored = [n \in Names |-> None] =>
              Apart(dir) /\ Holds(dir, stored, data, Spent) /\ count = CountOf(dir))'
      BY EmptyHolds, PTL
    <3> QED
      BY <2>1, <3>1
  <2> QED
    BY <1>5, <2>1, <2>2 DEF ContentsInv
<1>6. CASE Open
  <2>1. op.k = "boot" /\ UNCHANGED << dir, count, stored >> /\ op'.k \in {"idle", "format"}
    BY <1>6 DEF Open, disk, Idle
  <2> QED
    BY <1>5, <2>1
<1>7. CASE Format
  <2>1. op.k = "format" /\ op \in FormatOp /\ UNCHANGED stored
    BY <1>7 DEF Format, TypeInv, DataOp, DirOp
  <2>2. op'.k \in {"idle", "format"}
    BY <1>7, <2>1 DEF Format, Idle, FormatOp
  <2>3. Empty /\ count = 0
    BY <1>2, <2>1 DEF ContentsInv
  <2>4. \/ UNCHANGED dir
        \/ dir' = [i \in Entries |-> IF SectorOf(i) = op.i THEN Zero ELSE dir[i]]
    BY <1>7 DEF Format
  <2>5. dir' = dir
    BY <2>3, <2>4 DEF Empty
  <2>6. count' = count
    BY <1>7, <2>3 DEF Format
  <2> QED
    BY <1>5, <2>1, <2>2, <2>5, <2>6
<1>8. CASE Crash
  BY <1>1, <1>2, <1>8 DEF Crash, FaultCounts
<1>9. ASSUME NEW n \in Names, NEW v \in Values, BeginWrite(n, v) PROVE ContentsInv'
  <2>1. /\ UNCHANGED << dir, count, data, stored >> /\ op.k = "idle"
        /\ Apart(dir) /\ Holds(dir, stored, data, Spent) /\ count = CountOf(dir)
    BY <1>2, <1>9 DEF BeginWrite, disk, Idle, ContentsInv
  <2>2. PICK bad \in SUBSET (1..DirSectors) :
            /\ ReadFails(Cardinality(bad))
            /\ LET mem == MarkDeleted(ReadDir(bad), n)
               IN  op' = IF FreeSlots(mem) = {} THEN Idle
                         ELSE [k |-> "data", name |-> n, value |-> v, i |-> 0,
                               mem |-> mem, slot |-> MinOf(FreeSlots(mem)),
                               next |-> find_next_free_sector(mem)]
    BY <1>9 DEF BeginWrite
  <2> DEFINE mem == MarkDeleted(ReadDir(bad), n)
  <2>3. Apart(mem) /\ Holds(mem, [stored EXCEPT ![n] = None], data, Spent')
    BY <2>1, <2>2, MarkHolds
  <2>4. op'.k = "idle" \/ (op'.k = "data" /\ op'.name = n /\ op'.mem = mem)
    BY <2>2 DEF Idle
  <2>5. Holds(dir, stored, data, Spent')
    BY <1>1, <1>2, <2>1 DEF Holds, FaultCounts
  <2> HIDE DEF mem
  <2> QED
    BY <2>1, <2>3, <2>4, <2>5 DEF ContentsInv
<1>10. ASSUME NEW n \in Names, BeginDelete(n) PROVE ContentsInv'
  <2>1. /\ UNCHANGED << dir, count, data, stored >> /\ op.k = "idle"
        /\ Apart(dir) /\ Holds(dir, stored, data, Spent) /\ count = CountOf(dir)
    BY <1>2, <1>10 DEF BeginDelete, disk, Idle, ContentsInv
  <2>2. PICK bad \in SUBSET (1..DirSectors) :
            /\ ReadFails(Cardinality(bad))
            /\ LET d == ReadDir(bad)
               IN  op' = IF Hits(d, n) = {} THEN Idle
                         ELSE [k |-> "dir", call |-> "delete", name |-> n, value |-> None,
                               i |-> 1, mem |-> MarkDeleted(d, n)]
    BY <1>10 DEF BeginDelete
  <2> DEFINE mem == MarkDeleted(ReadDir(bad), n)
  <2>3. Apart(mem) /\ Holds(mem, [stored EXCEPT ![n] = None], data, Spent')
    BY <2>1, <2>2, MarkHolds
  <2>4. \/ op'.k = "idle"
        \/ /\ op'.k = "dir" /\ op'.name = n /\ op'.mem = mem /\ op'.i = 1 /\ op'.value = None
    BY <2>2 DEF Idle
  <2>5. Holds(dir, stored, data, Spent')
    BY <1>1, <1>2, <2>1 DEF Holds, FaultCounts
  <2>6. \A i \in Entries : ~(SectorOf(i) < 1)
    BY EntryFacts, KvConstants
  <2> HIDE DEF mem
  <2>7. op'.k = "dir" => UpdateStored(op)' = [stored EXCEPT ![n] = None]
    BY <2>1, <2>4 DEF UpdateStored
  <2> QED
    BY <2>1, <2>3, <2>4, <2>5, <2>6, <2>7 DEF ContentsInv
<1>11. CASE WriteData
  <2>1. /\ op.k = "data" /\ op \in DataOp /\ UNCHANGED << dir, count >>
        /\ Apart(op.mem) /\ Holds(op.mem, [stored EXCEPT ![op.name] = None], data, Spent)
    BY <1>2, <1>11 DEF WriteData, TypeInv, FormatOp, DirOp, ContentsInv
  <2>2. Holds(op.mem, [stored EXCEPT ![op.name] = None], data', Spent)
    BY <1>11, <2>1, DataHolds
  <2>3. CASE op' # Idle
    <3>1. op' = [op EXCEPT !.i = @ + 1] /\ UNCHANGED << stored, faults >>
      BY <1>11, <2>3, DataStep
    <3>2. op'.k = "data" /\ op'.mem = op.mem /\ op'.name = op.name /\ Spent' = Spent
      BY <2>1, <3>1 DEF DataOp, Spent
    <3> QED
      BY <1>2, <2>1, <2>2, <3>1, <3>2 DEF ContentsInv
  <2>4. CASE op' = Idle
    <3>1. op'.k = "idle" /\ [op EXCEPT !.i = @ + 1].k = "data"
      BY <2>1, <2>4 DEF Idle, DataOp
    <3>2. faults' = [faults EXCEPT !.full = 1] /\ stored' = [stored EXCEPT ![op.name] = Unknown]
      BY <1>3, <1>11, <2>4, <3>1 DEF WriteData, Fail
    <3>3. faults'.full = 1 /\ faults'.read = faults.read /\ faults.read = 0 /\ Spent' = Spent
      BY <1>1, <1>2, <3>2 DEF FaultCounts
    <3>4. op.mem = MarkDeleted(dir, op.name)
      BY <2>1, <3>3 DEF SafeInv
    <3>5. Holds(dir, stored', data', Spent')
      BY <2>1, <2>2, <3>2, <3>3, <3>4, FailHolds
    <3>6. Apart(dir) /\ count = CountOf(dir)
      BY <1>2, <2>1, <3>3 DEF ContentsInv
    <3> QED
      BY <2>1, <3>1, <3>5, <3>6 DEF ContentsInv
  <2> QED
    BY <2>3, <2>4
<1>12. CASE FillEntry
  <2>1. /\ op.k = "data" /\ op \in DataOp /\ Writing(op) /\ op.i = op.value.size
        /\ UNCHANGED << dir, data, stored, faults >>
        /\ Apart(op.mem) /\ Holds(op.mem, [stored EXCEPT ![op.name] = None], data, Spent)
    BY <1>2, <1>12 DEF FillEntry, disk, TypeInv, FormatOp, DirOp, ContentsInv
  <2>2. /\ op'.k = "dir" /\ op'.name = op.name /\ op'.value = op.value /\ op'.i = 1
        /\ op'.mem = WithEntry(op)
    BY <1>12 DEF FillEntry
  <2>3. Apart(WithEntry(op)) /\ Holds(WithEntry(op), UpdateStored(op), data, Spent)
    BY <2>1, EntryHolds DEF TypeInv
  <2>4. UpdateStored(op)' = UpdateStored(op) /\ Spent' = Spent
    BY <2>1, <2>2 DEF UpdateStored, Spent
  <2>5. \A i \in Entries : ~(SectorOf(i) < 1)
    BY EntryFacts, KvConstants
  <2> QED
    BY <2>1, <2>2, <2>3, <2>4, <2>5 DEF ContentsInv
<1>13. CASE WriteDir
  <2>1. /\ op.k = "dir" /\ op \in DirOp /\ op.i \in Nat
        /\ Apart(op.mem) /\ Holds(op.mem, UpdateStored(op), data, Spent)
        /\ \A i \in Entries : SectorOf(i) < op.i => dir[i] = op.mem[i]
    BY <1>2, <1>13, KvConstants DEF WriteDir, TypeInv, FormatOp, DataOp, DirOp, ContentsInv
  <2>2. /\ op'.k = "dir" /\ op'.name = op.name /\ op'.value = op.value /\ op'.i = op.i + 1
        /\ op'.mem = op.mem
    BY <1>13, <2>1 DEF WriteDir, DirOp
  <2>3. /\ dir' = [i \in Entries |-> IF SectorOf(i) = op.i THEN op.mem[i] ELSE dir[i]]
        /\ UNCHANGED << data, stored, faults >>
    BY <1>3, <1>13 DEF WriteDir
  <2>4. UpdateStored(op)' = UpdateStored(op) /\ Spent' = Spent
    BY <2>2, <2>3 DEF UpdateStored, Spent
  <2>5. ASSUME NEW i \in Entries, SectorOf(i) < op.i + 1 PROVE dir'[i] = op.mem[i]
    <3>1. SectorOf(i) \in Nat
      BY EntryFacts, KvConstants
    <3> HIDE DEF SectorOf
    <3>2. SectorOf(i) = op.i \/ SectorOf(i) < op.i
      BY <2>1, <2>5, <3>1
    <3> QED
      BY <2>1, <2>3, <3>2
  <2> QED
    BY <2>1, <2>2, <2>3, <2>4, <2>5 DEF ContentsInv
<1>14. CASE UpdateSuper
  <2>1. /\ op.k = "dir" /\ op \in DirOp /\ op.i > DirSectors
        /\ Apart(op.mem) /\ Holds(op.mem, UpdateStored(op), data, Spent)
        /\ \A i \in Entries : SectorOf(i) < op.i => dir[i] = op.mem[i]
    BY <1>2, <1>14 DEF UpdateSuper, TypeInv, FormatOp, DataOp, ContentsInv
  <2>2. /\ op'.k = "idle" /\ UNCHANGED << dir, data >> /\ stored' = UpdateStored(op)
        /\ count' = CountOf(op.mem)
    BY <1>3, <1>14 DEF UpdateSuper, Idle
  <2>3. dir = op.mem
    <3>1. \A i \in Entries : SectorOf(i) < op.i
      BY <2>1, EntryFacts, KvConstants DEF DirOp
    <3>2. dir \in [Entries -> DirEntry] /\ op.mem \in [Entries -> DirEntry]
      BY <2>1 DEF TypeInv, DirOp, Dirs
    <3> QED
      BY <2>1, <3>1, <3>2
  <2>4. Holds(dir, UpdateStored(op), data, Spent')
    BY <1>1, <1>2, <2>1, <2>3 DEF Holds, FaultCounts
  <2> QED
    BY <2>1, <2>2, <2>3, <2>4 DEF ContentsInv
<1> QED
  BY <1>4, <1>6, <1>7, <1>8, <1>9, <1>10, <1>11, <1>12, <1>13, <1>14 DEF Next

-----------------------------------------------------------------------------
(* The theorems.                                                            *)

KvInv == TypeInv /\ SafeInv /\ ContentsInv

\* KvInv holds in every reachable state.
LEMMA KvInvariant == Spec => []KvInv
<1>1. Init => KvInv
  <2> SUFFICES ASSUME Init PROVE KvInv
    OBVIOUS
  <2>1. Zero \in DirEntry /\ End(Zero) <= DiskSize
    BY KvConstants DEF Zero, DirEntry, FileName, End
  <2>2. dir \in Dirs
    BY <2>1 DEF Init, Dirs
  <2>3. op = [k |-> "boot"]
    BY DEF Init
  <2>4. op \in [k : {"idle", "boot"}] /\ op.k = "boot"
    BY <2>3
  <2>5. faults \in FaultCounts
    BY DEF Init, FaultCounts
  <2>6. TypeInv
    BY <2>2, <2>4, <2>5 DEF Init, TypeInv, Block
  <2>7. SafeInv /\ ContentsInv
    BY <2>4 DEF Init, SafeInv, ContentsInv, Empty
  <2> QED
    BY <2>6, <2>7 DEF KvInv
<1>2. KvInv /\ [Next]_vars => KvInv'
  BY TypeStep, SafeStep, ContentsStep DEF KvInv
<1> QED
  BY <1>1, <1>2, PTL DEF Spec

\* What read returns where a file has its contents.
LEMMA ReadGood ==
    ASSUME NEW d, NEW bad, NEW n, Good(d, n, stored[n], data), stored[n] # Unknown
    PROVE  /\ Hits(d, n) = {} => ReadFrom(d, bad, n) = None
           /\ Hits(d, n) # {} =>
                /\ stored[n] \in Values /\ Expected(n) = Blocks(stored[n])
                /\ ReadFrom(d, bad, n) \in Blanked(Expected(n))
                /\ bad = {} => ReadFrom(d, bad, n) = Expected(n)
<1>1. CASE Hits(d, n) = {}
  BY <1>1 DEF ReadFrom
<1>2. CASE Hits(d, n) # {}
  <2> DEFINE m == MaxOf(Hits(d, n))
             e == d[m]
             v == stored[n]
             B == Blocks(v)
             lost == {i \in 1..v.size : e.off + i - 1 \in bad}
  <2>1. m \in Hits(d, n)
    BY <1>2, LastHit
  <2>2. v \in Values /\ e.size = v.size /\ \A k \in 1..v.size : data[e.off + k - 1] = B[k]
    BY <2>1 DEF Good
  <2>3. ReadFrom(d, bad, n)
          = [i \in 1..e.size |-> IF e.off + i - 1 \in bad THEN Zeros ELSE data[e.off + i - 1]]
    BY <1>2 DEF ReadFrom
  <2>4. Expected(n) = B /\ DOMAIN B = 1..v.size /\ B = [i \in 1..v.size |-> B[i]]
    BY <2>2, KvConstants DEF Expected, Blocks
  <2> HIDE DEF e, v, B
  <2>5. ReadFrom(d, bad, n) = [i \in 1..v.size |-> IF i \in lost THEN Zeros ELSE B[i]]
    BY <2>2, <2>3
  <2>6. ReadFrom(d, bad, n) = [i \in DOMAIN B |-> IF i \in lost THEN Zeros ELSE B[i]]
        /\ lost \in SUBSET (DOMAIN B)
    BY <2>4, <2>5
  <2>7. ReadFrom(d, bad, n) \in Blanked(B)
    BY <2>6 DEF Blanked
  <2>8. bad = {} => ReadFrom(d, bad, n) = B
    <3> SUFFICES ASSUME bad = {} PROVE ReadFrom(d, bad, n) = B
      OBVIOUS
    <3>1. lost = {}
      OBVIOUS
    <3> HIDE DEF lost
    <3> QED
      BY <2>4, <2>5, <3>1
  <2> QED
    BY <1>2, <2>2, <2>4, <2>7, <2>8 DEF v, B
<1> QED
  BY <1>1, <1>2

\* A sector of the directory that cannot be read has no files.
LEMMA ReadWithin ==
    ASSUME NEW bad
    PROVE  Within(ReadDir(bad), dir)
  BY DEF Within, ReadDir, Zero

\* Between calls the invariant says what read returns.
LEMMA ReadFacts ==
    ASSUME KvInv
    PROVE  ReadBack /\ NeverOthersContents
<1>1. ASSUME op = Idle, Calm, NEW n \in Known
      PROVE  /\ n # NoName /\ Good(dir, n, stored[n], data)
             /\ stored[n] # Unknown /\ stored[n] \in Values \cup {None}
             /\ Spent = 0 /\ stored[n] \in Values => Hits(dir, n) # {}
  <2>1. op.k = "idle"
    BY <1>1 DEF Idle
  <2>2. n \in ShortNames /\ n \in Names /\ stored[n] # Unknown
    BY DEF Known, ShortNames
  <2>3. Good(dir, n, stored[n], data) /\ (Spent = 0 /\ stored[n] \in Values => Hits(dir, n) # {})
    BY <1>1, <2>1, <2>2 DEF KvInv, ContentsInv, Holds
  <2> QED
    BY <2>2, <2>3, KvConstants DEF KvInv, TypeInv
<1>2. ASSUME op = Idle, Calm, NEW n \in Known, Spent = 0 PROVE Read(n) = Expected(n)
  <2>1. stored[n] = None => Expected(n) = None
    BY DEF Expected
  <2> QED
    BY <1>1, <1>2, <2>1, ReadGood DEF Read
<1>3. ASSUME op = Idle, Calm, NEW n \in Known, NEW r \in Results(n)
      PROVE  r = None \/ (Expected(n) # None /\ r \in Blanked(Expected(n)))
  <2>1. PICK badDir \in SUBSET (1..DirSectors), bad \in SUBSET (DOMAIN data) :
           r = ReadFrom(ReadDir(badDir), bad, n)
    BY <1>3 DEF Results
  <2> DEFINE d == ReadDir(badDir)
  <2>2. Good(d, n, stored[n], data)
    BY <1>1, <1>3, ReadWithin, GoodWithin
  <2> HIDE DEF d
  <2>3. /\ Hits(d, n) = {} => r = None
        /\ Hits(d, n) # {} => /\ stored[n] \in Values /\ Expected(n) = Blocks(stored[n])
                              /\ r \in Blanked(Expected(n))
    BY <1>1, <1>3, <2>1, <2>2, ReadGood DEF d
  <2>4. Hits(d, n) # {} => Expected(n) # None
    BY NoneIsNoFile, <2>3
  <2> QED
    BY <2>3, <2>4
<1>4. {faults.read, faults.write, faults.crash, faults.full} \subseteq Nat
  BY DEF KvInv, TypeInv, FaultCounts
<1>5. Spent = 0 => Calm
  BY <1>4 DEF Spent, Calm
<1>6. OnlyReadsFailed => Calm
  BY <1>4 DEF Calm, OnlyReadsFailed
<1>7. ReadBack
  BY <1>2, <1>5 DEF ReadBack
<1> QED
  BY <1>3, <1>6, <1>7 DEF NeverOthersContents

\* Between calls, until something fails, read(name) returns what the last
\* write(name) that returned true stored, and None after a delete.
THEOREM KvReadBack == Spec => []ReadBack
<1>1. KvInv => ReadBack
  BY ReadFacts
<1> QED
  BY <1>1, KvInvariant, PTL

\* Failed sector reads lose files and blank sectors, but read never returns a
\* sector of another file or of older contents.
THEOREM KvNeverOthersContents == Spec => []NeverOthersContents
<1>1. KvInv => NeverOthersContents
  BY ReadFacts
<1> QED
  BY <1>1, KvInvariant, PTL

\* Files lie on the disk, share no sector and are counted by the superblock.
THEOREM KvLayoutSound == Spec => []LayoutSound
<1>1. ASSUME KvInv, op = Idle, Spent = 0
      PROVE  /\ \A i, j \in Valid(dir) : i # j => Extent(i) \cap Extent(j) = {}
             /\ \A i \in Valid(dir) : Extent(i) \subseteq DOMAIN data
             /\ count = Cardinality(Valid(dir))
  <2>1. op.k = "idle" /\ faults \in FaultCounts /\ dir \in Dirs /\ DOMAIN data = 0..(DiskSize - 1)
    BY <1>1 DEF Idle, KvInv, TypeInv
  <2>2. Calm
    BY <1>1, <2>1 DEF Spent, Calm, FaultCounts
  <2>3. Apart(dir) /\ count = Cardinality(Valid(dir))
    BY <1>1, <2>1, <2>2 DEF KvInv, ContentsInv, CountOf
  <2>4. \A i \in Valid(dir) : dir[i].off \in Nat /\ dir[i].size \in Nat
                              /\ dir[i].off + dir[i].size <= DiskSize
    BY <2>1 DEF Valid, Dirs, DirEntry, End
  <2>5. DiskSize \in Nat
    BY KvConstants
  <2>6. ASSUME NEW i \in Valid(dir), NEW j \in Valid(dir), i # j
        PROVE  Extent(i) \cap Extent(j) = {}
    <3>1. dir[i].off + dir[i].size <= dir[j].off \/ dir[j].off + dir[j].size <= dir[i].off
      BY <2>3, <2>6 DEF Apart, End
    <3> QED
      BY <2>4, <3>1 DEF Extent
  <2>7. ASSUME NEW i \in Valid(dir) PROVE Extent(i) \subseteq 0..(DiskSize - 1)
    BY <2>4, <2>5 DEF Extent
  <2> QED
    BY <2>1, <2>3, <2>6, <2>7
<1>2. KvInv => LayoutSound
  BY <1>1 DEF LayoutSound
<1> QED
  BY <1>2, KvInvariant, PTL

\* A call only changes the file it names, also when sector writes fail or when
\* power is lost between any two of them.
THEOREM KvOtherFilesSafe == Spec => OtherFilesSafe
<1>1. KvInv /\ [Next]_vars => [OthersKept]_vars
  BY OtherFilesStep DEF KvInv
<1> QED
  BY <1>1, KvInvariant, PTL DEF Spec, OtherFilesSafe

-----------------------------------------------------------------------------
(* The store implements the map.                                            *)

\* What the map shows of a call's value.
Shown(v) == IF v = None THEN None ELSE Blocks(v)

Busy == op.k \in {"data", "dir"}

\* The call under way names a file and a value.
LEMMA BusyTypes ==
    ASSUME TypeInv, Busy
    PROVE  /\ op.name \in Names /\ op.value \in Values \cup {None}
           /\ op.k = "data" => op.value \in Values
  BY DEF TypeInv, Busy, FormatOp, DataOp, DirOp

\* Only the call's own name is its subject among the names that are not cut.
LEMMA SubjectIs ==
    ASSUME TypeInv
    PROVE  \A n \in ShortNames : n \in Subject <=> Busy /\ op.name = n
<1>1. CASE Busy
  <2>1. op.name \in Names
    BY <1>1, BusyTypes
  <2> QED
    BY <1>1, <2>1 DEF Busy, Subject, ShortNames
<1>2. CASE ~Busy
  BY <1>2 DEF Busy, Subject
<1> QED
  BY <1>1, <1>2

\* What a step does to the call under way and to the history.
Outside == ~Busy /\ ~Busy' /\ UNCHANGED stored
Begins ==
    /\ op = Idle /\ Busy' /\ UNCHANGED stored
    /\ op'.value = None => Hits(dir, op'.name) # {}
GoesOn == Busy /\ Busy' /\ op'.name = op.name /\ op'.value = op.value /\ UNCHANGED stored
Returns == op.k = "dir" /\ op' = Idle /\ stored' = UpdateStored(op)
Breaks == op.k = "data" /\ op' = Idle /\ stored' = [stored EXCEPT ![op.name] = Unknown]

\* Every step is one of these, until something fails.
LEMMA CallSteps ==
    ASSUME KvInv, [Next]_vars, Spent' = 0
    PROVE  Outside \/ Begins \/ GoesOn \/ Returns \/ Breaks
<1>1. /\ TypeInv /\ faults \in FaultCounts /\ faults' \in FaultCounts /\ dir \in Dirs
  BY FaultsGrow DEF KvInv, TypeInv
<1>2. faults'.read = 0 /\ faults'.write = 0 /\ faults'.crash = 0
  BY <1>1 DEF Spent, FaultCounts
<1>3. CASE UNCHANGED vars
  BY <1>3 DEF vars, Outside, GoesOn, Busy
<1>4. CASE Open \/ Format
  <2>1. CASE Open
    BY <2>1 DEF Open, Outside, Busy, Idle
  <2>2. CASE Format
    <3>1. op \in FormatOp
      BY <1>1, <2>2 DEF Format, TypeInv, DataOp, DirOp
    <3>2. op'.k \in {"idle", "format"}
      BY <2>2, <3>1 DEF Format, FormatOp, Idle
    <3> QED
      BY <2>2, <3>2 DEF Format, Outside, Busy
  <2> QED
    BY <1>4, <2>1, <2>2
<1>5. ASSUME NEW n \in Names, NEW v \in Values, BeginWrite(n, v) PROVE Outside \/ Begins
  <2>1. v # None
    BY KvConstants
  <2>2. op' = Idle \/ (op'.k = "data" /\ op'.value = v)
    BY <1>5 DEF BeginWrite
  <2>3. op = Idle /\ UNCHANGED stored
    BY <1>5 DEF BeginWrite
  <2> QED
    BY <2>1, <2>2, <2>3 DEF Outside, Begins, Busy, Idle
<1>6. CASE WriteData
  <2>1. op.k = "data" /\ (GoesOn \/ Breaks)
    <3>1. op \in DataOp
      BY <1>1, <1>6 DEF WriteData, TypeInv, FormatOp, DirOp
    <3>2. CASE op' = [op EXCEPT !.i = @ + 1] /\ UNCHANGED stored
      <4>1. op'.k = op.k /\ op'.name = op.name /\ op'.value = op.value
        BY <3>1, <3>2 DEF DataOp
      <4> QED
        BY <1>6, <3>2, <4>1 DEF WriteData, GoesOn, Busy
    <3>3. CASE Fail
      BY <1>6, <3>3 DEF WriteData, Breaks, Fail
    <3> QED
      BY <1>6, <3>2, <3>3 DEF WriteData
  <2> QED
    BY <2>1
<1>7. CASE FillEntry
  <2>1. op'.k = "dir" /\ op'.name = op.name /\ op'.value = op.value
    BY <1>7 DEF FillEntry
  <2> QED
    BY <1>7, <2>1 DEF FillEntry, GoesOn, Busy
<1>8. CASE WriteDir
  <2>1. op \in DirOp
    BY <1>1, <1>8 DEF WriteDir, TypeInv, FormatOp, DataOp
  <2>2. op' = [op EXCEPT !.i = @ + 1] /\ UNCHANGED stored
    BY <1>8 DEF WriteDir
  <2>3. op'.k = op.k /\ op'.name = op.name /\ op'.value = op.value
    BY <2>1, <2>2 DEF DirOp
  <2> QED
    BY <1>8, <2>2, <2>3 DEF WriteDir, GoesOn, Busy
<1>9. CASE UpdateSuper
  BY <1>9 DEF UpdateSuper, Returns
<1>10. ASSUME NEW n \in Names, BeginDelete(n) PROVE Outside \/ Begins
  <2>1. PICK bad \in SUBSET (1..DirSectors) :
           /\ ReadFails(Cardinality(bad))
           /\ op' = IF Hits(ReadDir(bad), n) = {} THEN Idle
                    ELSE [k |-> "dir", call |-> "delete", name |-> n, value |-> None,
                          i |-> 1, mem |-> MarkDeleted(ReadDir(bad), n)]
    BY <1>10 DEF BeginDelete
  <2>2. ReadDir(bad) = dir
    BY <1>1, <1>2, <2>1, AllRead
  <2>3. op = Idle /\ UNCHANGED stored
    BY <1>10 DEF BeginDelete
  <2>4. op' = Idle \/ (op'.k = "dir" /\ op'.name = n /\ Hits(dir, n) # {})
    BY <2>1, <2>2
  <2> QED
    BY <2>3, <2>4 DEF Outside, Begins, Busy, Idle
<1>11. CASE Crash
  BY <1>1, <1>2, <1>11 DEF Crash, FaultCounts
<1> QED
  BY <1>3, <1>4, <1>5, <1>6, <1>7, <1>8, <1>9, <1>10, <1>11 DEF Next

\* The entry of the map for a name, until something fails.
Entry(n) == IF n \notin Known \/ n \in Subject THEN Unknown ELSE Read(n)

\* A step of the store is a step of the map or leaves it alone.
LEMMA MapStep ==
    ASSUME KvInv, KvInv', [Next]_vars
    PROVE  [Map!Next]_<< View, Call >>
<1>1. /\ faults \in FaultCounts /\ faults' \in FaultCounts
      /\ faults.read <= faults'.read /\ faults.write <= faults'.write
      /\ faults.crash <= faults'.crash
      /\ stored \in [Names -> Values \cup {None, Unknown}]
      /\ TypeInv /\ TypeInv'
  BY FaultsGrow DEF KvInv, TypeInv
<1>2. Spent \in Nat /\ Spent' \in Nat /\ Spent <= Spent'
  BY <1>1 DEF Spent, FaultCounts
<1>3. CASE Spent' > 0
  <2>1. View' = [n \in ShortNames |-> Unknown] /\ Call' = Idle
    BY <1>3 DEF View, Call
  <2> QED
    BY <2>1 DEF Map!Next, Map!MachineFails
<1>4. CASE Spent' = 0
  <2>1. Spent = 0
    BY <1>2, <1>4
  <2>2. View = [n \in ShortNames |-> Entry(n)] /\ View' = [n \in ShortNames |-> Entry(n)']
    BY <1>4, <2>1 DEF View, Entry
  <2>3. /\ Call = IF Busy /\ op.name \in ShortNames
                  THEN Map!Pending(op.name, Shown(op.value)) ELSE Idle
        /\ Call' = IF Busy' /\ op'.name \in ShortNames
                   THEN Map!Pending(op'.name, Shown(op'.value)) ELSE Idle
    BY <1>4, <2>1 DEF Call, Busy, Shown, Map!Pending
  <2>4. ShortNames \subseteq Names
    BY DEF ShortNames
  <2>5. ASSUME NEW n \in ShortNames, n \notin Subject PROVE Read(n)' = Read(n)
    <3>1. faults'.read = 0 /\ faults'.write = 0 /\ faults'.crash = 0
      BY <1>1, <1>4 DEF Spent, FaultCounts
    <3>2. OthersKept
      BY OtherFilesStep DEF KvInv
    <3> QED
      BY <2>4, <2>5, <3>1, <3>2 DEF OthersKept
  <2>6. \A n \in ShortNames : /\ n \in Subject <=> Busy /\ op.name = n
                              /\ n \in Subject' <=> Busy' /\ op'.name = n
    <3>1. (TypeInv => \A n \in ShortNames : n \in Subject <=> Busy /\ op.name = n)'
      BY SubjectIs, PTL
    <3> QED
      BY <1>1, <3>1, SubjectIs
  <2>7. \A n \in ShortNames : n \in Known <=> stored[n] # Unknown
    BY DEF Known
  <2>8. \A n \in ShortNames : n \in Known' <=> stored'[n] # Unknown
    BY DEF Known
  <2>9. CASE Outside
    <3>1. ASSUME NEW n \in ShortNames PROVE Entry(n)' = Entry(n)
      BY <2>5, <2>6, <2>7, <2>8, <2>9 DEF Outside, Entry
    <3> QED
      BY <2>2, <2>3, <2>9, <3>1 DEF Outside
  <2>10. CASE GoesOn
    <3>1. ASSUME NEW n \in ShortNames PROVE Entry(n)' = Entry(n)
      BY <2>5, <2>6, <2>7, <2>8, <2>10 DEF GoesOn, Entry
    <3> QED
      BY <2>2, <2>3, <2>10, <3>1 DEF GoesOn
  <2>11. CASE Begins
    <3>1. ~Busy /\ Busy' /\ op'.name \in Names /\ op'.value \in Values \cup {None}
      <4>1. (TypeInv /\ Busy => op.name \in Names /\ op.value \in Values \cup {None})'
        BY BusyTypes, PTL
      <4> QED
        BY <1>1, <2>11, <4>1 DEF Begins, Busy, Idle
    <3> PICK m \in Names : m = op'.name
      BY <3>1
    <3> PICK c : c = Shown(op'.value)
      OBVIOUS
    <3>2. ASSUME NEW n \in ShortNames, n # m PROVE Entry(n)' = Entry(n)
      BY <2>5, <2>6, <2>7, <2>8, <2>11, <3>1, <3>2 DEF Begins, Entry
    <3>3. CASE m \notin ShortNames
      BY <2>2, <2>3, <3>1, <3>2, <3>3
    <3>4. CASE m \in ShortNames
      <4>1. Entry(m)' = Unknown
        BY <2>6, <3>1, <3>4 DEF Entry
      <4>2. View' = [View EXCEPT ![m] = Unknown]
        BY <2>2, <3>2, <3>4, <4>1
      <4>3. Call = Idle /\ Call' = Map!Pending(m, c)
        BY <2>3, <3>1, <3>4
      <4>4. c \in {Blocks(v) : v \in Values} \cup {None}
        BY <3>1 DEF Shown
      <4>5. ASSUME c = None PROVE View[m] # None
        <5>1. op'.value = None
          BY <3>1, <4>5, NoneIsNoFile DEF Shown
        <5>2. Hits(dir, m) # {}
          BY <2>11, <5>1 DEF Begins
        <5>3. View[m] = Entry(m)
          BY <2>2, <3>4
        <5>4. CASE m \notin Known
          BY <5>3, <5>4, KvConstants DEF Entry
        <5>5. CASE m \in Known
          <6>1. Entry(m) = Read(m)
            BY <2>6, <3>1, <3>4, <5>5 DEF Entry
          <6>2. op.k = "idle" /\ Calm
            <7>1. op.k = "idle"
              BY <2>11 DEF Begins, Idle
            <7> QED
              BY <1>1, <2>1, <7>1 DEF Calm, Spent, FaultCounts
          <6>3. Good(dir, m, stored[m], data) /\ stored[m] # Unknown
            BY <2>7, <3>4, <5>5, <6>2 DEF KvInv, ContentsInv, Holds
          <6>4. stored[m] \in Values /\ Read(m) = Blocks(stored[m])
            BY <5>2, <6>3, ReadGood DEF Read
          <6> QED
            BY <5>3, <6>1, <6>4, NoneIsNoFile
        <5> QED
          BY <5>4, <5>5
      <4>6. Map!Begin(m, c)
        BY <4>2, <4>3, <4>5 DEF Map!Begin
      <4> QED
        BY <3>4, <4>4, <4>6 DEF Map!Next
    <3> QED
      BY <3>3, <3>4
  <2>12. CASE Returns
    <3>1. Busy /\ ~Busy' /\ op.name \in Names /\ op.value \in Values \cup {None}
      BY <1>1, <2>12, BusyTypes DEF Returns, Busy, Idle
    <3> PICK m \in Names : m = op.name
      BY <3>1
    <3> PICK c : c = Shown(op.value)
      OBVIOUS
    <3>2. stored'[m] = op.value /\ \A n \in Names : n # m => stored'[n] = stored[n]
      BY <1>1, <2>12, <3>1 DEF Returns, UpdateStored
    <3>3. ASSUME NEW n \in ShortNames, n # m PROVE Entry(n)' = Entry(n)
      BY <2>4, <2>5, <2>6, <2>7, <2>8, <3>1, <3>2, <3>3 DEF Entry
    <3>4. CASE m \notin ShortNames
      BY <2>2, <2>3, <3>1, <3>3, <3>4
    <3>5. CASE m \in ShortNames
      <4>1. m \in Known' /\ m \notin Subject'
        BY <2>6, <2>8, <3>1, <3>2, <3>5, KvConstants
      <4>2. (KvInv => ReadBack)'
        BY ReadFacts, PTL
      <4>3. Read(m)' = Expected(m)'
        BY <1>4, <2>12, <4>1, <4>2 DEF ReadBack, Returns
      <4>4. Expected(m)' = c
        BY <3>1, <3>2, KvConstants DEF Expected, Shown
      <4>5. Entry(m)' = c
        BY <4>1, <4>3, <4>4 DEF Entry
      <4>6. View' = [View EXCEPT ![m] = c]
        BY <2>2, <3>3, <3>5, <4>5
      <4>7. Call = Map!Pending(m, c) /\ Call' = Idle
        BY <2>3, <3>1, <3>5
      <4>8. c \in {Blocks(v) : v \in Values} \cup {None}
        BY <3>1 DEF Shown
      <4>9. Map!Succeed(m, c)
        BY <4>6, <4>7 DEF Map!Succeed
      <4> QED
        BY <3>5, <4>8, <4>9 DEF Map!Next
    <3> QED
      BY <3>4, <3>5
  <2>13. CASE Breaks
    <3>1. Busy /\ ~Busy' /\ op.name \in Names /\ op.value \in Values
      BY <1>1, <2>13, BusyTypes DEF Breaks, Busy, Idle
    <3> PICK m \in Names : m = op.name
      BY <3>1
    <3> PICK c : c = Shown(op.value)
      OBVIOUS
    <3>2. stored'[m] = Unknown /\ \A n \in Names : n # m => stored'[n] = stored[n]
      BY <1>1, <2>13, <3>1 DEF Breaks
    <3>3. ASSUME NEW n \in ShortNames PROVE Entry(n)' = Entry(n)
      <4>1. CASE n = m
        BY <2>6, <2>8, <3>1, <3>2, <4>1 DEF Entry
      <4>2. CASE n # m
        BY <2>4, <2>5, <2>6, <2>7, <2>8, <3>1, <3>2, <4>2 DEF Entry
      <4> QED
        BY <4>1, <4>2
    <3>4. View' = View
      BY <2>2, <3>3
    <3>5. CASE m \notin ShortNames
      BY <2>3, <3>1, <3>4, <3>5
    <3>6. CASE m \in ShortNames
      <4>1. Call = Map!Pending(m, c) /\ Call' = Idle
        BY <2>3, <3>1, <3>6
      <4>2. c \in {Blocks(v) : v \in Values}
        BY <3>1, KvConstants DEF Shown
      <4>3. Map!Fail(m, c)
        BY <3>4, <4>1 DEF Map!Fail
      <4> QED
        BY <3>6, <4>2, <4>3 DEF Map!Next
    <3> QED
      BY <3>5, <3>6
  <2> QED
    BY <1>4, <2>9, <2>10, <2>11, <2>12, <2>13, CallSteps
<1> QED
  BY <1>2, <1>3, <1>4

\* As long as neither sector I/O nor power fails, the store implements the map
\* with calls: what read returns for the other names is the same at every step.
THEOREM KvIsMap == Spec => IsMap
<1>1. Init => Map!Init
  <2> SUFFICES ASSUME Init PROVE Map!Init
    OBVIOUS
  <2>1. Subject = {} /\ Spent = 0 /\ Call = Idle
    BY DEF Init, Subject, Spent, Call
  <2>2. \A n \in ShortNames : n \in Known /\ Hits(dir, n) = {}
    BY KvConstants DEF Init, Known, ShortNames, Hits, Zero
  <2>3. View = [n \in ShortNames |-> None]
    BY <2>1, <2>2 DEF View, Read, ReadFrom
  <2> QED
    BY <2>1, <2>3 DEF Map!Init
<1>2. KvInv /\ KvInv' /\ [Next]_vars => [Map!Next]_<< View, Call >>
  BY MapStep
<1> QED
  BY <1>1, <1>2, KvInvariant, PTL DEF Spec, IsMap, Map!Spec

=============================================================================

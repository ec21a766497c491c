------------------------------- MODULE KvStore -------------------------------
(***************************************************************************)
(* The flat key-value store of unikernel/src/store.rs on a block device:   *)
(* a superblock, a directory of DirSectors sectors and a data area.        *)
(*                                                                         *)
(* One step is one write_sectors call, so a crash may fall between any two *)
(* of them; op is what the running call keeps in memory.  Sizes are in     *)
(* sectors.  A failed write leaves its sector as it was, a failed read     *)
(* leaves the zeros of the buffer.  Failures and crashes are counted, and   *)
(* MaxFaults bounds their number.                                          *)
(***************************************************************************)
EXTENDS Naturals, FiniteSets, Sequences

CONSTANTS
    Names,        \* keys the callers use
    Cut,          \* function: a key of 20 bytes or more -> its first 19 bytes
    Values,       \* what they store: records with a field size
    DirSectors, PerSector,   \* DIR_SECTORS, DIR_ENTRIES / DIR_SECTORS
    DiskSize,     \* sectors of the data area
    MaxOps,       \* bound on the calls
    MaxFaults,    \* bound on crashes and failed sector I/O together
    NoName,       \* a name field of zeros
    Unknown,      \* contents of a file whose last write failed
    Zeros,        \* a sector's worth of zeros in a buffer
    None          \* Option::None

ASSUME KvConstants ==
    /\ {DirSectors, PerSector, DiskSize} \subseteq Nat \ {0}
    /\ {MaxOps, MaxFaults} \subseteq Nat
    /\ \A v \in Values : v.size \in Nat
    /\ NoName \notin Names
    /\ None \notin Values /\ Unknown \notin Values \cup {None}

VARIABLES
    magic, count,    \* the superblock
    dir,             \* the directory on disk: sequence of entries
    data,            \* the data area: sector -> block
    op,              \* the call under way
    stored,          \* history: name -> last value write returned true for
    ops,             \* calls made
    faults           \* how often sector I/O failed, power was lost, the disk was full

disk == << magic, count, dir, data >>
vars == << disk, op, stored, ops, faults >>

-----------------------------------------------------------------------------

Entries == 1..(DirSectors * PerSector)
SectorOf(i) == ((i - 1) \div PerSector) + 1

Zero == [name |-> NoName, off |-> 0, size |-> 0, deleted |-> FALSE]
Idle == [k |-> "idle"]

\* The name as the directory keeps it: at most 19 bytes.
StoredName(n) == IF n \in DOMAIN Cut THEN Cut[n] ELSE n

\* Entries that entry_name_str and the flag make a file called n.
Hits(d, n) == {i \in Entries : ~d[i].deleted /\ d[i].name = n}

Valid(d) == {i \in Entries : ~d[i].deleted /\ d[i].name # NoName}

MaxOf(S) == CHOOSE m \in S : \A x \in S : x <= m
MinOf(S) == CHOOSE m \in S : \A x \in S : m <= x

find_next_free_sector_Short(d) ==
    LET end == MaxOf({d[i].off + d[i].size : i \in Valid(d)} \cup {0})
    IN  IF end = 0 THEN 0 ELSE end - 1

\* Unused entries count as valid ones that end at sector 0.
find_next_free_sector(d) ==
    MaxOf({d[i].off + d[i].size : i \in {j \in Entries : ~d[j].deleted}} \cup {0})

Blocks(v) == [i \in 1..v.size |-> [of |-> v, i |-> i]]

ASSUME NoneIsNoFile == \A v \in Values : Blocks(v) # None

\* read(name) where read_dir gave d and the data sectors in bad cannot be read:
\* the last entry that matches, its sectors as they are now.  The result of
\* read_sectors is ignored, so a failed sector stays zeros in the answer.
ReadFrom(d, bad, n) ==
    IF Hits(d, n) = {} THEN None
    ELSE LET e == d[MaxOf(Hits(d, n))]
         IN  [i \in 1..e.size |->
                IF e.off + i - 1 \in bad THEN Zeros ELSE data[e.off + i - 1]]

\* read(name) when no sector fails.
Read(n) == ReadFrom(dir, {}, n)

Init ==
    /\ magic = FALSE /\ count = 0
    /\ dir = [i \in Entries |-> Zero]
    /\ data = [s \in 0..(DiskSize - 1) |-> None]
    /\ op = [k |-> "boot"]
    /\ stored = [n \in Names |-> None]
    /\ ops = 0 /\ faults = [read |-> 0, write |-> 0, crash |-> 0, full |-> 0]

-----------------------------------------------------------------------------
(* Sector I/O.                                                              *)

Spent == faults.read + faults.write + faults.crash

WriteFails == Spent < MaxFaults /\ faults' = [faults EXCEPT !.write = @ + 1]

ReadFails(k) == Spent + k <= MaxFaults /\ faults' = [faults EXCEPT !.read = @ + k]

\* read_dir: the sectors in bad could not be read and appear empty.
ReadDir(bad) == [i \in Entries |-> IF SectorOf(i) \in bad THEN Zero ELSE dir[i]]

\* What read(name) may return now, whichever sectors it cannot read.
Results(n) ==
    {ReadFrom(ReadDir(badDir), bad, n) :
        badDir \in SUBSET (1..DirSectors), bad \in SUBSET (DOMAIN data)}

-----------------------------------------------------------------------------
(* open                                                                     *)

Open_Unchecked ==
    /\ op.k = "boot"
    /\ op' = [k |-> "format", i |-> 0]
    /\ UNCHANGED << disk, stored, ops, faults >>

\* A superblock without the magic, or one that cannot be read, is formatted.
Open ==
    /\ op.k = "boot"
    /\ UNCHANGED << disk, stored, ops >>
    /\ \/ /\ op' = IF magic THEN Idle ELSE [k |-> "format", i |-> 0]
          /\ UNCHANGED faults
       \/ ReadFails(1) /\ op' = [k |-> "format", i |-> 0]

\* Sector 0 is written first, then the directory is cleared sector by sector.
Format ==
    /\ op.k = "format"
    /\ op' = IF op.i = DirSectors THEN Idle ELSE [op EXCEPT !.i = @ + 1]
    /\ \/ /\ IF op.i = 0
             THEN magic' = TRUE /\ count' = 0 /\ UNCHANGED dir
             ELSE /\ dir' = [i \in Entries |->
                                IF SectorOf(i) = op.i THEN Zero ELSE dir[i]]
                  /\ UNCHANGED << magic, count >>
          /\ UNCHANGED faults
       \/ WriteFails /\ UNCHANGED << magic, count, dir >>
    /\ UNCHANGED << data, stored, ops >>

-----------------------------------------------------------------------------
(* write                                                                    *)

MarkDeleted_Keep(d, n) == d

MarkDeleted(d, n) ==
    [i \in Entries |-> IF i \in Hits(d, n) THEN [d[i] EXCEPT !.deleted = TRUE] ELSE d[i]]

FreeSlots(d) == {i \in Entries : d[i].deleted \/ d[i].name = NoName}

\* The directory is read, old entries are marked in memory, a slot and the end
\* of the data area are found.  A full directory ends the call.
BeginWrite(n, v) ==
    /\ op = Idle /\ ops < MaxOps /\ ops' = ops + 1
    /\ \E bad \in SUBSET (1..DirSectors) :
          /\ ReadFails(Cardinality(bad))
          /\ LET mem == MarkDeleted(ReadDir(bad), n)
             IN  op' = IF FreeSlots(mem) = {} THEN Idle
                       ELSE [k |-> "data", name |-> n, value |-> v, i |-> 0,
                             mem |-> mem, slot |-> MinOf(FreeSlots(mem)),
                             next |-> find_next_free_sector(mem)]
    /\ UNCHANGED << disk, stored >>

WithEntry(o) ==
    [o.mem EXCEPT ![o.slot] = [name |-> StoredName(o.name), off |-> o.next,
                               size |-> o.value.size, deleted |-> FALSE]]

\* write returns false.  It may have written over the file's own sectors.
Fail == op' = Idle /\ stored' = [stored EXCEPT ![op.name] = Unknown]

\* The next data sector; a failure (also past the end of the disk) ends the
\* call with the directory untouched.
WriteData ==
    /\ op.k = "data" /\ op.i < op.value.size
    /\ \/ /\ op.next + op.i < DiskSize
          /\ data' = [data EXCEPT ![op.next + op.i] = Blocks(op.value)[op.i + 1]]
          /\ op' = [op EXCEPT !.i = @ + 1]
          /\ UNCHANGED << faults, stored >>
       \/ /\ op.next + op.i < DiskSize /\ WriteFails
          /\ Fail /\ UNCHANGED data
       \/ /\ op.next + op.i >= DiskSize
          /\ faults' = [faults EXCEPT !.full = 1]
          /\ Fail /\ UNCHANGED data
    /\ UNCHANGED << magic, count, dir, ops >>

\* All data is written: the entry is filled in, still in memory.
FillEntry ==
    /\ op.k = "data" /\ op.i = op.value.size
    /\ op' = [k |-> "dir", call |-> "write", name |-> op.name, value |-> op.value,
              i |-> 1, mem |-> WithEntry(op)]
    /\ UNCHANGED << disk, stored, ops, faults >>

\* write_dir: one directory sector; its result is ignored.
WriteDir ==
    /\ op.k = "dir" /\ op.i <= DirSectors
    /\ op' = [op EXCEPT !.i = @ + 1]
    /\ \/ /\ dir' = [i \in Entries |-> IF SectorOf(i) = op.i THEN op.mem[i] ELSE dir[i]]
          /\ UNCHANGED faults
       \/ WriteFails /\ UNCHANGED dir
    /\ UNCHANGED << magic, count, data, stored, ops >>

UpdateStored(o) == [stored EXCEPT ![o.name] = o.value]

CountOf_Slots(d) == Cardinality({i \in Entries : d[i].name # NoName})

CountOf(d) == Cardinality(Valid(d))

\* update_superblock, with which the call returns true.  Sector 0 is read and
\* written back: when it cannot be read, zeros are written over the magic.
UpdateSuper ==
    /\ op.k = "dir" /\ op.i > DirSectors
    /\ \/ count' = CountOf(op.mem) /\ UNCHANGED << magic, faults >>
       \/ ReadFails(1) /\ magic' = FALSE /\ count' = CountOf(op.mem)
       \/ WriteFails /\ UNCHANGED << magic, count >>
    /\ stored' = UpdateStored(op)
    /\ op' = Idle
    /\ UNCHANGED << dir, data, ops >>

-----------------------------------------------------------------------------
(* delete, and losing power.                                                *)

BeginDelete_Always(n) ==
    /\ op = Idle /\ ops < MaxOps /\ ops' = ops + 1
    /\ op' = [k |-> "dir", call |-> "delete", name |-> n, value |-> None,
              i |-> 1, mem |-> MarkDeleted(dir, n)]
    /\ UNCHANGED << disk, stored, faults >>

\* A name without a file ends the call at once.
BeginDelete(n) ==
    /\ op = Idle /\ ops < MaxOps /\ ops' = ops + 1
    /\ \E bad \in SUBSET (1..DirSectors) :
          /\ ReadFails(Cardinality(bad))
          /\ LET d == ReadDir(bad)
             IN  op' = IF Hits(d, n) = {} THEN Idle
                       ELSE [k |-> "dir", call |-> "delete", name |-> n, value |-> None,
                             i |-> 1, mem |-> MarkDeleted(d, n)]
    /\ UNCHANGED << disk, stored >>

Crash ==
    /\ op.k # "boot" /\ Spent < MaxFaults
    /\ faults' = [faults EXCEPT !.crash = @ + 1]
    /\ op' = [k |-> "boot"]
    /\ UNCHANGED << disk, stored, ops >>

Next ==
    \/ Open \/ Format
    \/ \E n \in Names, v \in Values : BeginWrite(n, v)
    \/ WriteData \/ FillEntry \/ WriteDir \/ UpdateSuper
    \/ \E n \in Names : BeginDelete(n)
    \/ Crash

Spec == Init /\ [][Next]_vars

-----------------------------------------------------------------------------
(* Properties.                                                              *)

\* The names that the directory keeps apart: not cut, and no longer one is cut
\* to them.  A name that is cut is never found again.
ShortNames == {n \in Names : \A m \in Names : StoredName(m) = n <=> m = n}

\* The files whose contents are promised: their last write did not fail.
Known == {n \in ShortNames : stored[n] # Unknown}

Expected(n) == IF stored[n] \in {None, Unknown} THEN None ELSE Blocks(stored[n])

\* Between calls, until something fails, read(name) returns the value of the
\* last write(name) that returned true, None after a delete (store.rs:63),
\* whatever was written, overwritten, deleted and moved in between, although
\* space is reused and when the disk and the directory are full.
ReadBack == op = Idle /\ Spent = 0 => \A n \in Known : Read(n) = Expected(n)

OnlyReadsFailed == faults.write + faults.crash + faults.full = 0

\* A file's contents c with any sectors of it blanked.
Blanked(c) ==
    {[i \in DOMAIN c |-> IF i \in bad THEN Zeros ELSE c[i]] : bad \in SUBSET (DOMAIN c)}

\* Whatever sector reads fail, in earlier calls and in the read itself: between
\* calls read returns nothing, or a file of the length last stored under the
\* name whose every sector is the one stored or zeros; never a sector of
\* another file or of older contents.  The zeros are those of store.rs:83, which
\* ignores a failed read.  Unless a write or power failed or the disk was full.
NeverOthersContents ==
    op = Idle /\ OnlyReadsFailed =>
        \A n \in Known : \A r \in Results(n) :
            r = None \/ (Expected(n) # None /\ r \in Blanked(Expected(n)))

Extent(i) == dir[i].off..(dir[i].off + dir[i].size - 1)

\* Between calls, until something fails, files lie on the disk and share
\* no sector, and the superblock's entry_count is the number of files.
LayoutSound ==
    op = Idle /\ Spent = 0 =>
        /\ \A i, j \in Valid(dir) : i # j => Extent(i) \cap Extent(j) = {}
        /\ \A i \in Valid(dir) : Extent(i) \subseteq DOMAIN data
        /\ count = Cardinality(Valid(dir))

Subject == IF op.k \in {"data", "dir"} THEN {op.name, StoredName(op.name)} ELSE {}

OthersKept ==
    faults'.read = 0 /\ (faults'.write = 0 \/ faults'.crash = 0) =>
        \A n \in Names : n \in Subject \/ Read(n)' = Read(n)

\* A call only ever changes the file it names (or the one its name is cut to),
\* also when sector writes fail, or when power is lost between any two of them
\* and the store is opened again: what read returns for the other names does
\* not change.  Both together can lose every file: open ignores that the
\* superblock could not be written, and the next open formats again.
OtherFilesSafe == [][OthersKept]_vars

-----------------------------------------------------------------------------
(* The store as its callers see it.                                         *)

\* What the store holds for each name is what read returns for it, also in the
\* middle of a call for another name.  It is unknown for the name of the call
\* under way, for one whose last write failed, and for all of them once sector
\* I/O or power has failed.
View ==
    [n \in ShortNames |->
        IF Spent > 0 \/ n \notin Known \/ n \in Subject THEN Unknown ELSE Read(n)]

\* The write or delete that has begun.
Call ==
    IF Spent = 0 /\ op.k \in {"data", "dir"} /\ op.name \in ShortNames
    THEN [name |-> op.name, value |-> IF op.value = None THEN None ELSE Blocks(op.value)]
    ELSE Idle

Map == INSTANCE KvMap WITH kv <- View, call <- Call, NoCall <- Idle,
                           Names <- ShortNames, Contents <- {Blocks(v) : v \in Values}

\* As long as neither sector I/O nor power fails the store is a map with calls
\* that take several steps: a call is begun one at a time, a delete only for a
\* name that is there; what read returns for the other names stays the same at
\* every step of it, and when it returns true read returns its value.
IsMap == Map!Spec

=============================================================================

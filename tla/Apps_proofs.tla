----------------------------- MODULE Apps_proofs -----------------------------
(***************************************************************************)
(* Proofs about the applications and the runtime they run in: WasmHost and *)
(* Editor, for every layout of memory that EditorConstants allows, all     *)
(* requests, files, modules and arguments; and Bbs, for every number and   *)
(* size of slots and all bodies, where the board in the slots implements   *)
(* BbsBoard.                                                               *)
(***************************************************************************)
EXTENDS Editor, Bbs, NatLemmas, SequenceTheorems, TLAPS

-----------------------------------------------------------------------------
(* Memory.                                                                  *)

Addresses == 0..(Size - 1)
Memories == [Addresses -> Cells]

Loaded == app \in Modules /\ from_bytes(app)

\* A sequence of one cell.
LEMMA OneCell ==
    ASSUME NEW c \in Cells
    PROVE  << c >> \in Seq(Cells) /\ Len(<< c >>) = 1 /\ << c >>[1] = c
  OBVIOUS

\* One more cell.
LEMMA OneMore ==
    ASSUME NEW s \in Seq(Cells), NEW c \in Cells
    PROVE  /\ Append(s, c) \in Seq(Cells) /\ Len(s) \in Nat /\ Len(Append(s, c)) = Len(s) + 1
           /\ Append(s, c) = s \o << c >>
  BY AppendProperties, LenProperties, AppendIsConcat

\* The beginning of a sequence.
LEMMA Prefix ==
    ASSUME NEW s \in Seq(Cells), NEW n \in 0..Len(s)
    PROVE  /\ SubSeq(s, 1, n) \in Seq(Cells) /\ Len(SubSeq(s, 1, n)) = n
           /\ \A i \in 1..n : SubSeq(s, 1, n)[i] = s[i]
<1>1. Len(s) \in Nat /\ \A i \in 1..n : s[i] \in Cells
  BY LenProperties, ElementOfSeq
<1> QED
  BY <1>1, SubSeqProperties

\* The whole of it.
LEMMA Whole ==
    ASSUME NEW s \in Seq(Cells)
    PROVE  SubSeq(s, 1, Len(s)) = s
<1>1. Len(s) \in Nat
  BY LenProperties
<1>2. /\ SubSeq(s, 1, Len(s)) \in Seq(Cells) /\ Len(SubSeq(s, 1, Len(s))) = Len(s)
      /\ \A i \in 1..Len(s) : SubSeq(s, 1, Len(s))[i] = s[i]
  BY <1>1, Prefix
<1> QED
  BY <1>2, SeqEqual

LEMMA NewlineCell == << "nl" >> \in Seq(Cells)
<1>1. "nl" \in Cells
  BY DEF Cells
<1> QED
  BY <1>1, OneCell

\* The constants that are numbers.
LEMMA Numbers ==
    /\ PAGE \in Nat /\ MAX_PAGES \in Nat /\ METHOD_MAX \in Nat /\ PATH_MAX \in Nat
    /\ BODY_MAX \in Nat /\ RECV_MAX \in Nat /\ SEND_MAX \in Nat /\ USIZE \in Nat /\ USIZE > 0
    /\ NAME_MAX \in Nat /\ SCRATCH \in Nat /\ READ_BUF \in Nat /\ READ_MAX \in Nat
    /\ LIST_BUF \in Nat /\ LIST_MAX \in Nat /\ DOC \in Nat
    /\ METHOD_OFF \in Nat /\ PATH_OFF \in Nat /\ BODY_OFF \in Nat
    /\ PATH_OFF = METHOD_OFF + METHOD_MAX /\ BODY_OFF = PATH_OFF + PATH_MAX
<1>1. /\ PAGE \in Nat /\ MAX_PAGES \in Nat /\ METHOD_MAX \in Nat /\ PATH_MAX \in Nat
      /\ BODY_MAX \in Nat /\ RECV_MAX \in Nat /\ SEND_MAX \in Nat /\ USIZE \in Nat
  BY WasmConstants
<1>2. MAX_PAGES * PAGE \in Nat /\ MAX_PAGES * PAGE < USIZE
  BY <1>1, WasmConstants
<1>3. USIZE > 0
  BY <1>1, <1>2
<1>4. /\ NAME_MAX \in Nat /\ SCRATCH \in Nat /\ READ_BUF \in Nat /\ READ_MAX \in Nat
      /\ LIST_BUF \in Nat /\ LIST_MAX \in Nat /\ DOC \in Nat
  BY EditorConstants
<1> QED
  BY <1>1, <1>3, <1>4 DEF METHOD_OFF, PATH_OFF, BODY_OFF

\* A memory that was accepted never reaches the end of usize.
LEMMA SizeBound ==
    ASSUME Loaded
    PROVE  Size \in Nat /\ Size < USIZE
<1>1. app.pages \in Nat /\ app.pages <= MAX_PAGES
  BY WasmConstants DEF Loaded, from_bytes
<1>2. PAGE \in Nat /\ MAX_PAGES \in Nat /\ USIZE \in Nat /\ MAX_PAGES * PAGE < USIZE
  BY Numbers, WasmConstants
<1>3. \A a, b, c \in Nat : a <= b => a * c <= b * c /\ a * c \in Nat /\ b * c \in Nat
  <2> TAKE a, b, c \in Nat
  <2>1. a * c \in Nat /\ b * c \in Nat
    OBVIOUS
  <2>2. ASSUME a <= b PROVE a * c <= b * c
    BY <2>2, Z3
  <2> QED
    BY <2>1, <2>2
<1>4. /\ app.pages * PAGE <= MAX_PAGES * PAGE
      /\ app.pages * PAGE \in Nat /\ MAX_PAGES * PAGE \in Nat
  BY <1>1, <1>2, <1>3
<1> QED
  BY <1>2, <1>4 DEF Size

\* "as usize": what is not negative stays what it is.
LEMMA Usize ==
    ASSUME NEW i \in Int
    PROVE  /\ AsUsize(i) \in 0..(USIZE - 1)
           /\ 0 <= i /\ i < USIZE => AsUsize(i) = i
<1>1. USIZE \in Int /\ USIZE > 0
  BY Numbers
<1>2. AsUsize(i) \in 0..(USIZE - 1)
  BY <1>1, DivMod DEF AsUsize
<1>3. ASSUME 0 <= i, i < USIZE PROVE i % USIZE = i
  <2>1. i \in 0..(USIZE - 1) /\ 0 \in Int
    BY <1>1, <1>3
  <2>2. (USIZE * 0 + i) % USIZE = i
    BY <1>1, <2>1, ModOfSum
  <2>3. USIZE * 0 + i = i
    BY <1>1, <2>1
  <2> QED
    BY <2>2, <2>3
<1> QED
  BY <1>2, <1>3 DEF AsUsize

\* A sum that does not wrap.
LEMMA NoWrap ==
    ASSUME NEW a \in Nat, NEW b \in Nat
    PROVE  /\ Add(a, b) \in 0..(USIZE - 1)
           /\ a + b < USIZE => Add(a, b) = a + b
<1>1. a + b \in Int /\ 0 <= a + b
  OBVIOUS
<1> QED
  BY <1>1, Usize DEF Add, AsUsize

\* An argument inside the memory is taken as it is.
LEMMA InsideFits ==
    ASSUME Loaded, NEW ptr \in Int, NEW len \in Int, Inside(ptr, len)
    PROVE  /\ AsUsize(ptr) = ptr /\ AsUsize(len) = len
           /\ End(ptr, len) = ptr + len /\ ArgOK(ptr, len)
<1>1. ptr \in Nat /\ len \in Nat /\ ptr + len <= Size /\ Size \in Nat /\ Size < USIZE /\ USIZE \in Nat
  BY SizeBound, Numbers DEF Inside
<1>2. AsUsize(ptr) = ptr /\ AsUsize(len) = len
  BY <1>1, Usize
<1>3. Add(ptr, len) = ptr + len
  BY <1>1, NoWrap
<1>4. End(ptr, len) = ptr + len
  BY <1>1, <1>2, <1>3 DEF End, Least
<1> QED
  BY <1>1, <1>2, <1>4 DEF ArgOK, InBounds

\* A range of the memory.
LEMMA BytesOf ==
    ASSUME Loaded, NEW m \in Memories, NEW start \in Nat, NEW end \in Nat, InBounds(start, end)
    PROVE  /\ Bytes(m, start, end) \in Seq(Cells) /\ Len(Bytes(m, start, end)) = end - start
           /\ \A i \in 1..(end - start) : Bytes(m, start, end)[i] = m[start + i - 1]
<1>1. end - start \in Nat /\ Size \in Nat /\ end <= Size
  BY SizeBound DEF InBounds
<1>2. \A i \in 1..(end - start) : m[start + i - 1] \in Cells
  BY <1>1 DEF Memories, Addresses
<1>3. Bytes(m, start, end) \in Seq(Cells)
  BY <1>1, <1>2, IsASeq DEF Bytes
<1>4. DOMAIN Bytes(m, start, end) = 1..(end - start)
  BY DEF Bytes
<1>5. Len(Bytes(m, start, end)) = end - start
  BY <1>1, <1>3, <1>4, LenProperties
<1> QED
  BY <1>3, <1>5 DEF Bytes

\* A copy into the memory.
LEMMA PutInto ==
    ASSUME NEW m \in Memories, NEW off \in Int, NEW s \in Seq(Cells)
    PROVE  /\ Put(m, off, s) \in Memories
           /\ \A i \in Addresses :
                 Put(m, off, s)[i] = IF i - off \in 0..(Len(s) - 1) THEN s[i - off + 1] ELSE m[i]
<1>1. DOMAIN m = Addresses /\ Len(s) \in Nat /\ \A i \in Addresses : i \in Int
  BY LenProperties DEF Memories, Addresses
<1>2. ASSUME NEW i \in Addresses, i - off \in 0..(Len(s) - 1) PROVE s[i - off + 1] \in Cells
  <2>1. i - off + 1 \in 1..Len(s)
    BY <1>1, <1>2
  <2> QED
    BY <2>1, ElementOfSeq
<1>3. \A i \in Addresses : m[i] \in Cells
  BY DEF Memories
<1> QED
  BY <1>1, <1>2, <1>3 DEF Put, Memories

\* What was copied is there.
LEMMA PutBytes ==
    ASSUME Loaded, NEW m \in Memories, NEW off \in Nat, NEW s \in Seq(Cells), off + Len(s) <= Size
    PROVE  Bytes(Put(m, off, s), off, off + Len(s)) = s
<1> DEFINE w == Put(m, off, s)
           e == off + Len(s)
           b == Bytes(w, off, e)
<1>1. Len(s) \in Nat /\ e \in Nat /\ Size \in Nat
  BY LenProperties, SizeBound
<1>2. w \in Memories
  BY PutInto
<1>3. InBounds(off, e)
  BY <1>1 DEF InBounds
<1>4. b \in Seq(Cells) /\ Len(b) = e - off /\ \A i \in 1..(e - off) : b[i] = w[off + i - 1]
  <2> HIDE DEF w, e
  <2> QED
    BY <1>1, <1>2, <1>3, BytesOf
<1>5. ASSUME NEW i \in 1..Len(s) PROVE b[i] = s[i]
  <2>1. off + i - 1 \in Addresses /\ (off + i - 1) - off \in 0..(Len(s) - 1) /\ (off + i - 1) - off + 1 = i
    BY <1>1 DEF Addresses
  <2>2. w[off + i - 1] = s[i]
    BY <2>1, PutInto
  <2> HIDE DEF w, b
  <2> QED
    BY <1>1, <1>4, <2>2
<1> HIDE DEF b
<1> QED
  BY <1>1, <1>4, <1>5, SeqEqual DEF b

\* A copy leaves what is elsewhere alone.
LEMMA PutApart ==
    ASSUME Loaded, NEW m \in Memories, NEW off \in Int, NEW s \in Seq(Cells),
           NEW start \in Nat, NEW end \in Nat, InBounds(start, end),
           end <= off \/ off + Len(s) <= start
    PROVE  Bytes(Put(m, off, s), start, end) = Bytes(m, start, end)
<1> DEFINE w == Put(m, off, s)
<1>1. Len(s) \in Nat /\ Size \in Nat /\ start <= end /\ end <= Size
  BY LenProperties, SizeBound DEF InBounds
<1>2. ASSUME NEW i \in 1..(end - start) PROVE w[start + i - 1] = m[start + i - 1]
  <2>1. start + i - 1 \in Addresses /\ (start + i - 1) - off \notin 0..(Len(s) - 1)
    BY <1>1 DEF Addresses
  <2> QED
    BY <2>1, PutInto
<1> QED
  BY <1>2 DEF Bytes

\* The same of one cell.
LEMMA PutApartCell ==
    ASSUME NEW m \in Memories, NEW off \in Int, NEW s \in Seq(Cells), NEW i \in Addresses,
           i < off \/ off + Len(s) <= i
    PROVE  Put(m, off, s)[i] = m[i]
<1>1. Len(s) \in Nat /\ i \in Int /\ i - off \notin 0..(Len(s) - 1)
  BY LenProperties DEF Addresses
<1> QED
  BY <1>1, PutInto

\* An argument.
LEMMA ArgType ==
    ASSUME Loaded, NEW m \in Memories, NEW ptr \in Int, NEW len \in Int, ArgOK(ptr, len)
    PROVE  /\ Arg(m, ptr, len) \in Seq(Cells)
           /\ Inside(ptr, len) => /\ Len(Arg(m, ptr, len)) = len
                                  /\ Arg(m, ptr, len) = Bytes(m, ptr, ptr + len)
<1>1. AsUsize(ptr) \in Nat /\ AsUsize(len) \in Nat /\ Size \in Nat
  BY Usize, SizeBound, Numbers
<1>2. End(ptr, len) \in Nat
  BY <1>1, NoWrap, Numbers DEF End, Least
<1>3. InBounds(AsUsize(ptr), End(ptr, len))
  BY DEF ArgOK
<1>4. /\ Arg(m, ptr, len) \in Seq(Cells)
      /\ Len(Arg(m, ptr, len)) = End(ptr, len) - AsUsize(ptr)
  BY <1>1, <1>2, <1>3, BytesOf DEF Arg
<1>5. ASSUME Inside(ptr, len)
      PROVE Len(Arg(m, ptr, len)) = len /\ Arg(m, ptr, len) = Bytes(m, ptr, ptr + len)
  <2>1. AsUsize(ptr) = ptr /\ End(ptr, len) = ptr + len
    BY <1>5, InsideFits
  <2> QED
    BY <1>4, <2>1 DEF Arg
<1> QED
  BY <1>4, <1>5

\* A result handed over: at most what the module allowed and from its pointer
\* on; the kernel stops only if the range is not inside the memory.
LEMMA Delivery ==
    ASSUME Loaded, NEW m \in Memories, NEW out \in Int, NEW max \in Int, NEW result \in Seq(Cells),
           Deliver(m, out, max, result)
    PROVE  /\ mem' \in Memories
           /\ \/ /\ pc' = "guest" /\ rv' \in Int /\ rv' >= -1
                 /\ rv' = -1 \/ rv' <= AsUsize(max)
                 /\ \A i \in Addresses : mem'[i] # m[i] => i - AsUsize(out) \in 0..(rv' - 1)
              \/ pc' = "panic" /\ ~Inside(out, max)
           /\ Inside(out, max) =>
                 /\ pc' = "guest" /\ rv' = Least(Len(result), max)
                 /\ mem' = Put(m, out, SubSeq(result, 1, rv'))
<1> DEFINE start == AsUsize(out)
           n == CopyLen(result, max)
           end == Add(start, n)
           part == SubSeq(result, 1, n)
<1>1. Size \in Nat /\ Size < USIZE /\ USIZE \in Nat /\ Len(result) \in Nat
  BY SizeBound, Numbers, LenProperties
<1>2. start \in 0..(USIZE - 1) /\ AsUsize(max) \in 0..(USIZE - 1)
  BY Usize
<1>3. n \in Nat /\ n <= Len(result) /\ n <= AsUsize(max) /\ n = Least(Len(result), AsUsize(max))
  BY <1>1, <1>2 DEF CopyLen, Least
<1>4. end \in 0..(USIZE - 1) /\ (start + n < USIZE => end = start + n)
  <2> HIDE DEF n, start
  <2>1. start \in Nat /\ n \in Nat
    BY <1>1, <1>2, <1>3
  <2> QED
    BY <2>1, NoWrap
<1>5. part \in Seq(Cells) /\ Len(part) = n
  <2>1. \A i \in 1..n : result[i] \in Cells
    BY <1>1, <1>3, ElementOfSeq
  <2> HIDE DEF n
  <2> QED
    BY <1>3, <2>1, SubSeqProperties
<1>6. /\ Put(m, start, part) \in Memories
      /\ \A i \in Addresses : Put(m, start, part)[i] # m[i] => i - start \in 0..(n - 1)
  <2> HIDE DEF n, start, part
  <2> QED
    BY <1>2, <1>5, PutInto
<1>7. IF end > Size THEN pc' = "guest" /\ rv' = -1 /\ mem' = m
      ELSE IF start > end THEN pc' = "panic" /\ mem' = m /\ UNCHANGED rv
      ELSE pc' = "guest" /\ rv' = n /\ mem' = Put(m, start, part)
  BY DEF Deliver
<1>8. ASSUME Inside(out, max)
      PROVE  start = out /\ ~(end > Size) /\ ~(start > end) /\ n = Least(Len(result), max)
  <2>1. start = out /\ AsUsize(max) = max /\ out + max <= Size /\ out >= 0
    BY <1>8, InsideFits DEF Inside
  <2> HIDE DEF start, n, end
  <2> QED
    BY <1>1, <1>2, <1>3, <1>4, <2>1
<1> HIDE DEF start, n, end, part
<1>9. ASSUME Inside(out, max)
      PROVE  /\ pc' = "guest" /\ rv' = Least(Len(result), max)
             /\ mem' = Put(m, out, SubSeq(result, 1, rv'))
  <2>1. pc' = "guest" /\ rv' = n /\ mem' = Put(m, out, part)
    BY <1>7, <1>8, <1>9
  <2> QED
    BY <1>8, <1>9, <2>1 DEF part
<1>10. CASE end > Size
  BY <1>1, <1>7, <1>9, <1>10
<1>11. CASE ~(end > Size) /\ start > end
  BY <1>7, <1>8, <1>9, <1>11
<1>12. CASE ~(end > Size) /\ ~(start > end)
  BY <1>3, <1>6, <1>7, <1>9, <1>12 DEF start
<1> QED
  BY <1>10, <1>11, <1>12

-----------------------------------------------------------------------------
(* Listings.                                                                *)

\* What the file server puts together is a sequence that grows by one name at a
\* time.
LEMMA LinesGrow ==
    ASSUME NEW names \in Seq(Seq(Cells))
    PROVE  \E h \in [0..Len(names) -> Seq(Cells)] :
              /\ h[0] = << >> /\ Lines(names) = h[Len(names)]
              /\ \A i \in 1..Len(names) :
                    h[i] = (IF i = 1 THEN << >> ELSE h[i - 1] \o << "nl" >>) \o names[i]
<1> DEFINE n == Len(names)
           S == Seq(Cells)
           Grown(i, b) == (IF i = 1 THEN << >> ELSE b \o << "nl" >>) \o names[i]
           step == [i \in 1..n |-> [b \in S |-> Grown(i, b)]]
           P(f) == f = [i \in 0..Len(names) |->
                          IF i = 0 THEN << >>
                          ELSE (IF i = 1 THEN << >> ELSE f[i - 1] \o << "nl" >>) \o names[i]]
<1>1. n \in Nat /\ << >> \in S
  BY LenProperties, EmptySeq
<1>2. \A i \in 1..n, b \in S : Grown(i, b) \in S
  <2> TAKE i \in 1..n, b \in S
  <2>1. names[i] \in S /\ << "nl" >> \in S
    BY ElementOfSeq, NewlineCell
  <2>2. b \o << "nl" >> \in S
    BY <2>1, ConcatProperties
  <2> QED
    BY <1>1, <2>1, <2>2, ConcatProperties
<1>3. ASSUME NEW f PROVE P(f) <=> f = [i \in 0..n |-> IF i = 0 THEN << >> ELSE Grown(i, f[i - 1])]
  OBVIOUS
<1> HIDE DEF P, Grown, n
<1>4. step \in [1..n -> [S -> S]] /\ DOMAIN step = 1..n /\ \A i \in 1..n, b \in S : step[i][b] = Grown(i, b)
  BY <1>2
<1> HIDE DEF step, S
<1>5. PICK f \in [0..n -> S] : Follows(f, << >>, step)
  BY <1>1, <1>4, Recursion
<1>6. P(f)
  <2>1. \A i \in 1..n : f[i - 1] \in S
    BY <1>1, <1>5
  <2>2. \A i \in 1..n : f[i] = Grown(i, f[i - 1])
    BY <1>4, <1>5, <2>1 DEF Follows
  <2>3. f = [i \in 0..n |-> IF i = 0 THEN << >> ELSE Grown(i, f[i - 1])]
    BY <1>1, <1>5, <2>2 DEF Follows
  <2> QED
    BY <1>3, <2>3
<1>7. PICK h : P(h) /\ Lines(names) = h[n]
  BY <1>6 DEF Lines, P, n
<1>8. h = [i \in 0..n |-> IF i = 0 THEN << >> ELSE Grown(i, h[i - 1])]
  BY <1>3, <1>7
<1>9. h[0] = << >> /\ \A i \in 1..n : h[i] = Grown(i, h[i - 1])
  BY <1>1, <1>8
<1>10. \A i \in 0..n : h[i] \in S
  <2> DEFINE M == {i \in Nat : i <= n => h[i] \in S}
  <2>1. 0 \in M
    BY <1>1, <1>9
  <2>2. ASSUME NEW i \in Nat, i \in M PROVE i + 1 \in M
    <3> SUFFICES ASSUME i + 1 <= n PROVE h[i + 1] \in S
      OBVIOUS
    <3>1. i + 1 \in 1..n /\ (i + 1) - 1 = i /\ h[i] \in S
      BY <1>1, <2>2
    <3> QED
      BY <1>2, <1>9, <3>1
  <2> HIDE DEF M
  <2>3. Nat \subseteq M
    BY <2>1, <2>2, Induction
  <2> QED
    BY <1>1, <2>3 DEF M
<1>11. h \in [0..n -> S]
  BY <1>8, <1>10
<1> QED
  BY <1>7, <1>9, <1>11 DEF S, n, Grown

\* The names of files, in any order.
LEMMA Orders ==
    ASSUME NEW P, P \subseteq Paths, NEW s \in SetToSeqs({Tail(p) : p \in P})
    PROVE  s \in Seq(Seq(Cells)) /\ \A i \in 1..Len(s) : \E p \in P : s[i] = Tail(p)
<1> DEFINE T == {Tail(p) : p \in P}
           D == 1..Cardinality(T)
<1>1. IsFiniteSet(T)
  <2> DEFINE f == [p \in P |-> Tail(p)]
  <2>1. IsFiniteSet(P)
    BY WasmConstants, FS_Subset
  <2>2. f \in Surjection(P, T)
    BY DEF Surjection
  <2> HIDE DEF f, T
  <2> QED
    BY <2>1, <2>2, FS_Surjection
<1>2. Cardinality(T) \in Nat
  BY <1>1, FS_CardinalityType
<1>3. s \in [D -> T]
  BY DEF SetToSeqs
<1>4. \A t \in T : t \in Seq(Cells)
  BY WasmConstants, HeadTailProperties
<1>5. \A i \in D : s[i] \in T /\ s[i] \in Seq(Cells)
  BY <1>3, <1>4
<1> HIDE DEF T
<1>6. s = [i \in D |-> s[i]]
  BY <1>3
<1>7. s \in Seq(Seq(Cells))
  BY <1>2, <1>5, <1>6, IsASeq
<1>8. Len(s) = Cardinality(T)
  BY <1>2, <1>3, <1>7, LenProperties
<1> QED
  BY <1>5, <1>7, <1>8 DEF T

LEMMA ListingType ==
    ASSUME NEW P, P \subseteq Paths, NEW l \in Listings(P)
    PROVE  l \in Seq(Cells)
<1>1. PICK s \in SetToSeqs({Tail(p) : p \in P}) : l = Lines(s)
  BY DEF Listings
<1>2. s \in Seq(Seq(Cells))
  BY Orders
<1>3. Len(s) \in Nat
  BY <1>2, LenProperties
<1>4. Lines(s) \in Seq(Cells)
  <2>1. \E h \in [0..Len(s) -> Seq(Cells)] : Lines(s) = h[Len(s)]
    BY <1>2, LinesGrow
  <2> QED
    BY <1>3, <2>1
<1> QED
  BY <1>1, <1>4

-----------------------------------------------------------------------------
(* The host, whatever the module.                                           *)

\* A file call waits for its answer.
Calling ==
    /\ hc \in HostCalls /\ hc.fn \in {"file_read", "file_write", "file_list"}
    /\ call.op = Op(hc.fn) /\ Known(call.op, call.path)
    /\ app.name = "editor" /\ hc.fn # "file_write" => Inside(hc.b, hc.bl)

\* A host function has returned, or none was called.
Back ==
    IF hc = NoValue THEN rv = NoValue
    ELSE /\ hc \in HostCalls /\ rv \in Int /\ rv >= -1
         /\ rv = -1 \/ rv <= AsUsize(hc.bl)

Contents == Seq(Cells) \cup {Absent}

HostInv ==
    /\ Loaded /\ mem \in Memories
    /\ pc \in {"idle", "guest", "host", "panic"}
    /\ req.path \in Seq(Cells) /\ req.body \in Seq(Cells) /\ Len(req.body) <= RECV_MAX
    /\ files \in [Paths -> Contents]
    /\ \A c \in undone : c.path \in Paths /\ c.data \in Seq(Cells)
    /\ pc = "host" => Calling
    /\ pc = "guest" => Back
    /\ PanicOnlyOutside

\* The editor's own arguments are inside its memory.
Sound(c) ==
    app.name = "editor" =>
        /\ Inside(c.a, c.al) /\ Inside(c.b, c.bl)
        /\ c.al + (IF c.fn = "file_write" THEN c.bl ELSE 0) <= SEND_MAX

\* What may stop the kernel in a host function.
Outside(c) ==
    \/ ~Inside(c.a, c.al) \/ ~Inside(c.b, c.bl)
    \/ c.al + (IF c.fn = "file_write" THEN c.bl ELSE 0) > SEND_MAX

\* Only cells the module asked for are written.
Confined(m, c) ==
    \A i \in Addresses : mem'[i] # m[i] => i - AsUsize(c.b) \in 0..(rv' - 1)

\* What a host function may return.
Result(c) == rv' \in Int /\ rv' >= -1 /\ (rv' = -1 \/ rv' <= AsUsize(c.bl))

LEMMA ZeroResult ==
    ASSUME NEW c \in HostCalls, rv' = 0 \/ rv' = -1
    PROVE  Result(c)
<1>1. c.bl \in Int
  BY DEF HostCalls
<1>2. AsUsize(c.bl) >= 0
  BY <1>1, Usize
<1> QED
  BY <1>2 DEF Result

LEMMA FeedOutcome ==
    ASSUME Loaded, NEW c \in HostCalls, NEW m \in Memories, Scalar(c, m) \/ GetFeed(c, m)
    PROVE  /\ mem' \in Memories /\ UNCHANGED service
           /\ \/ pc' = "guest" /\ Result(c) /\ Confined(m, c)
              \/ pc' = "panic" /\ Outside(c)
<1>1. c.a \in Int /\ c.al \in Int /\ c.b \in Int /\ c.bl \in Int
  BY DEF HostCalls
<1>2. CASE Scalar(c, m)
  <2>1. ~ArgOK(c.a, c.al) => ~Inside(c.a, c.al)
    BY <1>1, InsideFits
  <2>2. Result(c)
    BY <1>2, ZeroResult DEF Scalar
  <2> QED
    BY <1>2, <2>1, <2>2 DEF Scalar, Confined, Outside
<1>3. CASE GetFeed(c, m)
  <2>1. CASE Feed = << >>
    <3>1. Result(c)
      BY <1>3, <2>1, ZeroResult DEF GetFeed
    <3> QED
      BY <1>3, <2>1, <3>1 DEF GetFeed, Confined
  <2>2. CASE Feed # << >>
    <3>1. Deliver(m, c.b, c.bl, Feed) /\ UNCHANGED service
      BY <1>3, <2>2 DEF GetFeed
    <3>2. Feed \in Seq(Cells)
      BY WasmConstants
    <3> QED
      BY <1>1, <3>1, <3>2, Delivery DEF Result, Confined, Outside
  <2> QED
    BY <2>1, <2>2
<1> QED
  BY <1>2, <1>3

\* The file call is on its way, with what the arguments say.
Issued(c, m) ==
    /\ pc' = "host" /\ c.fn \in {"file_read", "file_write", "file_list"}
    /\ call'.op = Op(c.fn) /\ Known(call'.op, call'.path) /\ call'.data \in Seq(Cells)
    /\ undone' = undone \/ (call'.op = "write" /\ undone' = undone \cup {call'})
    /\ ArgOK(c.a, c.al) /\ call'.path = Arg(m, c.a, c.al)
    /\ c.fn = "file_write" => ArgOK(c.b, c.bl) /\ call'.data = Arg(m, c.b, c.bl)

LEMMA FileOutcome ==
    ASSUME Loaded, NEW c \in HostCalls, NEW m \in Memories, FileCall(c, m)
    PROVE  /\ mem' = m /\ files' = files
           /\ \/ /\ pc' = "guest" /\ rv' = -1 /\ Result(c) /\ UNCHANGED << call, undone >>
                 /\ ~IsUtf8(Arg(m, c.a, c.al)) \/ ~Known(Op(c.fn), Arg(m, c.a, c.al))
              \/ pc' = "panic" /\ Outside(c) /\ UNCHANGED << call, undone >>
              \/ Issued(c, m)
<1> DEFINE path == Arg(m, c.a, c.al)
           data == IF c.fn = "file_write" THEN Arg(m, c.b, c.bl) ELSE << >>
           f == [op |-> Op(c.fn), path |-> path, data |-> data]
<1>1. c.a \in Int /\ c.al \in Int /\ c.b \in Int /\ c.bl \in Int
  BY DEF HostCalls
<1>2. mem' = m /\ c.fn \in {"file_read", "file_write", "file_list"}
  BY DEF FileCall
<1>3. CASE ~ArgOK(c.a, c.al)
  BY <1>1, <1>3, InsideFits DEF FileCall, Outside, service
<1>4. CASE ArgOK(c.a, c.al) /\ ~IsUtf8(path)
  <2>1. pc' = "guest" /\ rv' = -1 /\ UNCHANGED service
    BY <1>4 DEF FileCall
  <2>2. Result(c)
    BY <2>1, ZeroResult
  <2> HIDE DEF path
  <2> QED
    BY <1>2, <1>4, <2>1, <2>2 DEF service, path
<1>5. CASE ArgOK(c.a, c.al) /\ IsUtf8(path) /\ c.fn = "file_write" /\ ~ArgOK(c.b, c.bl)
  BY <1>1, <1>5, InsideFits DEF FileCall, Outside, service
<1>6. CASE ArgOK(c.a, c.al) /\ IsUtf8(path) /\ ~(c.fn = "file_write" /\ ~ArgOK(c.b, c.bl))
  <2>1. path \in Seq(Cells) /\ (Inside(c.a, c.al) => Len(path) = c.al)
    BY <1>1, <1>6, ArgType
  <2>2. /\ data \in Seq(Cells)
        /\ Inside(c.b, c.bl) => Len(data) = IF c.fn = "file_write" THEN c.bl ELSE 0
    BY <1>1, <1>6, ArgType, EmptySeq
  <2>3. CASE Len(path) + Len(data) > SEND_MAX
    <3>1. pc' = "panic" /\ UNCHANGED service
      BY <1>6, <2>3 DEF FileCall
    <3>2. Outside(c)
      <4> HIDE DEF path, data
      <4> QED
        BY <2>1, <2>2, <2>3 DEF Outside
    <3> QED
      BY <1>2, <3>1, <3>2 DEF service
  <2>4. CASE ~(Len(path) + Len(data) > SEND_MAX)
    <3>1. IF Known(f.op, path) THEN pc' = "host" /\ F!Begin(f) /\ UNCHANGED rv
          ELSE pc' = "guest" /\ rv' = -1 /\ F!Refuse(f)
      BY <1>6, <2>4 DEF FileCall
    <3>2. CASE Known(f.op, path)
      <4>1. /\ pc' = "host" /\ call' = f /\ files' = files
            /\ undone' = undone \/ (f.op = "write" /\ undone' = undone \cup {f})
        BY <3>1, <3>2 DEF F!Begin, F!Writes
      <4>2. /\ f.op = Op(c.fn) /\ f.path = path /\ f.data = data
        OBVIOUS
      <4>3. c.fn = "file_write" => ArgOK(c.b, c.bl) /\ data = Arg(m, c.b, c.bl)
        BY <1>6
      <4> HIDE DEF f, data
      <4> QED
        BY <1>2, <1>6, <2>2, <3>2, <4>1, <4>2, <4>3 DEF Issued
    <3>3. CASE ~Known(f.op, path)
      <4>1. pc' = "guest" /\ rv' = -1 /\ UNCHANGED << files, call, undone >>
        BY <3>1, <3>3 DEF F!Refuse
      <4>2. Result(c)
        BY <4>1, ZeroResult
      <4>3. ~Known(Op(c.fn), path)
        BY <3>3
      <4> HIDE DEF f, data, path
      <4> QED
        BY <1>2, <4>1, <4>2, <4>3 DEF path
    <3> QED
      BY <3>2, <3>3
  <2> QED
    BY <2>3, <2>4
<1> QED
  BY <1>3, <1>4, <1>5, <1>6

\* The module stays loaded, and its memory the size it has.
LEMMA SameModule ==
    ASSUME app' = app
    PROVE  /\ Size' = Size /\ Addresses' = Addresses /\ Memories' = Memories
           /\ Loaded' <=> Loaded
           /\ \A ptr, len : Inside(ptr, len)' <=> Inside(ptr, len)
  BY DEF Size, Addresses, Memories, Loaded, from_bytes, Inside

\* The call of a host function.
LEMMA HostCallStep ==
    ASSUME HostInv, NEW c \in HostCalls, NEW m \in Memories, Sound(c), HostCall(c, m)
    PROVE  /\ HostInv' /\ app' = app
           /\ pc' = "guest" => Result(c) /\ Confined(m, c)
<1>1. /\ pc = "guest" /\ hc' = c /\ UNCHANGED << app, req, answer, served >>
      /\ Scalar(c, m) \/ GetFeed(c, m) \/ FileCall(c, m)
  BY DEF HostCall
<1>2. /\ Size' = Size /\ Memories' = Memories /\ Loaded'
      /\ \A ptr, len : Inside(ptr, len)' <=> Inside(ptr, len)
  BY <1>1, SameModule DEF HostInv
<1>3. c # NoValue
  BY WasmConstants
<1>4. Loaded
  BY DEF HostInv
<1>5. ~Outside(c) \/ app.name # "editor"
  <2>1. c.al + (IF c.fn = "file_write" THEN c.bl ELSE 0) \in Int /\ SEND_MAX \in Int
    BY Numbers DEF HostCalls
  <2> QED
    BY <2>1 DEF Sound, Outside
<1>6. ASSUME mem' \in Memories, UNCHANGED << files, undone >>,
             (pc' = "guest" /\ Result(c)) \/ (pc' = "panic" /\ Outside(c))
      PROVE  HostInv'
  <2>1. pc' = "guest" => Back'
    BY <1>1, <1>3, <1>6 DEF Back, Result, AsUsize
  <2>2. pc' = "panic" => PanicOnlyOutside'
    BY <1>1, <1>2, <1>3, <1>5, <1>6 DEF PanicOnlyOutside, Outside
  <2>3. PanicOnlyOutside' /\ pc' \in {"guest", "panic"}
    BY <1>6, <2>2 DEF PanicOnlyOutside
  <2> QED
    BY <1>1, <1>2, <1>6, <2>1, <2>3 DEF HostInv, Contents
<1>7. CASE Scalar(c, m) \/ GetFeed(c, m)
  <2>1. /\ mem' \in Memories /\ UNCHANGED service
        /\ \/ pc' = "guest" /\ Result(c) /\ Confined(m, c)
           \/ pc' = "panic" /\ Outside(c)
    BY <1>4, <1>7, FeedOutcome
  <2>2. HostInv'
    BY <1>6, <2>1 DEF service
  <2> QED
    BY <1>1, <2>1, <2>2
<1>8. CASE FileCall(c, m)
  <2>1. mem' = m /\ files' = files /\ mem' \in Memories /\ Confined(m, c)
    BY <1>4, <1>8, FileOutcome DEF Confined
  <2>2. ASSUME (pc' = "guest" /\ Result(c)) \/ (pc' = "panic" /\ Outside(c)), undone' = undone
        PROVE  HostInv'
    BY <1>6, <2>1, <2>2
  <2>3. ASSUME Issued(c, m) PROVE HostInv' /\ pc' = "host"
    <3>1. Calling'
      BY <1>1, <1>2, <2>3 DEF Issued, Calling, Sound, Known, Op
    <3>2. \A d \in undone' : d.path \in Paths /\ d.data \in Seq(Cells)
      BY <2>3 DEF HostInv, Known, Issued
    <3>3. PanicOnlyOutside' /\ pc' = "host"
      BY <2>3 DEF PanicOnlyOutside, Issued
    <3> QED
      BY <1>1, <1>2, <2>1, <3>1, <3>2, <3>3 DEF HostInv, Contents
  <2>4. \/ pc' = "guest" /\ rv' = -1 /\ Result(c) /\ UNCHANGED << call, undone >>
        \/ pc' = "panic" /\ Outside(c) /\ UNCHANGED << call, undone >>
        \/ Issued(c, m)
    BY <1>4, <1>8, FileOutcome
  <2> QED
    BY <1>1, <2>1, <2>2, <2>3, <2>4
<1> QED
  BY <1>1, <1>7, <1>8

\* The request is handed over.
LEMMA RequestStep ==
    ASSUME HostInv, Request
    PROVE  /\ HostInv' /\ app' = app /\ hc' = NoValue /\ pc = "idle" /\ pc' # "idle"
           /\ UNCHANGED << files, call, undone, ret >>
           /\ pc' = "guest" =>
                 mem' = Put(Put(Put(mem, METHOD_OFF, Method), PATH_OFF,
                                SubSeq(req'.path, 1, Least(Len(req'.path), PATH_MAX))),
                            BODY_OFF, SubSeq(req'.body, 1, Least(Len(req'.body), BODY_MAX)))
<1>1. PICK r \in Requests : \E b \in Delivered(r.body) : HandleRequest(r.path, b)
  BY DEF Request
<1>2. PICK d \in 0..Least(Len(r.body), RECV_MAX) : HandleRequest(r.path, SubSeq(r.body, 1, d))
  BY <1>1 DEF Delivered
<1> DEFINE body == SubSeq(r.body, 1, d)
           p == SubSeq(r.path, 1, Least(Len(r.path), PATH_MAX))
           b == SubSeq(body, 1, Least(Len(body), BODY_MAX))
<1>3. r.path \in Seq(Cells) /\ r.body \in Seq(Cells) /\ Len(r.path) \in Nat /\ Len(r.body) \in Nat
  BY WasmConstants, LenProperties
<1>4. d \in Nat /\ d <= Len(r.body) /\ d <= RECV_MAX
  BY <1>3, Numbers DEF Least
<1>5. body \in Seq(Cells) /\ Len(body) = d
  BY <1>3, <1>4, Prefix
<1>6. p \in Seq(Cells) /\ Len(p) = Least(Len(r.path), PATH_MAX)
  <2>1. Least(Len(r.path), PATH_MAX) \in 0..Len(r.path)
    BY <1>3, Numbers DEF Least
  <2> QED
    BY <1>3, <2>1, Prefix
<1>7. b \in Seq(Cells) /\ Len(b) \in Nat /\ Len(b) <= BODY_MAX
  <2> HIDE DEF body
  <2>1. Least(Len(body), BODY_MAX) \in 0..Len(body) /\ Least(Len(body), BODY_MAX) <= BODY_MAX
    BY <1>4, <1>5, Numbers DEF Least
  <2> QED
    BY <1>4, <1>5, <2>1, Prefix
<1> HIDE DEF p, b
<1>8. /\ pc = "idle" /\ req' = [path |-> r.path, body |-> body]
      /\ hc' = NoValue /\ rv' = NoValue
      /\ UNCHANGED << app, files, call, undone, ret >>
      /\ IF InBounds(BODY_OFF, BODY_OFF + Len(b))
         THEN /\ mem' = Put(Put(Put(mem, METHOD_OFF, Method), PATH_OFF, p), BODY_OFF, b)
              /\ pc' = "guest"
         ELSE pc' = "panic" /\ UNCHANGED mem
  BY <1>2 DEF HandleRequest, p, b, service
<1>9. /\ Size' = Size /\ Memories' = Memories /\ Loaded' /\ Loaded
  BY <1>8, SameModule DEF HostInv
<1>10. mem' \in Memories
  <2>1. mem \in Memories /\ METHOD_OFF \in Int /\ PATH_OFF \in Int /\ BODY_OFF \in Int
    BY Numbers DEF HostInv
  <2>2. Method \in Seq(Cells)
    <3>1. "m" \in Cells
      BY DEF Cells
    <3> QED
      BY <3>1, OneCell DEF Method
  <2>3. Put(mem, METHOD_OFF, Method) \in Memories
    BY <2>1, <2>2, PutInto
  <2>4. Put(Put(mem, METHOD_OFF, Method), PATH_OFF, p) \in Memories
    BY <1>6, <2>1, <2>3, PutInto
  <2>5. Put(Put(Put(mem, METHOD_OFF, Method), PATH_OFF, p), BODY_OFF, b) \in Memories
    BY <1>7, <2>1, <2>4, PutInto
  <2> QED
    BY <1>8, <2>1, <2>5
<1>11. ASSUME pc' = "panic" PROVE app.name # "editor" /\ Size < BODY_OFF + BODY_MAX
  <2>1. ~InBounds(BODY_OFF, BODY_OFF + Len(b))
    BY <1>8, <1>11
  <2>2. Size \in Nat /\ BODY_OFF \in Nat /\ BODY_MAX \in Nat
    BY <1>9, SizeBound, Numbers
  <2>3. Size < BODY_OFF + BODY_MAX
    BY <1>7, <2>1, <2>2 DEF InBounds
  <2>4. app.name = "editor" => DOC < Size
    BY <1>9, EditorConstants DEF Loaded, Size
  <2>5. BODY_OFF + BODY_MAX <= DOC
    BY EditorConstants, Numbers
  <2>6. DOC \in Nat
    BY Numbers
  <2> QED
    BY <2>2, <2>3, <2>4, <2>5, <2>6
<1>12. PanicOnlyOutside'
  <2>1. (BODY_OFF + BODY_MAX)' = BODY_OFF + BODY_MAX
    OBVIOUS
  <2> QED
    BY <1>8, <1>9, <1>11, <2>1 DEF PanicOnlyOutside
<1>13. req'.path \in Seq(Cells) /\ req'.body \in Seq(Cells) /\ Len(req'.body) <= RECV_MAX
  <2> HIDE DEF body
  <2> QED
    BY <1>3, <1>4, <1>5, <1>8
<1>14. pc' = "guest" => Back'
  BY <1>8 DEF Back
<1>15. HostInv'
  BY <1>8, <1>9, <1>10, <1>12, <1>13, <1>14 DEF HostInv, Contents
<1>16. p = SubSeq(req'.path, 1, Least(Len(req'.path), PATH_MAX))
  BY <1>8 DEF p
<1>17. b = SubSeq(req'.body, 1, Least(Len(req'.body), BODY_MAX))
  BY <1>8 DEF b
<1> QED
  BY <1>8, <1>15, <1>16, <1>17

\* The module returns.
LEMMA RespondStep ==
    ASSUME HostInv, pc = "guest", NEW m \in Memories, NEW ptr \in Int, NEW len \in Int,
           app.name = "editor" => ptr = 0, Respond(m, ptr, len)
    PROVE  HostInv' /\ app' = app /\ pc' # "guest"
<1> DEFINE c == [fn |-> "return", a |-> ptr, al |-> len, b |-> 0, bl |-> 0]
           end == Add(AsUsize(ptr), len)
<1>1. /\ mem' = m /\ hc' = c /\ UNCHANGED << app, req, files, undone >>
      /\ pc' = "idle" \/ (pc' = "panic" /\ ~(len <= 0 \/ end > Size) /\ AsUsize(ptr) > end)
  BY DEF Respond, service
<1>2. /\ Size' = Size /\ Memories' = Memories /\ Loaded' /\ Loaded
      /\ \A p, n : Inside(p, n)' <=> Inside(p, n)
  BY <1>1, SameModule DEF HostInv
<1>3. c \in HostCalls /\ c # NoValue /\ c.a = ptr /\ c.al = len
  <2>1. c \in HostCalls
    BY DEF HostCalls
  <2> QED
    BY <2>1, WasmConstants
<1>4. ASSUME pc' = "panic" PROVE ~Inside(ptr, len) /\ app.name # "editor"
  <2>1. len > 0 /\ end <= Size /\ AsUsize(ptr) > end
    <3>1. end \in Int /\ Size \in Int
      BY <1>2, SizeBound, Usize, Numbers DEF Add, AsUsize
    <3> HIDE DEF end
    <3> QED
      BY <1>1, <1>4, <3>1
  <2>2. ASSUME Inside(ptr, len) PROVE FALSE
    <3>1. AsUsize(ptr) = ptr /\ ptr \in Nat /\ len \in Nat /\ ptr + len < USIZE /\ USIZE \in Nat
      BY <1>2, <2>2, InsideFits, SizeBound, Numbers DEF Inside
    <3>2. end = ptr + len
      BY <3>1, NoWrap
    <3> HIDE DEF end
    <3> QED
      BY <2>1, <3>1, <3>2
  <2>3. ASSUME ptr = 0 PROVE FALSE
    <3>1. AsUsize(ptr) = 0 /\ AsUsize(ptr) \in Nat /\ len \in Nat
      BY <2>1, <2>3, Usize, Numbers
    <3>2. end \in 0..(USIZE - 1)
      BY <3>1, NoWrap
    <3> HIDE DEF end
    <3> QED
      BY <2>1, <3>1, <3>2
  <2> QED
    BY <2>2, <2>3
<1> HIDE DEF c
<1>5. PanicOnlyOutside'
  BY <1>1, <1>2, <1>3, <1>4 DEF PanicOnlyOutside
<1> QED
  BY <1>1, <1>2, <1>5 DEF HostInv, Contents

\* The answer to a file call.
LEMMA ReturnStep ==
    ASSUME HostInv, HostReturn
    PROVE  /\ HostInv' /\ UNCHANGED << app, req, hc, files, answer >> /\ pc = "host"
           /\ pc' = "guest" \/ pc' = "panic"
           /\ pc' = "guest" => Result(hc) /\ Confined(mem, hc)
           /\ \/ ~ret'.ok /\ pc' = "guest" /\ rv' = -1 /\ UNCHANGED mem /\ undone' \subseteq undone
              \/ /\ ret'.ok /\ undone = {} /\ undone' = {}
                 /\ \/ /\ hc.fn = "file_write" /\ pc' = "guest" /\ rv' = 0 /\ UNCHANGED mem
                       /\ files[call.path] = call.data
                    \/ /\ hc.fn = "file_read" /\ files[call.path] \in Seq(Cells)
                       /\ Deliver(mem, hc.b, hc.bl, files[call.path])
                    \/ /\ hc.fn = "file_list" /\ ret'.names \subseteq Paths
                       /\ \E l \in Listings(ret'.names) :
                             l \in Seq(Cells) /\ Deliver(mem, hc.b, hc.bl, l)
<1>1. /\ pc = "host" /\ UNCHANGED << app, req, hc, answer >>
      /\ F!Succeed \/ F!Fail
      /\ IF ~ret'.ok THEN pc' = "guest" /\ rv' = -1 /\ UNCHANGED mem
         ELSE IF hc.fn = "file_write" THEN pc' = "guest" /\ rv' = 0 /\ UNCHANGED mem
         ELSE \E result \in IF hc.fn = "file_list" THEN Listings(ret'.names) ELSE {ret'.data} :
                 Deliver(mem, hc.b, hc.bl, result)
  BY DEF HostReturn
<1>2. /\ Size' = Size /\ Memories' = Memories /\ Loaded' /\ Loaded /\ Addresses' = Addresses
      /\ \A p, n : Inside(p, n)' <=> Inside(p, n)
  BY <1>1, SameModule DEF HostInv
<1>3. /\ hc \in HostCalls /\ hc.fn \in {"file_read", "file_write", "file_list"}
      /\ call.op = Op(hc.fn) /\ Known(call.op, call.path)
      /\ app.name = "editor" /\ hc.fn # "file_write" => Inside(hc.b, hc.bl)
      /\ hc.b \in Int /\ hc.bl \in Int /\ hc # NoValue
  BY <1>1, WasmConstants DEF HostInv, Calling, HostCalls
<1>4. files \in [Paths -> Contents] /\ mem \in Memories
  BY DEF HostInv
<1>5. \/ ~ret'.ok /\ pc' = "guest" /\ rv' = -1 /\ UNCHANGED mem /\ undone' \subseteq undone
      \/ /\ ret'.ok /\ undone = {} /\ undone' = {}
         /\ \/ /\ hc.fn = "file_write" /\ pc' = "guest" /\ rv' = 0 /\ UNCHANGED mem
               /\ files[call.path] = call.data
            \/ /\ hc.fn = "file_read" /\ files[call.path] \in Seq(Cells)
               /\ Deliver(mem, hc.b, hc.bl, files[call.path])
            \/ /\ hc.fn = "file_list" /\ ret'.names \subseteq Paths
               /\ \E l \in Listings(ret'.names) :
                     l \in Seq(Cells) /\ Deliver(mem, hc.b, hc.bl, l)
  <2>1. CASE F!Fail
    <3>1. ~ret'.ok /\ undone' \subseteq undone
      BY <2>1 DEF F!Fail, F!Returned
    <3> QED
      BY <1>1, <3>1
  <2>2. CASE F!Succeed
    <3>1. /\ undone = {} /\ undone' = {} /\ ret' = F!Found(call)
          /\ call.op = "write" => files[call.path] = call.data
          /\ call.op = "read" => files[call.path] # Absent
      BY <2>2 DEF F!Succeed, DataOf
    <3>2. ret'.ok
      BY <3>1 DEF F!Found, F!Returned
    <3>3. CASE hc.fn = "file_write"
      <4>1. call.op = "write"
        BY <1>3, <3>3 DEF Op
      <4> QED
        BY <1>1, <3>1, <3>2, <3>3, <4>1
    <3>4. CASE hc.fn = "file_read"
      <4>1. call.op = "read" /\ call.path \in Paths
        BY <1>3, <3>4 DEF Op, Known
      <4>2. files[call.path] \in Seq(Cells) /\ ret'.data = files[call.path]
        BY <1>4, <3>1, <4>1 DEF F!Found, F!Returned, Contents
      <4> QED
        BY <1>1, <3>1, <3>2, <3>4, <4>2
    <3>5. CASE hc.fn = "file_list"
      <4>1. call.op = "list"
        BY <1>3, <3>5 DEF Op
      <4>2. ret'.names \subseteq Paths
        BY <3>1, <4>1 DEF F!Found, F!Returned
      <4>3. PICK l \in Listings(ret'.names) : Deliver(mem, hc.b, hc.bl, l)
        BY <1>1, <3>2, <3>5
      <4>4. l \in Seq(Cells)
        BY <4>2, ListingType
      <4> QED
        BY <3>1, <3>2, <3>5, <4>2, <4>3, <4>4
    <3> QED
      BY <1>3, <3>3, <3>4, <3>5
  <2> QED
    BY <1>1, <2>1, <2>2
<1>6. files' = files /\ undone' \subseteq undone
  BY <1>1, <1>5 DEF F!Succeed, F!Fail
<1>7. /\ mem' \in Memories
      /\ \/ pc' = "guest" /\ Result(hc) /\ Confined(mem, hc)
         \/ pc' = "panic" /\ ~Inside(hc.b, hc.bl) /\ hc.fn # "file_write"
  <2>1. CASE UNCHANGED mem /\ pc' = "guest" /\ rv' \in {0, -1}
    BY <1>3, <1>4, <2>1, ZeroResult DEF Confined
  <2>2. CASE hc.fn # "file_write" /\ \E l \in Seq(Cells) : Deliver(mem, hc.b, hc.bl, l)
    BY <1>2, <1>3, <1>4, <2>2, Delivery DEF Result, Confined
  <2> QED
    BY <1>5, <2>1, <2>2
<1>8. pc' = "guest" => Back'
  BY <1>1, <1>3, <1>7 DEF Back, Result, AsUsize
<1>9. PanicOnlyOutside'
  BY <1>1, <1>2, <1>3, <1>7 DEF PanicOnlyOutside
<1>10. HostInv'
  BY <1>1, <1>2, <1>6, <1>7, <1>8, <1>9 DEF HostInv, Contents
<1> QED
  BY <1>1, <1>5, <1>6, <1>7, <1>10

\* A write is carried out late.
LEMMA LateStep ==
    ASSUME HostInv, HostLate
    PROVE  /\ HostInv' /\ UNCHANGED << host, call, ret >> /\ undone' \subseteq undone
           /\ \E c \in undone : files' = files
                              \/ files' = [files EXCEPT ![c.path] = c.data]
                              \/ files' = [files EXCEPT ![c.path] = Torn]
<1>1. PICK c \in undone : F!Effect(c) /\ UNCHANGED host
  BY DEF HostLate
<1>2. /\ undone' = undone \ {c} /\ UNCHANGED << host, call, ret >>
      /\ \/ files' = files
         \/ files' = [files EXCEPT ![c.path] = c.data]
         \/ files' = [files EXCEPT ![c.path] = Torn]
  BY <1>1 DEF F!Effect, DataOf
<1>3. UNCHANGED << app, mem, pc, req, hc, rv, call >>
  BY <1>2 DEF host
<1>4. /\ c.path \in Paths /\ c.data \in Contents /\ Torn \in Contents
      /\ files \in [Paths -> Contents]
  BY WasmConstants DEF HostInv, Contents
<1>5. files' \in [Paths -> Contents]
  BY <1>2, <1>4
<1>6. /\ Size' = Size /\ Memories' = Memories /\ Loaded' /\ Loaded
      /\ \A p, n : Inside(p, n)' <=> Inside(p, n)
  BY <1>3, SameModule DEF HostInv
<1>7. PanicOnlyOutside' /\ (pc = "host" => Calling') /\ (pc = "guest" => Back')
  BY <1>3, <1>6 DEF HostInv, PanicOnlyOutside, Calling, Back, Known, Op, AsUsize
<1>8. HostInv'
  BY <1>2, <1>3, <1>5, <1>6, <1>7 DEF HostInv, Contents
<1> QED
  BY <1>2, <1>8

\* An arbitrary module does whatever it may.
LEMMA AnyStep ==
    ASSUME HostInv, AnyModule
    PROVE  /\ HostInv' /\ app' = app /\ app.name = "any"
           /\ hc' # NoValue /\ pc' = "guest" => /\ rv' = -1 \/ rv' <= AsUsize(hc'.bl)
                                               /\ Confined(mem, hc')
<1>1. app.name = "any" /\ mem \in Memories
  BY DEF AnyModule, AnyReturn, AnyTrap, AnyLoop, AnyHostCall, HostInv
<1>2. CASE AnyReturn
  <2>1. PICK ptr \in Ptrs, len \in Lens : Respond(mem, ptr, len)
    BY <1>2 DEF AnyReturn
  <2>2. ptr \in Int /\ len \in Int
    BY WasmConstants
  <2>3. pc = "guest"
    BY <1>2 DEF AnyReturn
  <2>4. HostInv' /\ app' = app /\ pc' # "guest"
    BY <1>1, <2>1, <2>2, <2>3, RespondStep
  <2> QED
    BY <1>1, <2>4
<1>3. CASE AnyTrap \/ AnyLoop
  <2>1. /\ UNCHANGED << app, mem, req, hc, rv, files, call, undone, ret >>
        /\ pc = "guest" /\ (pc' = "guest" \/ pc' = "idle")
    BY <1>3 DEF AnyTrap, Trap, AnyLoop, service
  <2>2. /\ Size' = Size /\ Memories' = Memories /\ Loaded' /\ Loaded
    BY <2>1, SameModule DEF HostInv
  <2>3. PanicOnlyOutside' /\ Back /\ Back'
    BY <2>1 DEF HostInv, PanicOnlyOutside, Back, AsUsize
  <2>4. HostInv'
    BY <2>1, <2>2, <2>3 DEF HostInv, Contents
  <2>5. hc # NoValue => (rv' = -1 \/ rv' <= AsUsize(hc'.bl))
    BY <2>1, <2>3 DEF Back
  <2> QED
    BY <1>1, <2>1, <2>4, <2>5 DEF Confined
<1>4. CASE AnyHostCall
  <2>1. PICK c : c \in HostCalls /\ HostCall(c, mem)
    <3>1. ASSUME NEW fn \in {"log", "get_feed", "now", "random", "file_read", "file_write", "file_list"},
                 NEW a \in Int, NEW al \in Int, NEW b \in Int, NEW n \in Int
          PROVE  HostFunction(fn, a, al, b, n) \in HostCalls
      BY DEF HostFunction, HostCalls
    <3>2. Ptrs \subseteq Int /\ Lens \subseteq Int
      BY WasmConstants
    <3>3. \/ \E fn \in {"log", "get_feed"}, p \in Ptrs, n \in Lens :
                HostCall(HostFunction(fn, p, n, p, n), mem)
          \/ \E fn \in {"now", "random"} : HostCall(HostFunction(fn, 0, 0, 0, 0), mem)
          \/ \E fn \in {"file_read", "file_write", "file_list"} :
                \E a, b \in Ptrs, al, n \in Lens : HostCall(HostFunction(fn, a, al, b, n), mem)
      BY <1>4 DEF AnyHostCall
    <3>4. CASE \E fn \in {"log", "get_feed"}, p \in Ptrs, n \in Lens :
                  HostCall(HostFunction(fn, p, n, p, n), mem)
      BY <3>1, <3>2, <3>4
    <3>5. CASE \E fn \in {"now", "random"} : HostCall(HostFunction(fn, 0, 0, 0, 0), mem)
      <4>1. 0 \in Int
        OBVIOUS
      <4> QED
        BY <3>1, <3>5, <4>1, Zenon
    <3>6. CASE \E fn \in {"file_read", "file_write", "file_list"} :
                  \E a, b \in Ptrs, al, n \in Lens : HostCall(HostFunction(fn, a, al, b, n), mem)
      BY <3>1, <3>2, <3>6
    <3> QED
      BY <3>3, <3>4, <3>5, <3>6
  <2>2. Sound(c)
    BY <1>1 DEF Sound
  <2>3. HostInv' /\ app' = app /\ (pc' = "guest" => Result(c) /\ Confined(mem, c))
    BY <1>1, <2>1, <2>2, HostCallStep
  <2>4. hc' = c
    BY <2>1 DEF HostCall
  <2> QED
    BY <1>1, <2>3, <2>4 DEF Result
<1> QED
  BY <1>2, <1>3, <1>4 DEF AnyModule

-----------------------------------------------------------------------------
(* The editor's listing.                                                    *)

\* $files writes at most three cells for one it reads.
JsonStates == [out : Seq(Cells), first : BOOLEAN, in : BOOLEAN]

LEMMA JsonStepType ==
    ASSUME NEW st \in JsonStates, NEW b \in Cells
    PROVE  /\ JsonStep(st, b) \in JsonStates
           /\ Len(st.out) \in Nat /\ Len(JsonStep(st, b).out) <= Len(st.out) + 3
<1>1. "quote" \in Cells /\ "comma" \in Cells
  BY DEF Cells
<1>2. st.out \in Seq(Cells) /\ Len(st.out) \in Nat /\ st.in \in BOOLEAN /\ st.first \in BOOLEAN
  BY LenProperties DEF JsonStates
<1>3. CASE b = "nl"
  <2> DEFINE o == IF st.in THEN Append(st.out, "quote") ELSE st.out
  <2>1. o \in Seq(Cells) /\ Len(o) <= Len(st.out) + 1 /\ Len(o) \in Nat
    <3>1. Append(st.out, "quote") \in Seq(Cells) /\ Len(Append(st.out, "quote")) = Len(st.out) + 1
      BY <1>1, <1>2, OneMore
    <3>2. o = Append(st.out, "quote") \/ o = st.out
      BY <1>2
    <3> HIDE DEF o
    <3> QED
      BY <1>2, <3>1, <3>2
  <2>2. JsonStep(st, b) = [st EXCEPT !.out = o, !.in = FALSE]
    BY <1>3 DEF JsonStep
  <2>3. JsonStep(st, b) = [out |-> o, first |-> st.first, in |-> FALSE]
    BY <2>2 DEF JsonStates
  <2> HIDE DEF o
  <2> QED
    BY <1>2, <2>1, <2>3 DEF JsonStates
<1>4. CASE b # "nl"
  <2> DEFINE q == IF st.in THEN << >> ELSE IF st.first THEN << "quote" >> ELSE << "comma", "quote" >>
  <2>1. q \in Seq(Cells) /\ Len(q) <= 2 /\ Len(q) \in Nat
    <3> DEFINE Short(s) == s \in Seq(Cells) /\ Len(s) <= 2 /\ Len(s) \in Nat
    <3>1. Short(<< >>)
      BY EmptySeq
    <3>2. ASSUME NEW x \in Cells PROVE Short(<< x >>)
      OBVIOUS
    <3>3. ASSUME NEW x \in Cells, NEW y \in Cells PROVE Short(<< x, y >>)
      OBVIOUS
    <3>4. q = << >> \/ q = << "quote" >> \/ q = << "comma", "quote" >>
      BY <1>2
    <3> HIDE DEF q, Short
    <3>5. Short(q)
      BY <1>1, <3>1, <3>2, <3>3, <3>4
    <3> QED
      BY <3>5 DEF Short
  <2>2. << b >> \in Seq(Cells) /\ Len(<< b >>) = 1
    BY OneCell
  <2>3. JsonStep(st, b) = [out |-> st.out \o q \o << b >>, first |-> FALSE, in |-> TRUE]
    BY <1>4 DEF JsonStep
  <2> HIDE DEF q
  <2>4. st.out \o q \in Seq(Cells) /\ Len(st.out \o q) = Len(st.out) + Len(q)
    BY <1>2, <2>1, ConcatProperties
  <2>5. /\ st.out \o q \o << b >> \in Seq(Cells)
        /\ Len(st.out \o q \o << b >>) = Len(st.out) + Len(q) + 1
    BY <2>2, <2>4, ConcatProperties
  <2> QED
    BY <1>2, <2>1, <2>3, <2>5 DEF JsonStates
<1> QED
  BY <1>3, <1>4

JsonStart == [out |-> << "[" >>, first |-> TRUE, in |-> FALSE]

JsonEnd(st) == st.out \o (IF st.in THEN << "quote" >> ELSE << >>) \o << "]" >>

\* The loop of $files goes through the cells one by one.
LEMMA JsonRun ==
    ASSUME NEW lines \in Seq(Cells)
    PROVE  \E h \in [0..Len(lines) -> JsonStates] :
              /\ h[0] = JsonStart /\ Json(lines) = JsonEnd(h[Len(lines)])
              /\ \A i \in 1..Len(lines) : h[i] = JsonStep(h[i - 1], lines[i])
<1> DEFINE n == Len(lines)
           step == [i \in 1..n |-> [b \in JsonStates |-> JsonStep(b, lines[i])]]
           P(f) == f = [i \in 0..Len(lines) |->
                          IF i = 0 THEN [out |-> << "[" >>, first |-> TRUE, in |-> FALSE]
                          ELSE JsonStep(f[i - 1], lines[i])]
<1>1. n \in Nat /\ JsonStart \in JsonStates
  <2>1. "[" \in Cells
    BY DEF Cells
  <2>2. << "[" >> \in Seq(Cells)
    BY <2>1, OneCell
  <2> QED
    BY <2>2, LenProperties DEF JsonStart, JsonStates
<1>2. \A i \in 1..n, b \in JsonStates : JsonStep(b, lines[i]) \in JsonStates
  BY ElementOfSeq, JsonStepType
<1>3. ASSUME NEW f
      PROVE  P(f) <=> f = [i \in 0..n |-> IF i = 0 THEN JsonStart ELSE JsonStep(f[i - 1], lines[i])]
  BY DEF JsonStart
<1> HIDE DEF P, n
<1>4. /\ step \in [1..n -> [JsonStates -> JsonStates]] /\ DOMAIN step = 1..n
      /\ \A i \in 1..n, b \in JsonStates : step[i][b] = JsonStep(b, lines[i])
  BY <1>2
<1> HIDE DEF step
<1>5. PICK f \in [0..n -> JsonStates] : Follows(f, JsonStart, step)
  BY <1>1, <1>4, Recursion
<1>6. P(f)
  <2>1. \A i \in 1..n : f[i - 1] \in JsonStates
    BY <1>1, <1>5
  <2>2. \A i \in 1..n : f[i] = JsonStep(f[i - 1], lines[i])
    BY <1>4, <1>5, <2>1 DEF Follows
  <2>3. f = [i \in 0..n |-> IF i = 0 THEN JsonStart ELSE JsonStep(f[i - 1], lines[i])]
    BY <1>1, <1>5, <2>2 DEF Follows
  <2> QED
    BY <1>3, <2>3
<1>7. PICK h : P(h) /\ Json(lines) = JsonEnd(h[n])
  BY <1>6 DEF Json, JsonEnd, P, n
<1>8. h = [i \in 0..n |-> IF i = 0 THEN JsonStart ELSE JsonStep(h[i - 1], lines[i])]
  BY <1>3, <1>7
<1>9. h[0] = JsonStart /\ \A i \in 1..n : h[i] = JsonStep(h[i - 1], lines[i])
  BY <1>1, <1>8
<1>10. \A i \in 0..n : h[i] \in JsonStates
  <2> DEFINE M == {i \in Nat : i <= n => h[i] \in JsonStates}
  <2>1. 0 \in M
    BY <1>1, <1>9
  <2>2. ASSUME NEW i \in Nat, i \in M PROVE i + 1 \in M
    <3> SUFFICES ASSUME i + 1 <= n PROVE h[i + 1] \in JsonStates
      OBVIOUS
    <3>1. i + 1 \in 1..n /\ (i + 1) - 1 = i /\ h[i] \in JsonStates
      BY <1>1, <2>2
    <3> QED
      BY <1>2, <1>9, <3>1
  <2> HIDE DEF M
  <2>3. Nat \subseteq M
    BY <2>1, <2>2, Induction
  <2> QED
    BY <1>1, <2>3 DEF M
<1>11. h \in [0..n -> JsonStates]
  BY <1>8, <1>10
<1> QED
  BY <1>7, <1>9, <1>11 DEF n

\* The answer to a listing.
LEMMA JsonType ==
    ASSUME NEW lines \in Seq(Cells)
    PROVE  /\ << "json" >> \o Json(lines) \in Seq(Cells)
           /\ Len(<< "json" >> \o Json(lines)) <= 3 * Len(lines) + 4
           /\ Len(<< "json" >> \o Json(lines)) >= 1
<1> DEFINE n == Len(lines)
<1>1. n \in Nat
  BY LenProperties
<1>2. PICK h \in [0..n -> JsonStates] :
         /\ h[0] = JsonStart /\ Json(lines) = JsonEnd(h[n])
         /\ \A i \in 1..n : h[i] = JsonStep(h[i - 1], lines[i])
  BY JsonRun
<1>3. \A i \in 1..n : lines[i] \in Cells
  BY ElementOfSeq
<1> HIDE DEF n
<1>4. \A i \in 0..n : h[i].out \in Seq(Cells) /\ Len(h[i].out) \in Nat
  BY <1>2, LenProperties DEF JsonStates
<1>5. Len(h[n].out) <= 3 * n + 1
  <2> DEFINE M == {i \in Nat : i <= n => Len(h[i].out) <= 3 * i + 1}
  <2>1. 0 \in M
    <3>1. h[0].out = << "[" >>
      BY <1>2 DEF JsonStart
    <3>2. "[" \in Cells
      BY DEF Cells
    <3>3. Len(h[0].out) = 1
      BY <3>1, <3>2, OneCell
    <3>4. Len(h[0].out) <= 3 * 0 + 1
      BY <3>3
    <3> QED
      BY <3>4
  <2>2. ASSUME NEW i \in Nat, i \in M PROVE i + 1 \in M
    <3> SUFFICES ASSUME i + 1 <= n PROVE Len(h[i + 1].out) <= 3 * (i + 1) + 1
      OBVIOUS
    <3>1. i + 1 \in 1..n /\ (i + 1) - 1 = i /\ i \in 0..n /\ i + 1 \in 0..n /\ Len(h[i].out) <= 3 * i + 1
      BY <1>1, <2>2
    <3>2. h[i + 1] = JsonStep(h[i], lines[i + 1])
      BY <1>2, <3>1
    <3>3. Len(h[i + 1].out) <= Len(h[i].out) + 3
      BY <1>2, <1>3, <3>1, <3>2, JsonStepType
    <3> QED
      BY <1>4, <3>1, <3>3
  <2> HIDE DEF M
  <2>3. n \in M
    BY <1>1, <2>1, <2>2, Induction
  <2> QED
    BY <1>1, <2>3 DEF M
<1>6. JsonEnd(h[n]) \in Seq(Cells) /\ Len(JsonEnd(h[n])) <= 3 * n + 3 /\ Len(JsonEnd(h[n])) \in Nat
  <2> DEFINE o == h[n].out
             q == IF h[n].in THEN << "quote" >> ELSE << >>
  <2>1. "quote" \in Cells /\ "]" \in Cells
    BY DEF Cells
  <2>2. o \in Seq(Cells) /\ Len(o) \in Nat /\ Len(o) <= 3 * n + 1
    BY <1>1, <1>4, <1>5
  <2>3. q \in Seq(Cells) /\ Len(q) \in Nat /\ Len(q) <= 1
    BY <2>1
  <2>4. << "]" >> \in Seq(Cells) /\ Len(<< "]" >>) = 1
    BY <2>1, OneCell
  <2>5. JsonEnd(h[n]) = (o \o q) \o << "]" >>
    BY DEF JsonEnd
  <2> HIDE DEF o, q
  <2>6. o \o q \in Seq(Cells) /\ Len(o \o q) = Len(o) + Len(q)
    BY <2>2, <2>3, ConcatProperties
  <2>7. (o \o q) \o << "]" >> \in Seq(Cells) /\ Len((o \o q) \o << "]" >>) = Len(o) + Len(q) + 1
    BY <2>4, <2>6, ConcatProperties
  <2> DEFINE z == (o \o q) \o << "]" >>
  <2>8. z \in Seq(Cells) /\ Len(z) = Len(o) + Len(q) + 1 /\ JsonEnd(h[n]) = z
    BY <2>5, <2>7
  <2> HIDE DEF z
  <2> QED
    BY <1>1, <2>2, <2>3, <2>8
<1>7. << "json" >> \in Seq(Cells) /\ Len(<< "json" >>) = 1
  <2>1. "json" \in Cells
    BY DEF Cells
  <2> QED
    BY <2>1, OneCell
<1> QED
  <2> DEFINE j == Json(lines)
  <2>1. j \in Seq(Cells) /\ Len(j) <= 3 * n + 3 /\ Len(j) \in Nat
    BY <1>2, <1>6
  <2> HIDE DEF j
  <2>2. << "json" >> \o j \in Seq(Cells) /\ Len(<< "json" >> \o j) = 1 + Len(j)
    BY <1>7, <2>1, ConcatProperties
  <2>3. Len(<< "json" >> \o j) <= 3 * n + 4 /\ Len(<< "json" >> \o j) >= 1
    BY <1>1, <2>1, <2>2
  <2> QED
    BY <2>2, <2>3 DEF j, n

-----------------------------------------------------------------------------
(* The editor.                                                              *)

Handling == app.name = "editor" /\ pc \in {"guest", "host"}

\* The request lies where handle_request put it, and "doc" where editor.wat
\* has it.
AreaInv ==
    /\ app.name = "editor" => mem[DOC] = "doc"
    /\ Handling => Path = SubSeq(req.path, 1, pl) /\ Body = req.body

ReadNameIn(b) == SubSeq(b, 1, Least(Len(b), NAME_MAX))

\* The file call of a handler is the one its request asks for.
Showing == /\ req.path = << "read" >> /\ hc.fn = "file_read" /\ hc.b = READ_BUF /\ hc.bl = READ_MAX
           /\ pc = "host" => call.path = DocPath(ReadNameIn(req.body))
Saving  == /\ req.path = << "save" >> /\ hc.fn = "file_write" /\ WellFormed(req.body)
           /\ pc = "host" => /\ call.path = DocPath(NameIn(req.body))
                             /\ call.data = ContentIn(req.body)
Listing == req.path = << "files" >> /\ hc.fn = "file_list" /\ hc.b = LIST_BUF /\ hc.bl = LIST_MAX

CallInv == Handling /\ hc # NoValue => Showing \/ Saving \/ Listing

\* What a save that has not been answered may have left, or may still leave.
Pending(p) ==
    IF /\ Handling /\ hc # NoValue /\ req.path = << "save" >>
       /\ p = DocPath(NameIn(req.body))
    THEN {ContentIn(req.body), Torn} ELSE {}

\* What the files hold, and what writes may still do to them, is known to the
\* client or pending.
FilesInv ==
    app.name = "editor" =>
        /\ \A p \in Paths : files[p] \in maybe[p] \cup Pending(p)
        /\ \A c \in undone : {c.data, Torn} \subseteq maybe[c.path] \cup Pending(c.path)

\* A result at hand is the file's: nothing can have changed it since.
ResultInv ==
    app.name = "editor" /\ pc = "guest" /\ hc # NoValue /\ rv >= 0 =>
        /\ Saving => LET p == DocPath(NameIn(req.body))
                     IN  p \in Paths /\ undone = {} /\ files[p] = ContentIn(req.body)
        /\ Showing => LET p == DocPath(ReadNameIn(req.body))
                      IN  /\ p \in Paths /\ undone = {} /\ files[p] # Absent
                          /\ Bytes(mem, READ_BUF, READ_BUF + rv) = Cut(files[p])

\* The lines at hand are those of the names there were.
LinesInv ==
    app.name = "editor" /\ pc = "guest" /\ hc # NoValue /\ Listing /\ ret.ok =>
        /\ ret.names \subseteq Paths
        /\ \E s \in SetToSeqs({Tail(p) : p \in ret.names}) :
              /\ rv = Least(Len(Lines(s)), LIST_MAX)
              /\ Bytes(mem, LIST_BUF, LIST_BUF + rv) = SubSeq(Lines(s), 1, rv)

MaybeInv == DOMAIN maybe = Paths /\ ReadsAreSaves

EditorInv ==
    /\ HostInv /\ AreaInv /\ CallInv
    /\ FilesInv /\ ResultInv /\ LinesInv /\ MaybeInv /\ PlainNamesListed

\* The areas follow each other, and the memory is larger.
LEMMA Layout ==
    ASSUME Loaded, app.name = "editor"
    PROVE  /\ Size \in Nat /\ Size < USIZE /\ DOC < Size
           /\ METHOD_OFF + 2 <= BODY_OFF /\ PATH_OFF + PATH_MAX = BODY_OFF
           /\ METHOD_OFF <= PATH_OFF /\ PATH_MAX >= 2
           /\ BODY_OFF + BODY_MAX <= SCRATCH /\ SCRATCH + 1 + NAME_MAX <= READ_BUF
           /\ READ_BUF + READ_MAX <= LIST_BUF /\ LIST_BUF + LIST_MAX <= DOC
           /\ 3 * LIST_MAX + 4 <= DOC
           /\ RECV_MAX <= BODY_MAX /\ RECV_MAX <= SEND_MAX /\ 1 + NAME_MAX <= SEND_MAX
<1>1. Size \in Nat /\ Size < USIZE
  BY SizeBound
<1>2. DOC < Size
  BY EditorConstants DEF Loaded, Size
<1> QED
  BY <1>1, <1>2, EditorConstants, Numbers

\* The lengths the module is called with.
LEMMA Lengths ==
    ASSUME HostInv
    PROVE  /\ pl \in Nat /\ pl <= PATH_MAX /\ pl <= Len(req.path) /\ Len(req.path) \in Nat
           /\ Len(req.path) <= PATH_MAX => pl = Len(req.path)
           /\ Len(req.path) > PATH_MAX => pl = PATH_MAX
           /\ bl = Len(req.body) /\ bl \in Nat /\ bl <= BODY_MAX /\ bl <= RECV_MAX
<1>1. Len(req.path) \in Nat /\ Len(req.body) \in Nat /\ Len(req.body) <= RECV_MAX
  BY LenProperties DEF HostInv
<1>2. PATH_MAX \in Nat /\ BODY_MAX \in Nat /\ RECV_MAX \in Nat /\ RECV_MAX <= BODY_MAX
  BY Numbers, EditorConstants
<1> QED
  BY <1>1, <1>2 DEF pl, bl, Least

\* A copy behind the request leaves the request alone.
LEMMA AreasKept ==
    ASSUME HostInv, AreaInv, Handling, app' = app, req' = req,
           NEW off \in Nat, NEW s \in Seq(Cells), mem' = Put(mem, off, s),
           BODY_OFF + BODY_MAX <= off, off + Len(s) <= DOC
    PROVE  AreaInv'
<1>1. Loaded /\ mem \in Memories /\ app.name = "editor" /\ Len(s) \in Nat
  BY LenProperties DEF HostInv, Handling
<1>2. /\ Size \in Nat /\ DOC < Size /\ BODY_OFF + BODY_MAX <= DOC
      /\ PATH_OFF + PATH_MAX = BODY_OFF
      /\ PATH_OFF \in Nat /\ PATH_MAX \in Nat /\ BODY_OFF \in Nat /\ BODY_MAX \in Nat /\ DOC \in Nat
  BY <1>1, Layout, Numbers
<1>3. pl \in Nat /\ pl <= PATH_MAX /\ bl \in Nat /\ bl <= BODY_MAX
  BY Lengths
<1>4. pl' = pl /\ bl' = bl
  BY DEF pl, bl
<1>5. mem'[DOC] = mem[DOC]
  <2>1. DOC \in Addresses
    BY <1>2 DEF Addresses
  <2> QED
    BY <1>1, <1>2, <2>1, PutApartCell
<1>6. Path' = Path
  <2> DEFINE e == PATH_OFF + pl
  <2>1. e \in Nat /\ InBounds(PATH_OFF, e) /\ e <= off
    BY <1>2, <1>3 DEF InBounds
  <2> HIDE DEF e
  <2>2. Bytes(mem', PATH_OFF, e) = Bytes(mem, PATH_OFF, e)
    BY <1>1, <1>2, <2>1, PutApart
  <2> QED
    BY <1>4, <2>2 DEF Path, e
<1>7. Body' = Body
  <2> DEFINE e == BODY_OFF + bl
  <2>1. e \in Nat /\ InBounds(BODY_OFF, e) /\ e <= off
    BY <1>2, <1>3 DEF InBounds
  <2> HIDE DEF e
  <2>2. Bytes(mem', BODY_OFF, e) = Bytes(mem, BODY_OFF, e)
    BY <1>1, <1>2, <2>1, PutApart
  <2> QED
    BY <1>4, <2>2 DEF Body, e
<1> QED
  BY <1>1, <1>4, <1>5, <1>6, <1>7 DEF AreaInv

\* The editor takes the route the request names: no longer path is cut to one.
LEMMA Route ==
    ASSUME HostInv, AreaInv, Handling, NEW r \in Cells
    PROVE  Path = << r >> <=> req.path = << r >>
<1>1. Path = SubSeq(req.path, 1, pl)
  BY DEF AreaInv
<1>2. req.path \in Seq(Cells) /\ PATH_MAX \in Nat /\ PATH_MAX >= 2
  BY Numbers, EditorConstants DEF HostInv
<1>3. /\ pl \in Nat /\ pl <= Len(req.path) /\ Len(req.path) \in Nat
      /\ Len(req.path) <= PATH_MAX => pl = Len(req.path)
      /\ Len(req.path) > PATH_MAX => pl = PATH_MAX
  BY Lengths
<1>4. Len(SubSeq(req.path, 1, pl)) = pl
  BY <1>2, <1>3, Prefix
<1>5. Len(<< r >>) <= 1
  OBVIOUS
<1>6. ASSUME Path = << r >> PROVE req.path = << r >>
  <2>1. pl <= 1
    BY <1>1, <1>4, <1>5, <1>6
  <2>2. pl = Len(req.path)
    BY <1>2, <1>3, <2>1
  <2> QED
    BY <1>1, <1>2, <1>6, <2>2, Whole
<1>7. ASSUME req.path = << r >> PROVE Path = << r >>
  <2>1. Len(req.path) <= 1
    BY <1>5, <1>7
  <2>2. pl = Len(req.path)
    BY <1>2, <1>3, <2>1
  <2> QED
    BY <1>1, <1>2, <1>7, <2>2, Whole
<1> QED
  BY <1>6, <1>7

\* A part of a range is a part of what it holds.
LEMMA Within ==
    ASSUME Loaded, NEW m \in Memories, NEW off \in Nat, NEW n \in Nat, off + n <= Size,
           NEW i \in 1..(n + 1), NEW j \in (i - 1)..n
    PROVE  /\ Bytes(m, off + i - 1, off + j) = SubSeq(Bytes(m, off, off + n), i, j)
           /\ InBounds(off + i - 1, off + j)
<1> DEFINE s == Bytes(m, off, off + n)
           e == off + n
           a == off + i - 1
           z == off + j
           t == Bytes(m, a, z)
           u == SubSeq(s, i, j)
<1>1. e \in Nat /\ a \in Nat /\ z \in Nat /\ InBounds(off, e) /\ InBounds(a, z) /\ z - a = j - i + 1
  BY SizeBound DEF InBounds
<1>2. s \in Seq(Cells) /\ Len(s) = n /\ \A k \in 1..n : s[k] = m[off + k - 1]
  <2>1. e - off = n /\ s = Bytes(m, off, e)
    OBVIOUS
  <2> HIDE DEF e, s
  <2> QED
    BY <1>1, <2>1, BytesOf
<1>3. t \in Seq(Cells) /\ Len(t) = j - i + 1 /\ \A k \in 1..(j - i + 1) : t[k] = m[a + k - 1]
  <2> HIDE DEF a, z
  <2>1. t \in Seq(Cells) /\ Len(t) = z - a /\ \A k \in 1..(z - a) : t[k] = m[a + k - 1]
    BY <1>1, BytesOf
  <2> HIDE DEF t
  <2> QED
    BY <1>1, <2>1
<1>4. u \in Seq(Cells) /\ Len(u) = j - i + 1 /\ \A k \in 1..(j - i + 1) : u[k] = s[i + k - 1]
  <2>1. \A k \in i..j : s[k] \in Cells
    BY <1>2, ElementOfSeq
  <2> HIDE DEF s
  <2>2. i \in Int /\ j \in Int
    OBVIOUS
  <2>3. /\ u \in Seq(Cells) /\ Len(u) = IF i <= j THEN j - i + 1 ELSE 0
        /\ \A k \in 1..(j - i + 1) : u[k] = s[i + k - 1]
    BY <2>1, <2>2, SubSeqProperties
  <2>4. (IF i <= j THEN j - i + 1 ELSE 0) = j - i + 1
    OBVIOUS
  <2> HIDE DEF u
  <2> QED
    BY <2>3, <2>4
<1>5. ASSUME NEW k \in 1..(j - i + 1) PROVE t[k] = u[k]
  <2>1. i + k - 1 \in 1..n /\ off + (i + k - 1) - 1 = a + k - 1
    OBVIOUS
  <2> HIDE DEF s, t, u, a
  <2> QED
    BY <1>2, <1>3, <1>4, <2>1
<1> HIDE DEF t, u
<1>6. t = u
  BY <1>3, <1>4, <1>5, SeqEqual
<1> QED
  BY <1>1, <1>6 DEF t, u

\* Where the request is, and that it is inside the memory.
LEMMA BodyThere ==
    ASSUME HostInv, AreaInv, Handling
    PROVE  /\ Loaded /\ mem \in Memories /\ app.name = "editor"
           /\ bl \in Nat /\ bl = Len(req.body) /\ bl <= RECV_MAX
           /\ BODY_OFF \in Nat /\ BODY_OFF + bl <= SCRATCH /\ SCRATCH <= Size
           /\ Bytes(mem, BODY_OFF, BODY_OFF + bl) = req.body /\ req.body \in Seq(Cells)
           /\ \A i \in 1..bl : mem[BODY_OFF + i - 1] = req.body[i]
<1>1. Loaded /\ mem \in Memories /\ app.name = "editor" /\ req.body \in Seq(Cells)
  BY DEF HostInv, Handling
<1>2. bl \in Nat /\ bl = Len(req.body) /\ bl <= BODY_MAX /\ bl <= RECV_MAX
  BY Lengths
<1>3. /\ BODY_OFF \in Nat /\ BODY_MAX \in Nat /\ SCRATCH \in Nat /\ Size \in Nat
      /\ BODY_OFF + BODY_MAX <= SCRATCH /\ SCRATCH <= Size
  <2>1. /\ SCRATCH \in Nat /\ NAME_MAX \in Nat /\ READ_BUF \in Nat /\ READ_MAX \in Nat
        /\ LIST_BUF \in Nat /\ LIST_MAX \in Nat /\ DOC \in Nat /\ BODY_OFF \in Nat /\ BODY_MAX \in Nat
    BY Numbers
  <2>2. /\ Size \in Nat /\ DOC < Size /\ BODY_OFF + BODY_MAX <= SCRATCH
        /\ SCRATCH + 1 + NAME_MAX <= READ_BUF
        /\ READ_BUF + READ_MAX <= LIST_BUF /\ LIST_BUF + LIST_MAX <= DOC
    BY <1>1, Layout
  <2> QED
    BY <2>1, <2>2
<1>4. Bytes(mem, BODY_OFF, BODY_OFF + bl) = req.body
  BY DEF AreaInv, Body
<1>5. \A i \in 1..bl : mem[BODY_OFF + i - 1] = req.body[i]
  <2> DEFINE e == BODY_OFF + bl
  <2>1. e \in Nat /\ InBounds(BODY_OFF, e) /\ e - BODY_OFF = bl
    BY <1>2, <1>3 DEF InBounds
  <2>2. Bytes(mem, BODY_OFF, e) = req.body
    BY <1>4
  <2> HIDE DEF e
  <2>3. \A i \in 1..(e - BODY_OFF) : Bytes(mem, BODY_OFF, e)[i] = mem[BODY_OFF + i - 1]
    BY <1>1, <1>3, <2>1, BytesOf
  <2> QED
    BY <2>1, <2>2, <2>3
<1>6. BODY_OFF + bl <= SCRATCH
  BY <1>2, <1>3
<1> QED
  BY <1>1, <1>2, <1>3, <1>4, <1>5, <1>6

\* $read takes the name the request has.
LEMMA ReadsName ==
    ASSUME HostInv, AreaInv, Handling
    PROVE  /\ ReadName = ReadNameIn(req.body) /\ ReadName \in Seq(Cells)
           /\ Len(ReadName) \in Nat /\ Len(ReadName) <= NAME_MAX
<1> DEFINE j == Least(bl, NAME_MAX)
<1>1. /\ Loaded /\ mem \in Memories /\ bl \in Nat /\ bl = Len(req.body)
      /\ BODY_OFF \in Nat /\ BODY_OFF + bl <= SCRATCH /\ SCRATCH <= Size
      /\ Bytes(mem, BODY_OFF, BODY_OFF + bl) = req.body /\ req.body \in Seq(Cells)
  BY BodyThere
<1>2. j \in 0..bl /\ j \in Nat /\ j <= NAME_MAX /\ NAME_MAX \in Nat /\ SCRATCH \in Nat /\ Size \in Nat
  BY <1>1, Numbers, SizeBound DEF Least
<1> HIDE DEF j
<1>3. Bytes(mem, BODY_OFF + 1 - 1, BODY_OFF + j) = SubSeq(Bytes(mem, BODY_OFF, BODY_OFF + bl), 1, j)
  <2>1. BODY_OFF + bl <= Size /\ 1 \in 1..(bl + 1) /\ j \in (1 - 1)..bl
    BY <1>1, <1>2
  <2> QED
    BY <1>1, <2>1, Within
<1>4. BODY_OFF + 1 - 1 = BODY_OFF
  BY <1>1
<1>5. ReadName = SubSeq(req.body, 1, j)
  BY <1>1, <1>3, <1>4 DEF ReadName, j
<1>6. SubSeq(req.body, 1, j) \in Seq(Cells) /\ Len(SubSeq(req.body, 1, j)) = j
  BY <1>1, <1>2, Prefix
<1>7. ReadNameIn(req.body) = SubSeq(req.body, 1, j)
  BY <1>1 DEF ReadNameIn, j
<1> QED
  BY <1>2, <1>5, <1>6, <1>7

\* A body with a newline has a first one.
LEMMA HasFirst ==
    ASSUME NEW b \in Seq(Cells), Newlines(b) # {}
    PROVE  /\ FirstNewline(b) \in 1..Len(b) /\ b[FirstNewline(b)] = "nl"
           /\ \A j \in 1..Len(b) : b[j] = "nl" => FirstNewline(b) <= j
<1>1. DOMAIN b = 1..Len(b) /\ Len(b) \in Nat
  BY LenProperties
<1>2. Newlines(b) \subseteq Nat
  BY <1>1 DEF Newlines
<1>3. \E i \in Newlines(b) : \A j \in Newlines(b) : i <= j
  BY <1>2, LeastNatural
<1>4. FirstNewline(b) \in Newlines(b) /\ \A j \in Newlines(b) : FirstNewline(b) <= j
  BY <1>3 DEF FirstNewline
<1> HIDE DEF FirstNewline
<1> QED
  BY <1>1, <1>4 DEF Newlines

\* $save splits the body where the request does.
LEMMA SplitsBody ==
    ASSUME HostInv, AreaInv, Handling, Newlines(req.body) # {}
    PROVE  /\ nl_pos \in 0..(bl - 1) /\ nl_pos = FirstNewline(req.body) - 1
           /\ NameIn(req.body) = SubSeq(req.body, 1, nl_pos)
           /\ NameIn(req.body) \in Seq(Cells) /\ Len(NameIn(req.body)) = nl_pos
           /\ ContentIn(req.body) = SubSeq(req.body, nl_pos + 2, bl)
<1> DEFINE f == FirstNewline(req.body)
           Good(i) == /\ mem[BODY_OFF + i] = "nl"
                      /\ \A j \in 0..(i - 1) : mem[BODY_OFF + j] # "nl"
<1>1. /\ bl \in Nat /\ bl = Len(req.body) /\ BODY_OFF \in Nat /\ req.body \in Seq(Cells)
      /\ \A i \in 1..bl : mem[BODY_OFF + i - 1] = req.body[i]
  BY BodyThere
<1>2. f \in 1..bl /\ req.body[f] = "nl" /\ \A j \in 1..bl : req.body[j] = "nl" => f <= j
  BY <1>1, HasFirst
<1> HIDE DEF f
<1>3. ASSUME NEW i \in 0..(bl - 1) PROVE mem[BODY_OFF + i] = req.body[i + 1]
  <2>1. i + 1 \in 1..bl /\ BODY_OFF + (i + 1) - 1 = BODY_OFF + i
    BY <1>1
  <2> QED
    BY <1>1, <2>1
<1>4. f - 1 \in 0..(bl - 1) /\ (f - 1) + 1 = f
  BY <1>1, <1>2
<1>5. Good(f - 1)
  <2>1. mem[BODY_OFF + (f - 1)] = "nl"
    BY <1>2, <1>3, <1>4
  <2>2. ASSUME NEW j \in 0..((f - 1) - 1) PROVE mem[BODY_OFF + j] # "nl"
    <3>1. j \in 0..(bl - 1) /\ j + 1 \in 1..bl /\ j + 1 < f
      BY <1>1, <1>2
    <3>2. ~(f <= j + 1)
      BY <1>2, <3>1
    <3> QED
      BY <1>2, <1>3, <3>1, <3>2
  <2> QED
    BY <2>1, <2>2
<1>6. ASSUME NEW i \in 0..(bl - 1), Good(i) PROVE i = f - 1
  <2>1. i + 1 \in 1..bl /\ req.body[i + 1] = "nl"
    BY <1>1, <1>3, <1>6
  <2>2. f <= i + 1
    BY <1>2, <2>1
  <2>3. ~(f - 1 \in 0..(i - 1))
    BY <1>5, <1>6
  <2> QED
    BY <1>1, <1>2, <2>1, <2>2, <2>3
<1>7. nl_pos = f - 1
  <2>1. nl_pos = CHOOSE i \in 0..(bl - 1) : Good(i)
    BY DEF nl_pos
  <2> HIDE DEF Good
  <2> QED
    BY <1>4, <1>5, <1>6, <2>1
<1>8. nl_pos \in 0..bl /\ nl_pos \in 0..(bl - 1) /\ f + 1 = nl_pos + 2
  BY <1>1, <1>2, <1>7
<1>9. NameIn(req.body) = SubSeq(req.body, 1, nl_pos)
  BY <1>7 DEF NameIn, f
<1>10. SubSeq(req.body, 1, nl_pos) \in Seq(Cells) /\ Len(SubSeq(req.body, 1, nl_pos)) = nl_pos
  BY <1>1, <1>8, Prefix
<1>11. ContentIn(req.body) = SubSeq(req.body, nl_pos + 2, bl)
  BY <1>1, <1>8 DEF ContentIn, f
<1> QED
  BY <1>7, <1>8, <1>9, <1>10, <1>11 DEF f

LEMMA RouteCells == "read" \in Cells /\ "save" \in Cells /\ "files" \in Cells /\ "doc" \in Cells
  BY DEF Cells

\* The path is put together at SCRATCH, between the request and the buffers.
LEMMA PathMade ==
    ASSUME HostInv, AreaInv, Handling, NEW name \in Seq(Cells), Len(name) <= NAME_MAX,
           NEW m, m = Put(mem, SCRATCH, << mem[DOC] >> \o name)
    PROVE  /\ m \in Memories /\ Inside(SCRATCH, 1 + Len(name)) /\ 1 + Len(name) <= SEND_MAX
           /\ 1 + Len(name) \in Int /\ SCRATCH \in Int
           /\ Arg(m, SCRATCH, 1 + Len(name)) = DocPath(name)
           /\ DocPath(name) \in Seq(Cells) /\ Len(DocPath(name)) = 1 + Len(name)
           /\ m = Put(mem, SCRATCH, DocPath(name))
<1> DEFINE s == DocPath(name)
<1>1. Loaded /\ mem \in Memories /\ app.name = "editor"
  BY BodyThere
<1>2. << mem[DOC] >> \o name = s
  BY <1>1 DEF AreaInv, DocPath
<1>3. Len(name) \in Nat /\ << "doc" >> \in Seq(Cells) /\ Len(<< "doc" >>) = 1
  BY RouteCells, OneCell, LenProperties
<1>4. s \in Seq(Cells) /\ Len(s) = 1 + Len(name)
  BY <1>3, ConcatProperties DEF DocPath
<1> HIDE DEF s
<1>5. m = Put(mem, SCRATCH, s)
  BY <1>2
<1>6. /\ SCRATCH \in Nat /\ NAME_MAX \in Nat /\ READ_BUF \in Nat /\ READ_MAX \in Nat
      /\ LIST_BUF \in Nat /\ LIST_MAX \in Nat /\ DOC \in Nat /\ SEND_MAX \in Nat
  BY Numbers
<1>7. /\ Size \in Nat /\ DOC < Size /\ SCRATCH + 1 + NAME_MAX <= READ_BUF
      /\ READ_BUF + READ_MAX <= LIST_BUF /\ LIST_BUF + LIST_MAX <= DOC
      /\ 1 + NAME_MAX <= SEND_MAX
  BY <1>1, Layout
<1>8. SCRATCH + Len(s) <= Size /\ 1 + Len(name) \in Nat /\ 1 + Len(name) <= SEND_MAX
  BY <1>3, <1>4, <1>6, <1>7
<1>9. m \in Memories
  BY <1>1, <1>4, <1>5, <1>6, PutInto
<1>10. Inside(SCRATCH, 1 + Len(name))
  BY <1>4, <1>6, <1>8 DEF Inside
<1>11. Arg(m, SCRATCH, Len(s)) = Bytes(m, SCRATCH, SCRATCH + Len(s))
  <2>1. SCRATCH \in Int /\ Len(s) \in Int /\ Inside(SCRATCH, Len(s))
    BY <1>4, <1>6, <1>8, <1>10
  <2>2. ArgOK(SCRATCH, Len(s))
    BY <1>1, <2>1, InsideFits
  <2> QED
    BY <1>1, <1>9, <2>1, <2>2, ArgType
<1>12. Bytes(m, SCRATCH, SCRATCH + Len(s)) = s
  BY <1>1, <1>4, <1>5, <1>6, <1>8, PutBytes
<1> QED
  BY <1>4, <1>5, <1>6, <1>8, <1>9, <1>10, <1>11, <1>12 DEF s

\* The file call asks for what the request does.
Asked(c, m) ==
    \/ /\ req.path = << "read" >> /\ c.fn = "file_read" /\ c.b = READ_BUF /\ c.bl = READ_MAX
       /\ Arg(m, c.a, c.al) = DocPath(ReadNameIn(req.body))
    \/ /\ req.path = << "save" >> /\ c.fn = "file_write" /\ WellFormed(req.body)
       /\ Arg(m, c.a, c.al) = DocPath(NameIn(req.body))
       /\ Arg(m, c.b, c.bl) = ContentIn(req.body)
    \/ /\ req.path = << "files" >> /\ c.fn = "file_list" /\ c.b = LIST_BUF /\ c.bl = LIST_MAX
       /\ Arg(m, c.a, c.al) = << "doc" >>

LEMMA CallStep ==
    ASSUME EditorInv, At, rv = NoValue, NEW c \in HostCalls, NEW m \in Memories, Sound(c),
           HostCall(c, m), UNCHANGED maybe, Asked(c, m), mem' = m => AreaInv'
    PROVE  EditorInv'
<1>1. /\ HostInv /\ AreaInv /\ FilesInv /\ MaybeInv
      /\ Loaded /\ app.name = "editor" /\ pc = "guest"
  BY DEF EditorInv, HostInv, At
<1>2. hc' = c /\ UNCHANGED << app, req, answer, served >> /\ FileCall(c, m)
  BY DEF HostCall, Asked, Scalar, GetFeed
<1>3. HostInv' /\ c # NoValue
  BY <1>1, HostCallStep, WasmConstants
<1>4. hc = NoValue
  BY <1>1, WasmConstants DEF HostInv, Back
<1>5. /\ mem' = m /\ files' = files
      /\ \/ /\ pc' = "guest" /\ rv' = -1 /\ UNCHANGED << call, undone >>
            /\ ~IsUtf8(Arg(m, c.a, c.al)) \/ ~Known(Op(c.fn), Arg(m, c.a, c.al))
         \/ pc' = "panic"
         \/ Issued(c, m)
  BY <1>1, <1>2, FileOutcome
<1>6. pc' # "panic"
  BY <1>1, <1>2, <1>3 DEF HostInv, PanicOnlyOutside
<1>7. CallInv'
  <2>1. pc' = "host" => /\ call'.path = Arg(m, c.a, c.al)
                        /\ c.fn = "file_write" => call'.data = Arg(m, c.b, c.bl)
    BY <1>5 DEF Issued
  <2>2. req' = req
    BY <1>2
  <2>3. CASE req.path = << "read" >> /\ c.fn = "file_read" /\ c.b = READ_BUF /\ c.bl = READ_MAX
             /\ Arg(m, c.a, c.al) = DocPath(ReadNameIn(req.body))
    <3>1. Showing'
      BY <1>2, <2>1, <2>3 DEF Showing, ReadNameIn, DocPath, Least
    <3> QED
      BY <3>1 DEF CallInv
  <2>4. CASE req.path = << "save" >> /\ c.fn = "file_write" /\ WellFormed(req.body)
             /\ Arg(m, c.a, c.al) = DocPath(NameIn(req.body))
             /\ Arg(m, c.b, c.bl) = ContentIn(req.body)
    <3>1. Saving'
      BY <1>2, <2>1, <2>4 DEF Saving
    <3> QED
      BY <3>1 DEF CallInv
  <2>5. CASE req.path = << "files" >> /\ c.fn = "file_list" /\ c.b = LIST_BUF /\ c.bl = LIST_MAX
    <3>1. Listing'
      BY <1>2, <2>5 DEF Listing
    <3> QED
      BY <3>1 DEF CallInv
  <2> QED
    BY <2>3, <2>4, <2>5 DEF Asked
<1>8. FilesInv'
  <2>1. \A p : Pending(p) = {}
    BY <1>4 DEF Pending
  <2>2. \A p \in Paths : files'[p] \in maybe'[p] \cup Pending(p)'
    BY <1>1, <1>5, <2>1 DEF FilesInv
  <2>3. \A d \in undone : {d.data, Torn} \subseteq maybe'[d.path] \cup Pending(d.path)'
    BY <1>1, <2>1 DEF FilesInv
  <2>4. ASSUME undone' # undone
        PROVE  /\ undone' = undone \cup {call'}
               /\ \A p : p = call'.path => {call'.data, Torn} \subseteq Pending(p)'
    <3>1. /\ pc' = "host" /\ call'.op = Op(c.fn) /\ call'.op = "write" /\ undone' = undone \cup {call'}
          /\ call'.path = Arg(m, c.a, c.al)
          /\ c.fn = "file_write" => call'.data = Arg(m, c.b, c.bl)
      BY <1>5, <1>6, <2>4 DEF Issued
    <3>2. c.fn = "file_write"
      BY <3>1 DEF Asked, Op
    <3>3. /\ req.path = << "save" >> /\ call'.path = DocPath(NameIn(req.body))
          /\ call'.data = ContentIn(req.body)
      BY <3>1, <3>2 DEF Asked
    <3>4. \A p : p = call'.path => Pending(p)' = {ContentIn(req'.body), Torn}
      BY <1>1, <1>2, <1>3, <3>1, <3>3 DEF Pending, Handling
    <3> QED
      BY <1>2, <3>1, <3>3, <3>4
  <2>5. ASSUME NEW d \in undone'
        PROVE  {d.data, Torn} \subseteq maybe'[d.path] \cup Pending(d.path)'
    BY <2>3, <2>4
  <2> QED
    BY <2>2, <2>5 DEF FilesInv
<1>9. ResultInv'
  BY <1>3, <1>5, <1>6 DEF ResultInv, Issued
<1>10. LinesInv'
  <2> SUFFICES ASSUME pc' = "guest", Listing' PROVE FALSE
    BY DEF LinesInv
  <2>1. c.fn = "file_list"
    BY <1>2 DEF Listing
  <2>2. Arg(m, c.a, c.al) = << "doc" >> /\ Op(c.fn) = "list"
    BY <2>1 DEF Asked, Op
  <2>3. IsUtf8(<< "doc" >>) /\ Known("list", << "doc" >>)
    BY DEF IsUtf8, Known
  <2> QED
    BY <1>5, <2>2, <2>3 DEF Issued
<1>11. MaybeInv'
  BY <1>1 DEF MaybeInv, ReadsAreSaves
<1>12. PlainNamesListed'
  BY <1>5, <1>6 DEF PlainNamesListed, ListingFits, ReadAsNames, Issued
<1> QED
  BY <1>3, <1>5, <1>7, <1>8, <1>9, <1>10, <1>11, <1>12 DEF EditorInv

LEMMA PathCall ==
    ASSUME EditorInv, At, rv = NoValue, NEW name \in Seq(Cells), Len(name) <= NAME_MAX,
           NEW fn \in {"file_read", "file_write"}, NEW b \in Int, NEW n \in Int, Inside(b, n),
           fn = "file_write" => 1 + Len(name) + n <= SEND_MAX,
           CallWithPath(fn, name, b, n),
           NEW m, m = Put(mem, SCRATCH, << mem[DOC] >> \o name),
           Asked(HostFunction(fn, SCRATCH, 1 + Len(name), b, n), m)
    PROVE  EditorInv'
<1> DEFINE c == HostFunction(fn, SCRATCH, 1 + Len(name), b, n)
<1>1. HostInv /\ AreaInv /\ Handling /\ Loaded /\ app.name = "editor"
  BY DEF EditorInv, HostInv, At, Handling
<1>2. /\ m \in Memories /\ Inside(SCRATCH, 1 + Len(name)) /\ 1 + Len(name) <= SEND_MAX
      /\ 1 + Len(name) \in Int /\ SCRATCH \in Int
      /\ DocPath(name) \in Seq(Cells) /\ Len(DocPath(name)) = 1 + Len(name)
      /\ m = Put(mem, SCRATCH, DocPath(name))
  BY <1>1, PathMade
<1>3. HostCall(c, m) /\ UNCHANGED maybe
  BY DEF CallWithPath
<1>4. c \in HostCalls
  BY <1>2 DEF HostFunction, HostCalls
<1>5. c.fn = fn /\ c.a = SCRATCH /\ c.al = 1 + Len(name) /\ c.b = b /\ c.bl = n
  BY DEF HostFunction
<1> HIDE DEF c
<1>6. Sound(c)
  <2>1. 1 + Len(name) + 0 = 1 + Len(name)
    BY <1>2
  <2> QED
    BY <1>2, <1>5, <2>1 DEF Sound
<1>7. ASSUME mem' = m PROVE AreaInv'
  <2>1. app' = app /\ req' = req
    BY <1>3 DEF HostCall
  <2>2. /\ SCRATCH \in Nat /\ NAME_MAX \in Nat /\ READ_BUF \in Nat /\ READ_MAX \in Nat
        /\ LIST_BUF \in Nat /\ LIST_MAX \in Nat /\ DOC \in Nat
    BY Numbers
  <2>3. /\ BODY_OFF + BODY_MAX <= SCRATCH /\ SCRATCH + 1 + NAME_MAX <= READ_BUF
        /\ READ_BUF + READ_MAX <= LIST_BUF /\ LIST_BUF + LIST_MAX <= DOC
    BY <1>1, Layout
  <2>4. SCRATCH + Len(DocPath(name)) <= DOC
    BY <1>2, <2>2, <2>3
  <2> QED
    BY <1>1, <1>2, <1>7, <2>1, <2>2, <2>3, <2>4, AreasKept
<1>8. Asked(c, m)
  BY DEF c
<1> QED
  BY <1>2, <1>3, <1>4, <1>6, <1>7, <1>8, CallStep

\* $read makes its call.
LEMMA ReadCallStep ==
    ASSUME EditorInv, ReadCall, ReadName # << >>
    PROVE  EditorInv'
<1>1. At /\ rv = NoValue /\ CallWithPath("file_read", ReadName, READ_BUF, READ_MAX)
  BY DEF ReadCall
<1>2. HostInv /\ AreaInv /\ Handling /\ Loaded /\ app.name = "editor"
  BY <1>1 DEF EditorInv, HostInv, At, Handling
<1>3. /\ ReadName = ReadNameIn(req.body) /\ ReadName \in Seq(Cells)
      /\ Len(ReadName) <= NAME_MAX
  BY <1>2, ReadsName
<1>4. req.path = << "read" >>
  BY <1>2, Route, RouteCells DEF ReadCall
<1> DEFINE m == Put(mem, SCRATCH, << mem[DOC] >> \o ReadName)
           c == HostFunction("file_read", SCRATCH, 1 + Len(ReadName), READ_BUF, READ_MAX)
<1>5. READ_BUF \in Int /\ READ_MAX \in Int /\ Inside(READ_BUF, READ_MAX)
  <2>1. READ_BUF \in Nat /\ READ_MAX \in Nat /\ LIST_BUF \in Nat /\ LIST_MAX \in Nat /\ DOC \in Nat
    BY Numbers
  <2>2. Size \in Nat /\ DOC < Size /\ READ_BUF + READ_MAX <= LIST_BUF /\ LIST_BUF + LIST_MAX <= DOC
    BY <1>2, Layout
  <2> QED
    BY <2>1, <2>2 DEF Inside
<1>6. Arg(m, SCRATCH, 1 + Len(ReadName)) = DocPath(ReadName)
  BY <1>2, <1>3, PathMade
<1>7. Asked(c, m)
  <2>1. /\ c.fn = "file_read" /\ c.a = SCRATCH /\ c.al = 1 + Len(ReadName)
        /\ c.b = READ_BUF /\ c.bl = READ_MAX
    BY DEF HostFunction
  <2> HIDE DEF c, m
  <2> QED
    BY <1>3, <1>4, <1>6, <2>1 DEF Asked
<1> HIDE DEF m
<1>8. "file_read" \in {"file_read", "file_write"} /\ "file_read" # "file_write"
  OBVIOUS
<1> QED
  BY <1>1, <1>3, <1>5, <1>7, <1>8, PathCall DEF m

\* $save makes its call.
LEMMA SaveCallStep ==
    ASSUME EditorInv, SaveCall, ~(Newlines(Body) = {} \/ nl_pos = 0 \/ nl_pos > NAME_MAX)
    PROVE  EditorInv'
<1> DEFINE name == Bytes(mem, BODY_OFF, BODY_OFF + nl_pos)
           b == BODY_OFF + nl_pos + 1
           n == bl - (nl_pos + 1)
           m == Put(mem, SCRATCH, << mem[DOC] >> \o name)
           c == HostFunction("file_write", SCRATCH, 1 + Len(name), b, n)
<1>1. At /\ rv = NoValue /\ CallWithPath("file_write", name, b, n)
  BY DEF SaveCall
<1>2. HostInv /\ AreaInv /\ Handling
  BY <1>1 DEF EditorInv, At, Handling
<1>3. /\ Loaded /\ mem \in Memories /\ app.name = "editor"
      /\ bl \in Nat /\ bl = Len(req.body) /\ bl <= RECV_MAX
      /\ BODY_OFF \in Nat /\ BODY_OFF + bl <= SCRATCH /\ SCRATCH <= Size
      /\ Bytes(mem, BODY_OFF, BODY_OFF + bl) = req.body /\ req.body \in Seq(Cells)
  BY <1>2, BodyThere
<1>4. Newlines(req.body) # {} /\ nl_pos # 0 /\ ~(nl_pos > NAME_MAX)
  BY <1>2 DEF AreaInv
<1>5. /\ nl_pos \in 0..(bl - 1) /\ NameIn(req.body) = SubSeq(req.body, 1, nl_pos)
      /\ NameIn(req.body) \in Seq(Cells) /\ Len(NameIn(req.body)) = nl_pos
      /\ ContentIn(req.body) = SubSeq(req.body, nl_pos + 2, bl)
  BY <1>2, <1>4, SplitsBody
<1>6. NAME_MAX \in Nat /\ SCRATCH \in Nat /\ Size \in Nat /\ SEND_MAX \in Nat /\ RECV_MAX \in Nat /\ RECV_MAX <= SEND_MAX
  BY <1>3, Numbers, Layout
<1>7. name = NameIn(req.body)
  <2>1. BODY_OFF + bl <= Size /\ 1 \in 1..(bl + 1) /\ nl_pos \in (1 - 1)..bl /\ BODY_OFF + 1 - 1 = BODY_OFF
    BY <1>3, <1>5, <1>6
  <2>2. Bytes(mem, BODY_OFF + 1 - 1, BODY_OFF + nl_pos) = SubSeq(Bytes(mem, BODY_OFF, BODY_OFF + bl), 1, nl_pos)
    BY <1>3, <2>1, Within
  <2> QED
    BY <1>3, <1>5, <2>1, <2>2
<1>8. WellFormed(req.body)
  BY <1>4, <1>5, <1>6 DEF WellFormed
<1>9. req.path = << "save" >>
  BY <1>2, Route, RouteCells DEF SaveCall
<1> HIDE DEF name
<1>10. name \in Seq(Cells) /\ Len(name) <= NAME_MAX /\ Len(name) = nl_pos
  BY <1>4, <1>5, <1>6, <1>7
<1>11. /\ b \in Nat /\ n \in Nat /\ b + n = BODY_OFF + bl /\ b + n <= SCRATCH /\ b + n <= Size
       /\ 1 + Len(name) + n <= SEND_MAX
  <2>1. /\ bl \in Nat /\ bl <= RECV_MAX /\ BODY_OFF \in Nat /\ BODY_OFF + bl <= SCRATCH /\ SCRATCH <= Size
        /\ nl_pos \in 0..(bl - 1) /\ Len(name) = nl_pos
    BY <1>3, <1>5, <1>10
  <2>2. b \in Nat /\ n \in Nat /\ b + n = BODY_OFF + bl
    BY <2>1
  <2>3. 1 + Len(name) + n = bl
    BY <2>1
  <2> HIDE DEF b, n
  <2> QED
    BY <1>6, <2>1, <2>2, <2>3
<1>12. Inside(b, n)
  <2> HIDE DEF b, n
  <2> QED
    BY <1>11 DEF Inside
<1>13. /\ m \in Memories /\ Arg(m, SCRATCH, 1 + Len(name)) = DocPath(name)
       /\ DocPath(name) \in Seq(Cells) /\ m = Put(mem, SCRATCH, DocPath(name))
  BY <1>2, <1>10, PathMade
<1>14. Arg(m, b, n) = ContentIn(req.body)
  <2> DEFINE e == b + n
  <2>1. InBounds(b, e) /\ e \in Nat
    BY <1>11 DEF InBounds
  <2>2. Arg(m, b, n) = Bytes(m, b, e)
    <3> HIDE DEF b, n, m
    <3>1. ArgOK(b, n)
      BY <1>3, <1>11, <1>12, InsideFits
    <3> QED
      BY <1>3, <1>11, <1>12, <1>13, <3>1, ArgType
  <2>3. Bytes(m, b, e) = Bytes(mem, b, e)
    <3> HIDE DEF b, n, m, e
    <3>1. e <= SCRATCH
      BY <1>11 DEF e
    <3> QED
      BY <1>3, <1>6, <1>11, <1>13, <2>1, <3>1, PutApart
  <2>4. Bytes(mem, b, e) = SubSeq(req.body, nl_pos + 2, bl)
    <3> DEFINE i == nl_pos + 2
    <3>0. bl \in Nat /\ BODY_OFF \in Nat /\ nl_pos \in 0..(bl - 1) /\ Size \in Nat
      BY <1>3, <1>5, <1>6
    <3>1. /\ BODY_OFF + bl <= Size /\ i \in 1..(bl + 1) /\ bl \in (i - 1)..bl
          /\ BODY_OFF + i - 1 = b /\ BODY_OFF + bl = e
      <4>1. i \in 1..(bl + 1) /\ bl \in (i - 1)..bl /\ BODY_OFF + i - 1 = b
        BY <3>0
      <4> QED
        BY <1>11, <4>1
    <3> HIDE DEF i, b, e
    <3>2. Bytes(mem, BODY_OFF + i - 1, BODY_OFF + bl) = SubSeq(Bytes(mem, BODY_OFF, BODY_OFF + bl), i, bl)
      BY <1>3, <3>1, Within
    <3> QED
      BY <1>3, <3>1, <3>2 DEF i
  <2> HIDE DEF b, n, m, e
  <2> QED
    BY <1>5, <2>2, <2>3, <2>4
<1> HIDE DEF b, n, m
<1>15. Asked(c, m)
  <2>1. /\ c.fn = "file_write" /\ c.a = SCRATCH /\ c.al = 1 + Len(name)
        /\ c.b = b /\ c.bl = n
    BY DEF HostFunction
  <2> HIDE DEF c
  <2> QED
    BY <1>7, <1>8, <1>9, <1>13, <1>14, <2>1 DEF Asked
<1>16. "file_write" \in {"file_read", "file_write"} /\ b \in Int /\ n \in Int
  BY <1>11
<1> QED
  BY <1>1, <1>10, <1>11, <1>12, <1>15, <1>16, PathCall DEF m

\* $files makes its call.
LEMMA FilesCallStep ==
    ASSUME EditorInv, FilesCall
    PROVE  EditorInv'
<1> DEFINE c == HostFunction("file_list", DOC, 1, LIST_BUF, LIST_MAX)
<1>1. At /\ rv = NoValue /\ HostCall(c, mem) /\ UNCHANGED maybe
  BY DEF FilesCall
<1>2. HostInv /\ AreaInv /\ Handling /\ Loaded /\ app.name = "editor" /\ mem \in Memories
  BY <1>1 DEF EditorInv, HostInv, At, Handling
<1>3. /\ LIST_BUF \in Nat /\ LIST_MAX \in Nat /\ DOC \in Nat /\ Size \in Nat /\ DOC < Size
      /\ LIST_BUF + LIST_MAX <= DOC /\ 1 + NAME_MAX <= SEND_MAX /\ NAME_MAX \in Nat /\ SEND_MAX \in Nat
  BY <1>2, Numbers, Layout
<1>4. c \in HostCalls
  BY <1>3 DEF HostFunction, HostCalls
<1>5. c.fn = "file_list" /\ c.a = DOC /\ c.al = 1 /\ c.b = LIST_BUF /\ c.bl = LIST_MAX
  BY DEF HostFunction
<1> HIDE DEF c
<1>6. Inside(DOC, 1) /\ Inside(LIST_BUF, LIST_MAX)
  BY <1>3 DEF Inside
<1>7. Sound(c)
  <2>1. 1 + 0 <= SEND_MAX
    BY <1>3
  <2> QED
    BY <1>5, <1>6, <2>1 DEF Sound
<1>8. Arg(mem, DOC, 1) = << "doc" >>
  <2>1. 1 \in Int /\ DOC \in Int
    BY <1>3
  <2>2. ArgOK(DOC, 1)
    BY <1>2, <1>6, <2>1, InsideFits
  <2>3. Arg(mem, DOC, 1) = Bytes(mem, DOC, DOC + 1)
    BY <1>2, <1>6, <2>1, <2>2, ArgType
  <2>4. (DOC + 1) - DOC = 1 /\ DOC + 1 - 1 = DOC
    BY <1>3
  <2>5. mem[DOC] = "doc"
    BY <1>2 DEF AreaInv
  <2>6. Bytes(mem, DOC, DOC + 1) = [i \in 1..1 |-> mem[DOC + i - 1]]
    BY <2>4 DEF Bytes
  <2>7. [i \in 1..1 |-> mem[DOC + i - 1]] = << mem[DOC] >>
    BY <2>4
  <2> QED
    BY <2>3, <2>5, <2>6, <2>7
<1>9. req.path = << "files" >>
  BY <1>2, Route, RouteCells DEF FilesCall
<1>10. Asked(c, mem)
  BY <1>5, <1>8, <1>9 DEF Asked
<1>11. ASSUME mem' = mem PROVE AreaInv'
  <2>1. app' = app /\ req' = req
    BY <1>1 DEF HostCall
  <2>2. Path' = Path /\ Body' = Body /\ pl' = pl
    BY <1>11, <2>1 DEF Path, Body, pl, bl
  <2> QED
    BY <1>2, <1>11, <2>1, <2>2 DEF AreaInv
<1> QED
  BY <1>1, <1>2, <1>4, <1>7, <1>10, <1>11, CallStep

\* An answer: the module's own data is below it, and the client gets it whole.
LEMMA AnswerStep ==
    ASSUME EditorInv, At, NEW s \in Seq(Cells), Len(s) >= 1, Len(s) <= DOC, Answer(s)
    PROVE  /\ HostInv' /\ AreaInv' /\ CallInv' /\ ResultInv' /\ LinesInv'
           /\ pc' = "idle" /\ answer' = s /\ Learn(s)
           /\ UNCHANGED << app, req, files, undone, ret >>
           /\ \A p : Pending(p)' = {}
<1> DEFINE m == Put(mem, 0, s)
           n == Len(s)
<1>1. HostInv /\ AreaInv /\ Loaded /\ mem \in Memories /\ app.name = "editor" /\ pc = "guest"
  BY DEF EditorInv, HostInv, At
<1>2. Respond(m, 0, n) /\ Learn(answer')
  BY DEF Answer
<1>3. n \in Nat /\ n >= 1 /\ DOC \in Nat /\ Size \in Nat /\ Size < USIZE /\ USIZE \in Nat /\ DOC < Size /\ n <= DOC
  BY <1>1, Numbers, Layout, LenProperties
<1>4. m \in Memories
  <2>1. 0 \in Int
    OBVIOUS
  <2> QED
    BY <1>1, <2>1, PutInto, Zenon
<1> HIDE DEF m
<1>5. HostInv' /\ app' = app
  <2>1. 0 \in Int /\ n \in Int /\ 0 = 0
    BY <1>3
  <2> HIDE DEF n
  <2> QED
    BY <1>1, <1>2, <1>4, <2>1, RespondStep
<1>6. AsUsize(0) = 0 /\ Add(AsUsize(0), n) = n
  <2> HIDE DEF n
  <2>1. AsUsize(0) = 0
    BY <1>3, Usize
  <2>2. 0 \in Nat /\ 0 + n = n /\ 0 + n < USIZE
    BY <1>3
  <2>3. Add(0, n) = 0 + n
    BY <1>3, <2>2, NoWrap
  <2> QED
    BY <2>1, <2>2, <2>3
<1>7. pc' = "idle" /\ answer' = Bytes(m, 0, n) /\ mem' = m /\ UNCHANGED << req, files, undone, ret >>
  <2> HIDE DEF n
  <2>1. ~(n <= 0 \/ Add(AsUsize(0), n) > Size) /\ ~(AsUsize(0) > Add(AsUsize(0), n))
    BY <1>3, <1>6
  <2> QED
    BY <1>2, <1>6, <2>1 DEF Respond, service
<1>8. Bytes(m, 0, n) = s
  <2>1. 0 \in Nat /\ 0 + n = n /\ 0 + n <= Size
    BY <1>3
  <2>2. Bytes(m, 0, 0 + Len(s)) = s
    BY <1>1, <2>1, PutBytes DEF m
  <2> QED
    BY <2>1, <2>2
<1>9. AreaInv'
  <2>1. DOC \in Addresses /\ 0 + Len(s) <= DOC /\ 0 \in Int
    BY <1>3 DEF Addresses
  <2>2. m[DOC] = mem[DOC]
    BY <1>1, <2>1, PutApartCell DEF m
  <2> QED
    BY <1>1, <1>5, <1>7, <2>2 DEF AreaInv, Handling
<1>10. CallInv' /\ ResultInv' /\ LinesInv' /\ \A p : Pending(p)' = {}
  BY <1>7 DEF CallInv, ResultInv, LinesInv, Pending, Handling
<1> QED
  BY <1>2, <1>5, <1>7, <1>8, <1>9, <1>10

\* What is left to show of an answer.
LEMMA AnswerDone ==
    ASSUME EditorInv, At, NEW s \in Seq(Cells), Len(s) >= 1, Len(s) <= DOC, Answer(s),
           \A p \in Paths : files[p] \in maybe'[p],
           \A c \in undone : {c.data, Torn} \subseteq maybe'[c.path],
           req.path = << "files" >> => PlainNamesListed'
    PROVE  EditorInv'
<1>1. /\ HostInv' /\ AreaInv' /\ CallInv' /\ ResultInv' /\ LinesInv' /\ Learn(s)
      /\ UNCHANGED << app, req, files, undone, ret >>
  BY AnswerStep
<1>2. FilesInv'
  BY <1>1 DEF FilesInv
<1>3. MaybeInv'
  <2>1. DOMAIN maybe' = Paths
    BY <1>1 DEF Learn
  <2>2. \A p \in Paths : maybe'[p] # {}
    OBVIOUS
  <2> QED
    BY <2>1, <2>2 DEF MaybeInv, ReadsAreSaves
<1>4. PlainNamesListed'
  BY <1>1 DEF PlainNamesListed, ListingFits, ReadAsNames
<1> QED
  BY <1>1, <1>2, <1>3, <1>4 DEF EditorInv

\* An answer the client learns nothing from.
LEMMA NothingLearnt ==
    ASSUME EditorInv, At, NEW s \in Seq(Cells), Len(s) >= 1, Len(s) <= DOC, Answer(s),
           ~(req.path = << "save" >> /\ WellFormed(req.body)),
           req.path = << "read" >> => s[1] # "200",
           hc = NoValue \/ req.path # << "save" >>,
           req.path = << "files" >> => PlainNamesListed'
    PROVE  EditorInv'
<1>1. Learn(s) /\ app.name = "editor" /\ FilesInv /\ HostInv
  BY AnswerStep DEF EditorInv, At
<1>2. \A p : Pending(p) = {}
  BY DEF Pending
<1>3. \A p \in Paths : maybe'[p] = maybe[p]
  BY <1>1 DEF Learn
<1>4. \A p \in Paths : files[p] \in maybe'[p]
  BY <1>1, <1>2, <1>3 DEF FilesInv
<1>5. \A c \in undone : {c.data, Torn} \subseteq maybe'[c.path]
  <2>1. \A c \in undone : c.path \in Paths
    BY <1>1 DEF HostInv
  <2> QED
    BY <1>1, <1>2, <1>3, <2>1 DEF FilesInv
<1> QED
  BY <1>4, <1>5, AnswerDone

\* The answers of one cell.
LEMMA ShortAnswers ==
    ASSUME Loaded, app.name = "editor", NEW c \in {"200", "400", "404"}
    PROVE  /\ << c >> \in Seq(Cells) /\ Len(<< c >>) >= 1 /\ Len(<< c >>) <= DOC /\ << c >>[1] = c
           /\ << c >> = << "200" >> => c = "200"
<1>1. c \in Cells
  BY DEF Cells
<1>2. 1 <= DOC
  <2>1. DOC \in Nat /\ LIST_MAX \in Nat /\ 3 * LIST_MAX + 4 <= DOC
    BY Numbers, Layout
  <2> QED
    BY <2>1
<1> QED
  BY <1>1, <1>2

\* A request that is answered at once has made no call.
LEMMA NoCallYet ==
    ASSUME EditorInv, At, rv = NoValue
    PROVE  hc = NoValue
  BY WasmConstants DEF EditorInv, HostInv, At, Back

LEMMA NotFoundStep ==
    ASSUME EditorInv, NotFound
    PROVE  EditorInv'
<1>1. At /\ rv = NoValue /\ Answer(<< "404" >>)
  BY DEF NotFound
<1>2. HostInv /\ AreaInv /\ Handling /\ Loaded /\ app.name = "editor"
  BY <1>1 DEF EditorInv, HostInv, At, Handling
<1>3. req.path # << "read" >> /\ req.path # << "save" >> /\ req.path # << "files" >>
  BY <1>2, Route, RouteCells DEF NotFound
<1>4. << "404" >> \in Seq(Cells) /\ Len(<< "404" >>) >= 1 /\ Len(<< "404" >>) <= DOC
  BY <1>2, ShortAnswers
<1> QED
  BY <1>1, <1>3, <1>4, NothingLearnt

\* $read without a name.
LEMMA ReadRefused ==
    ASSUME EditorInv, ReadCall, ReadName = << >>
    PROVE  EditorInv'
<1>1. At /\ rv = NoValue /\ Answer(<< "400" >>)
  BY DEF ReadCall
<1>2. HostInv /\ AreaInv /\ Handling /\ Loaded /\ app.name = "editor"
  BY <1>1 DEF EditorInv, HostInv, At, Handling
<1>3. req.path = << "read" >> /\ req.path # << "save" >> /\ req.path # << "files" >>
  <2>1. req.path = << "read" >>
    BY <1>2, Route, RouteCells DEF ReadCall
  <2> QED
    BY <2>1
<1>4. << "400" >> \in Seq(Cells) /\ Len(<< "400" >>) >= 1 /\ Len(<< "400" >>) <= DOC /\ << "400" >>[1] # "200"
  BY <1>2, ShortAnswers
<1> QED
  BY <1>1, <1>3, <1>4, NothingLearnt

\* $save without a name or with one that is too long.
LEMMA SaveRefused ==
    ASSUME EditorInv, SaveCall, Newlines(Body) = {} \/ nl_pos = 0 \/ nl_pos > NAME_MAX
    PROVE  EditorInv'
<1>1. At /\ rv = NoValue /\ Answer(<< "400" >>)
  BY DEF SaveCall
<1>2. HostInv /\ AreaInv /\ Handling /\ Loaded /\ app.name = "editor"
  BY <1>1 DEF EditorInv, HostInv, At, Handling
<1>3. req.path = << "save" >> /\ req.path # << "read" >> /\ req.path # << "files" >>
  <2>1. req.path = << "save" >>
    BY <1>2, Route, RouteCells DEF SaveCall
  <2> QED
    BY <2>1
<1>4. << "400" >> \in Seq(Cells) /\ Len(<< "400" >>) >= 1 /\ Len(<< "400" >>) <= DOC
  BY <1>2, ShortAnswers
<1>5. hc = NoValue
  BY <1>1, NoCallYet
<1>6. ~WellFormed(req.body)
  <2>1. Body = req.body
    BY <1>2 DEF AreaInv
  <2>2. ASSUME Newlines(req.body) # {} PROVE ~(Len(NameIn(req.body)) \in 1..NAME_MAX)
    <3>1. Len(NameIn(req.body)) = nl_pos /\ nl_pos \in 0..(bl - 1) /\ bl \in Nat /\ NAME_MAX \in Nat
      BY <1>2, <2>2, SplitsBody, BodyThere, Numbers
    <3>2. nl_pos = 0 \/ nl_pos > NAME_MAX
      BY <2>1, <2>2
    <3> QED
      BY <3>1, <3>2
  <2> QED
    BY <2>2 DEF WellFormed
<1> QED
  BY <1>1, <1>3, <1>4, <1>5, <1>6, NothingLearnt

\* The answer to a save: confirmed only when it is the file.
LEMMA SaveAnswerStep ==
    ASSUME EditorInv, SaveAnswer
    PROVE  EditorInv'
<1>1. At /\ rv # NoValue /\ Answer(IF rv < 0 THEN << "400" >> ELSE << "200" >>)
  BY DEF SaveAnswer
<1>2. /\ HostInv /\ AreaInv /\ Handling /\ Loaded /\ app.name = "editor" /\ pc = "guest"
      /\ CallInv /\ FilesInv /\ ResultInv
  BY <1>1 DEF EditorInv, HostInv, At, Handling
<1>3. hc # NoValue /\ rv \in Int
  BY <1>1, <1>2 DEF HostInv, Back
<1>4. req.path = << "save" >>
  BY <1>2, Route, RouteCells DEF SaveAnswer
<1>5. Saving /\ WellFormed(req.body) /\ req.path # << "read" >> /\ req.path # << "files" >>
  <2>1. << "save" >> # << "read" >> /\ << "save" >> # << "files" >>
    OBVIOUS
  <2> QED
    BY <1>2, <1>3, <1>4, <2>1 DEF CallInv, Showing, Listing, Saving
<1> DEFINE q == DocPath(NameIn(req.body))
<1>6. /\ Pending(q) = {ContentIn(req.body), Torn}
      /\ \A p : p # q => Pending(p) = {}
  BY <1>2, <1>3, <1>4 DEF Pending
<1>7. \A c \in undone : c.path \in Paths
  BY <1>2 DEF HostInv
<1>8. CASE rv < 0
  <2> DEFINE s == << "400" >>
  <2>1. s \in Seq(Cells) /\ Len(s) >= 1 /\ Len(s) <= DOC /\ s # << "200" >>
    BY <1>2, ShortAnswers
  <2>2. Answer(s)
    BY <1>1, <1>8
  <2> HIDE DEF s
  <2>3. Learn(s)
    BY <1>1, <2>1, <2>2, AnswerStep
  <2>4. /\ q \in Paths => maybe'[q] = maybe[q] \cup {ContentIn(req.body), Torn}
        /\ \A p \in Paths : p # q => maybe'[p] = maybe[p]
    BY <1>4, <1>5, <2>1, <2>3 DEF Learn
  <2> HIDE DEF q
  <2>5. \A p \in Paths : maybe'[p] = maybe[p] \cup Pending(p)
    BY <1>6, <2>4
  <2>6. /\ \A p \in Paths : files[p] \in maybe'[p]
        /\ \A c \in undone : {c.data, Torn} \subseteq maybe'[c.path]
    BY <1>2, <1>7, <2>5 DEF FilesInv
  <2> QED
    BY <1>1, <1>5, <2>1, <2>2, <2>6, AnswerDone
<1>9. CASE ~(rv < 0)
  <2> DEFINE s == << "200" >>
  <2>1. s \in Seq(Cells) /\ Len(s) >= 1 /\ Len(s) <= DOC
    BY <1>2, ShortAnswers
  <2>2. Answer(s)
    BY <1>1, <1>9
  <2>3. Learn(s)
    <3> HIDE DEF s
    <3> QED
      BY <1>1, <2>1, <2>2, AnswerStep
  <2>4. q \in Paths /\ undone = {} /\ files[q] = ContentIn(req.body)
    BY <1>2, <1>3, <1>5, <1>9 DEF ResultInv
  <2>5. /\ maybe'[q] = {ContentIn(req.body)}
        /\ \A p \in Paths : p # q => maybe'[p] = maybe[p]
    BY <1>4, <1>5, <2>3, <2>4 DEF Learn
  <2> HIDE DEF q, s
  <2>6. \A p \in Paths : files[p] \in maybe'[p]
    BY <1>2, <1>6, <2>4, <2>5 DEF FilesInv
  <2> QED
    BY <1>1, <1>5, <2>1, <2>2, <2>4, <2>6, AnswerDone
<1> QED
  BY <1>8, <1>9

\* The answer to a read: what the host delivered of the file.
LEMMA ReadAnswerStep ==
    ASSUME EditorInv, ReadAnswer
    PROVE  EditorInv'
<1> DEFINE part == Bytes(mem, READ_BUF, READ_BUF + rv)
<1>1. At /\ rv # NoValue /\ Answer(IF rv < 0 THEN << "404" >> ELSE << "200" >> \o part)
  BY DEF ReadAnswer, ReadLen
<1>2. /\ HostInv /\ AreaInv /\ Handling /\ Loaded /\ app.name = "editor" /\ pc = "guest"
      /\ CallInv /\ FilesInv /\ ResultInv /\ mem \in Memories
  BY <1>1 DEF EditorInv, HostInv, At, Handling
<1>3. hc # NoValue /\ rv \in Int /\ (rv = -1 \/ rv <= AsUsize(hc.bl))
  BY <1>1, <1>2 DEF HostInv, Back
<1>4. req.path = << "read" >>
  BY <1>2, Route, RouteCells DEF ReadAnswer
<1>5. Showing /\ hc.bl = READ_MAX /\ req.path # << "save" >> /\ req.path # << "files" >>
  <2>1. << "read" >> # << "save" >> /\ << "read" >> # << "files" >>
    OBVIOUS
  <2> QED
    BY <1>2, <1>3, <1>4, <2>1 DEF CallInv, Showing, Listing, Saving
<1>6. CASE rv < 0
  <2>1. /\ << "404" >> \in Seq(Cells) /\ Len(<< "404" >>) >= 1 /\ Len(<< "404" >>) <= DOC
        /\ << "404" >>[1] # "200"
    BY <1>2, ShortAnswers
  <2>2. Answer(<< "404" >>)
    BY <1>1, <1>6
  <2> QED
    BY <1>1, <1>5, <2>1, <2>2, NothingLearnt
<1>7. CASE ~(rv < 0)
  <2> DEFINE q == DocPath(ReadNameIn(req.body))
             s == << "200" >> \o part
  <2>1. /\ READ_BUF \in Nat /\ READ_MAX \in Nat /\ LIST_BUF \in Nat /\ LIST_MAX \in Nat /\ DOC \in Nat
        /\ SCRATCH \in Nat /\ NAME_MAX \in Nat /\ Size \in Nat /\ Size < USIZE /\ USIZE \in Nat /\ DOC < Size
        /\ SCRATCH + 1 + NAME_MAX <= READ_BUF
        /\ READ_BUF + READ_MAX <= LIST_BUF /\ LIST_BUF + LIST_MAX <= DOC
    BY <1>2, Numbers, Layout
  <2>2. rv \in Nat /\ rv <= READ_MAX
    <3>1. AsUsize(READ_MAX) = READ_MAX
      BY <2>1, Usize
    <3> QED
      BY <1>3, <1>5, <1>7, <3>1
  <2>3. part \in Seq(Cells) /\ Len(part) = rv
    <3> DEFINE e == READ_BUF + rv
    <3>1. e \in Nat /\ InBounds(READ_BUF, e) /\ e - READ_BUF = rv
      BY <2>1, <2>2 DEF InBounds
    <3>2. part = Bytes(mem, READ_BUF, e)
      OBVIOUS
    <3> HIDE DEF e, part
    <3> QED
      BY <1>2, <2>1, <3>1, <3>2, BytesOf
  <2> HIDE DEF part
  <2>4. << "200" >> \in Seq(Cells) /\ Len(<< "200" >>) = 1 /\ << "200" >>[1] = "200"
    <3>1. "200" \in Cells
      BY DEF Cells
    <3> QED
      BY <3>1, OneCell
  <2>5. s \in Seq(Cells) /\ Len(s) = 1 + rv /\ s[1] = "200"
    BY <2>2, <2>3, <2>4, ConcatProperties
  <2>6. Len(s) >= 1 /\ Len(s) <= DOC
    <3> HIDE DEF s
    <3> QED
      BY <2>1, <2>2, <2>5
  <2>7. Answer(s)
    BY <1>1, <1>7
  <2>8. q \in Paths /\ undone = {} /\ files[q] # Absent /\ part = Cut(files[q])
    <3>1. rv >= 0
      BY <2>2
    <3> QED
      BY <1>2, <1>3, <1>5, <3>1 DEF ResultInv, part
  <2>9. s = << "200" >> \o Cut(files[q])
    BY <2>8
  <2>10. s # NoValue
    BY <2>5, WasmConstants
  <2> HIDE DEF s
  <2>11. Learn(s)
    BY <1>1, <2>5, <2>6, <2>7, AnswerStep
  <2>12. /\ maybe'[q] = {c \in maybe[q] \ {Absent} : s = << "200" >> \o Cut(c)}
         /\ \A p \in Paths : p # q => maybe'[p] = maybe[p]
    BY <1>4, <1>5, <2>5, <2>8, <2>10, <2>11 DEF Learn, ReadNameIn
  <2>13. \A p \in Paths : files[p] \in maybe[p]
    BY <1>2, <1>5 DEF FilesInv, Pending
  <2> HIDE DEF q
  <2>14. files[q] \in maybe'[q]
    BY <2>8, <2>9, <2>12, <2>13
  <2>15. \A p \in Paths : files[p] \in maybe'[p]
    BY <2>12, <2>13, <2>14
  <2> QED
    BY <1>1, <1>5, <2>5, <2>6, <2>7, <2>8, <2>15, AnswerDone
<1> QED
  BY <1>6, <1>7

\* What the host delivers goes to a buffer behind the request.
LEMMA DeliveredBehind ==
    ASSUME HostInv, AreaInv, Handling, app' = app, req' = req,
           NEW out \in Nat, NEW max \in Nat, BODY_OFF + BODY_MAX <= out, out + max <= DOC,
           NEW result \in Seq(Cells), Deliver(mem, out, max, result)
    PROVE  /\ AreaInv' /\ pc' = "guest" /\ rv' \in Nat
           /\ rv' = Least(Len(result), max)
           /\ Bytes(mem', out, out + rv') = SubSeq(result, 1, rv')
<1>1. Loaded /\ mem \in Memories /\ app.name = "editor" /\ Len(result) \in Nat
  BY BodyThere, LenProperties
<1>2. Size \in Nat /\ DOC < Size /\ DOC \in Nat
  BY <1>1, Layout, Numbers
<1>3. Inside(out, max) /\ out \in Int /\ max \in Int
  BY <1>2 DEF Inside
<1>4. pc' = "guest" /\ rv' = Least(Len(result), max) /\ mem' = Put(mem, out, SubSeq(result, 1, rv'))
  BY <1>1, <1>3, Delivery
<1>5. rv' \in 0..Len(result) /\ rv' <= max
  BY <1>1, <1>4 DEF Least
<1> DEFINE part == SubSeq(result, 1, rv')
<1>6. part \in Seq(Cells) /\ Len(part) = rv'
  BY <1>5, Prefix
<1> HIDE DEF part
<1>7. mem' = Put(mem, out, part) /\ out + Len(part) <= DOC /\ out + Len(part) <= Size
  BY <1>2, <1>4, <1>5, <1>6 DEF part
<1>8. AreaInv'
  BY <1>6, <1>7, AreasKept
<1>9. Bytes(Put(mem, out, part), out, out + Len(part)) = part
  BY <1>1, <1>6, <1>7, PutBytes
<1> QED
  BY <1>4, <1>5, <1>6, <1>7, <1>8, <1>9 DEF part

\* A file call of the editor returns.
LEMMA EditorReturn ==
    ASSUME EditorInv, HostReturn, UNCHANGED maybe, app.name = "editor"
    PROVE  EditorInv'
<1>1. HostInv /\ AreaInv /\ CallInv /\ FilesInv /\ MaybeInv
  BY DEF EditorInv
<1>2. /\ HostInv' /\ UNCHANGED << app, req, hc, files, answer >> /\ pc = "host"
      /\ \/ ~ret'.ok /\ pc' = "guest" /\ rv' = -1 /\ UNCHANGED mem /\ undone' \subseteq undone
         \/ /\ ret'.ok /\ undone = {} /\ undone' = {}
            /\ \/ /\ hc.fn = "file_write" /\ pc' = "guest" /\ rv' = 0 /\ UNCHANGED mem
                  /\ files[call.path] = call.data
               \/ /\ hc.fn = "file_read" /\ files[call.path] \in Seq(Cells)
                  /\ Deliver(mem, hc.b, hc.bl, files[call.path])
               \/ /\ hc.fn = "file_list" /\ ret'.names \subseteq Paths
                  /\ \E l \in Listings(ret'.names) :
                        l \in Seq(Cells) /\ Deliver(mem, hc.b, hc.bl, l)
  BY <1>1, ReturnStep
<1>3. pc' = "guest"
  <2>1. pc' = "guest" \/ pc' = "panic"
    BY <1>1, ReturnStep
  <2> QED
    BY <1>2, <2>1 DEF HostInv, PanicOnlyOutside
<1>4. Handling /\ Handling' /\ hc # NoValue /\ Known(call.op, call.path) /\ call.op = Op(hc.fn)
  BY <1>1, <1>2, <1>3, WasmConstants DEF HostInv, Calling, Handling
<1>5. Showing \/ Saving \/ Listing
  BY <1>1, <1>4 DEF CallInv
<1>6. (Showing' <=> req.path = << "read" >> /\ hc.fn = "file_read" /\ hc.b = READ_BUF /\ hc.bl = READ_MAX)
  BY <1>2, <1>3 DEF Showing
<1>7. (Saving' <=> req.path = << "save" >> /\ hc.fn = "file_write" /\ WellFormed(req.body))
  BY <1>2, <1>3 DEF Saving
<1>8. Listing' <=> Listing
  BY <1>2 DEF Listing
<1>9. CallInv'
  BY <1>5, <1>6, <1>7, <1>8 DEF CallInv, Showing, Saving
<1>10. FilesInv'
  <2>1. \A p : Pending(p)' = Pending(p)
    BY <1>2, <1>4 DEF Pending
  <2>2. undone' \subseteq undone
    BY <1>2
  <2> QED
    BY <1>1, <1>2, <2>1, <2>2 DEF FilesInv
<1>11. MaybeInv' /\ PlainNamesListed'
  BY <1>1, <1>3 DEF MaybeInv, ReadsAreSaves, PlainNamesListed, ListingFits, ReadAsNames
<1>12. /\ BODY_OFF + BODY_MAX <= READ_BUF /\ READ_BUF + READ_MAX <= DOC
       /\ BODY_OFF + BODY_MAX <= LIST_BUF /\ LIST_BUF + LIST_MAX <= DOC
       /\ READ_BUF \in Nat /\ READ_MAX \in Nat /\ LIST_BUF \in Nat /\ LIST_MAX \in Nat
  <2>1. /\ READ_BUF \in Nat /\ READ_MAX \in Nat /\ LIST_BUF \in Nat /\ LIST_MAX \in Nat /\ DOC \in Nat
        /\ SCRATCH \in Nat /\ NAME_MAX \in Nat /\ BODY_OFF \in Nat /\ BODY_MAX \in Nat
    BY Numbers
  <2>2. /\ BODY_OFF + BODY_MAX <= SCRATCH /\ SCRATCH + 1 + NAME_MAX <= READ_BUF
        /\ READ_BUF + READ_MAX <= LIST_BUF /\ LIST_BUF + LIST_MAX <= DOC
    BY <1>1, Layout DEF HostInv
  <2> QED
    BY <2>1, <2>2
<1>13. ASSUME UNCHANGED mem PROVE AreaInv'
  <2>1. Path' = Path /\ Body' = Body /\ pl' = pl
    BY <1>2, <1>13 DEF Path, Body, pl, bl
  <2> QED
    BY <1>1, <1>2, <1>4, <1>13, <2>1 DEF AreaInv
<1>14. AreaInv' /\ ResultInv' /\ LinesInv'
  <2>1. CASE ~ret'.ok /\ rv' = -1 /\ UNCHANGED mem
    <3>1. ~(rv' >= 0)
      BY <2>1
    <3> QED
      BY <1>13, <2>1, <3>1 DEF ResultInv, LinesInv
  <2>2. CASE hc.fn = "file_write" /\ rv' = 0 /\ UNCHANGED mem /\ undone' = {} /\ files[call.path] = call.data
    <3>1. call.path = DocPath(NameIn(req.body)) /\ call.data = ContentIn(req.body)
      BY <1>2, <1>5, <2>2 DEF Showing, Saving, Listing
    <3>2. call.path \in Paths
      BY <1>4, <2>2 DEF Known, Op
    <3>3. ~Showing' /\ ~Listing'
      BY <1>6, <1>8, <2>2 DEF Listing
    <3> QED
      BY <1>2, <1>13, <2>2, <3>1, <3>2, <3>3 DEF ResultInv, LinesInv
  <2>3. CASE /\ hc.fn = "file_read" /\ files[call.path] \in Seq(Cells) /\ undone' = {}
             /\ Deliver(mem, hc.b, hc.bl, files[call.path])
    <3> DEFINE q == DocPath(ReadNameIn(req.body))
    <3>1. call.path = q /\ hc.b = READ_BUF /\ hc.bl = READ_MAX
      BY <1>2, <1>5, <2>3 DEF Showing, Saving, Listing
    <3>2. call.path \in Paths
      BY <1>4, <2>3 DEF Known, Op
    <3>3. ~Saving' /\ ~Listing'
      BY <1>7, <1>8, <2>3 DEF Listing
    <3>4. /\ AreaInv' /\ rv' = Least(Len(files[q]), READ_MAX)
          /\ Bytes(mem', READ_BUF, READ_BUF + rv') = SubSeq(files[q], 1, rv')
      BY <1>1, <1>2, <1>4, <1>12, <2>3, <3>1, DeliveredBehind
    <3>5. SubSeq(files[q], 1, rv') = Cut(files[q])
      BY <3>4 DEF Cut
    <3>6. files[q] # Absent
      BY <2>3, <3>1, WasmConstants
    <3>7. q \in Paths /\ undone' = {} /\ files'[q] # Absent
          /\ Bytes(mem', READ_BUF, READ_BUF + rv') = Cut(files'[q])
      BY <1>2, <2>3, <3>1, <3>2, <3>4, <3>5, <3>6
    <3>8. DocPath(ReadNameIn(req'.body)) = q
      BY <1>2
    <3> HIDE DEF q
    <3> QED
      BY <3>3, <3>4, <3>7, <3>8 DEF ResultInv, LinesInv, Cut, Least
  <2>4. CASE /\ hc.fn = "file_list" /\ ret'.names \subseteq Paths
             /\ \E l \in Listings(ret'.names) : l \in Seq(Cells) /\ Deliver(mem, hc.b, hc.bl, l)
    <3>1. hc.b = LIST_BUF /\ hc.bl = LIST_MAX
      BY <1>5, <2>4 DEF Showing, Saving, Listing
    <3>2. ~Saving' /\ ~Showing'
      BY <1>6, <1>7, <2>4
    <3>3. PICK s \in SetToSeqs({Tail(p) : p \in ret'.names}) :
             Lines(s) \in Seq(Cells) /\ Deliver(mem, LIST_BUF, LIST_MAX, Lines(s))
      BY <2>4, <3>1 DEF Listings
    <3>4. /\ AreaInv' /\ rv' = Least(Len(Lines(s)), LIST_MAX)
          /\ Bytes(mem', LIST_BUF, LIST_BUF + rv') = SubSeq(Lines(s), 1, rv')
      BY <1>1, <1>2, <1>4, <1>12, <3>3, DeliveredBehind
    <3> QED
      BY <2>4, <3>2, <3>3, <3>4 DEF ResultInv, LinesInv, Lines, Least
  <2> QED
    BY <1>2, <2>1, <2>2, <2>3, <2>4
<1> QED
  BY <1>2, <1>9, <1>10, <1>11, <1>14 DEF EditorInv

\* The next request is handed over.
LEMMA EditorRequest ==
    ASSUME EditorInv, Request, UNCHANGED maybe
    PROVE  EditorInv'
<1> DEFINE p == SubSeq(req'.path, 1, Least(Len(req'.path), PATH_MAX))
           b == SubSeq(req'.body, 1, Least(Len(req'.body), BODY_MAX))
<1>1. HostInv /\ AreaInv /\ FilesInv /\ MaybeInv /\ Loaded /\ mem \in Memories
  BY DEF EditorInv, HostInv
<1>2. /\ HostInv' /\ app' = app /\ hc' = NoValue /\ pc = "idle" /\ pc' # "idle"
      /\ UNCHANGED << files, call, undone, ret >>
      /\ pc' = "guest" => mem' = Put(Put(Put(mem, METHOD_OFF, Method), PATH_OFF, p), BODY_OFF, b)
  BY <1>1, RequestStep
<1>3. pc' = "guest" \/ pc' = "panic"
  BY <1>2 DEF Request, HandleRequest
<1>4. CallInv' /\ ResultInv' /\ LinesInv' /\ PlainNamesListed' /\ MaybeInv'
  BY <1>1, <1>2 DEF CallInv, ResultInv, LinesInv, PlainNamesListed, ListingFits, ReadAsNames, MaybeInv, ReadsAreSaves
<1>5. FilesInv'
  <2>1. \A q : Pending(q) = {} /\ Pending(q)' = {}
    BY <1>2 DEF Pending, Handling
  <2> QED
    BY <1>1, <1>2, <2>1 DEF FilesInv
<1>6. ASSUME app.name = "editor" PROVE AreaInv'
  <2>1. pc' = "guest"
    BY <1>2, <1>3, <1>6 DEF HostInv, PanicOnlyOutside
  <2>2. /\ req'.path \in Seq(Cells) /\ req'.body \in Seq(Cells) /\ Len(req'.body) <= RECV_MAX
        /\ Len(req'.path) \in Nat /\ Len(req'.body) \in Nat
    BY <1>2, LenProperties DEF HostInv
  <2>3. /\ PATH_MAX \in Nat /\ BODY_MAX \in Nat /\ RECV_MAX \in Nat /\ RECV_MAX <= BODY_MAX
        /\ METHOD_OFF \in Nat /\ PATH_OFF \in Nat /\ BODY_OFF \in Nat /\ DOC \in Nat
        /\ METHOD_OFF + 2 <= BODY_OFF /\ PATH_OFF + PATH_MAX = BODY_OFF /\ SCRATCH \in Nat
        /\ BODY_OFF + BODY_MAX <= DOC /\ Size \in Nat /\ DOC < Size
    <3>1. BODY_OFF + BODY_MAX <= DOC
      BY EditorConstants, Numbers
    <3> QED
      BY <1>1, <1>6, <3>1, Numbers, Layout
  <2>4. /\ Least(Len(req'.path), PATH_MAX) \in 0..Len(req'.path) /\ Least(Len(req'.path), PATH_MAX) <= PATH_MAX
        /\ Least(Len(req'.body), BODY_MAX) = Len(req'.body)
    BY <2>2, <2>3 DEF Least
  <2>5. p \in Seq(Cells) /\ Len(p) \in Nat /\ Len(p) <= PATH_MAX /\ Len(p) = Least(Len(req'.path), PATH_MAX)
    BY <2>2, <2>4, Prefix
  <2>6. b = req'.body
    BY <2>2, <2>4, Whole
  <2>7. Method \in Seq(Cells) /\ Len(Method) <= 1 /\ Len(Method) \in Nat
    <3>1. "m" \in Cells
      BY DEF Cells
    <3>2. \A c \in Cells : << c >> \in Seq(Cells) /\ Len(<< c >>) <= 1 /\ Len(<< c >>) \in Nat
      OBVIOUS
    <3> QED
      BY <3>1, <3>2 DEF Method
  <2> HIDE DEF p, b
  <2> DEFINE m1 == Put(mem, METHOD_OFF, Method)
             m2 == Put(m1, PATH_OFF, p)
  <2>8. METHOD_OFF \in Int /\ PATH_OFF \in Int /\ BODY_OFF \in Int
    BY <2>3
  <2>9. m1 \in Memories
    BY <1>1, <2>7, <2>8, PutInto
  <2>10. m2 \in Memories
    <3> HIDE DEF m1
    <3> QED
      BY <2>5, <2>9, <2>8, PutInto
  <2>11. mem' = Put(m2, BODY_OFF, b)
    BY <1>2, <2>1
  <2>12. Len(b) \in Nat /\ b \in Seq(Cells) /\ Len(b) <= BODY_MAX
    BY <2>2, <2>3, <2>6
  <2>13. mem'[DOC] = "doc"
    <3>1. DOC \in Addresses /\ METHOD_OFF + Len(Method) <= DOC
      BY <2>3, <2>7 DEF Addresses
    <3>2. m1[DOC] = mem[DOC]
      BY <1>1, <2>7, <2>8, <3>1, PutApartCell
    <3>3. PATH_OFF + Len(p) <= DOC /\ BODY_OFF + Len(b) <= DOC
      BY <2>3, <2>5, <2>12
    <3>4. m2[DOC] = m1[DOC]
      <4> HIDE DEF m1
      <4> QED
        BY <2>5, <2>9, <2>8, <3>1, <3>3, PutApartCell
    <3> HIDE DEF m1, m2
    <3>5. mem'[DOC] = m2[DOC]
      BY <2>10, <2>11, <2>12, <2>8, <3>1, <3>3, PutApartCell
    <3> QED
      BY <1>1, <1>6, <3>2, <3>4, <3>5 DEF AreaInv
  <2>14. Path' = SubSeq(req'.path, 1, pl')
    <3> DEFINE e == PATH_OFF + Len(p)
    <3>1. e \in Nat /\ InBounds(PATH_OFF, e) /\ e <= BODY_OFF /\ e <= Size
      BY <2>3, <2>5 DEF InBounds
    <3>2. Bytes(m2, PATH_OFF, e) = p
      <4> HIDE DEF m1
      <4> QED
        BY <1>1, <2>3, <2>5, <2>9, <3>1, PutBytes
    <3> HIDE DEF m1, m2, e
    <3>3. Bytes(mem', PATH_OFF, e) = Bytes(m2, PATH_OFF, e)
      BY <1>1, <2>3, <2>10, <2>11, <2>12, <3>1, PutApart
    <3>4. pl' = Len(p) /\ p = SubSeq(req'.path, 1, pl')
      BY <2>5 DEF pl, p, Least
    <3> QED
      BY <3>2, <3>3, <3>4 DEF Path, e
  <2>15. Body' = req'.body
    <3>1. bl' = Len(b)
      BY <2>4, <2>6 DEF bl, Least
    <3>2. BODY_OFF + Len(b) <= Size
      BY <2>3, <2>12
    <3> HIDE DEF m1, m2
    <3>3. Bytes(mem', BODY_OFF, BODY_OFF + Len(b)) = b
      BY <1>1, <2>3, <2>10, <2>11, <2>12, <3>2, PutBytes
    <3> QED
      BY <2>6, <3>1, <3>3 DEF Body
  <2> QED
    BY <2>13, <2>14, <2>15 DEF AreaInv
<1>7. AreaInv'
  BY <1>2, <1>6 DEF AreaInv, Handling
<1> QED
  BY <1>2, <1>4, <1>5, <1>7 DEF EditorInv

\* A write that was given up is carried out.
LEMMA EditorLate ==
    ASSUME EditorInv, HostLate, UNCHANGED maybe
    PROVE  EditorInv'
<1>1. HostInv /\ AreaInv /\ CallInv /\ FilesInv /\ ResultInv /\ LinesInv /\ MaybeInv /\ PlainNamesListed
  BY DEF EditorInv
<1>2. HostInv' /\ UNCHANGED << host, call, ret >> /\ undone' \subseteq undone
  BY <1>1, LateStep
<1>3. PICK c \in undone : \/ files' = files
                          \/ files' = [files EXCEPT ![c.path] = c.data]
                          \/ files' = [files EXCEPT ![c.path] = Torn]
  BY <1>1, LateStep
<1>4. UNCHANGED << app, mem, pc, req, hc, rv, answer, call, ret >>
  BY <1>2 DEF host
<1>5. /\ Showing' <=> Showing
      /\ Saving' <=> Saving
      /\ Listing' <=> Listing
      /\ \A p : Pending(p)' = Pending(p)
      /\ Path' = Path /\ Body' = Body /\ pl' = pl
  <2>1. Path' = Path /\ Body' = Body /\ pl' = pl
    BY <1>4 DEF Path, Body, pl, bl
  <2>2. (Showing' <=> Showing) /\ (Saving' <=> Saving) /\ (Listing' <=> Listing)
    BY <1>4 DEF Showing, Saving, Listing
  <2> QED
    BY <1>4, <2>1, <2>2 DEF Pending, Handling
<1>6. AreaInv' /\ CallInv' /\ MaybeInv'
  BY <1>1, <1>4, <1>5 DEF AreaInv, CallInv, MaybeInv, ReadsAreSaves, Handling
<1>7. LinesInv' /\ PlainNamesListed'
  BY <1>1, <1>4, <1>5 DEF LinesInv, PlainNamesListed, ListingFits, ReadAsNames
<1>8. ResultInv'
  BY <1>1, <1>4, <1>5 DEF ResultInv
<1>9. FilesInv'
  <2>1. c.path \in Paths /\ files \in [Paths -> Contents]
    BY <1>1 DEF HostInv
  <2>2. \A p \in Paths : files'[p] = files[p] \/ (p = c.path /\ (files'[p] = c.data \/ files'[p] = Torn))
    BY <1>3, <2>1
  <2>3. ASSUME app.name = "editor"
        PROVE  /\ \A p \in Paths : files[p] \in maybe[p] \cup Pending(p)
               /\ \A d \in undone : {d.data, Torn} \subseteq maybe[d.path] \cup Pending(d.path)
    BY <1>1, <2>3 DEF FilesInv
  <2>4. ASSUME app.name = "editor", NEW p \in Paths
        PROVE  files'[p] \in maybe'[p] \cup Pending(p)'
    BY <1>5, <2>2, <2>3, <2>4
  <2>5. ASSUME app.name = "editor", NEW d \in undone'
        PROVE  {d.data, Torn} \subseteq maybe'[d.path] \cup Pending(d.path)'
    BY <1>2, <1>5, <2>3, <2>5
  <2> QED
    BY <1>4, <2>4, <2>5 DEF FilesInv
<1> QED
  BY <1>2, <1>6, <1>7, <1>8, <1>9 DEF EditorInv

\* Another module is loaded: nothing is said of the editor.
LEMMA OtherModule ==
    ASSUME EditorInv, HostInv', app' = app, app.name # "editor", UNCHANGED maybe
    PROVE  EditorInv'
<1>1. MaybeInv'
  BY DEF EditorInv, MaybeInv, ReadsAreSaves
<1>2. AreaInv' /\ CallInv' /\ FilesInv' /\ ResultInv' /\ LinesInv' /\ PlainNamesListed'
  BY DEF AreaInv, CallInv, FilesInv, ResultInv, LinesInv, PlainNamesListed, ListingFits, ReadAsNames, Handling
<1> QED
  BY <1>1, <1>2 DEF EditorInv

LEMMA EditorStart ==
    ASSUME EditorInit
    PROVE  EditorInv
<1>1. /\ app \in Modules /\ from_bytes(app) /\ pc = "idle" /\ hc = NoValue
      /\ mem = [i \in 0..(app.pages * PAGE - 1) |-> IF i \in DOMAIN app.data THEN app.data[i] ELSE Zero]
      /\ req = [path |-> << >>, body |-> << >>]
      /\ files \in Disks /\ undone = {} /\ ~ret.ok
      /\ maybe = [p \in Paths |-> {files[p]}]
  BY DEF EditorInit, Init, F!Init, F!Returned
<1>2. Loaded
  BY <1>1 DEF Loaded
<1>3. mem \in Memories
  <2>1. \A i \in DOMAIN app.data : app.data[i] \in Cells
    BY <1>1, WasmConstants
  <2>2. Zero \in Cells
    BY DEF Cells
  <2> QED
    BY <1>1, <2>1, <2>2 DEF Memories, Addresses, Size
<1>4. files \in [Paths -> Contents]
  BY <1>1, WasmConstants DEF Contents
<1>5. req.path \in Seq(Cells) /\ req.body \in Seq(Cells) /\ Len(req.body) <= RECV_MAX
  BY <1>1, Numbers
<1>6. HostInv
  BY <1>1, <1>2, <1>3, <1>4, <1>5 DEF HostInv, PanicOnlyOutside
<1>7. AreaInv
  <2>1. ASSUME app.name = "editor" PROVE mem[DOC] = "doc"
    <3>1. DOC < Size /\ DOC \in Nat /\ Size \in Nat /\ DOC \in DOMAIN app.data /\ app.data[DOC] = "doc"
      BY <1>1, <1>2, <2>1, Layout, Numbers, EditorConstants
    <3>2. DOC \in 0..(app.pages * PAGE - 1)
      BY <3>1 DEF Size
    <3> QED
      BY <1>1, <3>1, <3>2
  <2> QED
    BY <1>1, <2>1 DEF AreaInv, Handling
<1>8. CallInv /\ FilesInv /\ ResultInv /\ LinesInv /\ MaybeInv /\ PlainNamesListed
  BY <1>1 DEF CallInv, FilesInv, ResultInv, LinesInv, MaybeInv, PlainNamesListed, ListingFits, ReadAsNames, ReadsAreSaves
<1> QED
  BY <1>6, <1>7, <1>8 DEF EditorInv

-----------------------------------------------------------------------------
(* The editor's listing is the one there should be.                         *)

\* After the cells of l the loop of $files is in state st.
Runs(l, st) ==
    \E g \in [0..Len(l) -> JsonStates] :
        /\ g[0] = JsonStart /\ g[Len(l)] = st
        /\ \A i \in 1..Len(l) : g[i] = JsonStep(g[i - 1], l[i])

LEMMA RunsStart == Runs(<< >>, JsonStart)
<1>1. JsonStart \in JsonStates
  <2>1. "[" \in Cells
    BY DEF Cells
  <2>2. << "[" >> \in Seq(Cells)
    BY <2>1, OneCell
  <2> QED
    BY <2>2 DEF JsonStart, JsonStates
<1> DEFINE g == [i \in 0..Len(<< >>) |-> JsonStart]
<1>2. Len(<< >>) = 0
  OBVIOUS
<1>3. g \in [0..Len(<< >>) -> JsonStates] /\ g[0] = JsonStart /\ g[Len(<< >>)] = JsonStart
  BY <1>1, <1>2
<1>4. \A i \in 1..Len(<< >>) : g[i] = JsonStep(g[i - 1], << >>[i])
  BY <1>2
<1> QED
  BY <1>3, <1>4 DEF Runs

\* One more cell, one more step.
LEMMA RunsOn ==
    ASSUME NEW l \in Seq(Cells), NEW st, Runs(l, st), NEW c \in Cells
    PROVE  Runs(Append(l, c), JsonStep(st, c))
<1> DEFINE n == Len(l)
           w == Append(l, c)
           e == JsonStep(st, c)
<1>1. n \in Nat
  BY LenProperties
<1>2. PICK g \in [0..n -> JsonStates] :
         /\ g[0] = JsonStart /\ g[n] = st
         /\ \A i \in 1..n : g[i] = JsonStep(g[i - 1], l[i])
  BY DEF Runs
<1>3. Len(w) = n + 1 /\ w[n + 1] = c /\ \A i \in 1..n : w[i] = l[i]
  BY <1>1, AppendProperties
<1>4. e \in JsonStates
  <2>1. st \in JsonStates
    BY <1>1, <1>2
  <2> QED
    BY <2>1, JsonStepType
<1> HIDE DEF n, w, e
<1> DEFINE f == [i \in 0..(n + 1) |-> IF i <= n THEN g[i] ELSE e]
<1>5. f \in [0..(n + 1) -> JsonStates]
  <2>1. \A i \in 0..(n + 1) : i <= n => i \in 0..n
    BY <1>1
  <2> QED
    BY <1>2, <1>4, <2>1
<1>6. f[0] = JsonStart /\ f[n + 1] = e
  <2>1. 0 \in 0..(n + 1) /\ n + 1 \in 0..(n + 1) /\ 0 <= n /\ ~(n + 1 <= n)
    BY <1>1
  <2> QED
    BY <1>2, <2>1
<1>7. ASSUME NEW i \in 1..(n + 1) PROVE f[i] = JsonStep(f[i - 1], w[i])
  <2>1. i \in 0..(n + 1) /\ i - 1 \in 0..(n + 1) /\ i - 1 <= n /\ i - 1 \in 0..n
    BY <1>1
  <2>2. f[i - 1] = g[i - 1]
    BY <2>1
  <2>3. CASE i <= n
    <3>1. i \in 1..n
      BY <1>1, <2>3
    <3>2. f[i] = g[i] /\ w[i] = l[i] /\ g[i] = JsonStep(g[i - 1], l[i])
      BY <1>2, <1>3, <2>1, <2>3, <3>1
    <3> HIDE DEF f
    <3> QED
      BY <2>2, <3>2
  <2>4. CASE ~(i <= n)
    <3>1. i = n + 1 /\ i - 1 = n
      BY <1>1, <2>4
    <3>2. f[i] = e /\ w[i] = c /\ g[i - 1] = st
      BY <1>2, <1>3, <1>6, <3>1
    <3> HIDE DEF f
    <3> QED
      BY <2>2, <3>2 DEF e
  <2> QED
    BY <2>3, <2>4
<1> HIDE DEF f
<1> QED
  BY <1>3, <1>5, <1>6, <1>7 DEF Runs, w, e

\* There is one run, and Json is what it ends with.
LEMMA RunsEnd ==
    ASSUME NEW l \in Seq(Cells), NEW st, Runs(l, st)
    PROVE  Json(l) = JsonEnd(st)
<1> DEFINE n == Len(l)
<1>1. n \in Nat
  BY LenProperties
<1>2. PICK g \in [0..n -> JsonStates] :
         /\ g[0] = JsonStart /\ g[n] = st
         /\ \A i \in 1..n : g[i] = JsonStep(g[i - 1], l[i])
  BY DEF Runs
<1>3. PICK h \in [0..n -> JsonStates] :
         /\ h[0] = JsonStart /\ Json(l) = JsonEnd(h[n])
         /\ \A i \in 1..n : h[i] = JsonStep(h[i - 1], l[i])
  BY JsonRun
<1> HIDE DEF n
<1> DEFINE M == {i \in Nat : i <= n => g[i] = h[i]}
<1>4. 0 \in M
  BY <1>2, <1>3
<1>5. ASSUME NEW i \in Nat, i \in M PROVE i + 1 \in M
  <2> SUFFICES ASSUME i + 1 <= n PROVE g[i + 1] = h[i + 1]
    OBVIOUS
  <2>1. i + 1 \in 1..n /\ (i + 1) - 1 = i /\ g[i] = h[i]
    BY <1>1, <1>5
  <2> QED
    BY <1>2, <1>3, <2>1
<1> HIDE DEF M
<1>6. n \in M
  BY <1>1, <1>4, <1>5, Induction
<1> QED
  BY <1>1, <1>2, <1>3, <1>6 DEF M

LEMMA Associative ==
    ASSUME NEW s \in Seq(Cells), NEW t \in Seq(Cells), NEW u \in Seq(Cells)
    PROVE  (s \o t) \o u = s \o (t \o u) /\ s \o t \in Seq(Cells) /\ t \o u \in Seq(Cells)
  BY ConcatAssociative, ConcatProperties

\* A beginning that is one cell longer.
LEMMA LongerPrefix ==
    ASSUME NEW w \in Seq(Cells), NEW k \in Nat, k + 1 <= Len(w)
    PROVE  SubSeq(w, 1, k + 1) = SubSeq(w, 1, k) \o << w[k + 1] >>
<1> DEFINE a == SubSeq(w, 1, k + 1)
           x == SubSeq(w, 1, k)
           b == Append(x, w[k + 1])
<1>1. Len(w) \in Nat /\ k + 1 \in 1..Len(w) /\ k \in 0..Len(w) /\ k + 1 \in 0..Len(w)
  BY LenProperties
<1>2. w[k + 1] \in Cells
  BY <1>1, ElementOfSeq
<1>3. x \in Seq(Cells) /\ Len(x) = k /\ \A i \in 1..k : x[i] = w[i]
  BY <1>1, Prefix
<1>4. a \in Seq(Cells) /\ Len(a) = k + 1 /\ \A i \in 1..(k + 1) : a[i] = w[i]
  BY <1>1, Prefix
<1> HIDE DEF x, a
<1>5. b \in Seq(Cells) /\ Len(b) = k + 1 /\ b[k + 1] = w[k + 1] /\ \A i \in 1..k : b[i] = x[i]
  BY <1>2, <1>3, AppendProperties
<1>6. b = x \o << w[k + 1] >>
  BY <1>2, <1>3, OneMore
<1> HIDE DEF b
<1>7. \A i \in 1..(k + 1) : a[i] = b[i]
  <2> TAKE i \in 1..(k + 1)
  <2>1. i \in 1..k \/ i = k + 1
    OBVIOUS
  <2> QED
    BY <1>3, <1>4, <1>5, <2>1
<1>8. a = b
  BY <1>4, <1>5, <1>7, SeqEqual
<1> QED
  BY <1>6, <1>8 DEF a, x

\* A state inside a name, and one behind its end.
InName(o) == [out |-> o, first |-> FALSE, in |-> TRUE]
Behind(o) == [out |-> o, first |-> FALSE, in |-> FALSE]

\* What opens a name.
Opening(st) == IF st.first THEN << "quote" >> ELSE << "comma", "quote" >>

\* The steps that are taken.
LEMMA OpenStep ==
    ASSUME NEW st \in JsonStates, ~st.in, NEW c \in Cells, c # "nl"
    PROVE  JsonStep(st, c) = InName((st.out \o Opening(st)) \o << c >>)
<1> DEFINE q == IF st.in THEN << >> ELSE IF st.first THEN << "quote" >> ELSE << "comma", "quote" >>
<1>1. JsonStep(st, c) = InName(st.out \o q \o << c >>)
  BY DEF JsonStep, InName
<1>2. q = Opening(st)
  BY DEF Opening
<1> HIDE DEF q
<1> QED
  BY <1>1, <1>2, Zenon

LEMMA NameStep ==
    ASSUME NEW o \in Seq(Cells), NEW c \in Cells, c # "nl"
    PROVE  JsonStep(InName(o), c) = InName(o \o << c >>)
<1>1. JsonStep(InName(o), c) = InName((o \o << >>) \o << c >>)
  BY DEF JsonStep, InName
<1>2. o \o << >> = o
  BY ConcatEmptySeq
<1> QED
  BY <1>1, <1>2

LEMMA NameStepOn ==
    ASSUME NEW o \in Seq(Cells), NEW x \in Seq(Cells), NEW c \in Cells, c # "nl"
    PROVE  JsonStep(InName(o \o x), c) = InName(o \o (x \o << c >>))
<1>1. << c >> \in Seq(Cells)
  BY OneCell
<1>2. (o \o x) \o << c >> = o \o (x \o << c >>) /\ o \o x \in Seq(Cells)
  BY <1>1, Associative
<1>3. JsonStep(InName(o \o x), c) = InName((o \o x) \o << c >>)
  BY <1>2, NameStep
<1> QED
  BY <1>2, <1>3, Zenon

LEMMA CloseStep ==
    ASSUME NEW o \in Seq(Cells)
    PROVE  JsonStep(InName(o), "nl") = Behind(o \o << "quote" >>)
<1>1. "quote" \in Cells
  BY DEF Cells
<1>2. Append(o, "quote") = o \o << "quote" >>
  BY <1>1, OneMore
<1>3. ASSUME NEW st \in JsonStates, st.in
      PROVE  JsonStep(st, "nl") = [out |-> Append(st.out, "quote"), first |-> st.first, in |-> FALSE]
  <2>1. JsonStep(st, "nl") = [st EXCEPT !.out = Append(st.out, "quote"), !.in = FALSE]
    BY <1>3 DEF JsonStep
  <2> QED
    BY <2>1 DEF JsonStates
<1>4. InName(o) \in JsonStates /\ InName(o).in /\ InName(o).first = FALSE /\ InName(o).out = o
  BY DEF InName, JsonStates
<1>5. JsonStep(InName(o), "nl")
        = [out |-> Append(InName(o).out, "quote"), first |-> InName(o).first, in |-> FALSE]
  BY <1>3, <1>4
<1> QED
  BY <1>2, <1>4, <1>5, Zenon DEF Behind

LEMMA OpeningType ==
    ASSUME NEW st \in JsonStates
    PROVE  Opening(st) \in Seq(Cells)
<1>1. "quote" \in Cells /\ "comma" \in Cells
  BY DEF Cells
<1>2. ASSUME NEW x \in Cells, NEW y \in Cells PROVE << x >> \in Seq(Cells) /\ << x, y >> \in Seq(Cells)
  OBVIOUS
<1>3. << "quote" >> \in Seq(Cells) /\ << "comma", "quote" >> \in Seq(Cells)
  BY <1>1, <1>2, Zenon
<1> QED
  BY <1>3 DEF Opening

\* A name is shown as it is.
LEMMA RunsName ==
    ASSUME NEW l \in Seq(Cells), NEW st \in JsonStates, ~st.in, Runs(l, st),
           NEW w \in Seq(Cells), Len(w) >= 1, \A i \in 1..Len(w) : w[i] # "nl"
    PROVE  Runs(l \o w, InName((st.out \o Opening(st)) \o w))
<1>1. PICK base \in Seq(Cells) : base = st.out \o Opening(st)
  <2>1. st.out \in Seq(Cells)
    BY DEF JsonStates
  <2> QED
    BY <2>1, OpeningType, ConcatProperties
<1>0. base \in Seq(Cells)
  BY <1>1
<1> DEFINE Part(k) == SubSeq(w, 1, k)
           M == {k \in Nat : k + 1 <= Len(w) => Runs(l \o Part(k + 1), InName(base \o Part(k + 1)))}
<1>2. Len(w) \in Nat /\ \A i \in 1..Len(w) : w[i] \in Cells
  BY LenProperties, ElementOfSeq
<1>3. 0 \in M
  <2>1. 0 + 1 = 1 /\ 1 \in 1..Len(w) /\ 0 \in Nat /\ 0 + 1 <= Len(w)
    BY <1>2
  <2>2. Part(0) = << >>
    BY SubSeqEmpty
  <2>3. Part(0 + 1) = << >> \o << w[0 + 1] >>
    BY <2>1, <2>2, LongerPrefix
  <2>4. w[1] \in Cells /\ w[1] # "nl" /\ << w[1] >> \in Seq(Cells)
    BY <1>2, <2>1, OneCell
  <2>5. Part(1) = << w[1] >>
    BY <2>1, <2>3, <2>4, ConcatEmptySeq
  <2>6. Append(l, w[1]) = l \o << w[1] >>
    BY <2>4, OneMore
  <2>7. JsonStep(st, w[1]) = InName(base \o << w[1] >>)
    BY <1>1, <2>4, OpenStep
  <2> HIDE DEF Part
  <2>8. Runs(Append(l, w[1]), JsonStep(st, w[1]))
    BY <2>4, RunsOn
  <2>9. Runs(l \o Part(0 + 1), InName(base \o Part(0 + 1)))
    BY <2>1, <2>5, <2>6, <2>7, <2>8
  <2> QED
    BY <2>9
<1>4. ASSUME NEW k \in Nat, k \in M PROVE k + 1 \in M
  <2> SUFFICES ASSUME (k + 1) + 1 <= Len(w)
               PROVE  Runs(l \o Part((k + 1) + 1), InName(base \o Part((k + 1) + 1)))
    OBVIOUS
  <2> DEFINE x == Part(k + 1)
             c == w[(k + 1) + 1]
  <2>1. k + 1 \in Nat /\ k + 1 <= Len(w) /\ (k + 1) + 1 \in 1..Len(w) /\ k + 1 \in 0..Len(w)
    BY <1>2
  <2>2. Runs(l \o x, InName(base \o x))
    BY <1>4, <2>1
  <2>3. x \in Seq(Cells)
    BY <2>1, Prefix
  <2>4. c \in Cells /\ c # "nl"
    BY <1>2, <2>1
  <2>5. << c >> \in Seq(Cells)
    BY <2>4, OneCell
  <2>6. Part((k + 1) + 1) = x \o << c >>
    BY <2>1, LongerPrefix
  <2> HIDE DEF x, c, Part
  <2>7. l \o x \in Seq(Cells) /\ base \o x \in Seq(Cells)
    BY <1>1, <2>3, ConcatProperties
  <2>8. Runs(Append(l \o x, c), JsonStep(InName(base \o x), c))
    BY <2>2, <2>4, <2>7, RunsOn
  <2>9. Append(l \o x, c) = l \o (x \o << c >>)
    <3>1. Append(l \o x, c) = (l \o x) \o << c >>
      BY <2>4, <2>7, OneMore
    <3>2. (l \o x) \o << c >> = l \o (x \o << c >>)
      BY <2>3, <2>5, Associative
    <3> QED
      BY <3>1, <3>2, Zenon
  <2>10. JsonStep(InName(base \o x), c) = InName(base \o (x \o << c >>))
    BY <1>0, <2>3, <2>4, NameStepOn
  <2> QED
    BY <2>6, <2>8, <2>9, <2>10
<1> HIDE DEF M
<1>5. Len(w) - 1 \in M
  <2>1. Len(w) - 1 \in Nat
    BY <1>2
  <2> QED
    BY <1>3, <1>4, <2>1, Induction
<1>6. Runs(l \o Part(Len(w)), InName(base \o Part(Len(w))))
  <2>1. (Len(w) - 1) + 1 = Len(w) /\ Len(w) <= Len(w)
    BY <1>2
  <2> HIDE DEF Part
  <2> QED
    BY <1>5, <2>1 DEF M
<1>7. Part(Len(w)) = w
  BY Whole
<1> HIDE DEF Part
<1> QED
  BY <1>1, <1>6, <1>7

LEMMA SignCells ==
    /\ "quote" \in Cells /\ "comma" \in Cells /\ "[" \in Cells /\ "]" \in Cells /\ "json" \in Cells
    /\ << "quote" >> \in Seq(Cells) /\ << "comma" >> \in Seq(Cells) /\ << "[" >> \in Seq(Cells)
    /\ << "]" >> \in Seq(Cells) /\ << "json" >> \in Seq(Cells)
<1>1. "quote" \in Cells /\ "comma" \in Cells /\ "[" \in Cells /\ "]" \in Cells /\ "json" \in Cells
  BY DEF Cells
<1>2. ASSUME NEW x \in Cells PROVE << x >> \in Seq(Cells)
  BY OneCell
<1> QED
  BY <1>1, <1>2, Zenon

\* The answer $files gives for names in this order.
Listed(names) ==
    LET listed[n \in 0..Len(names)] ==
            IF n = 0 THEN << "[" >>
            ELSE listed[n - 1] \o (IF n = 1 THEN << >> ELSE << "comma" >>)
                    \o << "quote" >> \o names[n] \o << "quote" >>
    IN  << "json" >> \o listed[Len(names)] \o << "]" >>

\* It with one name more.
WithName(i, d, name) ==
    (((d \o (IF i = 1 THEN << >> ELSE << "comma" >>)) \o << "quote" >>) \o name) \o << "quote" >>

\* It grows by one name at a time.
LEMMA ListedGrow ==
    ASSUME NEW names \in Seq(Seq(Cells))
    PROVE  \E h \in [0..Len(names) -> Seq(Cells)] :
              /\ h[0] = << "[" >> /\ Listed(names) = (<< "json" >> \o h[Len(names)]) \o << "]" >>
              /\ \A i \in 1..Len(names) : h[i] = WithName(i, h[i - 1], names[i])
<1> DEFINE n == Len(names)
           S == Seq(Cells)
           Grown(i, b) == WithName(i, b, names[i])
           step == [i \in 1..n |-> [b \in S |-> Grown(i, b)]]
           P(f) == f = [i \in 0..Len(names) |->
                          IF i = 0 THEN << "[" >>
                          ELSE f[i - 1] \o (IF i = 1 THEN << >> ELSE << "comma" >>)
                                  \o << "quote" >> \o names[i] \o << "quote" >>]
<1>1. n \in Nat /\ << "[" >> \in S /\ << >> \in S
  BY LenProperties, EmptySeq, SignCells
<1>2. \A i \in 1..n, b \in S : Grown(i, b) \in S
  <2> TAKE i \in 1..n, b \in S
  <2>1. PICK q \in S : q = << "quote" >>
    BY SignCells
  <2>2. PICK c \in S : c = IF i = 1 THEN << >> ELSE << "comma" >>
    BY SignCells, EmptySeq
  <2>3. names[i] \in S
    BY ElementOfSeq
  <2>4. ASSUME NEW x \in S, NEW y \in S PROVE x \o y \in S
    BY ConcatProperties
  <2>5. (((b \o c) \o q) \o names[i]) \o q \in S
    BY <2>1, <2>2, <2>3, <2>4
  <2> QED
    BY <2>1, <2>2, <2>5, Zenon DEF WithName
<1>3. ASSUME NEW f PROVE P(f) <=> f = [i \in 0..n |-> IF i = 0 THEN << "[" >> ELSE Grown(i, f[i - 1])]
  BY DEF WithName
<1> HIDE DEF P, Grown, n
<1>4. step \in [1..n -> [S -> S]] /\ DOMAIN step = 1..n /\ \A i \in 1..n, b \in S : step[i][b] = Grown(i, b)
  BY <1>2
<1> HIDE DEF step, S
<1>5. PICK a \in S : a = << "[" >>
  BY <1>1
<1>6. PICK f \in [0..n -> S] : Follows(f, a, step)
  BY <1>1, <1>4, Recursion
<1>7. P(f)
  <2>1. \A i \in 1..n : f[i - 1] \in S
    BY <1>1, <1>6
  <2>2. \A i \in 1..n : f[i] = Grown(i, f[i - 1])
    BY <1>4, <1>6, <2>1 DEF Follows
  <2>3. f = [i \in 0..n |-> IF i = 0 THEN a ELSE Grown(i, f[i - 1])]
    BY <1>1, <1>6, <2>2 DEF Follows
  <2>4. f = [i \in 0..n |-> IF i = 0 THEN << "[" >> ELSE Grown(i, f[i - 1])]
    BY <1>5, <2>3, Zenon
  <2> QED
    BY <1>3, <2>4
<1>8. PICK h : P(h) /\ Listed(names) = (<< "json" >> \o h[n]) \o << "]" >>
  BY <1>7 DEF Listed, P, n
<1>9. h = [i \in 0..n |-> IF i = 0 THEN a ELSE Grown(i, h[i - 1])]
  BY <1>3, <1>5, <1>8, Zenon
<1>10. h[0] = a /\ \A i \in 1..n : h[i] = Grown(i, h[i - 1])
  BY <1>1, <1>9
<1>11. \A i \in 0..n : h[i] \in S
  <2> DEFINE M == {i \in Nat : i <= n => h[i] \in S}
  <2>1. 0 \in M
    BY <1>5, <1>10
  <2>2. ASSUME NEW i \in Nat, i \in M PROVE i + 1 \in M
    <3> SUFFICES ASSUME i + 1 <= n PROVE h[i + 1] \in S
      OBVIOUS
    <3>1. i + 1 \in 1..n /\ (i + 1) - 1 = i /\ h[i] \in S
      BY <1>1, <2>2
    <3> QED
      BY <1>2, <1>10, <3>1
  <2> HIDE DEF M
  <2>3. Nat \subseteq M
    BY <2>1, <2>2, Induction
  <2> QED
    BY <1>1, <2>3 DEF M
<1>12. h \in [0..n -> S]
  BY <1>9, <1>11
<1>13. h[0] = << "[" >> /\ \A i \in 1..n : h[i] = WithName(i, h[i - 1], names[i])
  BY <1>5, <1>10, Zenon DEF Grown
<1> QED
  BY <1>8, <1>12, <1>13, Zenon DEF S, n

LEMMA TwoCells ==
    ASSUME NEW x \in Cells, NEW y \in Cells
    PROVE  << x, y >> = << x >> \o << y >>
<1>1. << x >> \in Seq(Cells)
  BY OneCell
<1>2. Append(<< x >>, y) = << x >> \o << y >>
  BY <1>1, OneMore
<1>3. << x, y >> = Append(<< x >>, y)
  OBVIOUS
<1> QED
  BY <1>2, <1>3, Zenon

NextTo(d, name) == (((d \o << "comma" >>) \o << "quote" >>) \o name) \o << "quote" >>

\* A name a file can have.
Named(w) == w \in Seq(Cells) /\ Len(w) >= 1 /\ \A i \in 1..Len(w) : w[i] # "nl"

\* The loop is behind the lines l with d, all but the last quote.
Shown(l, d) == \E o \in Seq(Cells) : Runs(l, InName(o)) /\ d = o \o << "quote" >>

LEMMA FirstName ==
    ASSUME NEW w, Named(w)
    PROVE  Shown(<< >> \o w, WithName(1, << "[" >>, w))
<1>1. w \in Seq(Cells) /\ Len(w) >= 1 /\ (\A i \in 1..Len(w) : w[i] # "nl") /\ << >> \in Seq(Cells)
  BY EmptySeq DEF Named
<1>2. PICK q \in Seq(Cells) : q = << "quote" >>
  BY SignCells
<1>3. PICK b \in Seq(Cells) : b = << "[" >>
  BY SignCells
<1>4. JsonStart \in JsonStates /\ JsonStart.in = FALSE /\ JsonStart.first = TRUE /\ JsonStart.out = << "[" >>
  BY SignCells DEF JsonStart, JsonStates
<1>5. Opening(JsonStart) = q
  BY <1>2, <1>4, Zenon DEF Opening
<1>6. Runs(<< >> \o w, InName((JsonStart.out \o Opening(JsonStart)) \o w))
  BY <1>1, <1>4, RunsStart, RunsName
<1>7. Runs(<< >> \o w, InName((b \o q) \o w))
  BY <1>3, <1>4, <1>5, <1>6, Zenon
<1>8. (b \o q) \o w \in Seq(Cells)
  BY <1>1, <1>2, <1>3, ConcatProperties
<1>9. b \o << >> = b
  BY <1>3, ConcatEmptySeq
<1>10. WithName(1, b, w) = (((b \o << >>) \o q) \o w) \o q
  BY <1>2, Zenon DEF WithName
<1>11. WithName(1, << "[" >>, w) = ((b \o q) \o w) \o << "quote" >>
  BY <1>2, <1>3, <1>9, <1>10, Zenon
<1> QED
  BY <1>7, <1>8, <1>11, Zenon DEF Shown

LEMMA NextName ==
    ASSUME NEW l \in Seq(Cells), NEW t, Shown(l, t), NEW w, Named(w)
    PROVE  Shown((l \o << "nl" >>) \o w, NextTo(t, w))
<1>0. PICK o \in Seq(Cells) : Runs(l, InName(o)) /\ t = o \o << "quote" >>
  BY DEF Shown
<1>1. w \in Seq(Cells) /\ Len(w) >= 1 /\ (\A j \in 1..Len(w) : w[j] # "nl")
  BY DEF Named
<1>2. PICK q \in Seq(Cells) : q = << "quote" >>
  BY SignCells
<1>3. PICK c \in Seq(Cells) : c = << "comma" >>
  BY SignCells
<1>4. PICK e \in Seq(Cells) : e = l \o << "nl" >>
  BY NewlineCell, ConcatProperties
<1>5. PICK d \in Seq(Cells) : d = o \o q
  BY <1>0, <1>2, ConcatProperties
<1>6. Runs(e, Behind(d))
  <2>1. "nl" \in Cells
    BY DEF Cells
  <2>2. Runs(Append(l, "nl"), JsonStep(InName(o), "nl"))
    <3>1. o \in Seq(Cells) /\ Runs(l, InName(o))
      BY <1>0
    <3> QED
      BY <2>1, <3>1, RunsOn
  <2>3. Append(l, "nl") = l \o << "nl" >>
    BY <2>1, OneMore
  <2>4. JsonStep(InName(o), "nl") = Behind(o \o << "quote" >>)
    BY <1>0, CloseStep
  <2> QED
    BY <1>2, <1>4, <1>5, <2>2, <2>3, <2>4, Zenon
<1>7. Behind(d) \in JsonStates /\ Behind(d).in = FALSE /\ Behind(d).first = FALSE /\ Behind(d).out = d
  <2>1. d \in Seq(Cells)
    BY <1>5
  <2> QED
    BY <2>1 DEF Behind, JsonStates
<1>8. Opening(Behind(d)) = c \o q
  <2>2. << "comma", "quote" >> = << "comma" >> \o << "quote" >>
    BY SignCells, TwoCells, Zenon
  <2> QED
    BY <1>2, <1>3, <1>7, <2>2, Zenon DEF Opening
<1>9. Runs(e \o w, InName((Behind(d).out \o Opening(Behind(d))) \o w))
  <2>1. e \in Seq(Cells)
    BY <1>4
  <2> QED
    BY <1>1, <1>6, <1>7, <2>1, RunsName
<1>10. Runs((l \o << "nl" >>) \o w, InName((d \o (c \o q)) \o w))
  BY <1>4, <1>7, <1>8, <1>9, Zenon
<1>11. /\ d \o (c \o q) = (d \o c) \o q
       /\ ((d \o c) \o q) \o w \in Seq(Cells)
  <2>1. d \in Seq(Cells) /\ c \in Seq(Cells) /\ q \in Seq(Cells)
    BY <1>2, <1>3, <1>5
  <2>2. (d \o c) \o q = d \o (c \o q) /\ d \o c \in Seq(Cells)
    BY <2>1, Associative
  <2>3. (d \o c) \o q \in Seq(Cells)
    BY <2>1, <2>2, ConcatProperties
  <2>4. ((d \o c) \o q) \o w \in Seq(Cells)
    BY <1>1, <2>3, ConcatProperties
  <2> QED
    BY <2>2, <2>4, Zenon
<1>12. NextTo(t, w) = (((d \o c) \o q) \o w) \o << "quote" >>
  BY <1>0, <1>2, <1>3, <1>5, Zenon DEF NextTo
<1> QED
  BY <1>10, <1>11, <1>12, Zenon DEF Shown

\* The end of the loop closes the last name and the array.
LEMMA LastName ==
    ASSUME NEW l \in Seq(Cells), NEW t, Shown(l, t)
    PROVE  << "json" >> \o Json(l) = (<< "json" >> \o t) \o << "]" >>
<1>0. PICK o \in Seq(Cells) : Runs(l, InName(o)) /\ t = o \o << "quote" >>
  BY DEF Shown
<1>1. PICK q \in Seq(Cells) : q = << "quote" >>
  BY SignCells
<1>2. PICK b \in Seq(Cells) : b = << "]" >>
  BY SignCells
<1>3. PICK j \in Seq(Cells) : j = << "json" >>
  BY SignCells
<1>4. Json(l) = JsonEnd(InName(o))
  BY <1>0, RunsEnd
<1>5. InName(o).in = TRUE /\ InName(o).out = o
  BY DEF InName
<1>6. JsonEnd(InName(o)) = (o \o q) \o b
  BY <1>1, <1>2, <1>5, Zenon DEF JsonEnd
<1>7. j \o ((o \o q) \o b) = (j \o (o \o q)) \o b
  <2>1. q \in Seq(Cells) /\ b \in Seq(Cells) /\ j \in Seq(Cells) /\ o \in Seq(Cells)
    BY <1>0, <1>1, <1>2, <1>3
  <2>2. PICK z \in Seq(Cells) : z = o \o q
    BY <2>1, ConcatProperties
  <2>3. (j \o z) \o b = j \o (z \o b)
    BY <2>1, Associative
  <2> QED
    BY <2>2, <2>3, Zenon
<1> QED
  BY <1>0, <1>1, <1>2, <1>3, <1>4, <1>6, <1>7, Zenon

LEMMA NoNames ==
    << "json" >> \o Json(<< >>) = (<< "json" >> \o << "[" >>) \o << "]" >>
<1>1. PICK b \in Seq(Cells) : b = << "]" >>
  BY SignCells
<1>2. PICK a \in Seq(Cells) : a = << "[" >>
  BY SignCells
<1>3. PICK j \in Seq(Cells) : j = << "json" >>
  BY SignCells
<1>4. Json(<< >>) = JsonEnd(JsonStart)
  BY RunsStart, RunsEnd, EmptySeq
<1>5. JsonStart.in = FALSE /\ JsonStart.out = << "[" >>
  BY DEF JsonStart
<1>6. JsonEnd(JsonStart) = (a \o << >>) \o b
  BY <1>1, <1>2, <1>5, Zenon DEF JsonEnd
<1>7. a \o << >> = a
  BY <1>2, ConcatEmptySeq
<1>8. j \o (a \o b) = (j \o a) \o b
  <2>1. a \in Seq(Cells) /\ b \in Seq(Cells) /\ j \in Seq(Cells)
    BY <1>1, <1>2, <1>3
  <2> QED
    BY <2>1, Associative
<1> QED
  BY <1>1, <1>2, <1>3, <1>4, <1>6, <1>7, <1>8, Zenon

\* What the loop of $files makes of the lines the file server puts together is
\* the names between quotes, with commas between them.
LEMMA JsonOfLines ==
    ASSUME NEW s \in Seq(Seq(Cells)), \A i \in 1..Len(s) : Named(s[i])
    PROVE  << "json" >> \o Json(Lines(s)) = Listed(s)
<1>1. PICK n \in Nat : n = Len(s)
  BY LenProperties
<1>2. PICK h \in [0..n -> Seq(Cells)] :
         /\ h[0] = << >> /\ Lines(s) = h[n]
         /\ \A i \in 1..n : h[i] = (IF i = 1 THEN << >> ELSE h[i - 1] \o << "nl" >>) \o s[i]
  BY <1>1, LinesGrow
<1>3. PICK d \in [0..n -> Seq(Cells)] :
         /\ d[0] = << "[" >> /\ Listed(s) = (<< "json" >> \o d[n]) \o << "]" >>
         /\ \A i \in 1..n : d[i] = WithName(i, d[i - 1], s[i])
  BY <1>1, ListedGrow
<1>4. CASE n = 0
  <2>1. Lines(s) = << >> /\ d[n] = << "[" >>
    BY <1>2, <1>3, <1>4
  <2> QED
    BY <1>3, <2>1, NoNames, Zenon
<1>5. CASE n # 0
  <2> DEFINE M == {k \in Nat : k + 1 <= n => Shown(h[k + 1], d[k + 1])}
  <2>1. 0 \in M
    <3>1. 0 + 1 = 1 /\ 1 \in 1..n /\ 1 - 1 = 0
      BY <1>5
    <3>2. Named(s[1])
      BY <1>1, <3>1
    <3>3. h[1] = << >> \o s[1]
      BY <1>2, <3>1
    <3>4. d[1] = WithName(1, d[0], s[1])
      BY <1>3, <3>1
    <3>5. d[0] = << "[" >>
      BY <1>3
    <3>6. Shown(<< >> \o s[1], WithName(1, << "[" >>, s[1]))
      BY <3>2, FirstName
    <3>7. Shown(h[1], d[1])
      BY <3>3, <3>4, <3>5, <3>6, Zenon
    <3> QED
      BY <3>1, <3>7
  <2>2. ASSUME NEW k \in Nat, k \in M PROVE k + 1 \in M
    <3> SUFFICES ASSUME (k + 1) + 1 <= n PROVE Shown(h[(k + 1) + 1], d[(k + 1) + 1])
      OBVIOUS
    <3>1. /\ k + 1 \in 0..n /\ k + 1 <= n
          /\ (k + 1) + 1 \in 1..n /\ ((k + 1) + 1) - 1 = k + 1 /\ (k + 1) + 1 # 1
      OBVIOUS
    <3>2. Shown(h[k + 1], d[k + 1])
      BY <2>2, <3>1
    <3> HIDE DEF M
    <3>3. PICK i \in 1..n : i = (k + 1) + 1 /\ i # 1 /\ i - 1 = k + 1
      BY <3>1
    <3>4. Named(s[i]) /\ h[k + 1] \in Seq(Cells)
      BY <1>1, <1>2, <3>1, <3>3
    <3>5. h[i] = (h[k + 1] \o << "nl" >>) \o s[i]
      BY <1>2, <3>3
    <3>6. d[i] = NextTo(d[k + 1], s[i])
      <4>1. d[i] = WithName(i, d[k + 1], s[i]) /\ i # 1
        BY <1>3, <3>3
      <4> QED
        BY <4>1, Zenon DEF WithName, NextTo
    <3>7. Shown((h[k + 1] \o << "nl" >>) \o s[i], NextTo(d[k + 1], s[i]))
      BY <3>2, <3>4, NextName, Zenon
    <3> QED
      BY <3>3, <3>5, <3>6, <3>7, Zenon
  <2> HIDE DEF M
  <2>3. n - 1 \in Nat /\ (n - 1) + 1 = n /\ n <= n
    BY <1>5
  <2>4. n - 1 \in M
    BY <2>1, <2>2, <2>3, Induction
  <2>5. Shown(h[n], d[n])
    BY <2>3, <2>4 DEF M
  <2>6. h[n] \in Seq(Cells)
    BY <1>2
  <2>7. << "json" >> \o Json(h[n]) = (<< "json" >> \o d[n]) \o << "]" >>
    BY <2>5, <2>6, LastName
  <2> QED
    BY <1>2, <1>3, <2>7, Zenon
<1> QED
  BY <1>4, <1>5

\* A file's name is one: it is not empty and has no newline.
LEMMA FileNamed ==
    ASSUME NEW p \in Paths
    PROVE  Named(Tail(p))
<1>1. p \in Seq(Cells) /\ p # << >> /\ Len(p) > 1 /\ \A i \in DOMAIN p : p[i] # "nl"
  BY WasmConstants, EditorConstants
<1>2. Len(p) \in Nat /\ DOMAIN p = 1..Len(p)
  BY <1>1, LenProperties
<1>3. Tail(p) \in Seq(Cells) /\ Len(Tail(p)) = Len(p) - 1 /\ \A i \in 1..Len(Tail(p)) : Tail(p)[i] = p[i + 1]
  BY <1>1, HeadTailProperties
<1>4. Len(Tail(p)) >= 1
  BY <1>1, <1>2, <1>3
<1>5. ASSUME NEW i \in 1..Len(Tail(p)) PROVE Tail(p)[i] # "nl"
  <2>1. i + 1 \in DOMAIN p
    BY <1>2, <1>3
  <2> QED
    BY <1>1, <1>3, <2>1
<1> QED
  BY <1>3, <1>4, <1>5 DEF Named

-----------------------------------------------------------------------------
(* The reader.                                                              *)

BoardBytes == {"chr", "quote", "bslash", "ctl", "zero"}

\* What the answers of both applications are made of.
AnswerCells == Cells \cup BoardBytes \cup {"comma", "[", "]"}
ReaderPlaces == {"array", "first", "start", "string", "escape", "end", "done", "error"}
ReaderStates == [at : ReaderPlaces, cur : Seq(AnswerCells),
                 all : Seq(Seq(AnswerCells))]
ReaderStart == [at |-> "array", cur |-> << >>, all |-> << >>]

\* The reader never leaves its states.
LEMMA ReadTypes ==
    /\ ReaderStart \in ReaderStates
    /\ \A b \in ReaderStates, c \in AnswerCells : Read(b, c) \in ReaderStates
<1>1. ReaderStart \in ReaderStates
  BY EmptySeq DEF ReaderStart, ReaderStates, ReaderPlaces
<1>2. ASSUME NEW b \in ReaderStates, NEW c \in AnswerCells PROVE Read(b, c) \in ReaderStates
  <2>1. /\ b.at \in ReaderPlaces /\ b.cur \in Seq(AnswerCells)
        /\ b.all \in Seq(Seq(AnswerCells))
    BY DEF ReaderStates
  <2>2. /\ Append(b.cur, c) \in Seq(AnswerCells) /\ Append(b.all, b.cur) \in Seq(Seq(AnswerCells))
        /\ << >> \in Seq(AnswerCells)
    BY <2>1, EmptySeq, AppendProperties
  <2>3. CASE b.at = "escape" /\ c \in {"quote", "bslash"}
    <3>1. Read(b, c) = [b EXCEPT !.at = "string", !.cur = Append(@, c)]
      BY <2>3 DEF Read
    <3> QED
      BY <2>2, <3>1 DEF ReaderStates, ReaderPlaces
  <2>4. CASE b.at = "string" /\ c = "quote"
    <3>1. Read(b, c) = [b EXCEPT !.at = "end", !.cur = << >>, !.all = Append(@, b.cur)]
      BY <2>4 DEF Read
    <3> QED
      BY <2>2, <3>1 DEF ReaderStates, ReaderPlaces
  <2>5. CASE b.at = "string" /\ c \notin {"bslash", "quote", "ctl"}
    <3>1. Read(b, c) = [b EXCEPT !.cur = Append(@, c)]
      BY <2>5 DEF Read
    <3> QED
      BY <2>2, <3>1 DEF ReaderStates
  <2>6. CASE /\ ~(b.at = "escape" /\ c \in {"quote", "bslash"})
             /\ ~(b.at = "string" /\ c # "bslash" /\ c # "ctl")
    <3>1. \E at \in ReaderPlaces : Read(b, c) = [b EXCEPT !.at = at]
      BY <2>1, <2>6 DEF Read, ReaderPlaces
    <3> QED
      BY <3>1 DEF ReaderStates
  <2> QED
    BY <2>3, <2>4, <2>5, <2>6
<1> QED
  BY <1>1, <1>2

\* The reader goes through what it is given from the first cell to the last.
LEMMA ReadingFollows ==
    ASSUME NEW s \in Seq(AnswerCells)
    PROVE  \E r \in [0..Len(s) -> ReaderStates] :
              /\ r[0] = ReaderStart /\ \A i \in 1..Len(s) : r[i] = Read(r[i - 1], s[i])
              /\ Reading(s) = r[Len(s)]
<1> DEFINE n == Len(s)
           P(f) == f = [i \in 0..n |-> IF i = 0 THEN [at |-> "array", cur |-> << >>, all |-> << >>]
                                       ELSE Read(f[i - 1], s[i])]
           step == [i \in 1..n |-> [b \in ReaderStates |-> Read(b, s[i])]]
<1>1. n \in Nat /\ ReaderStart \in ReaderStates
  BY LenProperties, ReadTypes
<1>2. \A i \in 1..n, b \in ReaderStates : Read(b, s[i]) \in ReaderStates
  BY ElementOfSeq, ReadTypes
<1>3. ASSUME NEW f
      PROVE  P(f) <=> f = [i \in 0..n |-> IF i = 0 THEN ReaderStart ELSE Read(f[i - 1], s[i])]
  BY DEF ReaderStart
<1> HIDE DEF P, n
<1>4. /\ step \in [1..n -> [ReaderStates -> ReaderStates]] /\ DOMAIN step = 1..n
      /\ \A i \in 1..n, b \in ReaderStates : step[i][b] = Read(b, s[i])
  BY <1>2
<1> HIDE DEF step
<1>5. PICK f \in [0..n -> ReaderStates] : Follows(f, ReaderStart, step)
  BY <1>1, <1>4, Recursion
<1>6. P(f)
  <2>1. \A i \in 1..n : f[i - 1] \in ReaderStates
    BY <1>1, <1>5
  <2>2. \A i \in 1..n : f[i] = Read(f[i - 1], s[i])
    BY <1>4, <1>5, <2>1 DEF Follows
  <2>3. f = [i \in 0..n |-> IF i = 0 THEN ReaderStart ELSE Read(f[i - 1], s[i])]
    BY <1>1, <1>5, <2>2 DEF Follows
  <2> QED
    BY <1>3, <2>3
<1>7. PICK h : P(h) /\ Reading(s) = h[n]
  BY <1>6 DEF Reading, P, n
<1>8. h = [i \in 0..n |-> IF i = 0 THEN ReaderStart ELSE Read(h[i - 1], s[i])]
  BY <1>3, <1>7
<1>9. h[0] = ReaderStart /\ \A i \in 1..n : h[i] = Read(h[i - 1], s[i])
  BY <1>1, <1>8
<1>10. \A i \in 0..n : h[i] \in ReaderStates
  <2> DEFINE M == {i \in Nat : i <= n => h[i] \in ReaderStates}
  <2>1. 0 \in M
    BY <1>1, <1>9
  <2>2. ASSUME NEW i \in Nat, i \in M PROVE i + 1 \in M
    <3> SUFFICES ASSUME i + 1 <= n PROVE h[i + 1] \in ReaderStates
      OBVIOUS
    <3>1. i + 1 \in 1..n /\ (i + 1) - 1 = i /\ h[i] \in ReaderStates
      BY <1>1, <2>2
    <3> QED
      BY <1>2, <1>9, <3>1
  <2>3. Nat \subseteq M
    <3> HIDE DEF M
    <3> QED
      BY <2>1, <2>2, Induction
  <2> QED
    BY <1>1, <2>3
<1>11. h \in [0..n -> ReaderStates]
  BY <1>8, <1>10
<1> QED
  BY <1>7, <1>9, <1>11 DEF n

\* One more cell is read.
LEMMA ReadOne ==
    ASSUME NEW s \in Seq(AnswerCells), NEW c \in AnswerCells
    PROVE  /\ Reading(s \o << c >>) = Read(Reading(s), c)
           /\ s \o << c >> \in Seq(AnswerCells) /\ Reading(s) \in ReaderStates
<1> DEFINE n == Len(s)
           t == s \o << c >>
<1>1. /\ t \in Seq(AnswerCells) /\ Len(t) = n + 1 /\ n \in Nat /\ t[n + 1] = c
      /\ \A i \in 1..n : t[i] = s[i]
  <2>1. t = Append(s, c)
    BY AppendIsConcat
  <2> HIDE DEF t
  <2> QED
    BY <2>1, AppendProperties, LenProperties
<1> HIDE DEF t
<1>2. PICK f \in [0..n -> ReaderStates] :
         /\ f[0] = ReaderStart /\ \A i \in 1..n : f[i] = Read(f[i - 1], s[i])
         /\ Reading(s) = f[n]
  BY ReadingFollows
<1>3. PICK g \in [0..(n + 1) -> ReaderStates] :
         /\ g[0] = ReaderStart /\ \A i \in 1..(n + 1) : g[i] = Read(g[i - 1], t[i])
         /\ Reading(t) = g[n + 1]
  <2>1. \E r \in [0..Len(t) -> ReaderStates] :
              /\ r[0] = ReaderStart /\ \A i \in 1..Len(t) : r[i] = Read(r[i - 1], t[i])
              /\ Reading(t) = r[Len(t)]
    BY <1>1, ReadingFollows
  <2> QED
    BY <1>1, <2>1
<1> HIDE DEF n
<1>4. g[n] = f[n]
  <2> DEFINE M == {i \in Nat : i <= n => g[i] = f[i]}
  <2>1. 0 \in M
    BY <1>2, <1>3
  <2>2. ASSUME NEW i \in Nat, i \in M PROVE i + 1 \in M
    <3> SUFFICES ASSUME i + 1 <= n PROVE g[i + 1] = f[i + 1]
      OBVIOUS
    <3>1. i + 1 \in 1..n /\ i + 1 \in 1..(n + 1) /\ (i + 1) - 1 = i /\ g[i] = f[i]
      BY <1>1, <2>2
    <3> QED
      BY <1>1, <1>2, <1>3, <3>1
  <2>3. Nat \subseteq M
    <3> HIDE DEF M
    <3> QED
      BY <2>1, <2>2, Induction
  <2> QED
    BY <1>1, <2>3
<1>5. n + 1 \in 1..(n + 1) /\ (n + 1) - 1 = n /\ f[n] \in ReaderStates
  BY <1>1, <1>2
<1>6. Reading(t) = Read(f[n], c)
  BY <1>1, <1>3, <1>4, <1>5
<1> QED
  BY <1>1, <1>2, <1>5, <1>6 DEF t

\* At first.
LEMMA ReadNone == Reading(<< >>) = ReaderStart
<1>1. << >> \in Seq(AnswerCells) /\ Len(<< >>) = 0
  BY EmptySeq
<1>2. \E r \in [0..0 -> ReaderStates] : r[0] = ReaderStart /\ Reading(<< >>) = r[0]
  BY <1>1, ReadingFollows
<1> QED
  BY <1>2

\* Cells one after the other.
LEMMA JoinedCells ==
    \A a, b, c \in Seq(AnswerCells) : a \o b \in Seq(AnswerCells) /\ (a \o b) \o c = a \o (b \o c)
BY ConcatProperties, ConcatAssociative

\* Inside a string.
InString(v, all) == [at |-> "string", cur |-> v, all |-> all]

\* A cell of a module is a cell of an answer.
LEMMA Wider ==
    ASSUME NEW s \in Seq(Cells)
    PROVE  s \in Seq(AnswerCells)
<1>1. Len(s) \in Nat /\ s \in [1..Len(s) -> Cells]
  BY LenProperties
<1>2. s \in [1..Len(s) -> AnswerCells]
  BY <1>1 DEF AnswerCells
<1> QED
  BY <1>1, <1>2, SeqDef

\* A plain name inside a string is read as it is.
LEMMA ReadPlain ==
    ASSUME NEW p \in Seq(AnswerCells), NEW all \in Seq(Seq(AnswerCells)),
           Reading(p) = InString(<< >>, all), NEW w \in Seq(Cells), Plain(w)
    PROVE  p \o w \in Seq(AnswerCells) /\ Reading(p \o w) = InString(w, all)
<1> DEFINE M == {k \in Nat : k <= Len(w) => Reading(p \o SubSeq(w, 1, k)) = InString(SubSeq(w, 1, k), all)}
<1>1. Len(w) \in Nat /\ DOMAIN w = 1..Len(w) /\ w \in Seq(AnswerCells)
  BY LenProperties, Wider
<1>2. 0 \in M
  <2>1. SubSeq(w, 1, 0) = << >>
    BY SubSeqEmpty
  <2>2. p \o << >> = p
    BY ConcatEmptySeq
  <2>3. Reading(p \o SubSeq(w, 1, 0)) = InString(SubSeq(w, 1, 0), all)
    BY <2>1, <2>2, Zenon
  <2> QED
    BY <2>3
<1>3. ASSUME NEW k \in Nat, k \in M PROVE k + 1 \in M
  <2> SUFFICES ASSUME k + 1 <= Len(w)
               PROVE  Reading(p \o SubSeq(w, 1, k + 1)) = InString(SubSeq(w, 1, k + 1), all)
    OBVIOUS
  <2>1. k <= Len(w) /\ k \in 0..Len(w) /\ k + 1 \in 1..Len(w)
    BY <1>1
  <2>2. PICK c \in Cells : c = w[k + 1] /\ c \notin {"quote", "bslash", "ctl"}
    BY <1>1, <2>1, ElementOfSeq DEF Plain
  <2>3. PICK x \in Seq(Cells) : x = SubSeq(w, 1, k)
    BY <2>1, Prefix
  <2>4. SubSeq(w, 1, k + 1) = x \o << c >>
    BY <2>2, <2>3, LongerPrefix, Zenon
  <2>5. Reading(p \o x) = InString(x, all)
    BY <1>3, <2>1, <2>3
  <2>6. c \in AnswerCells /\ x \in Seq(AnswerCells)
    BY Wider DEF AnswerCells
  <2>7. PICK y \in Seq(AnswerCells) : y = << c >>
    <3>1. << c >> \in Seq(AnswerCells)
      BY <2>6
    <3> QED
      BY <3>1, Zenon
  <2>8. PICK z \in Seq(AnswerCells) : z = p \o x /\ z \o y = p \o (x \o y)
    BY <2>6, <2>7, JoinedCells, Zenon
  <2>9. Reading(z \o << c >>) = Read(InString(x, all), c)
    <3>1. Reading(z \o << c >>) = Read(Reading(z), c)
      BY <2>6, ReadOne
    <3> QED
      BY <2>5, <2>8, <3>1, Zenon
  <2>10. Read(InString(x, all), c) = InString(Append(x, c), all)
    <3>1. InString(x, all).at = "string"
      BY DEF InString
    <3>2. Read(InString(x, all), c) = [InString(x, all) EXCEPT !.cur = Append(@, c)]
      BY <2>2, <3>1 DEF Read
    <3> QED
      BY <3>2 DEF InString
  <2>11. Append(x, c) = x \o << c >>
    BY <2>2, <2>3, OneMore
  <2> QED
    BY <2>4, <2>7, <2>8, <2>9, <2>10, <2>11, Zenon
<1> HIDE DEF M
<1>4. Nat \subseteq M
  BY <1>2, <1>3, Induction
<1>5. Reading(p \o SubSeq(w, 1, Len(w))) = InString(SubSeq(w, 1, Len(w)), all)
  BY <1>1, <1>4 DEF M
<1>6. SubSeq(w, 1, Len(w)) = w
  BY Whole
<1>7. p \o w \in Seq(AnswerCells)
  BY <1>1, JoinedCells, Zenon
<1> QED
  BY <1>5, <1>6, <1>7, Zenon

AtCell(at, all) == [at |-> at, cur |-> << >>, all |-> all]

\* The signs of an array.
LEMMA ReadSigns ==
    ASSUME NEW d \in Seq(AnswerCells), NEW all \in Seq(Seq(AnswerCells))
    PROVE  /\ \A at \in {"first", "start"} : Reading(d) = AtCell(at, all) =>
                 d \o << "quote" >> \in Seq(AnswerCells)
                 /\ Reading(d \o << "quote" >>) = InString(<< >>, all)
           /\ Reading(d) = AtCell("end", all) =>
                 d \o << "comma" >> \in Seq(AnswerCells)
                 /\ Reading(d \o << "comma" >>) = AtCell("start", all)
           /\ \A at \in {"first", "end"} : Reading(d) = AtCell(at, all) =>
                 Reading(d \o << "]" >>) = AtCell("done", all)
           /\ \A v \in Seq(AnswerCells) : Reading(d) = InString(v, all) =>
                 d \o << "quote" >> \in Seq(AnswerCells)
                 /\ Reading(d \o << "quote" >>) = AtCell("end", Append(all, v))
<1>1. "quote" \in AnswerCells /\ "comma" \in AnswerCells /\ "]" \in AnswerCells
  BY DEF AnswerCells, BoardBytes
<1>2. \A c \in AnswerCells : /\ d \o << c >> \in Seq(AnswerCells)
                             /\ Reading(d \o << c >>) = Read(Reading(d), c)
  BY ReadOne
<1>3. \A at \in {"first", "start"} : Read(AtCell(at, all), "quote") = InString(<< >>, all)
  BY DEF Read, AtCell, InString
<1>4. Read(AtCell("end", all), "comma") = AtCell("start", all)
  BY DEF Read, AtCell
<1>5. \A at \in {"first", "end"} : Read(AtCell(at, all), "]") = AtCell("done", all)
  BY DEF Read, AtCell
<1>6. \A v \in Seq(AnswerCells) : Read(InString(v, all), "quote") = AtCell("end", Append(all, v))
  BY DEF Read, AtCell, InString
<1> QED
  BY <1>1, <1>2, <1>3, <1>4, <1>5, <1>6, Zenon

\* The array begins.
LEMMA ReadOpen ==
    << "[" >> \in Seq(AnswerCells) /\ Reading(<< "[" >>) = AtCell("first", << >>)
<1>1. "[" \in AnswerCells /\ << >> \in Seq(AnswerCells)
  BY EmptySeq DEF AnswerCells
<1>2. Reading(<< >> \o << "[" >>) = Read(Reading(<< >>), "[")
  BY <1>1, ReadOne
<1>3. << >> \o << "[" >> = << "[" >> /\ << "[" >> \in Seq(AnswerCells)
  BY <1>1, ConcatEmptySeq
<1>4. Read(ReaderStart, "[") = AtCell("first", << >>)
  BY DEF Read, ReaderStart, AtCell
<1> QED
  BY <1>2, <1>3, <1>4, ReadNone, Zenon

\* A plain name between quotes.
LEMMA NameRead ==
    ASSUME NEW d \in Seq(AnswerCells), NEW all \in Seq(Seq(AnswerCells)), NEW at \in {"first", "start"},
           Reading(d) = AtCell(at, all), NEW w \in Seq(Cells), Plain(w)
    PROVE  /\ ((d \o << "quote" >>) \o w) \o << "quote" >> \in Seq(AnswerCells)
           /\ Reading(((d \o << "quote" >>) \o w) \o << "quote" >>) = AtCell("end", Append(all, w))
<1>1. PICK p \in Seq(AnswerCells) : p = d \o << "quote" >> /\ Reading(p) = InString(<< >>, all)
  BY ReadSigns, Zenon
<1>2. PICK x \in Seq(AnswerCells) : x = p \o w /\ Reading(x) = InString(w, all)
  <2>1. p \in Seq(AnswerCells) /\ Reading(p) = InString(<< >>, all)
    BY <1>1
  <2> QED
    BY <2>1, ReadPlain
<1>3. x \o << "quote" >> \in Seq(AnswerCells) /\ Reading(x \o << "quote" >>) = AtCell("end", Append(all, w))
  <2>1. w \in Seq(AnswerCells)
    BY Wider
  <2> QED
    BY <1>2, <2>1, ReadSigns, Zenon
<1> QED
  BY <1>1, <1>2, <1>3, Zenon

\* The rest behind the first cell.
LEMMA BehindFirst ==
    ASSUME NEW c \in Cells, NEW y \in Seq(Cells)
    PROVE  Tail(<< c >> \o y) = y
<1> DEFINE t == << c >> \o y
<1>1. << c >> \in Seq(Cells) /\ Len(<< c >>) = 1 /\ Len(y) \in Nat
  BY OneCell, LenProperties
<1>2. /\ t \in Seq(Cells) /\ Len(t) = 1 + Len(y)
      /\ \A i \in 1..Len(t) : t[i] = IF i <= 1 THEN << c >>[i] ELSE y[i - 1]
  BY <1>1, ConcatProperties
<1> HIDE DEF t
<1>3. t # << >>
  BY <1>1, <1>2
<1>4. Tail(t) \in Seq(Cells) /\ Len(Tail(t)) = Len(t) - 1 /\ \A i \in 1..Len(Tail(t)) : Tail(t)[i] = t[i + 1]
  BY <1>2, <1>3, HeadTailProperties
<1>5. Len(Tail(t)) = Len(y) /\ \A i \in 1..Len(y) : Tail(t)[i] = y[i]
  <2>1. \A i \in 1..Len(y) : i + 1 \in 1..Len(t) /\ ~(i + 1 <= 1) /\ (i + 1) - 1 = i
    BY <1>1, <1>2
  <2> QED
    BY <1>1, <1>2, <1>4, <2>1
<1>6. Tail(t) = y
  <2> DEFINE u == Tail(t)
  <2>1. u \in Seq(Cells) /\ Len(u) = Len(y) /\ \A i \in 1..Len(u) : u[i] = y[i]
    BY <1>4, <1>5
  <2> HIDE DEF u
  <2>2. u = y
    BY <2>1, SeqEqual
  <2> QED
    BY <2>2 DEF u
<1> QED
  BY <1>6 DEF t

\* The names in order, one more at a time.
LEMMA LongerList ==
    ASSUME NEW T, NEW s \in Seq(T), NEW k \in Nat, k + 1 <= Len(s)
    PROVE  /\ SubSeq(s, 1, k) \in Seq(T) /\ s[k + 1] \in T
           /\ SubSeq(s, 1, k + 1) = Append(SubSeq(s, 1, k), s[k + 1])
<1> DEFINE x == SubSeq(s, 1, k + 1)
           y == SubSeq(s, 1, k)
           z == Append(y, s[k + 1])
<1>1. Len(s) \in Nat /\ k + 1 \in 1..Len(s) /\ k \in 0..Len(s) /\ k + 1 - 1 + 1 = k + 1
  BY LenProperties
<1>2. s[k + 1] \in T /\ \A i \in 1..Len(s) : s[i] \in T
  BY <1>1, ElementOfSeq
<1>3. x \in Seq(T) /\ Len(x) = k + 1 /\ \A i \in 1..(k + 1) : x[i] = s[i]
  BY <1>1, <1>2, SubSeqProperties
<1>4. y \in Seq(T) /\ Len(y) = k /\ \A i \in 1..k : y[i] = s[i]
  BY <1>1, <1>2, SubSeqProperties
<1> HIDE DEF x, y
<1>5. z \in Seq(T) /\ Len(z) = k + 1 /\ z[k + 1] = s[k + 1] /\ \A i \in 1..k : z[i] = y[i]
  BY <1>2, <1>4, AppendProperties
<1> HIDE DEF z
<1>6. \A i \in 1..(k + 1) : x[i] = z[i]
  <2> TAKE i \in 1..(k + 1)
  <2>1. i \in 1..k \/ i = k + 1
    OBVIOUS
  <2> QED
    BY <1>3, <1>4, <1>5, <2>1
<1>7. x = z
  BY <1>3, <1>5, <1>6, SeqEqual
<1> QED
  BY <1>2, <1>4, <1>7 DEF x, y, z

\* Plain names are read from the answer of $files in the order they have there.
LEMMA ListingRead ==
    ASSUME NEW s \in Seq(Seq(Cells)), \A i \in 1..Len(s) : Plain(s[i])
    PROVE  Reading(Tail(Listed(s))) = AtCell("done", s)
<1>1. PICK n \in Nat : n = Len(s)
  BY LenProperties
<1>2. PICK h \in [0..n -> Seq(Cells)] :
         /\ h[0] = << "[" >> /\ Listed(s) = (<< "json" >> \o h[n]) \o << "]" >>
         /\ \A i \in 1..n : h[i] = WithName(i, h[i - 1], s[i])
  BY <1>1, ListedGrow
<1>3. s \in Seq(Seq(AnswerCells))
  <2>1. s \in [1..n -> Seq(Cells)]
    BY <1>1, LenProperties
  <2>2. s \in [1..n -> Seq(AnswerCells)]
    BY <2>1, Wider
  <2> QED
    BY <2>2, SeqDef
<1> DEFINE At0(k) == IF k = 0 THEN "first" ELSE "end"
           M == {k \in Nat : k <= n => Reading(h[k]) = AtCell(At0(k), SubSeq(s, 1, k))}
<1>4. 0 \in M
  <2>1. SubSeq(s, 1, 0) = << >> /\ At0(0) = "first"
    BY SubSeqEmpty
  <2>2. Reading(h[0]) = AtCell(At0(0), SubSeq(s, 1, 0))
    BY <1>2, <2>1, ReadOpen, Zenon
  <2> QED
    BY <2>2
<1>5. ASSUME NEW k \in Nat, k \in M PROVE k + 1 \in M
  <2> SUFFICES ASSUME k + 1 <= n PROVE Reading(h[k + 1]) = AtCell(At0(k + 1), SubSeq(s, 1, k + 1))
    OBVIOUS
  <2>1. PICK i \in 1..n : i = k + 1 /\ i - 1 = k /\ k \in 0..n /\ k <= n
    OBVIOUS
  <2>2. PICK d \in Seq(Cells) : d = h[k]
    BY <1>2, <2>1
  <2>3. PICK all \in Seq(Seq(AnswerCells)) :
           all = SubSeq(s, 1, k) /\ SubSeq(s, 1, k + 1) = Append(all, s[k + 1])
    BY <1>1, <1>3, LongerList
  <2>4. PICK w \in Seq(Cells) : w = s[i] /\ Plain(w)
    BY <1>1, <2>1, ElementOfSeq
  <2>5. h[i] = WithName(i, d, w)
    <3>1. h[i] = WithName(i, h[i - 1], s[i])
      BY <1>2
    <3> QED
      BY <2>1, <2>2, <2>4, <3>1, Zenon
  <2>6. Reading(d) = AtCell(At0(k), all) /\ d \in Seq(AnswerCells)
    <3>1. Reading(h[k]) = AtCell(At0(k), SubSeq(s, 1, k))
      BY <1>5, <2>1
    <3> QED
      BY <2>2, <2>3, <3>1, Wider, Zenon
  <2>7. PICK e \in Seq(AnswerCells) :
           /\ e = d \o (IF i = 1 THEN << >> ELSE << "comma" >>)
           /\ \E at \in {"first", "start"} : Reading(e) = AtCell(at, all)
    <3>1. CASE k = 0
      <4>1. i = 1 /\ At0(k) = "first"
        BY <2>1, <3>1
      <4>2. d \o << >> = d
        BY ConcatEmptySeq
      <4> QED
        BY <2>6, <4>1, <4>2, Zenon
    <3>2. CASE k # 0
      <4>1. i # 1 /\ At0(k) = "end"
        BY <2>1, <3>2
      <4> QED
        BY <2>3, <2>6, <4>1, ReadSigns, Zenon
    <3> QED
      BY <3>1, <3>2
  <2>8. PICK at \in {"first", "start"} : Reading(e) = AtCell(at, all)
    BY <2>7
  <2>9. Reading(((e \o << "quote" >>) \o w) \o << "quote" >>) = AtCell("end", Append(all, w))
    <3>1. e \in Seq(AnswerCells) /\ all \in Seq(Seq(AnswerCells)) /\ w \in Seq(Cells) /\ Plain(w)
      BY <2>3, <2>4, <2>7
    <3> QED
      BY <2>8, <3>1, NameRead
  <2>10. At0(k + 1) = "end"
    OBVIOUS
  <2>11. h[i] = ((e \o << "quote" >>) \o w) \o << "quote" >>
    BY <2>5, <2>7, Zenon DEF WithName
  <2> QED
    BY <2>1, <2>3, <2>4, <2>9, <2>10, <2>11, Zenon
<1> HIDE DEF M
<1>6. Nat \subseteq M
  BY <1>4, <1>5, Induction
<1>7. Reading(h[n]) = AtCell(At0(n), s)
  <2>1. Reading(h[n]) = AtCell(At0(n), SubSeq(s, 1, n))
    BY <1>6 DEF M
  <2>2. SubSeq(s, 1, n) = s
    BY <1>1, SubSeqFull
  <2> QED
    BY <2>1, <2>2, Zenon
<1>8. PICK x \in Seq(Cells) : x = h[n]
  BY <1>2
<1>9. Reading(x \o << "]" >>) = AtCell("done", s)
  <2>1. At0(n) \in {"first", "end"} /\ x \in Seq(AnswerCells)
    BY Wider
  <2> QED
    BY <1>3, <1>7, <1>8, <2>1, ReadSigns, Zenon
<1>10. Tail(Listed(s)) = x \o << "]" >>
  <2>1. PICK j \in Seq(Cells) : j = << "json" >>
    BY SignCells
  <2>2. PICK b \in Seq(Cells) : b = << "]" >>
    BY SignCells
  <2>3. (j \o x) \o b = j \o (x \o b) /\ x \o b \in Seq(Cells)
    <3>1. j \in Seq(Cells) /\ x \in Seq(Cells) /\ b \in Seq(Cells)
      BY <1>8, <2>1, <2>2
    <3> QED
      BY <3>1, Associative
  <2>4. PICK y \in Seq(Cells) : y = x \o b
    BY <2>3
  <2>5. Tail(<< "json" >> \o y) = y
    BY SignCells, BehindFirst
  <2> QED
    BY <1>2, <1>8, <2>1, <2>2, <2>3, <2>4, <2>5, Zenon
<1> QED
  BY <1>9, <1>10, Zenon

\* What a listing that succeeded and fits its buffer is answered with.
LEMMA ListedAnswer ==
    ASSUME EditorInv, At, hc # NoValue, Listing, ret.ok,
           \A l \in Listings(ret.names) : Len(l) <= LIST_MAX,
           \A p \in ret.names : Plain(Tail(p))
    PROVE  \E s \in SetToSeqs({Tail(p) : p \in ret.names}) :
              Reading(Tail(<< "json" >> \o Json(IF rv > 0 THEN Bytes(mem, LIST_BUF, LIST_BUF + rv)
                                                ELSE << >>))) = AtCell("done", s)
<1>1. PICK s \in SetToSeqs({Tail(p) : p \in ret.names}) :
         /\ rv = Least(Len(Lines(s)), LIST_MAX)
         /\ Bytes(mem, LIST_BUF, LIST_BUF + rv) = SubSeq(Lines(s), 1, rv)
  BY DEF EditorInv, LinesInv, At
<1>2. ret.names \subseteq Paths
  BY DEF EditorInv, LinesInv, At
<1>3. s \in Seq(Seq(Cells)) /\ \A i \in 1..Len(s) : \E p \in ret.names : s[i] = Tail(p)
  BY <1>1, <1>2, Orders
<1>4. \A i \in 1..Len(s) : Named(s[i])
  BY <1>2, <1>3, FileNamed
<1>5. Lines(s) \in Listings(ret.names)
  BY <1>1 DEF Listings
<1>6. PICK l \in Seq(Cells) : l = Lines(s)
  BY <1>2, <1>5, ListingType
<1>7. l \in Seq(Cells) /\ Len(l) \in Nat /\ Len(l) <= LIST_MAX /\ LIST_MAX \in Nat
  BY <1>5, <1>6, LenProperties, Numbers
<1>8. rv = Len(l)
  BY <1>1, <1>6, <1>7 DEF Least
<1>9. SubSeq(l, 1, Len(l)) = l
  BY <1>7, Whole
<1>10. Bytes(mem, LIST_BUF, LIST_BUF + rv) = l
  BY <1>1, <1>6, <1>8, <1>9, Zenon
<1>11. (IF rv > 0 THEN Bytes(mem, LIST_BUF, LIST_BUF + rv) ELSE << >>) = l
  <2>1. CASE rv > 0
    BY <1>10, <2>1
  <2>2. CASE ~(rv > 0)
    <3>1. Len(l) = 0
      BY <1>7, <1>8, <2>2
    <3>2. l = << >>
      BY <1>7, <3>1, EmptySeq
    <3> QED
      BY <2>2, <3>2
  <2> QED
    BY <2>1, <2>2
<1>12. << "json" >> \o Json(Lines(s)) = Listed(s)
  BY <1>3, <1>4, JsonOfLines
<1>13. Reading(Tail(Listed(s))) = AtCell("done", s)
  <2>1. \A i \in 1..Len(s) : Plain(s[i])
    BY <1>3
  <2> QED
    BY <1>3, <2>1, ListingRead
<1> QED
  BY <1>1, <1>6, <1>11, <1>12, <1>13, Zenon

LEMMA FilesAnswerStep ==
    ASSUME EditorInv, FilesAnswer
    PROVE  EditorInv'
<1> DEFINE lines == IF rv > 0 THEN Bytes(mem, LIST_BUF, LIST_BUF + rv) ELSE << >>
           s == << "json" >> \o Json(lines)
<1>1. At /\ rv # NoValue /\ Answer(s)
  BY DEF FilesAnswer
<1>2. /\ HostInv /\ AreaInv /\ Handling /\ Loaded /\ app.name = "editor" /\ pc = "guest"
      /\ CallInv /\ mem \in Memories
  BY <1>1 DEF EditorInv, HostInv, At, Handling
<1>3. hc # NoValue /\ rv \in Int /\ rv >= -1 /\ (rv = -1 \/ rv <= AsUsize(hc.bl))
  BY <1>1, <1>2 DEF HostInv, Back
<1>4. req.path = << "files" >>
  BY <1>2, Route, RouteCells DEF FilesAnswer
<1>5. Listing /\ hc.bl = LIST_MAX /\ req.path # << "save" >> /\ req.path # << "read" >>
  <2>1. << "files" >> # << "save" >> /\ << "files" >> # << "read" >>
    OBVIOUS
  <2> QED
    BY <1>2, <1>3, <1>4, <2>1 DEF CallInv, Showing, Listing, Saving
<1>6. /\ LIST_BUF \in Nat /\ LIST_MAX \in Nat /\ DOC \in Nat /\ Size \in Nat /\ Size < USIZE
      /\ USIZE \in Nat /\ DOC < Size /\ LIST_BUF + LIST_MAX <= DOC /\ 3 * LIST_MAX + 4 <= DOC
  BY <1>2, Numbers, Layout
<1>7. lines \in Seq(Cells) /\ Len(lines) \in Nat /\ Len(lines) <= LIST_MAX
  <2>1. CASE rv > 0
    <3> DEFINE e == LIST_BUF + rv
    <3>1. AsUsize(LIST_MAX) = LIST_MAX
      BY <1>6, Usize
    <3>2. rv \in Nat /\ rv <= LIST_MAX
      BY <1>3, <1>5, <2>1, <3>1
    <3>3. e \in Nat /\ InBounds(LIST_BUF, e) /\ e - LIST_BUF = rv
      BY <1>6, <3>2 DEF InBounds
    <3>4. lines = Bytes(mem, LIST_BUF, e)
      BY <2>1
    <3> HIDE DEF e, lines
    <3>5. lines \in Seq(Cells) /\ Len(lines) = rv
      BY <1>2, <1>6, <3>3, <3>4, BytesOf
    <3> QED
      BY <3>2, <3>5
  <2>2. CASE ~(rv > 0)
    <3>1. lines = << >>
      BY <2>2
    <3>2. << >> \in Seq(Cells) /\ Len(<< >>) = 0
      BY EmptySeq
    <3> HIDE DEF lines
    <3> QED
      BY <1>6, <3>1, <3>2
  <2> QED
    BY <2>1, <2>2
<1>8. s \in Seq(Cells) /\ Len(s) >= 1 /\ Len(s) <= DOC /\ s # NoValue
  <2> HIDE DEF lines
  <2>1. s \in Seq(Cells) /\ Len(s) <= 3 * Len(lines) + 4 /\ Len(s) >= 1
    BY <1>7, JsonType
  <2> HIDE DEF s
  <2>3. Len(s) \in Nat
    BY <2>1, LenProperties
  <2> QED
    <3>1. Len(s) <= DOC
      BY <1>6, <1>7, <2>1, <2>3
    <3>2. s # NoValue
      BY <2>1, WasmConstants
    <3> QED
      BY <2>1, <3>1, <3>2
<1>9. PlainNamesListed'
  <2>1. answer' = s /\ UNCHANGED << app, req, ret >>
    <3> HIDE DEF s
    <3> QED
      BY <1>1, <1>8, AnswerStep
  <2>2. ASSUME ret.ok, \A l \in Listings(ret.names) : Len(l) <= LIST_MAX,
               \A p \in ret.names : Plain(Tail(p))
        PROVE  /\ Reading(Tail(s)).at = "done"
               /\ Reading(Tail(s)).all \in SetToSeqs({Tail(p) : p \in ret.names})
    <3>1. \E z \in SetToSeqs({Tail(p) : p \in ret.names}) : Reading(Tail(s)) = AtCell("done", z)
      BY <1>1, <1>3, <1>5, <2>2, ListedAnswer
    <3> HIDE DEF s
    <3> QED
      BY <3>1 DEF AtCell
  <2> HIDE DEF s
  <2> QED
    BY <2>1, <2>2 DEF PlainNamesListed, ListingFits, ReadAsNames
<1> HIDE DEF s
<1> QED
  BY <1>1, <1>5, <1>8, <1>9, NothingLearnt

-----------------------------------------------------------------------------
(* The theorems.                                                            *)

\* EditorInv is inductive: a case for each action.
LEMMA EditorStep ==
    ASSUME EditorInv, [Next]_evars
    PROVE  EditorInv'
<1>1. CASE Request /\ UNCHANGED maybe
  BY <1>1, EditorRequest
<1>2. CASE HostReturn /\ UNCHANGED maybe
  <2>1. CASE app.name = "editor"
    BY <1>2, <2>1, EditorReturn
  <2>2. CASE app.name # "editor"
    <3>1. HostInv' /\ app' = app
      BY <1>2, ReturnStep DEF EditorInv
    <3> QED
      BY <1>2, <2>2, <3>1, OtherModule
  <2> QED
    BY <2>1, <2>2
<1>3. CASE HostLate /\ UNCHANGED maybe
  BY <1>3, EditorLate
<1>4. CASE AnyModule /\ UNCHANGED maybe
  <2>1. HostInv' /\ app' = app /\ app.name # "editor"
    BY <1>4, AnyStep DEF EditorInv
  <2> QED
    BY <1>4, <2>1, OtherModule
<1>5. CASE NotFound
  BY <1>5, NotFoundStep
<1>6. CASE ReadCall
  <2>1. CASE ReadName = << >>
    BY <1>6, <2>1, ReadRefused
  <2>2. CASE ReadName # << >>
    BY <1>6, <2>2, ReadCallStep
  <2> QED
    BY <2>1, <2>2
<1>7. CASE ReadAnswer
  BY <1>7, ReadAnswerStep
<1>8. CASE SaveCall
  <2>1. CASE Newlines(Body) = {} \/ nl_pos = 0 \/ nl_pos > NAME_MAX
    BY <1>8, <2>1, SaveRefused
  <2>2. CASE ~(Newlines(Body) = {} \/ nl_pos = 0 \/ nl_pos > NAME_MAX)
    BY <1>8, <2>2, SaveCallStep
  <2> QED
    BY <2>1, <2>2
<1>9. CASE SaveAnswer
  BY <1>9, SaveAnswerStep
<1>10. CASE FilesCall
  BY <1>10, FilesCallStep
<1>11. CASE FilesAnswer
  BY <1>11, FilesAnswerStep
<1>12. CASE UNCHANGED evars
  <2>1. UNCHANGED << app, mem, fuel, pc, req, hc, rv, answer, served, files, call, undone, ret, maybe >>
    BY <1>12 DEF evars, vars, host, service
  <2>2. HostInv'
    BY <2>1 DEF EditorInv, HostInv, Loaded, Memories, Addresses, Size, Calling, Back, Inside, Known,
                PanicOnlyOutside
  <2>3. AreaInv' /\ CallInv' /\ MaybeInv'
    BY <2>1 DEF EditorInv, AreaInv, CallInv, MaybeInv, ReadsAreSaves, Handling, Path, Body, pl, bl,
                Showing, Saving, Listing
  <2>4. FilesInv' /\ ResultInv'
    BY <2>1 DEF EditorInv, FilesInv, ResultInv, Pending, Handling, Showing, Saving
  <2>5. LinesInv' /\ PlainNamesListed'
    BY <2>1 DEF EditorInv, LinesInv, PlainNamesListed, ListingFits, ReadAsNames, Listing
  <2> QED
    BY <2>2, <2>3, <2>4, <2>5 DEF EditorInv
<1> QED
  BY <1>1, <1>2, <1>3, <1>4, <1>5, <1>6, <1>7, <1>8, <1>9, <1>10, <1>11, <1>12
  DEF Next, EditorModule

\* The requests, the calls and the answers of the editor fit together in every
\* state, and so does what the client can know with what the files hold.
THEOREM EditorInvariant == Spec => []EditorInv
<1>1. EditorInit => EditorInv
  BY EditorStart
<1>2. EditorInv /\ [Next]_evars => EditorInv'
  BY EditorStep
<1> QED
  BY <1>1, <1>2, PTL DEF Spec

\* wasm_rt.rs:92-263: whatever a module does with the pointers and lengths it
\* passes, it stops the kernel only by a memory without the request area, a range
\* that is not inside its memory or a file call longer than a packet; the editor
\* does none of it, for every request.
THEOREM OnlyOutsidePanics == Spec => []PanicOnlyOutside
<1>1. EditorInv => PanicOnlyOutside
  BY DEF EditorInv, HostInv
<1> QED
  BY <1>1, EditorInvariant, PTL

\* editor.wat:4-5: whatever fails, is late or half done, a read shows the last
\* save that was confirmed or one that failed after it.
THEOREM EditorReadsSaves == Spec => []ReadsAreSaves
<1>1. EditorInv => ReadsAreSaves
  BY DEF EditorInv, MaybeInv
<1> QED
  BY <1>1, EditorInvariant, PTL

\* editor.wat:3: for any number of files and any names without a quote, a backslash
\* or a control byte, a JSON reader gets from the answer of $files to a listing
\* that fits its buffer an array of exactly the names.
THEOREM EditorListsNames == Spec => []PlainNamesListed
<1>1. EditorInv => PlainNamesListed
  BY DEF EditorInv
<1> QED
  BY <1>1, EditorInvariant, PTL

\* A step that ends with a result in the hands of the module.
Handed ==
    hc' # NoValue /\ pc' = "guest" =>
        /\ rv' = -1 \/ rv' <= AsUsize(hc'.bl)
        /\ pc = "host" \/ app.name = "any" => \A i \in DOMAIN mem :
              mem'[i] # mem[i] => i - AsUsize(hc'.b) \in 0..(rv' - 1)

LEMMA HandedStep ==
    ASSUME EditorInv, EditorInv', [Next]_evars
    PROVE  [Handed]_vars
<1>1. HostInv /\ HostInv'
  BY DEF EditorInv
<1>2. DOMAIN mem = Addresses
  BY <1>1 DEF HostInv, Memories
<1>3. hc' # NoValue /\ pc' = "guest" => rv' = -1 \/ rv' <= AsUsize(hc'.bl)
  BY <1>1 DEF HostInv, Back
<1>4. CASE Request
  <2>1. hc' = NoValue
    BY <1>1, <1>4, RequestStep
  <2> QED
    BY <2>1 DEF Handed
<1>5. CASE HostReturn
  <2>1. hc' = hc /\ (pc' = "guest" => Confined(mem, hc))
    BY <1>1, <1>5, ReturnStep
  <2> QED
    BY <1>2, <1>3, <2>1 DEF Handed, Confined
<1>6. CASE HostLate
  <2>1. mem' = mem
    BY <1>1, <1>6, LateStep DEF host
  <2> QED
    BY <1>3, <2>1 DEF Handed
<1>7. CASE AnyModule
  <2>1. hc' # NoValue /\ pc' = "guest" => Confined(mem, hc')
    BY <1>1, <1>7, AnyStep
  <2> QED
    BY <1>2, <1>3, <2>1 DEF Handed, Confined
<1>8. CASE EditorModule
  <2>1. app.name = "editor" /\ pc = "guest"
    BY <1>8 DEF EditorModule, NotFound, ReadCall, ReadAnswer, SaveCall, SaveAnswer, FilesCall,
                FilesAnswer, At
  <2> QED
    BY <1>3, <2>1 DEF Handed
<1>9. CASE UNCHANGED evars
  BY <1>9 DEF evars
<1> QED
  BY <1>4, <1>5, <1>6, <1>7, <1>8, <1>9 DEF Next

\* wasm_rt.rs:138, 170, 222: for every module, pointer and length, a host function
\* writes only where it was told to, as much as it reports and no more than it
\* was allowed.
THEOREM HostFunctionsConfined == Spec => HostWritesConfined
<1>1. EditorInv /\ EditorInv' /\ [Next]_evars => [Handed]_vars
  BY HandedStep
<1>2. Spec => [][Handed]_vars
  BY <1>1, EditorInvariant, PTL DEF Spec
<1> QED
  BY <1>2 DEF HostWritesConfined, Handed

-----------------------------------------------------------------------------
(* The bulletin board.                                                      *)

\* What FlattenSeq computes: f[i] is the first i sequences one after the other.
Flattens(f, q) == f[0] = << >> /\ \A i \in 1..Len(q) : f[i] = f[i - 1] \o q[i]

\* FlattenSeq is given by such a function.
LEMMA FlattenFollows ==
    ASSUME NEW S, NEW q \in Seq(Seq(S))
    PROVE  \E f \in [0..Len(q) -> Seq(S)] : Flattens(f, q) /\ FlattenSeq(q) = f[Len(q)]
<1> DEFINE n == Len(q)
           T == Seq(S)
           P(f) == f = [i \in 1..n |-> IF i = 1 THEN q[i] ELSE f[i - 1] \o q[i]]
           step == [i \in 1..n |-> [b \in T |-> b \o q[i]]]
<1>1. n \in Nat /\ << >> \in T /\ q \in [1..n -> T] /\ \A b \in T, i \in 1..n : b \o q[i] \in T
  BY LenProperties, EmptySeq, ConcatProperties
<1>2. CASE n = 0
  <2>1. q = << >>
    BY <1>2, EmptySeq
  <2>2. FlattenSeq(q) = << >>
    BY <1>2, <2>1 DEF FlattenSeq
  <2> DEFINE f == [i \in 0..0 |-> << >>]
  <2>3. f \in [0..n -> T] /\ Flattens(f, q) /\ f[n] = << >>
    BY <1>1, <1>2 DEF Flattens
  <2> QED
    BY <2>2, <2>3
<1>3. CASE n # 0
  <2> HIDE DEF n
  <2>1. /\ step \in [1..n -> [T -> T]] /\ DOMAIN step = 1..n
        /\ \A i \in 1..n, b \in T : step[i][b] = b \o q[i]
    BY <1>1
  <2> HIDE DEF step
  <2>2. PICK f \in [0..n -> T] : Follows(f, << >>, step)
    <3> HIDE DEF T
    <3> QED
      BY <1>1, <2>1, Recursion
  <2>3. f[0] = << >> /\ \A i \in 1..n : f[i] = f[i - 1] \o q[i]
    <3> HIDE DEF T
    <3>1. \A i \in 1..n : i - 1 \in 0..n /\ f[i - 1] \in T
      BY <1>1, <2>2
    <3> QED
      BY <2>1, <2>2, <3>1 DEF Follows
  <2>4. 1 \in 1..n /\ f[1] = q[1] /\ n \in 1..n
    <3>1. 1 \in 1..n /\ n \in 1..n /\ q[1] \in T
      BY <1>1, <1>3
    <3>2. f[1] = << >> \o q[1]
      <4>1. f[1] = f[1 - 1] \o q[1] /\ f[0] = << >>
        BY <2>3, <3>1, Zenon
      <4>2. 1 - 1 = 0
        OBVIOUS
      <4> QED
        BY <4>1, <4>2, Zenon
    <3> QED
      BY <3>1, <3>2, ConcatEmptySeq
  <2> DEFINE g == [i \in 1..n |-> f[i]]
  <2>5. P(g)
    <3>1. \A i \in 1..n : g[i] = IF i = 1 THEN q[i] ELSE g[i - 1] \o q[i]
      <4> SUFFICES ASSUME NEW i \in 1..n PROVE g[i] = IF i = 1 THEN q[i] ELSE g[i - 1] \o q[i]
        OBVIOUS
      <4>1. i = 1 \/ i - 1 \in 1..n
        BY <1>1
      <4> QED
        BY <2>3, <2>4, <4>1
    <3> QED
      BY <3>1
  <2>6. PICK h : P(h) /\ FlattenSeq(q) = h[n]
    <3> HIDE DEF g
    <3> QED
      BY <1>3, <2>5 DEF FlattenSeq, n
  <2>7. \A i \in 1..n : h[i] = IF i = 1 THEN q[i] ELSE h[i - 1] \o q[i]
    BY <2>6
  <2> HIDE DEF P, g
  <2>8. \A i \in Nat : i \in 1..n => h[i] = f[i]
    <3> DEFINE M == {i \in Nat : i \in 1..n => h[i] = f[i]}
    <3>1. 0 \in M
      OBVIOUS
    <3>2. ASSUME NEW i \in Nat, i \in M PROVE i + 1 \in M
      <4> SUFFICES ASSUME i + 1 \in 1..n PROVE h[i + 1] = f[i + 1]
        OBVIOUS
      <4>1. (i + 1) - 1 = i /\ (i = 0 \/ i \in 1..n)
        BY <1>1
      <4>2. CASE i = 0
        BY <2>4, <2>7, <4>2
      <4>3. CASE i # 0
        <5>1. i \in 1..n /\ i + 1 # 1 /\ h[i] = f[i]
          BY <3>2, <4>1, <4>3
        <5>2. h[i + 1] = h[(i + 1) - 1] \o q[i + 1] /\ f[i + 1] = f[(i + 1) - 1] \o q[i + 1]
          BY <2>3, <2>7, <5>1, Zenon
        <5> QED
          BY <4>1, <5>1, <5>2, Zenon
      <4> QED
        BY <4>2, <4>3
    <3>3. Nat \subseteq M
      <4> HIDE DEF M
      <4> QED
        BY <3>1, <3>2, Induction
    <3> QED
      BY <3>3
  <2>9. FlattenSeq(q) = f[n]
    BY <1>1, <2>4, <2>6, <2>8
  <2>10. Flattens(f, q)
    BY <2>3 DEF Flattens, n
  <2> QED
    BY <2>2, <2>9, <2>10 DEF n
<1> QED
  BY <1>2, <1>3

-----------------------------------------------------------------------------
(* What the reader gets of a message.                                       *)

\* A byte that is shown, as the reader gets it.
ShownByte(c) == IF c = "ctl" THEN << >> ELSE << c >>

\* A byte inside a string.
LEMMA ReadByte ==
    ASSUME NEW s \in Seq(AnswerCells), NEW v \in Seq(AnswerCells), NEW all \in Seq(Seq(AnswerCells)),
           Reading(s) = InString(v, all), NEW c \in BoardBytes
    PROVE  /\ Escape(c) \in Seq(AnswerCells) /\ ShownByte(c) \in Seq(AnswerCells)
           /\ s \o Escape(c) \in Seq(AnswerCells) /\ v \o ShownByte(c) \in Seq(AnswerCells)
           /\ Reading(s \o Escape(c)) = InString(v \o ShownByte(c), all)
<1>1. /\ "quote" \in AnswerCells /\ "bslash" \in AnswerCells /\ c \in AnswerCells
      /\ InString(v, all).at = "string" /\ InString(v, all).cur = v
  BY DEF AnswerCells, BoardBytes, InString
<1>2. CASE c = "ctl"
  <2>1. Escape(c) = << >> /\ ShownByte(c) = << >>
    BY <1>2 DEF Escape, ShownByte
  <2>2. << >> \in Seq(AnswerCells) /\ s \o << >> = s /\ v \o << >> = v
    BY EmptySeq, ConcatEmptySeq
  <2> QED
    BY <2>1, <2>2
<1>3. CASE c \notin {"ctl", "quote", "bslash"}
  <2>1. Escape(c) = << c >> /\ ShownByte(c) = << c >>
    BY <1>3 DEF Escape, ShownByte
  <2>2. << c >> \in Seq(AnswerCells) /\ s \o << c >> \in Seq(AnswerCells)
        /\ v \o << c >> \in Seq(AnswerCells) /\ Append(v, c) = v \o << c >>
    BY <1>1, ConcatProperties, AppendIsConcat
  <2>3. Reading(s \o << c >>) = Read(InString(v, all), c)
    BY <1>1, ReadOne
  <2>4. Read(InString(v, all), c) = [InString(v, all) EXCEPT !.cur = Append(@, c)]
    BY <1>1, <1>3 DEF Read
  <2>5. Read(InString(v, all), c) = InString(Append(v, c), all)
    BY <2>4 DEF InString
  <2> QED
    BY <2>1, <2>2, <2>3, <2>5
<1>4. CASE c \in {"quote", "bslash"}
  <2>1. Escape(c) = << "bslash", c >> /\ ShownByte(c) = << c >>
    BY <1>4 DEF Escape, ShownByte
  <2> DEFINE e == << "bslash", c >>
             b == << "bslash" >>
             d == << c >>
             t == s \o b
  <2>2. b \in Seq(AnswerCells) /\ d \in Seq(AnswerCells) /\ e \in Seq(AnswerCells) /\ e = b \o d
    BY <1>1
  <2>3. /\ t \in Seq(AnswerCells) /\ s \o e = t \o d /\ s \o e \in Seq(AnswerCells)
        /\ v \o d \in Seq(AnswerCells) /\ Append(v, c) = v \o d
    <3>1. s \o e = t \o d
      <4> HIDE DEF e, b, d
      <4>1. (s \o b) \o d = s \o (b \o d)
        BY <2>2, ConcatAssociative
      <4> QED
        BY <2>2, <4>1, Zenon
    <3> QED
      BY <1>1, <2>2, <3>1, ConcatProperties, AppendIsConcat
  <2>4. Reading(t) = Read(InString(v, all), "bslash")
    BY <1>1, ReadOne
  <2>5. Read(InString(v, all), "bslash") = [InString(v, all) EXCEPT !.at = "escape"]
    BY <1>1 DEF Read
  <2> DEFINE x == [at |-> "escape", cur |-> v, all |-> all]
  <2>6. Reading(t) = x
    BY <2>4, <2>5 DEF InString
  <2> HIDE DEF t
  <2>7. Reading(t \o d) = Read(x, c)
    BY <1>1, <2>3, <2>6, ReadOne
  <2>8. Read(x, c) = [x EXCEPT !.at = "string", !.cur = Append(@, c)]
    BY <1>4 DEF Read
  <2>9. Read(x, c) = InString(Append(v, c), all)
    BY <2>8 DEF InString
  <2> QED
    BY <2>1, <2>2, <2>3, <2>7, <2>9
<1> QED
  BY <1>2, <1>3, <1>4

\* A whole message: the reader gets it without its control bytes.
LEMMA ReadMessage ==
    ASSUME NEW p \in Seq(AnswerCells), NEW all \in Seq(Seq(AnswerCells)),
           Reading(p) = InString(<< >>, all), NEW m \in Seq(BoardBytes)
    PROVE  /\ Escaped(m) \in Seq(AnswerCells) /\ Abstract!Visible(m) \in Seq(AnswerCells)
           /\ p \o Escaped(m) \in Seq(AnswerCells)
           /\ Reading(p \o Escaped(m)) = InString(Abstract!Visible(m), all)
<1> DEFINE n == Len(m)
           E == [k \in DOMAIN m |-> Escape(m[k])]
           V == [k \in DOMAIN m |-> IF m[k] = "ctl" THEN << >> ELSE << m[k] >>]
           T == Seq(AnswerCells)
<1>1. n \in Nat /\ DOMAIN m = 1..n /\ \A k \in 1..n : m[k] \in BoardBytes
  BY LenProperties, ElementOfSeq
<1>2. \A c \in BoardBytes : Escape(c) \in T /\ ShownByte(c) \in T
  <2>1. << >> \in T
    BY EmptySeq
  <2> QED
    BY <2>1, ReadByte
<1>3. /\ E \in Seq(T) /\ Len(E) = n /\ \A k \in 1..n : E[k] = Escape(m[k])
      /\ V \in Seq(T) /\ Len(V) = n /\ \A k \in 1..n : V[k] = ShownByte(m[k])
  <2>1. /\ E = [k \in 1..n |-> Escape(m[k])] /\ \A k \in 1..n : Escape(m[k]) \in T
    BY <1>1, <1>2
  <2>2. /\ V = [k \in 1..n |-> ShownByte(m[k])] /\ \A k \in 1..n : ShownByte(m[k]) \in T
    BY <1>1, <1>2 DEF ShownByte
  <2> HIDE DEF E, V, T, n
  <2>3. E \in [1..n -> T] /\ V \in [1..n -> T]
    BY <2>1, <2>2
  <2>4. E \in Seq(T) /\ V \in Seq(T)
    BY <1>1, <2>3, SeqDef
  <2> QED
    BY <1>1, <2>1, <2>2, <2>3, <2>4, LenProperties
<1>4. Escaped(m) = FlattenSeq(E) /\ Abstract!Visible(m) = FlattenSeq(V)
  <2>1. Escaped(m) = FlattenSeq(E)
    BY DEF Escaped
  <2>2. Abstract!Visible(m) = Abstract!FlattenSeq(V)
    BY DEF Abstract!Visible
  <2> HIDE DEF V
  <2>3. Abstract!FlattenSeq(V) = FlattenSeq(V)
    BY DEF Abstract!FlattenSeq, FlattenSeq
  <2> QED
    BY <2>1, <2>2, <2>3
<1> HIDE DEF E, V
<1>5. PICK f \in [0..n -> T] : Flattens(f, E) /\ Escaped(m) = f[n]
  <2>1. \E f \in [0..Len(E) -> T] : Flattens(f, E) /\ FlattenSeq(E) = f[Len(E)]
    BY <1>3, FlattenFollows
  <2> QED
    BY <1>3, <1>4, <2>1
<1>6. PICK g \in [0..n -> T] : Flattens(g, V) /\ Abstract!Visible(m) = g[n]
  <2>1. \E h \in [0..Len(V) -> T] : Flattens(h, V) /\ FlattenSeq(V) = h[Len(V)]
    BY <1>3, FlattenFollows
  <2> QED
    BY <1>3, <1>4, <2>1
<1>7. /\ f[0] = << >> /\ \A i \in 1..n : f[i] = f[i - 1] \o Escape(m[i])
      /\ g[0] = << >> /\ \A i \in 1..n : g[i] = g[i - 1] \o ShownByte(m[i])
  BY <1>3, <1>5, <1>6 DEF Flattens
<1> HIDE DEF n, T
<1> DEFINE M == {i \in Nat : i <= n => Reading(p \o f[i]) = InString(g[i], all)}
<1>8. 0 \in M
  <2>1. p \o << >> = p
    BY ConcatEmptySeq
  <2> QED
    BY <1>7, <2>1
<1>9. ASSUME NEW i \in Nat, i \in M PROVE i + 1 \in M
  <2> SUFFICES ASSUME i + 1 <= n PROVE Reading(p \o f[i + 1]) = InString(g[i + 1], all)
    OBVIOUS
  <2> DEFINE j == i + 1
             c == m[j]
             e == Escape(c)
  <2>1. j \in 1..n /\ j - 1 = i /\ i \in 0..n /\ Reading(p \o f[i]) = InString(g[i], all)
    BY <1>1, <1>9
  <2>2. c \in BoardBytes /\ f[j] = f[i] \o e /\ g[j] = g[i] \o ShownByte(c)
    <3> HIDE DEF j
    <3>1. f[j] = f[j - 1] \o Escape(m[j]) /\ g[j] = g[j - 1] \o ShownByte(m[j])
      BY <1>7, <2>1, Zenon
    <3>2. m[j] \in BoardBytes
      BY <1>1, <2>1
    <3> QED
      BY <2>1, <3>1, <3>2, Zenon
  <2>3. f[i] \in Seq(AnswerCells) /\ g[i] \in Seq(AnswerCells) /\ e \in Seq(AnswerCells)
    BY <1>2, <1>5, <1>6, <2>1, <2>2 DEF T
  <2> HIDE DEF e, c, j
  <2> DEFINE s == p \o f[i]
  <2>4. s \in Seq(AnswerCells) /\ p \o (f[i] \o e) = s \o e
    <3> DEFINE a == f[i]
    <3>0. a \in Seq(AnswerCells)
      BY <2>3
    <3> HIDE DEF a
    <3>1. p \o a \in Seq(AnswerCells) /\ (p \o a) \o e = p \o (a \o e)
      <4>1. p \in Seq(AnswerCells) /\ a \in Seq(AnswerCells) /\ e \in Seq(AnswerCells)
        BY <2>3, <3>0
      <4>2. p \o a \in Seq(AnswerCells)
        BY <4>1, JoinedCells, Zenon
      <4>3. (p \o a) \o e = p \o (a \o e)
        BY <4>1, JoinedCells, Zenon
      <4> QED
        BY <4>2, <4>3
    <3> QED
      BY <3>1, Zenon DEF a
  <2>5. Reading(s) = InString(g[i], all)
    BY <2>1
  <2> HIDE DEF s
  <2>6. Reading(s \o e) = InString(g[i] \o ShownByte(c), all)
    BY <2>2, <2>3, <2>4, <2>5, ReadByte DEF e
  <2>7. Reading(p \o f[j]) = InString(g[j], all)
    BY <2>2, <2>4, <2>6, Zenon
  <2> QED
    BY <2>7 DEF j
<1>10. Nat \subseteq M
  <2> HIDE DEF M
  <2> QED
    BY <1>8, <1>9, Induction
<1>11. Reading(p \o f[n]) = InString(g[n], all)
  BY <1>1, <1>10
<1>12. f[n] \in Seq(AnswerCells) /\ g[n] \in Seq(AnswerCells)
  BY <1>1, <1>5, <1>6 DEF T
<1> QED
  BY <1>5, <1>6, <1>11, <1>12, ConcatProperties

\* A string between quotes, with a comma after it or without.
LEMMA ReadString ==
    ASSUME NEW p \in Seq(AnswerCells), NEW all \in Seq(Seq(AnswerCells)), NEW m \in Seq(BoardBytes),
           NEW at \in {"first", "start"}, Reading(p) = AtCell(at, all),
           NEW c \in {<< >>, << "comma" >>}
    PROVE  LET q == << "quote" >> \o Escaped(m) \o << "quote" >> \o c
               v == Abstract!Visible(m)
           IN  /\ q \in Seq(AnswerCells) /\ p \o q \in Seq(AnswerCells) /\ v \in Seq(AnswerCells)
               /\ Reading(p \o q) = [at |-> IF c = << >> THEN "end" ELSE "start", cur |-> << >>,
                                         all |-> Append(all, v)]
<1> DEFINE T == Seq(AnswerCells)
           d == << "quote" >>
           e == Escaped(m)
           v == Abstract!Visible(m)
           s == AtCell(at, all)
           r == [at |-> "end", cur |-> << >>, all |-> Append(all, v)]
           p1 == p \o d
           p2 == p1 \o e
           p3 == p2 \o d
<1>1. "quote" \in AnswerCells /\ "comma" \in AnswerCells /\ d \in T /\ c \in T
  <2>1. "quote" \in AnswerCells /\ "comma" \in AnswerCells
    BY DEF AnswerCells, BoardBytes
  <2>2. << "quote" >> \in Seq(AnswerCells) /\ << "comma" >> \in Seq(AnswerCells)
        /\ << >> \in Seq(AnswerCells)
    BY <2>1, EmptySeq
  <2> QED
    BY <2>1, <2>2, Zenon
<1>2. p1 \in T /\ Reading(p1) = InString(<< >>, all)
  <2>1. p1 \in T /\ Reading(p1) = Read(s, "quote")
    BY <1>1, ReadOne
  <2>2. Read(s, "quote") = [s EXCEPT !.at = "string"]
    BY DEF Read, AtCell
  <2>3. Read(s, "quote") = InString(<< >>, all)
    BY <2>2 DEF InString, AtCell
  <2> QED
    BY <2>1, <2>3
<1> HIDE DEF p1
<1>3. e \in T /\ v \in T /\ p2 \in T /\ Reading(p2) = InString(v, all)
  BY <1>2, ReadMessage
<1> HIDE DEF p2, e, v
<1>4. p3 \in T /\ Reading(p3) = r
  <2>1. p3 \in T /\ Reading(p3) = Read(InString(v, all), "quote")
    BY <1>1, <1>3, ReadOne
  <2>2. /\ InString(v, all).at = "string" /\ InString(v, all).cur = v
    BY DEF InString
  <2>3. Read(InString(v, all), "quote")
          = [InString(v, all) EXCEPT !.at = "end", !.cur = << >>, !.all = Append(@, v)]
    BY <2>2 DEF Read
  <2>4. Read(InString(v, all), "quote") = r
    BY <2>3 DEF InString
  <2> QED
    BY <2>1, <2>4
<1>5. d \o e \in T /\ (d \o e) \o d \in T /\ ((d \o e) \o d) \o c \in T
      /\ p \o (((d \o e) \o d) \o c) = p3 \o c
  <2> HIDE DEF d, T, p3
  <2>1. d \o e \in T /\ (d \o e) \o d \in T /\ ((d \o e) \o d) \o c \in T
    BY <1>1, <1>3, ConcatProperties DEF T
  <2>2. /\ p \o (d \o e) = p2 /\ p \o ((d \o e) \o d) = (p \o (d \o e)) \o d
        /\ p \o (((d \o e) \o d) \o c) = (p \o ((d \o e) \o d)) \o c
    <3>1. p \in Seq(AnswerCells) /\ d \in Seq(AnswerCells) /\ e \in Seq(AnswerCells)
          /\ c \in Seq(AnswerCells)
      BY <1>1, <1>3 DEF T
    <3>2. (p \o d) \o e = p \o (d \o e)
      BY <3>1, JoinedCells, Zenon
    <3> DEFINE x == d \o e
               y == x \o d
    <3>3. x \in Seq(AnswerCells) /\ y \in Seq(AnswerCells)
      BY <2>1 DEF T
    <3> HIDE DEF x, y
    <3>4. (p \o x) \o d = p \o (x \o d) /\ (p \o y) \o c = p \o (y \o c)
      BY <3>1, <3>3, JoinedCells, Zenon
    <3> QED
      BY <3>2, <3>4, Zenon DEF x, y, p1, p2
  <2> QED
    BY <2>1, <2>2, Zenon DEF p3
<1> DEFINE q == ((d \o e) \o d) \o c
           z == [at |-> IF c = << >> THEN "end" ELSE "start", cur |-> << >>, all |-> Append(all, v)]
<1>6. p3 \o c \in T /\ Reading(p3 \o c) = z
  <2> HIDE DEF p3
  <2>1. CASE c = << >>
    BY <1>4, <2>1, ConcatEmptySeq
  <2>2. CASE c = << "comma" >>
    <3>0. c # << >>
      BY <2>2
    <3>1. p3 \o c \in T /\ Reading(p3 \o c) = Read(r, "comma")
      BY <1>1, <1>4, <2>2, ReadOne
    <3>2. Read(r, "comma") = [r EXCEPT !.at = "start"]
      BY DEF Read
    <3> QED
      BY <3>0, <3>1, <3>2
  <2> QED
    BY <2>1, <2>2
<1>7. q \in T /\ p \o q \in T /\ v \in T /\ Reading(p \o q) = z
  <2> HIDE DEF p3, d, T, z
  <2> QED
    BY <1>3, <1>5, <1>6, Zenon
<1> QED
  BY <1>7 DEF e, v

-----------------------------------------------------------------------------
(* The slots.                                                               *)

\* What the words and the slots hold.
BoardInv ==
    /\ posts \in 0..MaxMsgs /\ lens \in [0..(MaxMsgs - 1) -> 0..MaxLen]
    /\ texts \in [0..(MaxMsgs - 1) -> [1..MaxLen -> BoardBytes]]

\* The first n cells of a slot.
LEMMA SlotPart ==
    ASSUME NEW t \in [1..MaxLen -> BoardBytes], NEW n \in 0..MaxLen
    PROVE  /\ SubSeq(t, 1, n) \in Seq(BoardBytes) /\ Len(SubSeq(t, 1, n)) = n
           /\ \A i \in 1..n : SubSeq(t, 1, n)[i] = t[i]
<1>1. t \in Seq(BoardBytes) /\ Len(t) = MaxLen
  BY SeqDef, LenProperties, BbsConstants
<1>2. \A i \in 1..n : i \in 1..Len(t)
  BY <1>1, BbsConstants
<1>3. \A i \in 1..n : t[i] \in BoardBytes
  BY <1>1, <1>2
<1>4. SubSeq(t, 1, n) = [i \in 1..n |-> t[i]]
  BY <1>1, <1>2
<1>5. SubSeq(t, 1, n) \in [1..n -> BoardBytes]
  BY <1>3, <1>4
<1>6. n \in Nat
  BY BbsConstants
<1> DEFINE x == SubSeq(t, 1, n)
<1>7. x \in [1..n -> BoardBytes] /\ \A i \in 1..n : x[i] = t[i]
  BY <1>4, <1>5
<1> HIDE DEF x
<1>8. x \in Seq(BoardBytes)
  BY <1>6, <1>7, SeqDef
<1>9. Len(x) = n
  BY <1>6, <1>7, <1>8, LenProperties
<1> QED
  BY <1>7, <1>8, <1>9 DEF x

\* The board is a list of messages, one for each slot that the count covers.
LEMMA BoardTypes ==
    ASSUME BoardInv
    PROVE  /\ Board \in Seq(Seq(BoardBytes)) /\ Len(Board) = posts /\ posts \in Nat
           /\ DOMAIN Board = 1..posts
           /\ \A k \in 1..posts :
                 /\ k - 1 \in 0..(MaxMsgs - 1) /\ Board[k] \in Seq(BoardBytes)
                 /\ Board[k] = SubSeq(texts[k - 1], 1, lens[k - 1])
<1> DEFINE b == Board
<1>1. b = [k \in 1..posts |-> SubSeq(texts[k - 1], 1, lens[k - 1])]
  BY DEF Board
<1>2. ASSUME NEW k \in 1..posts
      PROVE  k - 1 \in 0..(MaxMsgs - 1) /\ SubSeq(texts[k - 1], 1, lens[k - 1]) \in Seq(BoardBytes)
  <2>1. k - 1 \in 0..(MaxMsgs - 1)
    BY BbsConstants DEF BoardInv
  <2>2. texts[k - 1] \in [1..MaxLen -> BoardBytes] /\ lens[k - 1] \in 0..MaxLen
    BY <2>1 DEF BoardInv
  <2> QED
    BY <2>1, <2>2, SlotPart
<1>3. posts \in Nat
  BY BbsConstants DEF BoardInv
<1> HIDE DEF b
<1>4. b \in [1..posts -> Seq(BoardBytes)]
  BY <1>1, <1>2
<1>5. b \in Seq(Seq(BoardBytes))
  BY <1>3, <1>4, SeqDef
<1>6. Len(b) = posts
  BY <1>3, <1>4, <1>5, LenProperties
<1> QED
  BY <1>1, <1>2, <1>3, <1>4, <1>5, <1>6 DEF b

\* A reader of the whole answer gets every message on the board, in order, and
\* each without its control bytes.
LEMMA ReadBoard ==
    ASSUME BoardInv
    PROVE  Parsed(BbsJson) = [k \in DOMAIN Board |-> Abstract!Visible(Board[k])]
<1> DEFINE n == posts
           b == Board
           T == Seq(AnswerCells)
           q == [k \in 1..n |-> JsonString(k)]
           c(k) == IF k < n THEN << "comma" >> ELSE << >>
           J(k) == << "quote" >> \o Escaped(b[k]) \o << "quote" >> \o c(k)
           v == [k \in 1..n |-> Abstract!Visible(b[k])]
           o == << "[" >>
           R(k) == AtCell(IF k = 0 THEN "first" ELSE IF k < n THEN "start" ELSE "end", SubSeq(v, 1, k))
<1>1. n \in Nat /\ DOMAIN b = 1..n /\ \A k \in 1..n : b[k] \in Seq(BoardBytes)
  BY BoardTypes
<1>2. \A k \in 1..n : q[k] = J(k)
  BY DEF JsonString, Comma
<1>3. BbsJson = (o \o FlattenSeq(q)) \o << "]" >>
  BY DEF BbsJson
<1> HIDE DEF q, n, b
<1>4. ASSUME NEW k \in 1..n PROVE J(k) \in T /\ v[k] \in T
  <2> DEFINE p == << "[" >>
             e == c(k)
  <2>1. p \in T /\ << >> \in Seq(T) /\ b[k] \in Seq(BoardBytes)
    BY <1>1, EmptySeq, ReadOpen
  <2>2. e \in {<< >>, << "comma" >>}
    OBVIOUS
  <2>3. Reading(p) = AtCell("first", << >>)
    BY ReadOpen
  <2> HIDE DEF e
  <2>4. << "quote" >> \o Escaped(b[k]) \o << "quote" >> \o e \in T
        /\ Abstract!Visible(b[k]) \in T
    BY <2>1, <2>2, <2>3, ReadString
  <2> QED
    BY <2>4 DEF e
<1>5. q \in Seq(T) /\ Len(q) = n /\ v \in Seq(T) /\ Len(v) = n
  <2> DEFINE w == v
  <2> HIDE DEF T, J
  <2>0. q \in [1..n -> T]
    <3>1. q = [k \in 1..n |-> JsonString(k)]
      BY DEF q
    <3> QED
      BY <1>2, <1>4, <3>1
  <2>1. v \in [1..n -> T]
    BY <1>4
  <2> HIDE DEF v
  <2>2. q \in Seq(T) /\ v \in Seq(T)
    BY <1>1, <2>0, <2>1, SeqDef
  <2> QED
    BY <1>1, <2>0, <2>1, <2>2, LenProperties
<1>6. PICK f \in [0..n -> T] : Flattens(f, q) /\ FlattenSeq(q) = f[n]
  <2> HIDE DEF v
  <2>1. \E f \in [0..Len(q) -> T] : Flattens(f, q) /\ FlattenSeq(q) = f[Len(q)]
    BY <1>5, FlattenFollows
  <2> QED
    BY <1>5, <2>1
<1>7. f[0] = << >> /\ \A k \in 1..n : f[k] = f[k - 1] \o J(k)
  <2>1. f[0] = << >> /\ \A k \in 1..n : f[k] = f[k - 1] \o q[k]
    BY <1>5, <1>6 DEF Flattens
  <2> HIDE DEF J
  <2> QED
    BY <1>2, <2>1, Zenon
<1>8. SubSeq(v, 1, 0) = << >> /\ SubSeq(v, 1, n) = v
      /\ \A k \in 1..n : /\ SubSeq(v, 1, k) = Append(SubSeq(v, 1, k - 1), v[k])
                         /\ SubSeq(v, 1, k - 1) \in Seq(T)
  <2> HIDE DEF v, T
  <2>1. SubSeq(v, 1, 0) = << >> /\ SubSeq(v, 1, n) = v
    BY <1>1, <1>5, SubSeqFull, SubSeqEmpty
  <2>2. ASSUME NEW k \in 1..n
        PROVE  /\ SubSeq(v, 1, k) = Append(SubSeq(v, 1, k - 1), v[k])
               /\ SubSeq(v, 1, k - 1) \in Seq(T)
    <3> DEFINE x == SubSeq(v, 1, k)
               y == SubSeq(v, 1, k - 1)
               z == Append(y, v[k])
    <3>1. x \in Seq(T) /\ Len(x) = k /\ (\A i \in 1..k : x[i] = v[i]) /\ v[k] \in T
      BY <1>1, <1>5, SubSeqProperties
    <3>2. y \in Seq(T) /\ Len(y) = k - 1 /\ \A i \in 1..(k - 1) : y[i] = v[i]
      BY <1>1, <1>5, SubSeqProperties
    <3> HIDE DEF x, y
    <3>3. z \in Seq(T) /\ Len(z) = k /\ \A i \in 1..k : z[i] = v[i]
      <4>1. z \in Seq(T) /\ Len(z) = Len(y) + 1 /\ z[Len(y) + 1] = v[k]
            /\ \A i \in 1..Len(y) : z[i] = y[i]
        BY <3>1, <3>2, AppendProperties
      <4> HIDE DEF z
      <4>2. k \in Nat /\ (k - 1) + 1 = k /\ \A i \in 1..k : i = k \/ i \in 1..(k - 1)
        BY <1>1
      <4> QED
        BY <3>2, <4>1, <4>2
    <3> HIDE DEF z
    <3>4. x = z
      BY <3>1, <3>3, SeqEqual
    <3> QED
      BY <3>2, <3>4 DEF x, y, z
  <2> QED
    BY <2>1, <2>2
<1> HIDE DEF T
<1> DEFINE M == {k \in Nat : k <= n => Reading(o \o f[k]) = R(k)}
<1>9. 0 \in M
  <2>1. Reading(o \o f[0]) = R(0)
    <3> HIDE DEF v
    <3>1. o \o << >> = o
      BY ReadOpen, ConcatEmptySeq
    <3> QED
      BY <1>7, <1>8, <3>1, ReadOpen
  <2> QED
    BY <2>1
<1>10. ASSUME NEW i \in Nat, i \in M PROVE i + 1 \in M
  <2> SUFFICES ASSUME i + 1 <= n PROVE Reading(o \o f[i + 1]) = R(i + 1)
    OBVIOUS
  <2> DEFINE j == i + 1
             e == c(j)
             a == SubSeq(v, 1, i)
             m == b[j]
             p == o \o f[i]
             at == IF i = 0 THEN "first" ELSE "start"
  <2>1. j \in 1..n /\ j - 1 = i /\ i \in 0..n /\ i < n
    BY <1>1
  <2>2. Reading(p) = AtCell(at, a) /\ at \in {"first", "start"}
    <3>1. Reading(p) = R(i)
      <4> HIDE DEF R
      <4>1. i <= n
        BY <1>1, <2>1
      <4>2. i <= n => Reading(o \o f[i]) = R(i)
        BY <1>10
      <4> QED
        BY <4>1, <4>2
    <3> HIDE DEF v
    <3> QED
      BY <2>1, <3>1
  <2>3. a \in Seq(T) /\ p \in T /\ m \in Seq(BoardBytes)
    <3> HIDE DEF v, j
    <3>1. SubSeq(v, 1, j - 1) \in Seq(T)
      BY <1>8, <2>1, Zenon
    <3>2. a \in Seq(T)
      BY <2>1, <3>1, Zenon
    <3>3. p \in T
      <4>1. f[i] \in Seq(AnswerCells) /\ o \in Seq(AnswerCells)
        BY <1>6, <2>1, ReadOpen DEF T
      <4> QED
        BY <4>1, JoinedCells, Zenon DEF T
    <3> QED
      BY <1>1, <2>1, <3>2, <3>3
  <2>4. e \in {<< >>, << "comma" >>} /\ (e = << >> <=> ~(j < n))
    <3> HIDE DEF j
    <3> QED
      OBVIOUS
  <2>4a. f[i] \in Seq(AnswerCells) /\ o \in Seq(AnswerCells)
    BY <1>6, <2>1, ReadOpen DEF T
  <2> HIDE DEF a, p, e, m, at, o
  <2> DEFINE s == << "quote" >> \o Escaped(m) \o << "quote" >> \o e
  <2>4b. s \in Seq(AnswerCells)
    BY <2>2, <2>3, <2>4, ReadString DEF T
  <2>5. Reading(p \o s) = [at |-> IF e = << >> THEN "end" ELSE "start", cur |-> << >>,
                               all |-> Append(a, Abstract!Visible(m))]
    BY <2>2, <2>3, <2>4, ReadString DEF T
  <2>6. o \o f[j] = p \o s
    <3> HIDE DEF j
    <3>1. f[j] = f[j - 1] \o J(j)
      BY <1>7, <2>1, Zenon
    <3>2. f[j] = f[i] \o s
      BY <2>1, <3>1, Zenon DEF e, m
    <3> HIDE DEF s
    <3>3. PICK x \in Seq(AnswerCells) : x = f[i]
      BY <2>4a
    <3>4. (o \o x) \o s = o \o (x \o s)
      <4>1. PICK y \in Seq(AnswerCells), z \in Seq(AnswerCells) : y = o /\ z = s
        BY <2>4a, <2>4b, Zenon
      <4>2. (y \o x) \o z = y \o (x \o z)
        BY JoinedCells, Zenon
      <4> QED
        BY <4>1, <4>2, Zenon
    <3> QED
      BY <3>2, <3>3, <3>4, Zenon DEF p
  <2>7. Append(a, Abstract!Visible(m)) = SubSeq(v, 1, j)
    <3> HIDE DEF j
    <3>1. v[j] = Abstract!Visible(m)
      BY <2>1 DEF m
    <3> HIDE DEF v
    <3>2. SubSeq(v, 1, j) = Append(SubSeq(v, 1, j - 1), v[j])
      BY <1>8, <2>1, Zenon
    <3> QED
      BY <2>1, <3>1, <3>2, Zenon DEF a
  <2>8. Reading(o \o f[j]) = R(j)
    <3> DEFINE w == SubSeq(v, 1, j)
    <3> HIDE DEF s, w
    <3>1. R(j) = [at |-> IF j < n THEN "start" ELSE "end", cur |-> << >>, all |-> w]
      <4>1. j # 0
        BY <2>1
      <4> HIDE DEF j, v
      <4>2. R(j) = [at |-> IF j = 0 THEN "first" ELSE IF j < n THEN "start" ELSE "end",
                    cur |-> << >>, all |-> w]
        BY Zenon DEF w, AtCell
      <4> HIDE DEF R
      <4> QED
        BY <4>1, <4>2
    <3>2. Append(a, Abstract!Visible(m)) = w
      BY <2>7 DEF w
    <3> HIDE DEF j, R
    <3> QED
      BY <2>4, <2>5, <2>6, <3>1, <3>2
  <2> QED
    BY <2>8
<1>11. Nat \subseteq M
  <2> HIDE DEF M
  <2> QED
    BY <1>9, <1>10, Induction
<1>12. Reading(o \o f[n]) = R(n)
  <2> HIDE DEF R
  <2> QED
    BY <1>1, <1>11
<1>13. \E at \in {"first", "end"} : R(n) = AtCell(at, v)
  <2> HIDE DEF v
  <2>1. PICK at \in {"first", "end"} : at = IF n = 0 THEN "first" ELSE IF n < n THEN "start" ELSE "end"
    BY <1>1
  <2>2. R(n) = AtCell(at, SubSeq(v, 1, n))
    BY <2>1, Zenon
  <2> QED
    BY <1>8, <2>2, Zenon
<1>14. Reading(BbsJson) = AtCell("done", v)
  <2>1. PICK x \in Seq(AnswerCells) : x = o \o f[n]
    <3>1. f[n] \in Seq(AnswerCells) /\ o \in Seq(AnswerCells)
      BY <1>1, <1>6, ReadOpen DEF T
    <3> QED
      BY <3>1, JoinedCells, Zenon
  <2>2. PICK y \in Seq(Seq(AnswerCells)) : y = v
    BY <1>5 DEF T
  <2>3. PICK at \in {"first", "end"} : Reading(x) = AtCell(at, y)
    BY <1>12, <1>13, <2>1, <2>2, Zenon
  <2>4. Reading(x \o << "]" >>) = AtCell("done", y)
    BY <2>3, ReadSigns, Zenon
  <2> HIDE DEF v
  <2> QED
    BY <1>3, <1>6, <2>1, <2>2, <2>4, Zenon
<1>15. Parsed(BbsJson) = v
  <2> HIDE DEF v
  <2> QED
    BY <1>14 DEF Parsed, AtCell
<1> QED
  BY <1>1, <1>15 DEF b, n

\* What $post leaves in the words and slots: the message's length and bytes in
\* the last slot, and in the slots before it what they held or, on a full
\* board, what the slot after held.
PostLeaves(n, slot, body) ==
    LET from(s) == IF posts = MaxMsgs THEN s + 1 ELSE s
    IN  /\ posts' = slot + 1 /\ lens'[slot] = n
        /\ \A k \in 1..n : texts'[slot][k] = body[k]
        /\ \A s \in 0..(slot - 1) : /\ from(s) \in 0..(posts - 1)
                                    /\ lens'[s] = lens[from(s)] /\ texts'[s] = texts[from(s)]

\* The memory copies of $post do that, and leave the count and the lengths in range.
LEMMA PostStep ==
    ASSUME BoardInv, NEW body \in Posts, Post(body)
    PROVE  LET n    == IF Len(body) <= MaxLen THEN Len(body) ELSE MaxLen
               slot == IF posts = MaxMsgs THEN MaxMsgs - 1 ELSE posts
           IN  /\ body \in Seq(BoardBytes) /\ n \in 1..MaxLen /\ n <= Len(body)
               /\ slot \in 0..(MaxMsgs - 1) /\ BoardInv' /\ shown' = shown
               /\ PostLeaves(n, slot, body)
<1> DEFINE n == IF Len(body) <= MaxLen THEN Len(body) ELSE MaxLen
           slot == IF posts = MaxMsgs THEN MaxMsgs - 1 ELSE posts
           S == 0..(MaxMsgs - 1)
           L == IF posts = MaxMsgs
                THEN [s \in S |-> IF s < MaxMsgs - 1 THEN lens[s + 1] ELSE lens[s]] ELSE lens
           X == IF posts = MaxMsgs
                THEN [s \in S |-> IF s < MaxMsgs - 1 THEN texts[s + 1] ELSE texts[s]] ELSE texts
           C == [k \in 1..MaxLen |-> IF k <= n THEN body[k] ELSE X[slot][k]]
<1>1. /\ MaxMsgs \in Nat /\ MaxMsgs >= 1 /\ MaxLen \in Nat /\ MaxLen >= 1 /\ posts \in 0..MaxMsgs
      /\ lens \in [S -> 0..MaxLen] /\ texts \in [S -> [1..MaxLen -> BoardBytes]]
  BY BbsConstants DEF BoardInv
<1>2. body \in Seq(BoardBytes) /\ Len(body) \in Nat
  <2>1. body \in Seq({"chr", "quote", "bslash", "ctl"})
    BY BbsConstants
  <2>2. \A i \in 1..Len(body) : body[i] \in BoardBytes
    BY <2>1, ElementOfSeq DEF BoardBytes
  <2> QED
    BY <2>1, <2>2, LenProperties, SeqDef
<1>3. StoredLen(body) = n /\ (Full <=> posts = MaxMsgs) /\ Slots = S
  BY <1>1, <1>2 DEF StoredLen, Full, Slots
<1>4. (IF Full THEN Shifted(lens) ELSE lens) = L
      /\ (IF Full THEN Shifted(texts) ELSE texts) = X
  BY <1>3 DEF Shifted
<1>5. slot \in S /\ (IF Full THEN MaxMsgs - 1 ELSE posts) = slot
  BY <1>1, <1>3
<1>6. L \in [S -> 0..MaxLen] /\ X \in [S -> [1..MaxLen -> BoardBytes]]
  <2>1. \A s \in S : s < MaxMsgs - 1 => s + 1 \in S
    BY <1>1
  <2> QED
    BY <1>1, <2>1
<1>7. \A s \in 0..(slot - 1) :
         /\ (posts = MaxMsgs => L[s] = lens[s + 1] /\ X[s] = texts[s + 1] /\ s + 1 \in 0..(posts - 1))
         /\ (posts # MaxMsgs => L[s] = lens[s] /\ X[s] = texts[s] /\ s \in 0..(posts - 1))
  BY <1>1
<1>8. /\ n # 0 /\ posts' = (IF posts = MaxMsgs THEN posts ELSE posts + 1) /\ shown' = shown
      /\ lens' = [L EXCEPT ![slot] = n] /\ texts' = [X EXCEPT ![slot] = C]
  <2>1. Copied(X[slot], body, n) = C
    BY DEF Copied
  <2> HIDE DEF L, X, n, slot, C
  <2>2. /\ n # 0 /\ posts' = (IF posts = MaxMsgs THEN posts ELSE posts + 1) /\ shown' = shown
        /\ lens' = [L EXCEPT ![slot] = n]
        /\ texts' = [X EXCEPT ![slot] = Copied(X[slot], body, n)]
    BY <1>3, <1>4, <1>5 DEF Post
  <2> QED
    BY <2>1, <2>2
<1>9. n \in 1..MaxLen /\ n <= Len(body)
  BY <1>1, <1>2, <1>8
<1>10. posts' = slot + 1 /\ posts' \in 0..MaxMsgs
  BY <1>1, <1>8
<1>11. \A s \in 0..(slot - 1) : s \in S /\ s # slot
  BY <1>1, <1>5
<1>12. C \in [1..MaxLen -> BoardBytes] /\ \A k \in 1..n : C[k] = body[k]
  <2>1. X[slot] \in [1..MaxLen -> BoardBytes]
    BY <1>5, <1>6
  <2> HIDE DEF X, slot
  <2>2. \A k \in 1..MaxLen : k <= n => body[k] \in BoardBytes
    BY <1>1, <1>2, <1>9, ElementOfSeq
  <2>3. \A k \in 1..n : k \in 1..MaxLen /\ k <= n
    BY <1>1, <1>9
  <2> HIDE DEF n
  <2> QED
    BY <2>1, <2>2, <2>3
<1> HIDE DEF L, X, C, n, slot
<1>13. /\ lens' \in [S -> 0..MaxLen] /\ texts' \in [S -> [1..MaxLen -> BoardBytes]]
       /\ lens'[slot] = n /\ texts'[slot] = C
       /\ \A s \in S : s # slot => lens'[s] = L[s] /\ texts'[s] = X[s]
  <2>1. n \in 0..MaxLen
    BY <1>1, <1>9
  <2> HIDE DEF S
  <2> QED
    BY <1>5, <1>6, <1>8, <1>12, <2>1
<1>14. PostLeaves(n, slot, body)
  <2>1. \A s \in 0..(slot - 1) : lens'[s] = L[s] /\ texts'[s] = X[s]
    BY <1>11, <1>13
  <2>2. \A k \in 1..n : texts'[slot][k] = body[k]
    BY <1>12, <1>13
  <2> QED
    BY <1>7, <1>10, <1>13, <2>1, <2>2 DEF PostLeaves
<1>15. BoardInv'
  BY <1>10, <1>13 DEF BoardInv
<1> QED
  BY <1>2, <1>5, <1>8, <1>9, <1>14, <1>15 DEF n, slot

\* $post is the board's Post: the slots then hold the last posts, the new one
\* cut to its slot, and nothing of what its slot held before.
LEMMA PostIsPost ==
    ASSUME BoardInv, NEW body \in Posts, Post(body)
    PROVE  Abstract!Post(body) /\ BoardInv'
<1> DEFINE n == IF Len(body) <= MaxLen THEN Len(body) ELSE MaxLen
           slot == IF posts = MaxMsgs THEN MaxMsgs - 1 ELSE posts
           from(s) == IF posts = MaxMsgs THEN s + 1 ELSE s
           b == Board
           d == Board'
           m == SubSeq(body, 1, n)
           a == Append(b, m)
           Q == Seq(BoardBytes)
<1>1. /\ body \in Q /\ n \in 1..MaxLen /\ n <= Len(body) /\ slot \in 0..(MaxMsgs - 1)
      /\ BoardInv' /\ shown' = shown /\ PostLeaves(n, slot, body)
  BY PostStep
<1>2. /\ b \in Seq(Q) /\ Len(b) = posts /\ posts \in 0..MaxMsgs /\ MaxMsgs \in Nat /\ MaxMsgs >= 1
      /\ \A k \in 1..posts : b[k] = SubSeq(texts[k - 1], 1, lens[k - 1])
  BY BoardTypes, BbsConstants DEF BoardInv
<1>3. d = [k \in 1..posts' |-> SubSeq(texts'[k - 1], 1, lens'[k - 1])]
  BY DEF Board
<1>4. /\ posts' = slot + 1 /\ lens'[slot] = n
      /\ \A k \in 1..n : texts'[slot][k] = body[k]
      /\ \A s \in 0..(slot - 1) : /\ from(s) \in 0..(posts - 1)
                                  /\ lens'[s] = lens[from(s)] /\ texts'[s] = texts[from(s)]
  BY <1>1 DEF PostLeaves
<1>5. m \in Q /\ Len(m) = n /\ \A k \in 1..n : m[k] = body[k]
  <2> HIDE DEF n
  <2>1. n \in Nat /\ \A k \in 1..n : body[k] \in BoardBytes
    BY <1>1, ElementOfSeq, BbsConstants
  <2> QED
    BY <1>1, <2>1, SubSeqProperties
<1>6. SubSeq(texts'[slot], 1, n) = m
  <2> DEFINE t == texts'[slot]
             z == SubSeq(t, 1, n)
  <2>1. t \in [1..MaxLen -> BoardBytes] /\ n \in 0..MaxLen
    <3> HIDE DEF n, slot
    <3> QED
      BY <1>1, BbsConstants DEF BoardInv
  <2> HIDE DEF t, n, slot
  <2>2. z \in Q /\ Len(z) = n /\ \A k \in 1..n : z[k] = t[k]
    BY <2>1, SlotPart
  <2>3. \A k \in 1..n : z[k] = m[k]
    BY <1>4, <1>5, <2>2 DEF t
  <2> HIDE DEF z, m, Q
  <2>4. z = m
    BY <1>5, <2>2, <2>3, SeqEqual DEF Q
  <2> QED
    BY <2>4 DEF t, z
<1> HIDE DEF b, d, m
<1>7. a \in Seq(Q) /\ Len(a) = posts + 1 /\ a[posts + 1] = m /\ \A k \in 1..posts : a[k] = b[k]
  <2> HIDE DEF n, slot, Q
  <2> QED
    BY <1>2, <1>5, AppendProperties
<1> HIDE DEF a
\* Where a message of the new board stood.
<1> DEFINE o == IF posts = MaxMsgs THEN 1 ELSE 0
<1>8. /\ slot + o = posts /\ o \in 0..1 /\ slot \in Nat
      /\ \A k \in 1..(slot + 1) : k + o \in 1..(posts + 1)
  BY <1>2
<1>9. ASSUME NEW k \in 1..(slot + 1) PROVE d[k] = a[k + o]
  <2>1. d[k] = SubSeq(texts'[k - 1], 1, lens'[k - 1])
    <3> HIDE DEF slot, n
    <3> QED
      BY <1>3, <1>4
  <2>2. CASE k = slot + 1
    <3>1. k - 1 = slot /\ k + o = posts + 1
      <4> HIDE DEF slot, o
      <4> QED
        BY <1>2, <1>8, <2>2
    <3>2. d[k] = m
      <4> HIDE DEF slot, n, o
      <4> QED
        BY <1>4, <1>6, <2>1, <3>1, Zenon
    <3> HIDE DEF slot, n, o
    <3> QED
      BY <1>7, <3>1, <3>2, Zenon
  <2>3. CASE k # slot + 1
    <3> DEFINE s == k - 1
               j == k + o
    <3>1. s \in 0..(slot - 1)
      <4> HIDE DEF slot
      <4> QED
        BY <1>8, <2>3
    <3>2. from(s) = j - 1 /\ j \in 1..posts
      BY <1>2, <1>8, <2>3
    <3>3. lens'[s] = lens[from(s)] /\ texts'[s] = texts[from(s)]
      BY <1>4, <3>1, Zenon
    <3> HIDE DEF s, j, from, slot, n, o
    <3>4. d[k] = SubSeq(texts[j - 1], 1, lens[j - 1])
      BY <2>1, <3>2, <3>3, Zenon DEF s
    <3>5. a[j] = SubSeq(texts[j - 1], 1, lens[j - 1])
      BY <1>2, <1>7, <3>2, Zenon
    <3> QED
      BY <3>4, <3>5, Zenon DEF j
  <2> QED
    BY <2>2, <2>3
<1> DEFINE l == SubSeq(a, 1 + o, posts + 1)
<1>10. l \in Seq(Q) /\ Len(l) = slot + 1 /\ \A k \in 1..(slot + 1) : l[k] = a[k + o]
  <2>1. \A k \in (1 + o)..(posts + 1) : a[k] \in Q
    <3> HIDE DEF Q, slot
    <3> QED
      BY <1>2, <1>7, <1>8, ElementOfSeq
  <2> HIDE DEF o, slot, Q
  <2>2. /\ l \in Seq(Q) /\ Len(l) = IF 1 + o <= posts + 1 THEN (posts + 1) - (1 + o) + 1 ELSE 0
        /\ \A k \in 1..((posts + 1) - (1 + o) + 1) : l[k] = a[(1 + o) + k - 1]
    <3>1. 1 + o \in Int /\ posts + 1 \in Int
      BY <1>2, <1>8
    <3> QED
      BY <2>1, <3>1, SubSeqProperties
  <2> HIDE DEF l
  <2>3. /\ (IF 1 + o <= posts + 1 THEN (posts + 1) - (1 + o) + 1 ELSE 0) = slot + 1
        /\ (posts + 1) - (1 + o) + 1 = slot + 1
        /\ \A k \in 1..(slot + 1) : (1 + o) + k - 1 = k + o
    BY <1>2, <1>8
  <2> QED
    BY <2>2, <2>3
<1>11. d = l
  <2> HIDE DEF l, o, slot, n, Q
  <2>1. l \in [1..(slot + 1) -> Q] /\ slot + 1 \in Nat
    BY <1>8, <1>10, LenProperties
  <2>2. d = [k \in 1..(slot + 1) |-> SubSeq(texts'[k - 1], 1, lens'[k - 1])]
    BY <1>3, <1>4
  <2>3. \A k \in 1..(slot + 1) : d[k] = l[k]
    BY <1>9, <1>10
  <2> QED
    BY <2>1, <2>2, <2>3
<1>12. Abstract!Cut(body, MaxLen) = m
  BY DEF Abstract!Cut, m
<1>13. Abstract!LastOf(a, MaxMsgs) = l
  <2>1. (IF Len(a) <= MaxMsgs THEN 1 ELSE Len(a) - MaxMsgs + 1) = 1 + o /\ Len(a) = posts + 1
    BY <1>2, <1>7
  <2> HIDE DEF o
  <2> QED
    BY <2>1 DEF Abstract!LastOf
<1>14. body # << >>
  <2> HIDE DEF slot
  <2>1. Len(body) # 0
    BY <1>1, BbsConstants
  <2> QED
    BY <2>1, EmptySeq
<1> HIDE DEF l
<1>15. d = Abstract!LastOf(Append(b, Abstract!Cut(body, MaxLen)), MaxMsgs)
  BY <1>11, <1>12, <1>13 DEF a
<1> QED
  BY <1>1, <1>14, <1>15 DEF Abstract!Post, b, d

\* Before the first post the board is empty.
LEMMA BoardStarts ==
    ASSUME BbsInit
    PROVE  BoardInv /\ Abstract!Init
<1>1. /\ posts = 0 /\ lens = [s \in 0..(MaxMsgs - 1) |-> 0] /\ shown = << >>
      /\ texts = [s \in 0..(MaxMsgs - 1) |-> [k \in 1..MaxLen |-> "zero"]]
  BY DEF BbsInit, Slots, Blank
<1>2. BoardInv
  BY <1>1, BbsConstants DEF BoardInv, BoardBytes
<1>3. Board \in Seq(Seq(BoardBytes)) /\ Len(Board) = 0
  BY <1>1, <1>2, BoardTypes
<1>4. Board = << >>
  BY <1>3, EmptySeq
<1> QED
  BY <1>1, <1>2, <1>4 DEF Abstract!Init

\* The twenty slots of bbs.wat, shifted when they are full and written over old
\* bytes, are the list of the last posts, and what a client reads from the JSON
\* of $msgs is that list, for every number and size of slots and all bodies.
THEOREM BoardIsBoard == BbsSpec => IsBoard
<1>1. BbsInit => BoardInv /\ Abstract!Init
  BY BoardStarts
<1>2. BoardInv /\ [BbsNext]_bbs_vars
      => BoardInv' /\ [Abstract!Next]_<< Board, shown >>
  <2> SUFFICES ASSUME BoardInv, [BbsNext]_bbs_vars
               PROVE  BoardInv' /\ [Abstract!Next]_<< Board, shown >>
    OBVIOUS
  <2>1. CASE Msgs
    <3>1. shown' = Parsed(BbsJson) /\ posts' = posts /\ lens' = lens /\ texts' = texts
      BY <2>1 DEF Msgs
    <3>2. BoardInv' /\ Board' = Board
      BY <3>1 DEF BoardInv, Board
    <3>3. Abstract!Show
      BY <3>1, <3>2, ReadBoard DEF Abstract!Show
    <3> QED
      BY <3>2, <3>3 DEF Abstract!Next
  <2>2. CASE \E body \in Posts : Post(body)
    <3>1. PICK body \in Posts : Post(body)
      BY <2>2
    <3>2. Abstract!Post(body) /\ BoardInv'
      BY <3>1, PostIsPost
    <3> QED
      BY <3>2 DEF Abstract!Next
  <2>3. CASE UNCHANGED bbs_vars
    <3>1. posts' = posts /\ lens' = lens /\ texts' = texts /\ shown' = shown
      BY <2>3 DEF bbs_vars
    <3> QED
      BY <3>1 DEF BoardInv, Board
  <2> QED
    BY <2>1, <2>2, <2>3 DEF BbsNext
<1> QED
  BY <1>1, <1>2, PTL DEF BbsSpec, IsBoard, Abstract!Spec

=============================================================================

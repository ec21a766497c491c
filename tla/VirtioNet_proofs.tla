--------------------------- MODULE VirtioNet_proofs ---------------------------
(***************************************************************************)
(* The network card for every queue size, number of buffers and counter    *)
(* width.  The receive queue never loses, duplicates or overwrites a       *)
(* buffer, and try_recv returns the device's frames in order across index  *)
(* wraparound; and as long as the host is never more than Bufs frames      *)
(* behind, send_packet corrupts no frame, although it never looks at the   *)
(* used ring.                                                              *)
(***************************************************************************)
EXTENDS VirtioNet, NatLemmas, FiniteSetTheorems, TLAPS

-----------------------------------------------------------------------------
(* Slots.                                                                   *)

\* The queue size divides the range of the counters, so a slot is the count
\* modulo the queue size.
LEMMA SlotIsMod ==
    ASSUME NEW n \in Nat
    PROVE  Slot(n) = n % QueueSize
<1>1. QueueSize \in Int /\ QueueSize > 0 /\ Width \in Int /\ Width > 0
      /\ Width % QueueSize = 0
  BY RxConstants
<1> QED
  BY <1>1, ModOfMod DEF Slot, Reg

\* Slots are slots, and distinct entries of a window have distinct slots.
LEMMA SlotFacts ==
    /\ \A n \in Nat : Slot(n) \in Slots
    /\ \A a, b \in Nat : a < b /\ b - a < QueueSize => Slot(a) # Slot(b)
<1>1. QueueSize \in Int /\ QueueSize > 0
  BY RxConstants
<1>2. \A n \in Nat : Slot(n) \in Slots
  BY <1>1, SlotIsMod, DivMod DEF Slots
<1>3. \A a, b \in Nat : a < b /\ b - a < QueueSize => Slot(a) # Slot(b)
  BY <1>1, SlotIsMod, ModInjective
<1> QED
  BY <1>2, <1>3

\* The comparison of two 16-bit indices decides whether the counts differ.
LEMMA RegFacts ==
    \A a, b \in Nat : a <= b /\ b - a < Width /\ Reg(a) = Reg(b) => a = b
<1>1. Width \in Int /\ Width > 0
  BY RxConstants
<1>2. \A a, b \in Nat : a < b /\ b - a < Width => Reg(a) # Reg(b)
  BY <1>1, ModInjective DEF Reg
<1> QED
  BY <1>1, <1>2

-----------------------------------------------------------------------------
(* The inductive invariant.                                                 *)

AvailWindow == popped..(made - 1)
UsedWindow == taken..(done - 1)
Avail(n) == avail[Slot(n)]
Used(n) == used[Slot(n)]
Busy == drv \in {"copied", "listed"}

\* The four counts in order; the driver lacks at most the one in its hand.
Counts ==
    /\ IsFiniteSet(held) /\ Cardinality(held) = popped - done
    /\ taken <= done /\ done <= popped /\ popped <= made
    /\ made \in {taken + Bufs, taken + Bufs - 1}
    /\ drv = "idle" => made = taken + Bufs
    /\ Busy => made = taken + Bufs - 1

\* No descriptor is in two places.
Apart ==
    /\ \A m, n \in AvailWindow : Avail(m) = Avail(n) => m = n
    /\ \A m, n \in UsedWindow : Used(m) = Used(n) => m = n
    /\ \A m \in AvailWindow : Avail(m) \notin held
    /\ \A n \in UsedWindow : Used(n) \notin held
    /\ \A m \in AvailWindow, n \in UsedWindow : Avail(m) # Used(n)
    /\ Busy => /\ hand \notin held
               /\ \A m \in AvailWindow : Avail(m) # hand
               /\ \A n \in UsedWindow : Used(n) # hand

\* Every descriptor is in some place.
Covered ==
    drv # "panic" =>
        \A d \in Descs : \/ d \in held
                         \/ \E m \in AvailWindow : Avail(m) = d
                         \/ \E n \in UsedWindow : Used(n) = d
                         \/ Busy /\ hand = d

\* The slot written before the index is published keeps the descriptor.
Listed == drv = "listed" => Avail(made) = hand

\* A completed buffer keeps its frame until the driver has copied it.
Content == \A n \in UsedWindow : buf[Used(n)] = n + 1

IInv == /\ TypeOK /\ Counts /\ Apart /\ Covered /\ Listed /\ Content
        /\ RxInOrder

-----------------------------------------------------------------------------

\* The first lap: slot n is n.
LEMMA SmallSlot == \A n \in Slots : Slot(n) = n
<1>1. \A n \in Slots : n % QueueSize = n
  BY RxConstants, Z3 DEF Slots
<1> QED
  BY <1>1, SlotIsMod DEF Slots

\* init: all descriptors are published and none is in use.
LEMMA InitInv == Init => IInv
<1> SUFFICES ASSUME Init PROVE IInv
  OBVIOUS
<1> USE DEF Init
<1>0. Bufs \in Nat /\ Bufs > 0 /\ Bufs <= QueueSize /\ QueueSize \in Nat
  BY RxConstants
<1>1. TypeOK
  BY <1>0 DEF TypeOK, Slots, Descs
<1>2. IsFiniteSet({}) /\ Cardinality({}) = 0
  BY FS_EmptySet
<1>3. Counts
  BY <1>0, <1>2 DEF Counts, Busy
<1>4. \A n \in AvailWindow : n \in Slots /\ Avail(n) = n
  BY <1>0, SmallSlot DEF AvailWindow, Avail, Slots
<1>5. UsedWindow = {}
  BY DEF UsedWindow
<1>6. Apart
  BY <1>4, <1>5 DEF Apart, Busy
<1>7. Covered
  BY <1>0, <1>4 DEF Covered, AvailWindow, Descs
<1>8. Listed /\ Content /\ RxInOrder
  BY <1>5 DEF Listed, Content, RxInOrder
<1> QED
  BY <1>1, <1>3, <1>6, <1>7, <1>8 DEF IInv

\* What the counts say of the two windows.
LEMMA WindowFacts ==
    ASSUME TypeOK, Counts
    PROVE  /\ Bufs \in Nat /\ Bufs <= QueueSize /\ QueueSize \in Nat
           /\ \A n \in AvailWindow : n \in Nat /\ popped <= n /\ n < made
           /\ \A n \in UsedWindow : n \in Nat /\ taken <= n /\ n < done
           /\ made - popped <= Bufs /\ done - taken <= Bufs
           /\ (Reg(done) # Reg(taken)) => taken < done
           /\ (Reg(popped) # Reg(made)) => popped < made
<1>1. Bufs \in Nat /\ Bufs <= QueueSize /\ QueueSize \in Nat
  BY RxConstants
<1>2. /\ \A n \in AvailWindow : n \in Nat /\ popped <= n /\ n < made
      /\ \A n \in UsedWindow : n \in Nat /\ taken <= n /\ n < done
  BY DEF TypeOK, AvailWindow, UsedWindow
<1>3. made - popped <= Bufs /\ done - taken <= Bufs
  BY <1>1 DEF TypeOK, Counts
<1>4. /\ (Reg(done) # Reg(taken)) => taken < done
      /\ (Reg(popped) # Reg(made)) => popped < made
  BY DEF TypeOK, Counts
<1> QED
  BY <1>1, <1>2, <1>3, <1>4

\* Consuming a used entry moves its descriptor from the used ring to the hand.
LEMMA TakeUsedInv == IInv /\ TakeUsed => IInv'
<1> SUFFICES ASSUME IInv, TakeUsed PROVE IInv'
  OBVIOUS
<1> USE DEF IInv
<1>1. CASE Overflows(taken)
  <2>1. /\ drv' = "panic"
        /\ UNCHANGED << avail, made, popped, held, used, done, taken, buf, hand, last >>
    BY <1>1 DEF TakeUsed
  <2> QED
    BY <2>1 DEF TypeOK, Counts, Apart, Covered, Listed, Content, RxInOrder, Busy,
        AvailWindow, UsedWindow, Avail, Used
<1>2. CASE ~Overflows(taken)
  <2>1. /\ drv = "idle" /\ drv' = "copied" /\ hand' = Used(taken) /\ taken' = taken + 1
        /\ last' = buf[Used(taken)] /\ Reg(done) # Reg(taken)
        /\ UNCHANGED << avail, made, popped, held, used, done, buf >>
    BY <1>2 DEF TakeUsed, HasUsed, UsedEntry, Used
  <2>2. /\ taken \in Nat /\ done \in Nat /\ taken < done /\ taken \in UsedWindow
        /\ \A n \in UsedWindow' : n \in UsedWindow /\ n # taken
        /\ \A n \in UsedWindow : n \in UsedWindow' \/ n = taken
    BY <2>1, WindowFacts DEF TypeOK, UsedWindow
  <2>3. /\ AvailWindow' = AvailWindow
        /\ \A n : Avail(n)' = Avail(n) /\ Used(n)' = Used(n)
    BY <2>1 DEF AvailWindow, Avail, Used
  <2>4. TypeOK'
    BY <2>1, <2>2, SlotFacts DEF TypeOK, Used
  <2>5. Counts'
    BY <2>1, <2>2, WindowFacts DEF Counts, Busy, TypeOK
  <2>6. Apart'
    BY <2>1, <2>2, <2>3 DEF Apart, Busy
  <2>7. Covered'
    BY <2>1, <2>2, <2>3 DEF Covered, Busy
  <2>8. Listed' /\ Content' /\ RxInOrder'
    BY <2>1, <2>2, <2>3 DEF Listed, Content, RxInOrder
  <2> QED
    BY <2>4, <2>5, <2>6, <2>7, <2>8
<1> QED
  BY <1>1, <1>2

\* Writing the free slot disturbs no entry the device has still to read.
LEMMA GiveBackInv == IInv /\ GiveBack => IInv'
<1> SUFFICES ASSUME IInv, GiveBack PROVE IInv'
  OBVIOUS
<1> USE DEF IInv
<1>1. /\ drv = "copied" /\ drv' = "listed"
      /\ avail' = [avail EXCEPT ![Slot(made)] = hand]
      /\ UNCHANGED << made, popped, held, used, done, taken, buf, hand, last >>
  BY DEF GiveBack
<1>2. made \in Nat /\ made - popped < Bufs /\ Busy /\ Busy'
  BY <1>1, WindowFacts DEF TypeOK, Counts, Busy
<1>3. /\ AvailWindow' = AvailWindow /\ UsedWindow' = UsedWindow
      /\ \A n : Used(n)' = Used(n)
  BY <1>1 DEF AvailWindow, UsedWindow, Used
<1>4. \A n \in AvailWindow : Slot(n) # Slot(made)
  <2> TAKE n \in AvailWindow
  <2>1. n \in Nat /\ n < made /\ made - n < QueueSize
    BY <1>2, WindowFacts DEF TypeOK
  <2> QED
    BY <1>2, <2>1, SlotFacts
<1>5. /\ \A n \in AvailWindow : Avail(n)' = Avail(n)
      /\ Avail(made)' = hand
  BY <1>1, <1>2, <1>4, SlotFacts, WindowFacts DEF Avail, TypeOK
<1>6. TypeOK'
  BY <1>1 DEF TypeOK
<1>7. Counts'
  BY <1>1 DEF Counts, Busy
<1>8. Apart'
  BY <1>1, <1>2, <1>3, <1>5 DEF Apart
<1>9. Covered'
  BY <1>1, <1>2, <1>3, <1>5 DEF Covered
<1>10. Listed' /\ Content' /\ RxInOrder'
  BY <1>1, <1>3, <1>5 DEF Listed, Content, RxInOrder, Avail
<1> QED
  BY <1>6, <1>7, <1>8, <1>9, <1>10

\* Publishing moves the descriptor from the hand to the avail ring.
LEMMA PublishInv == IInv /\ Publish => IInv'
<1> SUFFICES ASSUME IInv, Publish PROVE IInv'
  OBVIOUS
<1> USE DEF IInv
<1>1. CASE Overflows(made)
  <2>1. /\ drv = "listed" /\ drv' = "panic"
        /\ UNCHANGED << avail, made, popped, held, used, done, taken, buf, hand, last >>
    BY <1>1 DEF Publish
  <2> QED
    BY <2>1 DEF TypeOK, Counts, Apart, Covered, Listed, Content, RxInOrder, Busy,
        AvailWindow, UsedWindow, Avail, Used
<1>2. CASE ~Overflows(made)
  <2>1. /\ drv = "listed" /\ drv' = "idle" /\ made' = made + 1
        /\ UNCHANGED << avail, popped, held, used, done, taken, buf, hand, last >>
    BY <1>2 DEF Publish
  <2>2. /\ Busy /\ ~Busy' /\ Avail(made) = hand
        /\ made \in AvailWindow'
        /\ \A n \in AvailWindow : n \in AvailWindow'
        /\ \A n \in AvailWindow' : n \in AvailWindow \/ n = made
    BY <2>1 DEF TypeOK, AvailWindow, Counts, Busy, Listed
  <2>3. /\ UsedWindow' = UsedWindow
        /\ \A n : Avail(n)' = Avail(n) /\ Used(n)' = Used(n)
    BY <2>1 DEF UsedWindow, Avail, Used
  <2>4. TypeOK'
    BY <2>1 DEF TypeOK
  <2>5. Counts'
    BY <2>1, WindowFacts DEF Counts, Busy, TypeOK
  <2>6. Apart'
    BY <2>1, <2>2, <2>3 DEF Apart
  <2>7. Covered'
    BY <2>1, <2>2, <2>3 DEF Covered
  <2>8. Listed' /\ Content' /\ RxInOrder'
    BY <2>1, <2>3 DEF Listed, Content, RxInOrder
  <2> QED
    BY <2>4, <2>5, <2>6, <2>7, <2>8
<1> QED
  BY <1>1, <1>2

\* Fetching moves a descriptor from the avail ring to the device.
LEMMA DevFetchInv == IInv /\ DevFetch => IInv'
<1> SUFFICES ASSUME IInv, DevFetch PROVE IInv'
  OBVIOUS
<1> USE DEF IInv
<1>1. /\ Reg(popped) # Reg(made) /\ held' = held \cup {Avail(popped)}
      /\ popped' = popped + 1
      /\ UNCHANGED << avail, made, used, done, taken, buf, drv, hand, last >>
  BY DEF DevFetch, Avail
<1>2. /\ popped \in AvailWindow /\ popped < made /\ Avail(popped) \in Descs
      /\ \A n \in AvailWindow' : n \in AvailWindow /\ n # popped
      /\ \A n \in AvailWindow : n \in AvailWindow' \/ n = popped
  BY <1>1, WindowFacts, SlotFacts DEF TypeOK, AvailWindow, Avail
<1>3. /\ UsedWindow' = UsedWindow /\ Busy' = Busy
      /\ \A n : Avail(n)' = Avail(n) /\ Used(n)' = Used(n)
  BY <1>1 DEF UsedWindow, Busy, Avail, Used
<1>4. TypeOK'
  BY <1>1, <1>2 DEF TypeOK
<1>5. Counts'
  <2>1. IsFiniteSet(held') /\ Cardinality(held') = Cardinality(held) + 1
    BY <1>1, <1>2, FS_AddElement DEF Counts, Apart
  <2> QED
    BY <1>1, <1>2, <1>3, <2>1 DEF Counts, TypeOK
<1>6. Apart'
  BY <1>1, <1>2, <1>3 DEF Apart
<1>7. Covered'
  BY <1>1, <1>2, <1>3 DEF Covered
<1>8. Listed' /\ Content' /\ RxInOrder'
  BY <1>1, <1>3 DEF Listed, Content, RxInOrder
<1> QED
  BY <1>4, <1>5, <1>6, <1>7, <1>8

\* Completing moves a descriptor from the device to the used ring; the buffer
\* it writes is none the driver has still to copy.
LEMMA DevCompleteInv ==
    ASSUME NEW d \in Descs, IInv, DevComplete(d)
    PROVE  IInv'
<1> USE DEF IInv
<1>1. /\ d \in held /\ buf' = [buf EXCEPT ![d] = done + 1]
      /\ used' = [used EXCEPT ![Slot(done)] = d]
      /\ done' = done + 1 /\ held' = held \ {d}
      /\ UNCHANGED << avail, made, popped, taken, drv, hand, last >>
  BY DEF DevComplete
<1>2. /\ IsFiniteSet(held') /\ Cardinality(held') = Cardinality(held) - 1
      /\ Cardinality(held) \in Nat /\ Cardinality(held) > 0
  <2>1. /\ IsFiniteSet(held') /\ Cardinality(held') = Cardinality(held) - 1
    BY <1>1, FS_RemoveElement DEF Counts
  <2>2. Cardinality(held) \in Nat /\ Cardinality(held') \in Nat
    BY <2>1, FS_CardinalityType DEF Counts
  <2> QED
    BY <2>1, <2>2
<1>3. done < popped /\ done - taken < Bufs
  BY <1>2, WindowFacts DEF Counts, TypeOK
<1>4. \A n \in UsedWindow : Slot(n) # Slot(done)
  <2> TAKE n \in UsedWindow
  <2>1. n \in Nat /\ n < done /\ done - n < QueueSize /\ done \in Nat
    BY <1>3, WindowFacts DEF TypeOK
  <2> QED
    BY <2>1, SlotFacts
<1>5. /\ \A n \in UsedWindow : Used(n)' = Used(n) /\ Used(n) \in Descs
      /\ \A n : n = done => Used(n)' = d
  <2>1. \A n \in UsedWindow : Slot(n) \in Slots
    BY SlotFacts, WindowFacts
  <2>2. Slot(done) \in Slots
    BY SlotFacts DEF TypeOK
  <2>3. used \in [Slots -> Descs] /\ used' = [used EXCEPT ![Slot(done)] = d]
    BY <1>1 DEF TypeOK
  <2> HIDE DEF IInv
  <2> QED
    BY <2>1, <2>2, <2>3, <1>4 DEF Used
<1>6. /\ done \in UsedWindow'
      /\ \A n \in UsedWindow : n \in UsedWindow'
      /\ \A n \in UsedWindow' : n \in UsedWindow \/ n = done
  BY <1>1 DEF TypeOK, UsedWindow, Counts
<1>7. /\ AvailWindow' = AvailWindow /\ Busy' = Busy
      /\ \A n : Avail(n)' = Avail(n)
  BY <1>1 DEF AvailWindow, Busy, Avail
<1>8. TypeOK'
  <2>1. /\ used \in [Slots -> Descs] /\ buf \in [Descs -> Nat] /\ done \in Nat
        /\ held \subseteq Descs
    BY DEF TypeOK
  <2>2. used' \in [Slots -> Descs]
    BY <1>1, <2>1
  <2>3. buf' \in [Descs -> Nat] /\ done' \in Nat /\ held' \subseteq Descs
    BY <1>1, <2>1
  <2> QED
    BY <1>1, <2>2, <2>3 DEF TypeOK
<1>9. Counts'
  BY <1>1, <1>2, <1>3, <1>7 DEF Counts, TypeOK
<1>10. Apart'
  BY <1>1, <1>5, <1>6, <1>7 DEF Apart
<1>11. Covered'
  BY <1>1, <1>5, <1>6, <1>7 DEF Covered
<1>12. Content'
  BY <1>1, <1>5, <1>6, SlotFacts, WindowFacts DEF Content, Apart, TypeOK
<1>13. Listed' /\ RxInOrder'
  BY <1>1, <1>7 DEF Listed, RxInOrder
<1> QED
  BY <1>8, <1>9, <1>10, <1>11, <1>12, <1>13

-----------------------------------------------------------------------------
(* The theorems.                                                            *)

\* Every step of try_recv and of the device keeps the invariant.
LEMMA NextInv == IInv /\ [Next]_vars => IInv'
<1> SUFFICES ASSUME IInv, [Next]_vars PROVE IInv'
  OBVIOUS
<1>1. CASE Driver
  BY <1>1, TakeUsedInv, GiveBackInv, PublishInv DEF Driver
<1>2. CASE Device
  BY <1>2, DevFetchInv, DevCompleteInv DEF Device
<1>3. CASE UNCHANGED vars
  BY <1>3 DEF vars, IInv, TypeOK, Counts, Apart, Covered, Listed, Content,
     RxInOrder, Busy, AvailWindow, UsedWindow, Avail, Used
<1> QED
  BY <1>1, <1>2, <1>3 DEF Next

\* The invariant says what the properties say.
LEMMA InvImplies == IInv => TypeOK /\ RxInOrder /\ RingsNeverOverrun /\ BuffersConserved
<1> SUFFICES ASSUME IInv PROVE RingsNeverOverrun /\ BuffersConserved
  BY DEF IInv
<1>1. RingsNeverOverrun
  BY WindowFacts DEF IInv, Counts, RingsNeverOverrun
<1>2. BuffersConserved
  <2> SUFFICES ASSUME drv # "panic" PROVE BuffersConserved
    BY DEF BuffersConserved
  <2>1. /\ AvailDescs = {Avail(n) : n \in AvailWindow}
        /\ UsedDescs = {Used(n) : n \in UsedWindow}
        /\ InHand = IF Busy THEN {hand} ELSE {}
    BY DEF AvailDescs, UsedDescs, InHand, AvailWindow, UsedWindow, Avail, Used, Busy
  <2>2. AvailDescs \subseteq Descs /\ UsedDescs \subseteq Descs
        /\ held \subseteq Descs /\ InHand \subseteq Descs
    BY <2>1, WindowFacts, SlotFacts DEF IInv, TypeOK, Avail, Used
  <2>3. Descs \subseteq AvailDescs \cup held \cup UsedDescs \cup InHand
    BY <2>1 DEF IInv, Covered
  <2>4. /\ held \cap (AvailDescs \cup UsedDescs \cup InHand) = {}
        /\ AvailDescs \cap (UsedDescs \cup InHand) = {}
        /\ UsedDescs \cap InHand = {}
    BY <2>1 DEF IInv, Apart
  <2> QED
    BY <2>2, <2>3, <2>4 DEF BuffersConserved
<1> QED
  BY <1>1, <1>2

-----------------------------------------------------------------------------
(* The transmit queue.                                                      *)

\* The frames whose slot has been written.
Linked == sent + IF tx_drv \in {"listed", "panic"} THEN 1 ELSE 0

\* The inductive invariant: the Bufs frames begun last are in their buffers,
\* and every slot that was ever written leads to the buffer of its frames.
TxIInv ==
    /\ TxTypeOK
    /\ fetched <= sent
    /\ \A n \in Nat : n < Begun /\ Begun - n <= Bufs => tx_buf[BufOf(n)] = n + 1
    /\ \A n \in Nat : n < Linked => ring[Slot(n)] = Slot(n) /\ desc[Slot(n)] = BufOf(n)

\* Slots and buffers are remainders of the count.
LEMMA IndexIsMod ==
    ASSUME NEW n \in Nat
    PROVE  Slot(n) = n % QueueSize /\ BufOf(n) = n % Bufs
<1>1. /\ QueueSize \in Int /\ QueueSize > 0 /\ Width \in Int /\ Width > 0
      /\ Bufs \in Int /\ Bufs > 0
      /\ Width % QueueSize = 0 /\ QueueSize % Bufs = 0
  BY TxConstants
<1>2. Slot(n) = n % QueueSize
  BY <1>1, ModOfMod DEF Slot, Reg
<1>3. (n % QueueSize) % Bufs = n % Bufs
  BY <1>1, ModOfMod
<1> QED
  BY <1>2, <1>3 DEF BufOf

\* Within Bufs frames buffers differ.
LEMMA IndexFacts ==
    /\ \A n \in Nat : Slot(n) \in Slots /\ BufOf(n) \in Buffers
    /\ \A a, b \in Nat : a < b /\ b - a < Bufs => BufOf(a) # BufOf(b)
<1>1. QueueSize \in Int /\ QueueSize > 0 /\ Bufs \in Int /\ Bufs > 0
  BY TxConstants
<1>2. \A n \in Nat : Slot(n) \in Slots /\ BufOf(n) \in Buffers
  BY <1>1, IndexIsMod, DivMod DEF Slots, Buffers
<1>3. \A a, b \in Nat : a < b /\ b - a < Bufs => BufOf(a) # BufOf(b)
  <2> SUFFICES ASSUME NEW a \in Nat, NEW b \in Nat, a < b, b - a < Bufs PROVE BufOf(a) # BufOf(b)
    OBVIOUS
  <2>1. BufOf(a) = a % Bufs /\ BufOf(b) = b % Bufs
    BY IndexIsMod
  <2>2. a % Bufs # b % Bufs
    BY <1>1, ModInjective
  <2> QED
    BY <2>1, <2>2
<1> QED
  BY <1>2, <1>3

\* The queue starts empty.
LEMMA TxInitInv == TxInit => TxIInv
<1> SUFFICES ASSUME TxInit PROVE TxIInv
  OBVIOUS
<1>1. TxTypeOK
  BY TxConstants DEF TxInit, TxTypeOK, Slots, Buffers
<1>2. Begun = 0 /\ Linked = 0
  BY DEF TxInit, Begun, Linked
<1> QED
  BY <1>1, <1>2 DEF TxInit, TxIInv

\* Filling a buffer leaves the Bufs - 1 frames before it alone.
LEMMA FillInv ==
    ASSUME TxIInv, Fill
    PROVE  TxIInv'
<1> USE DEF TxIInv
<1>1. /\ tx_drv = "idle" /\ tx_drv' = "filled"
      /\ tx_buf' = [tx_buf EXCEPT ![BufOf(sent)] = sent + 1]
      /\ UNCHANGED << ring, desc, sent, fetched, wire >>
  BY DEF Fill
<1>2. /\ sent \in Nat /\ BufOf(sent) \in Buffers
      /\ tx_buf \in [Buffers -> Nat] /\ Bufs \in Nat
  BY IndexFacts, TxConstants DEF TxTypeOK
<1>3. TxTypeOK'
  BY <1>1, <1>2 DEF TxTypeOK
<1>4. Begun = sent /\ Begun' = sent + 1 /\ Linked' = Linked
  BY <1>1, <1>2 DEF Begun, Linked
<1>5. ASSUME NEW n \in Nat, n < Begun', Begun' - n <= Bufs PROVE tx_buf'[BufOf(n)] = n + 1
  <2>1. CASE n = sent
    BY <1>1, <1>2, <2>1
  <2>2. CASE n # sent
    <3>1. n < sent /\ sent - n < Bufs
      BY <1>2, <1>4, <1>5, <2>2
    <3>2. BufOf(n) # BufOf(sent) /\ BufOf(n) \in Buffers
      BY <1>2, <3>1, IndexFacts
    <3>3. tx_buf[BufOf(n)] = n + 1
      BY <1>2, <1>4, <3>1
    <3> QED
      BY <1>1, <1>2, <3>2, <3>3
  <2> QED
    BY <2>1, <2>2
<1> QED
  BY <1>1, <1>3, <1>4, <1>5

\* Writing a slot again writes what it held: a slot's buffer never changes.
LEMMA ListInv ==
    ASSUME TxIInv, List
    PROVE  TxIInv'
<1> USE DEF TxIInv
<1>1. /\ tx_drv = "filled" /\ tx_drv' = "listed"
      /\ desc' = [desc EXCEPT ![Slot(sent)] = BufOf(sent)]
      /\ ring' = [ring EXCEPT ![Slot(sent)] = Slot(sent)]
      /\ UNCHANGED << tx_buf, sent, fetched, wire >>
  BY DEF List
<1>2. /\ sent \in Nat /\ BufOf(sent) \in Buffers /\ Slot(sent) \in Slots
      /\ desc \in [Slots -> Buffers] /\ ring \in [Slots -> Slots]
  BY IndexFacts DEF TxTypeOK
<1>3. TxTypeOK'
  BY <1>1, <1>2 DEF TxTypeOK
<1>4. Linked = sent /\ Linked' = sent + 1 /\ Begun' = Begun
  BY <1>1, <1>2 DEF Begun, Linked
<1>5. ASSUME NEW n \in Nat, n < Linked' PROVE ring'[Slot(n)] = Slot(n) /\ desc'[Slot(n)] = BufOf(n)
  <2>1. Slot(n) \in Slots
    BY IndexFacts
  <2>2. CASE Slot(n) = Slot(sent)
    <3>1. BufOf(n) = BufOf(sent)
      BY <2>2 DEF BufOf
    <3> QED
      BY <1>1, <1>2, <2>2, <3>1
  <2>3. CASE Slot(n) # Slot(sent)
    <3>1. n < Linked
      BY <1>2, <1>4, <1>5, <2>3
    <3> QED
      BY <1>1, <1>2, <2>1, <2>3, <3>1
  <2> QED
    BY <2>2, <2>3
<1> QED
  BY <1>1, <1>3, <1>4, <1>5

\* Publishing adds the frame to those that wait.
LEMMA TxPublishInv ==
    ASSUME TxIInv, TxPublish
    PROVE  TxIInv'
<1> USE DEF TxIInv
<1>1. CASE Overflows(sent)
  <2>1. tx_drv = "listed" /\ tx_drv' = "panic" /\ UNCHANGED << ring, desc, tx_buf, sent, fetched, wire >>
    BY <1>1 DEF TxPublish
  <2>2. Begun' = Begun /\ Linked' = Linked
    BY <2>1 DEF Begun, Linked
  <2> QED
    BY <2>1, <2>2 DEF TxTypeOK
<1>2. CASE ~Overflows(sent)
  <2>1. /\ tx_drv = "listed" /\ tx_drv' = "idle" /\ sent' = sent + 1
        /\ UNCHANGED << ring, desc, tx_buf, fetched, wire >>
    BY <1>2 DEF TxPublish
  <2>2. Begun' = Begun /\ Linked' = Linked
    BY <2>1 DEF Begun, Linked, TxTypeOK
  <2>3. fetched <= sent'
    BY <2>1 DEF TxTypeOK
  <2> QED
    BY <2>1, <2>2, <2>3 DEF TxTypeOK
<1> QED
  BY <1>1, <1>2

\* The device follows the slot of the next frame; its buffer holds that frame
\* if at most Bufs frames have been begun from it on.
LEMMA DevSendInv ==
    ASSUME TxIInv, DevSend
    PROVE  TxIInv' /\ (Begun - fetched <= Bufs => wire' = fetched')
<1> USE DEF TxIInv
<1>1. /\ Reg(fetched) # Reg(sent) /\ wire' = tx_buf[desc[ring[Slot(fetched)]]]
      /\ fetched' = fetched + 1
      /\ UNCHANGED << ring, desc, tx_buf, sent, tx_drv >>
  BY DEF DevSend
<1>2. fetched \in Nat /\ sent \in Nat /\ fetched < sent
  <2>1. fetched # sent
    BY <1>1
  <2> QED
    BY <2>1 DEF TxTypeOK
<1>3. fetched < Begun /\ fetched < Linked
  BY <1>2 DEF Begun, Linked
<1>4. wire' = tx_buf[BufOf(fetched)] /\ BufOf(fetched) \in Buffers
  BY <1>1, <1>2, <1>3, IndexFacts
<1>5. TxTypeOK'
  BY <1>1, <1>2, <1>4 DEF TxTypeOK
<1>6. Begun' = Begun /\ Linked' = Linked
  BY <1>1 DEF Begun, Linked
<1>7. Begun - fetched <= Bufs => wire' = fetched'
  BY <1>1, <1>2, <1>3, <1>4
<1> QED
  BY <1>1, <1>2, <1>5, <1>6, <1>7

-----------------------------------------------------------------------------
(* Both queues.                                                             *)

\* A step of the card is one of each queue, or leaves it alone.
LEMMA EachQueue == [NetNext]_NetVars => [Next]_vars /\ [TxNext]_TxVars
  BY DEF NetNext, Receive, Transmit, DeviceStep, Next, TxNext, NetVars

\* The inductive invariant of the receive queue holds throughout.
LEMMA RxInvariance == NetSpec => []IInv
<1>1. NetInit => IInv
  BY InitInv DEF NetInit
<1>2. IInv /\ [NetNext]_NetVars => IInv'
  BY EachQueue, NextInv
<1> QED
  BY <1>1, <1>2, PTL DEF NetSpec

\* Type correctness of the receive queue.
THEOREM RxTypeCorrect == NetSpec => []TypeOK
  BY RxInvariance, InvImplies, PTL

\* try_recv returns the device's frames in order, each once and intact, for
\* every queue size, number of buffers and width of the wrapping indices.
THEOREM RxDeliversInOrder == NetSpec => []RxInOrder
  BY RxInvariance, InvImplies, PTL

\* Each receive buffer is in exactly one place at every moment.
THEOREM RxConservesBuffers == NetSpec => []BuffersConserved
  BY RxInvariance, InvImplies, PTL

\* No ring entry is overwritten before it has been read.
THEOREM RxNeverOverruns == NetSpec => []RingsNeverOverrun
  BY RxInvariance, InvImplies, PTL

\* Whatever the device does, and for every queue size, number of buffers and
\* width of the indices: a frame fetched before Bufs later ones have been begun
\* goes out as the stack sent it.
THEOREM TxKeepsFrames == NetSpec => []TxTypeOK /\ IntactWithinBufs
<1>1. TxIInv /\ [TxNext]_TxVars
        => TxIInv' /\ [fetched' # fetched /\ Begun - fetched <= Bufs => wire' = fetched']_TxVars
  <2> SUFFICES ASSUME TxIInv, [TxNext]_TxVars
               PROVE  TxIInv' /\ (fetched' # fetched /\ Begun - fetched <= Bufs => wire' = fetched')
    OBVIOUS
  <2>1. CASE UNCHANGED TxVars
    BY <2>1 DEF TxVars, TxIInv, TxTypeOK, Begun, Linked
  <2>2. CASE Fill \/ List \/ TxPublish
    <3>1. fetched' = fetched
      BY <2>2 DEF Fill, List, TxPublish
    <3> QED
      BY <2>2, <3>1, FillInv, ListInv, TxPublishInv
  <2>3. CASE DevSend
    BY <2>3, DevSendInv
  <2> QED
    BY <2>1, <2>2, <2>3 DEF TxNext
<1>2. TxIInv => TxTypeOK
  BY DEF TxIInv
<1>3. NetInit => TxIInv
  BY TxInitInv DEF NetInit
<1>4. TxIInv /\ [NetNext]_NetVars
        => TxIInv' /\ [fetched' # fetched /\ Begun - fetched <= Bufs => wire' = fetched']_TxVars
  BY <1>1, EachQueue
<1> QED
  BY <1>2, <1>3, <1>4, PTL DEF NetSpec, IntactWithinBufs

=============================================================================

----------------------------- MODULE Boot_proofs -----------------------------
(***************************************************************************)
(* The virtqueues that the kernel starts are sound for every page size,    *)
(* machine and queue size: an allocation of queue_mem_size holds the       *)
(* tables of the queue without overlap, and every queue has either such an *)
(* allocation or, the event queue, one page and no buffers.  And the files *)
(* fetched at boot become the routes they were fetched for.                *)
(***************************************************************************)
EXTENDS Boot, NatLemmas, SequenceTheorems, TLAPS

-----------------------------------------------------------------------------
(* Layout.                                                                  *)

\* PageUp rounds up to a whole page, and by less than a page.
LEMMA PageUpBounds ==
    ASSUME NEW n \in Nat
    PROVE  PageUp(n) \in Nat /\ n <= PageUp(n) /\ PageUp(n) < n + PAGE_SIZE
<1> DEFINE a == n + PAGE_SIZE - 1
<1>1. a \in Int /\ PAGE_SIZE \in Int /\ PAGE_SIZE > 0
  BY PageSize
<1>2. /\ a \div PAGE_SIZE \in Int
      /\ a % PAGE_SIZE \in 0..(PAGE_SIZE - 1)
      /\ a % PAGE_SIZE = a - PAGE_SIZE * (a \div PAGE_SIZE)
  BY <1>1, DivMod
<1>3. PageUp(n) = PAGE_SIZE * (a \div PAGE_SIZE)
  BY <1>1, <1>2, Z3 DEF PageUp
<1> HIDE DEF a
<1>4. PAGE_SIZE * (a \div PAGE_SIZE) = a - (a % PAGE_SIZE)
  BY <1>1, <1>2, Z3
<1>5. a = n + PAGE_SIZE - 1
  BY DEF a
<1> QED
  BY <1>1, <1>2, <1>3, <1>4, <1>5

\* The memory of queue_mem_size(qs) bytes, with n descriptors filled, has its
\* tables apart, inside and where the device looks exactly if n is at most the
\* size of the queue, and the device has the same size.
LEMMA LayoutOfQueueMemory ==
    ASSUME NEW qs \in Nat, NEW ds \in Nat, NEW n \in Nat, NEW dev
    PROVE  TablesSound(Queue(dev, qs, ds, n)) <=> n <= qs /\ qs = ds
<1> DEFINE q == Queue(dev, qs, ds, n)
           e == 16 * qs + 6 + 2 * qs
           u == PageUp(e)
           f == u + 6 + 8 * qs
<1>1. e \in Nat /\ u \in Nat /\ e <= u
  BY PageUpBounds
<1>2. f \in Nat /\ f <= PageUp(f) /\ PageUp(f) \in Nat
  BY <1>1, PageUpBounds
<1>3. /\ avail_offset(qs) = 16 * qs
      /\ used_offset(qs) = u
      /\ queue_mem_size(qs) = PageUp(f)
  BY DEF avail_offset, used_offset, queue_mem_size
<1>4. q.size = qs /\ q.device_size = ds /\ q.slots = n /\ q.alloc = PageUp(f)
  BY <1>3 DEF Queue
<1>5. SamePlaces(q) <=> qs = ds
  <2>1. avail_offset(q.size) = DeviceAvailOffset(q.device_size) <=> qs = ds
    BY <1>3, <1>4 DEF DeviceAvailOffset
  <2>2. qs = ds => used_offset(q.size) = DeviceUsedOffset(q.device_size)
    BY <1>3, <1>4 DEF DeviceUsedOffset
  <2> HIDE DEF q
  <2> QED
    BY <2>1, <2>2 DEF SamePlaces
<1>6. /\ DescTable(n).lo = 0 /\ DescTable(n).hi = 16 * n
      /\ AvailTable(qs).lo = 16 * qs /\ AvailTable(qs).hi = e
      /\ UsedTable(qs).lo = u /\ UsedTable(qs).hi = f
  BY <1>3 DEF DescTable, AvailTable, UsedTable
<1>10. qs = ds => DeviceUsedOffset(q.device_size) + 6 + 8 * q.device_size = f
  BY <1>4 DEF DeviceUsedOffset
<1> HIDE DEF q, e, u, f
<1>7. e = 16 * qs + 6 + 2 * qs /\ f = u + 6 + 8 * qs
  BY DEF e, f
<1>8. TablesSound(q) <=>
        /\ 16 * n <= 16 * qs \/ e <= 0
        /\ 16 * n <= u \/ f <= 0
        /\ e <= u \/ f <= 16 * qs
        /\ qs = ds
        /\ e <= PageUp(f)
        /\ n > 0 => f <= PageUp(f)
  BY <1>3, <1>4, <1>5, <1>6, <1>10 DEF TablesSound, Apart
<1>9. TablesSound(q) <=> n <= qs /\ qs = ds
  BY <1>1, <1>2, <1>7, <1>8
<1> QED
  BY <1>9 DEF q

\* The event queue has room for its descriptors and avail ring, and no device
\* writes to its used ring.
LEMMA LayoutOfEventQueue ==
    /\ TablesSound(EventQueue)
    /\ EventQueue.slots <= EventQueue.size /\ EventQueue.size = EventQueue.device_size
<1> DEFINE u == PageUp(42)
<1>1. u \in Nat /\ 42 <= u
  BY PageUpBounds
<1>2. avail_offset(2) = 32 /\ used_offset(2) = u
  BY DEF avail_offset, used_offset
<1>3. DeviceUsedOffset(2) = u /\ DeviceAvailOffset(2) = 32
  BY DEF DeviceUsedOffset, DeviceAvailOffset
<1>4. /\ EventQueue.size = 2 /\ EventQueue.device_size = 2 /\ EventQueue.slots = 0
      /\ EventQueue.alloc = PAGE_SIZE
  BY DEF EventQueue, Queue
<1>5. /\ DescTable(0).lo = 0 /\ DescTable(0).hi = 0
      /\ AvailTable(2).lo = 32 /\ AvailTable(2).hi = 42
      /\ UsedTable(2).lo = u /\ UsedTable(2).hi = u + 22
  BY <1>1, <1>2 DEF DescTable, AvailTable, UsedTable
<1> HIDE DEF u
<1> QED
  BY <1>1, <1>2, <1>3, <1>4, <1>5, PageSize DEF TablesSound, SamePlaces, Apart

-----------------------------------------------------------------------------
(* The boot sequence.                                                       *)

\* A queue of a driver, or the event queue.
Allocated(q) ==
    \/ /\ q.size \in Nat /\ q.device_size \in Nat /\ q.slots \in Nat
       /\ q = Queue(q.dev, q.size, q.device_size, q.slots)
    \/ q = EventQueue

BootInv == machine \in Machines /\ \A q \in queues : Allocated(q)

LEMMA AllocatedSound ==
    ASSUME NEW q, Allocated(q)
    PROVE  TablesSound(q) <=> q.slots <= q.size /\ q.size = q.device_size
<1>1. CASE q = EventQueue
  BY <1>1, LayoutOfEventQueue
<1>2. CASE q # EventQueue
  BY <1>2, LayoutOfQueueMemory DEF Allocated
<1> QED
  BY <1>1, <1>2

\* Each init function allocates what the queue needs.
LEMMA DriverQueue ==
    ASSUME NEW dev, NEW qs \in Nat, NEW ds \in Nat, NEW n \in Nat
    PROVE  Allocated(Queue(dev, qs, ds, n))
  BY DEF Allocated, Queue

LEMMA VsockAllocates ==
    ASSUME NEW d, NEW q \in VsockQueues(d)
    PROVE  Allocated(q)
<1>1. \/ q = EventQueue
      \/ \E dev \in {"vsock_rx", "vsock_tx"} :
            q = Queue(dev, VSOCK_QUEUE_SIZE, VSOCK_QUEUE_SIZE, VSOCK_QUEUE_SIZE)
  BY DEF VsockQueues
<1>2. CASE q = EventQueue
  BY <1>2 DEF Allocated
<1>3. CASE q # EventQueue
  BY <1>1, <1>3, DriverQueue, DeviceConstants
<1> QED
  BY <1>2, <1>3

LEMMA NetAllocates ==
    ASSUME NEW m \in Machines, NEW q \in NetQueues(pci_find(m, "net"))
    PROVE  Allocated(q)
<1> DEFINE d == pci_find(m, "net")
<1>1. d # None /\ (q = Queue("net_rx", d.size, d.size, QUEUE_BUFS)
                   \/ q = Queue("net_tx", d.size, d.tx_size, d.size))
  BY DEF NetQueues
<1>2. d.size \in Nat /\ d.tx_size \in Nat
  BY <1>1, QueueSizes
<1> QED
  BY <1>1, <1>2, DriverQueue, DeviceConstants

LEMMA BlkAllocates ==
    ASSUME NEW m \in Machines, NEW q \in BlkQueues(pci_find(m, "blk"))
    PROVE  Allocated(q)
<1> DEFINE d == pci_find(m, "blk")
<1>1. d # None /\ q = Queue("blk", d.size, d.size, 3)
  BY DEF BlkQueues
<1>2. d.size \in Nat
  BY <1>1, QueueSizes
<1> QED
  BY <1>1, <1>2, DriverQueue

LEMMA BootInvInductive == BootInv /\ [Next]_vars => BootInv'
<1> SUFFICES ASSUME BootInv, [Next]_vars PROVE BootInv'
  OBVIOUS
<1> USE DEF BootInv
<1>1. CASE VsockInit \/ FetchSecret \/ FwCfg
  BY <1>1 DEF VsockInit, FetchSecret, FwCfg
<1>2. CASE FindCap
  <2>1. machine' = machine
    BY <1>2 DEF FindCap
  <2>2. queues' = queues \/ queues' = VsockQueues(pci_find(machine, "vsock"))
    BY <1>2 DEF FindCap
  <2> QED
    BY <2>1, <2>2, VsockAllocates
<1>3. CASE NetInit
  <2>1. machine' = machine /\ queues' = queues \cup NetQueues(pci_find(machine, "net"))
    BY <1>3 DEF NetInit
  <2> QED
    BY <2>1, NetAllocates
<1>4. CASE BlkInit
  <2>1. machine' = machine /\ queues' = queues \cup BlkQueues(pci_find(machine, "blk"))
    BY <1>4 DEF BlkInit
  <2> QED
    BY <2>1, BlkAllocates
<1>5. CASE Start \/ ConnectPoll \/ RecvPoll \/ Load \/ Network \/ UNCHANGED vars
  BY <1>5 DEF Start, ConnectPoll, RecvPoll, Load, Network, vars, found
<1> QED
  BY <1>1, <1>2, <1>3, <1>4, <1>5 DEF Next, Kernel

\* On every machine, whatever sizes its queues have, the memory of every queue
\* the kernel starts is laid out soundly exactly if the queue is as long as
\* the driver assumes and as the device has it.
THEOREM BootQueuesSound == Spec => []QueueMemorySound
<1>1. Init => BootInv
  BY DEF Init, BootInv
<1>2. BootInv => QueueMemorySound
  BY AllocatedSound DEF BootInv, QueueMemorySound
<1> QED
  BY <1>1, <1>2, BootInvInductive, PTL DEF Spec

-----------------------------------------------------------------------------
(* The files.                                                               *)

\* The pieces of an answer for entry e after its header.
Piece(e) == [k : {"file", "page"}, of : {e}, size : Nat]
EndOfHeader == [k |-> "eoh"]

\* A run of an answer: the end of the header can only come first.
Run(e) == {s \in Seq(Piece(e) \cup {EndOfHeader}) : \A j \in 2..Len(s) : s[j] \in Piece(e)}

\* What is received, what can be received and what is still to come, in this
\* order, are an answer for entry i.
OwnAnswer ==
    /\ sock \in Sockets(Piece(i) \cup {EndOfHeader})
    /\ sock.rx \in Run(i) /\ sock.out \in Run(i)
    /\ raw # << >> => sock.rx \in Seq(Piece(i))
    /\ raw # << >> \/ sock.rx # << >> => sock.out \in Seq(Piece(i))

\* Each result is of its entry.
Result == {r \in [entry : Nat, body : Seq([k : {"file", "page"}, of : Nat, size : Nat])] :
              r.body \in Seq(Piece(r.entry))}

\* The results before number n have been looked at.
LoadedBefore(n) ==
    /\ \A j \in 1..Len(routes) : \E m \in 1..(n - 1) :
          m <= Len(results) /\ routes[j] = results[m] /\ BecomesRoute(results[m])
    /\ \A m \in 1..(n - 1) : m <= Len(results) /\ BecomesRoute(results[m]) =>
          \E j \in 1..Len(routes) : routes[j] = results[m]

FetchInv ==
    /\ i \in Nat \ {0} /\ raw \in Run(i) /\ results \in Seq(Result)
    /\ routes \in Seq(Result)
    /\ sock # None \/ phase \in {"connect", "recv"} =>
          OwnAnswer /\ phase \notin {"load", "serve"}
    /\ phase # "recv" => raw = << >>
    /\ \A m, n \in 1..Len(results) : m < n => results[m].entry < results[n].entry
    /\ phase \notin {"load", "serve"} =>
          /\ routes = << >>
          /\ \A n \in 1..Len(results) : results[n].entry < i
    /\ phase = "load" => LoadedBefore(i)
    /\ phase = "serve" => LoadedBefore(Len(results) + 1)

-----------------------------------------------------------------------------
(* Runs of an answer.                                                       *)

LEMMA RunFacts ==
    ASSUME NEW e, NEW s \in Run(e)
    PROVE  /\ s \in Seq(Piece(e) \cup {EndOfHeader}) /\ Len(s) \in Nat
           /\ \A j \in 2..Len(s) : s[j] \in Piece(e)
  BY DEF Run

LEMMA PiecesAreRun ==
    ASSUME NEW e, NEW s \in Seq(Piece(e))
    PROVE  s \in Run(e)
  BY DEF Run

\* A run can be cut anywhere, and only its first part has the end of the header.
LEMMA CutRun ==
    ASSUME NEW e, NEW s \in Run(e), NEW n \in 0..Len(s)
    PROVE  /\ SubSeq(s, 1, n) \in Run(e)
           /\ SubSeq(s, n + 1, Len(s)) \in Run(e)
           /\ n # 0 => SubSeq(s, n + 1, Len(s)) \in Seq(Piece(e))
           /\ s \in Seq(Piece(e)) => /\ SubSeq(s, 1, n) \in Seq(Piece(e))
                                     /\ SubSeq(s, n + 1, Len(s)) \in Seq(Piece(e))
<1> DEFINE P == Piece(e)
           T == P \cup {EndOfHeader}
           a == SubSeq(s, 1, n)
           b == SubSeq(s, n + 1, Len(s))
<1>1. s \in Seq(T) /\ Len(s) \in Nat /\ \A j \in 2..Len(s) : s[j] \in P
  BY RunFacts
<1> HIDE DEF P, T
<1>2. a \in Seq(T) /\ Len(a) = n /\ \A j \in 1..n : a[j] = s[j]
  BY <1>1
<1>3. b \in Seq(T) /\ Len(b) = Len(s) - n /\ \A j \in 1..(Len(s) - n) : b[j] = s[n + j]
  BY <1>1
<1>4. (\A j \in 2..n : a[j] \in P) /\ (\A j \in 2..(Len(s) - n) : b[j] \in P)
  BY <1>1, <1>2, <1>3
<1>5. n # 0 => \A j \in (n + 1)..Len(s) : s[j] \in P
  BY <1>1
<1>6. n # 0 => b \in Seq(P)
  BY <1>1, <1>5, SubSeqProperties
<1>7. s \in Seq(P) => a \in Seq(P) /\ b \in Seq(P)
  BY <1>1
<1> QED
  BY <1>2, <1>3, <1>4, <1>6, <1>7 DEF Run, P, T

\* Runs that follow one another are one.
LEMMA JoinRun ==
    ASSUME NEW e, NEW r \in Run(e), NEW s \in Run(e), r # << >> => s \in Seq(Piece(e))
    PROVE  r \o s \in Run(e)
<1> DEFINE P == Piece(e)
           T == P \cup {EndOfHeader}
<1>1. /\ r \in Seq(T) /\ Len(r) \in Nat /\ \A j \in 2..Len(r) : r[j] \in P
      /\ s \in Seq(T) /\ Len(s) \in Nat /\ \A j \in 2..Len(s) : s[j] \in P
      /\ r # << >> => s \in Seq(P)
  BY RunFacts
<1> HIDE DEF P, T
<1>2. /\ r \o s \in Seq(T) /\ Len(r \o s) = Len(r) + Len(s)
      /\ \A j \in 1..(Len(r) + Len(s)) : (r \o s)[j] = IF j <= Len(r) THEN r[j] ELSE s[j - Len(r)]
  BY <1>1
<1>3. CASE r = << >>
  <2>1. r \o s = s
    BY <1>1, <1>3
  <2> QED
    BY <2>1
<1>4. CASE r # << >>
  <2>1. \A j \in 1..Len(s) : s[j] \in P
    BY <1>1, <1>4, ElementOfSeq
  <2>2. ASSUME NEW j \in 2..(Len(r) + Len(s)) PROVE (r \o s)[j] \in P
    <3>1. CASE j <= Len(r)
      BY <1>1, <1>2, <3>1
    <3>2. CASE j > Len(r)
      BY <1>1, <1>2, <2>1, <3>2
    <3> QED
      BY <1>1, <3>1, <3>2
  <2> QED
    BY <1>2, <2>2 DEF Run, P, T
<1> QED
  BY <1>3, <1>4

\* What follows the header has no end of a header.
LEMMA BodyOfRun ==
    ASSUME NEW e, NEW s \in Run(e)
    PROVE  Body(s) \in Seq(Piece(e))
<1> DEFINE ends == {j \in DOMAIN s : s[j].k = "eoh"}
<1>1. DOMAIN s = 1..Len(s) /\ Len(s) \in Nat
  BY RunFacts, LenProperties
<1>2. CASE ends = {}
  BY <1>2 DEF Body
<1>3. CASE ends # {}
  <2>1. ends \subseteq 1..Len(s)
    BY <1>1
  <2>2. ends \subseteq Nat
    BY <1>1, <2>1
  <2>3. \E m \in ends : \A j \in ends : m <= j
    BY <1>3, <2>2, LeastNatural
  <2>4. Min(ends) \in ends
    BY <2>3, <2>2 DEF Min
  <2>5. Min(ends) \in 0..Len(s) /\ Min(ends) # 0
    BY <1>1, <2>1, <2>4
  <2>6. SubSeq(s, Min(ends) + 1, Len(s)) \in Seq(Piece(e))
    BY <2>5, CutRun
  <2> QED
    BY <1>3, <2>6 DEF Body
<1> QED
  BY <1>2, <1>3

\* What the registry sends is a run.
LEMMA AnswersAreRuns ==
    ASSUME NEW e, NEW w \in RegistryAnswers(e)
    PROVE  w \in Run(e)
<1> DEFINE h == << EndOfHeader >>
<1>1. h \in Run(e)
  BY DEF Run
<1>2. CASE w = h
  BY <1>1, <1>2
<1>3. CASE w = << EndOfHeader, [k |-> "page", of |-> e, size |-> 1] >>
  BY <1>3 DEF Run, Piece
<1>4. ASSUME NEW n \in FileSizes,
             w = h \o [j \in 1..n |-> [k |-> "file", of |-> e, size |-> n]]
      PROVE  w \in Run(e)
  <2> DEFINE x == [k |-> "file", of |-> e, size |-> n]
             s == [j \in 1..n |-> x]
  <2>1. n \in Nat
    BY BootConstants
  <2>2. x \in Piece(e)
    BY <2>1 DEF Piece
  <2> HIDE DEF x
  <2>3. s \in Seq(Piece(e))
    BY <2>1, <2>2
  <2>4. h \o s \in Run(e)
    BY <1>1, <2>3, PiecesAreRun, JoinRun
  <2> QED
    BY <1>4, <2>4 DEF x
<1> QED
  BY <1>2, <1>3, <1>4 DEF RegistryAnswers, EndOfHeader

-----------------------------------------------------------------------------
(* The steps.                                                               *)

LEMMA EmptyRun == \A e : << >> \in Run(e) /\ << >> \in Seq(Piece(e))
  BY DEF Run

LEMMA FetchInit == Init => FetchInv
  BY EmptyRun DEF Init, FetchInv

\* Before the first fetch nothing is touched.
LEMMA BeforeFetching ==
    ASSUME FetchInv, UNCHANGED fetch,
           phase \notin {"connect", "recv", "load", "serve"},
           phase' \notin {"connect", "recv", "load", "serve"}
    PROVE  FetchInv'
<1>1. /\ i' = i /\ sock' = sock /\ raw' = raw /\ results' = results /\ routes' = routes
  BY DEF fetch
<1>2. OwnAnswer' <=> OwnAnswer
  BY <1>1 DEF OwnAnswer
<1> QED
  BY <1>1, <1>2 DEF FetchInv

\* do_fetch returns with the file of its entry, or nothing.
LEMMA FetchedStep ==
    ASSUME FetchInv, phase \notin {"load", "serve"}, routes' = routes,
           NEW body \in Seq(Piece(i)), Fetched(body)
    PROVE  FetchInv'
<1> DEFINE r == [entry |-> i, body |-> body]
<1>1. /\ i \in Nat \ {0} /\ results \in Seq(Result) /\ routes = << >>
      /\ \A m, n \in 1..Len(results) : m < n => results[m].entry < results[n].entry
      /\ \A n \in 1..Len(results) : results[n].entry < i
  BY DEF FetchInv
<1>2. r \in Result
  <2>1. Piece(i) \subseteq [k : {"file", "page"}, of : Nat, size : Nat]
    BY <1>1 DEF Piece
  <2>2. body \in Seq([k : {"file", "page"}, of : Nat, size : Nat])
    BY <2>1, SeqMonotonic
  <2> QED
    BY <1>1, <2>2 DEF Result
<1>3. results' \in {results, Append(results, r)}
  BY DEF Fetched
<1>4. /\ i' = (IF i = Len(Entries) THEN 1 ELSE i + 1)
      /\ phase' = (IF i = Len(Entries) THEN "load" ELSE "start")
      /\ sock' = None /\ raw' = << >>
  BY DEF Fetched
<1>5. r.entry = i
  OBVIOUS
<1> HIDE DEF r
<1>6. /\ results' \in Seq(Result)
      /\ \A m, n \in 1..Len(results') : m < n => results'[m].entry < results'[n].entry
      /\ \A n \in 1..Len(results') : results'[n].entry < i + 1
  <2>1. CASE results' = results
    <3>1. \A n \in 1..Len(results) : results[n] \in Result
      BY <1>1, ElementOfSeq
    <3>2. \A n \in 1..Len(results) : results[n].entry \in Nat
      BY <3>1 DEF Result
    <3> QED
      BY <1>1, <2>1, <3>2
  <2>2. CASE results' = Append(results, r)
    <3>1. /\ results' \in Seq(Result) /\ Len(results') = Len(results) + 1 /\ Len(results) \in Nat
          /\ \A n \in 1..Len(results) : results'[n] = results[n]
          /\ results'[Len(results) + 1] = r
      BY <1>1, <1>2, <2>2
    <3>2. \A n \in 1..Len(results) : results[n] \in Result
      BY <1>1, ElementOfSeq
    <3>3. \A n \in 1..Len(results) : results[n].entry \in Nat
      BY <3>2 DEF Result
    <3>4. \A n \in 1..Len(results') : n \in 1..Len(results) \/ n = Len(results) + 1
      BY <3>1
    <3>5. \A n \in 1..Len(results') : results'[n].entry < i + 1
      BY <1>1, <1>5, <3>1, <3>3, <3>4
    <3>6. ASSUME NEW m \in 1..Len(results'), NEW n \in 1..Len(results'), m < n
          PROVE  results'[m].entry < results'[n].entry
      <4>1. m \in 1..Len(results) /\ results'[m] = results[m]
        BY <3>1, <3>6
      <4>2. CASE n \in 1..Len(results)
        BY <1>1, <3>1, <3>6, <4>1, <4>2
      <4>3. CASE n = Len(results) + 1
        BY <1>1, <1>5, <3>1, <4>1, <4>3
      <4> QED
        BY <3>4, <4>2, <4>3
    <3> QED
      BY <3>1, <3>5, <3>6
  <2> QED
    BY <1>3, <2>1, <2>2
<1>7. i' \in Nat \ {0} /\ raw' \in Run(i') /\ phase' \in {"load", "start"}
  BY <1>1, <1>4, EmptyRun
<1>8. phase' = "load" => LoadedBefore(i)'
  BY <1>1, <1>4 DEF LoadedBefore
<1>9. phase' # "load" => \A n \in 1..Len(results') : results'[n].entry < i'
  BY <1>4, <1>6
<1>10. routes' = << >> /\ routes' \in Seq(Result)
  BY <1>1
<1> QED
  BY <1>4, <1>6, <1>7, <1>8, <1>9, <1>10 DEF FetchInv

\* The wait loops of do_fetch.
LEMMA StartStep == ASSUME FetchInv, Start PROVE FetchInv'
<1>1. phase = "start" /\ routes' = routes
  BY DEF Start
<1>2. CASE Fetched(<< >>)
  BY <1>1, <1>2, FetchedStep, EmptyRun
<1>3. ASSUME NEW w \in RegistryAnswers(i),
             sock' = Connect(i, w), phase' = "connect", UNCHANGED << i, raw, results >>
      PROVE  FetchInv'
  <2>1. w \in Run(i)
    BY AnswersAreRuns
  <2>2. sock'.rx = << >> /\ sock'.out = w
    BY <1>3 DEF Connect
  <2>3. << >> \in Run(i) /\ raw = << >>
    BY <1>1 DEF Run, FetchInv
  <2>4. sock' \in Sockets(Piece(i) \cup {EndOfHeader})
    BY <1>3, <2>1, <2>3, RunFacts DEF Connect, Sockets, SocketStates, FetchInv
  <2>5. OwnAnswer'
    BY <1>3, <2>1, <2>2, <2>3, <2>4 DEF OwnAnswer
  <2> QED
    BY <1>1, <1>3, <2>5 DEF FetchInv
<1> QED
  BY <1>2, <1>3 DEF Start

LEMMA ConnectStep == ASSUME FetchInv, ConnectPoll PROVE FetchInv'
<1>1. phase = "connect" /\ routes' = routes
  BY DEF ConnectPoll
<1>2. CASE Fetched(<< >>)
  BY <1>1, <1>2, FetchedStep, EmptyRun
<1>3. CASE phase' \in {"connect", "recv", "panic"} /\ UNCHANGED << i, sock, raw, results >>
  <2>1. OwnAnswer'
    BY <1>1, <1>3 DEF OwnAnswer, FetchInv
  <2> QED
    BY <1>1, <1>3, <2>1 DEF FetchInv
<1> QED
  BY <1>1, <1>2, <1>3 DEF ConnectPoll

LEMMA RecvStep == ASSUME FetchInv, RecvPoll PROVE FetchInv'
<1> DEFINE n == Min2(RecvChunk, Len(sock.rx))
           part == IF can_recv(sock) THEN Received(sock, RecvChunk) ELSE << >>
           buf == raw \o part
<1>1. phase = "recv" /\ routes' = routes
  BY DEF RecvPoll
<1>2. OwnAnswer /\ raw \in Run(i)
  BY <1>1 DEF FetchInv
<1>3. Len(sock.rx) \in Nat /\ n \in 0..Len(sock.rx) /\ (Len(sock.rx) # 0 => n # 0)
  BY <1>2, RunFacts, BootConstants DEF OwnAnswer, Min2
<1>4. part \in Run(i) /\ (raw # << >> => part \in Seq(Piece(i)))
  <2>1. CASE can_recv(sock)
    BY <1>2, <1>3, <2>1, CutRun DEF OwnAnswer, Received
  <2>2. CASE ~can_recv(sock)
    BY <2>2, EmptyRun
  <2> QED
    BY <2>1, <2>2
<1>5. buf \in Run(i)
  BY <1>2, <1>4, JoinRun
<1>6. CASE Fetched(Body(buf))
  BY <1>1, <1>5, <1>6, BodyOfRun, FetchedStep
<1>7. CASE /\ raw' = buf /\ sock' = AfterRecv(sock, RecvChunk)
           /\ UNCHANGED << phase, i, results >>
  <2>1. /\ sock'.rx = SubSeq(sock.rx, n + 1, Len(sock.rx))
        /\ sock'.out = sock.out
        /\ sock' \in Sockets(Piece(i) \cup {EndOfHeader})
    <3> DEFINE T == Piece(i) \cup {EndOfHeader}
               r == SubSeq(sock.rx, n + 1, Len(sock.rx))
    <3>1. sock \in Sockets(T)
      BY <1>2 DEF OwnAnswer
    <3>2. r \in Seq(T)
      BY <1>2, <1>3, CutRun, RunFacts DEF OwnAnswer
    <3>3. sock' = [sock EXCEPT !.rx = r]
      BY <1>7 DEF AfterRecv
    <3> HIDE DEF r, T
    <3>4. sock'.rx = r /\ sock'.out = sock.out /\ sock' \in Sockets(T)
      BY <3>1, <3>2, <3>3 DEF Sockets
    <3> QED
      BY <3>4 DEF r, T
  <2>2. sock'.rx \in Run(i) /\ (n # 0 \/ raw # << >> => sock'.rx \in Seq(Piece(i)))
    BY <1>2, <1>3, <2>1, CutRun DEF OwnAnswer
  <2>3. sock.rx = << >> => sock'.rx = << >>
    BY <1>3, <2>1
  <2>4. sock.rx # << >> => n # 0
    BY <1>2, <1>3, RunFacts, EmptySeq DEF OwnAnswer
  <2>5. sock.rx = << >> => part = << >>
    BY <1>3 DEF can_recv
  <2>6. sock.rx = << >> => raw' = raw
    BY <1>2, <1>7, <2>5, RunFacts, ConcatEmptySeq
  <2>7. OwnAnswer'
    <3>1. CASE sock.rx = << >>
      BY <1>2, <1>7, <2>1, <2>2, <2>3, <2>6, <3>1, EmptyRun DEF OwnAnswer
    <3>2. CASE sock.rx # << >>
      BY <1>2, <1>7, <2>1, <2>2, <2>4, <3>2 DEF OwnAnswer
    <3> QED
      BY <3>1, <3>2
  <2> HIDE DEF buf
  <2> QED
    BY <1>1, <1>5, <1>7, <2>7 DEF FetchInv
<1> QED
  BY <1>1, <1>6, <1>7 DEF RecvPoll

\* The network moves the answer on, or loses the rest of it.
LEMMA NetworkStep == ASSUME FetchInv, Network PROVE FetchInv'
<1>1. OwnAnswer /\ phase \notin {"load", "serve"} /\ i \in Nat
  BY DEF Network, FetchInv
<1>2. UNCHANGED << phase, i, raw, results, routes >>
  BY DEF Network
<1>3. CASE \E st \in SocketStates : sock' \in {[sock EXCEPT !.st = st], [sock EXCEPT !.st = st, !.out = << >>]}
  <2>1. /\ sock' \in Sockets(Piece(i) \cup {EndOfHeader})
        /\ sock'.rx = sock.rx /\ sock'.out \in {sock.out, << >>}
    <3>1. sock \in Sockets(Piece(i) \cup {EndOfHeader})
      BY <1>1 DEF OwnAnswer
    <3>2. PICK st \in SocketStates :
            sock' = [sock EXCEPT !.st = st] \/ sock' = [sock EXCEPT !.st = st, !.out = << >>]
      BY <1>3
    <3> DEFINE T == Piece(i) \cup {EndOfHeader}
    <3> HIDE DEF T
    <3>3. sock \in Sockets(T)
      BY <3>1 DEF T
    <3>4. sock' \in Sockets(T) /\ sock'.rx = sock.rx /\ sock'.out \in {sock.out, << >>}
      <4>1. CASE sock' = [sock EXCEPT !.st = st]
        BY <3>3, <4>1 DEF Sockets
      <4>2. CASE sock' = [sock EXCEPT !.st = st, !.out = << >>]
        BY <3>3, <4>2, EmptySeq DEF Sockets
      <4> QED
        BY <3>2, <4>1, <4>2
    <3> QED
      BY <3>4 DEF T
  <2>2. OwnAnswer'
    BY <1>1, <1>2, <2>1, EmptyRun DEF OwnAnswer
  <2> QED
    BY <1>1, <1>2, <2>2 DEF FetchInv
<1>4. ASSUME NEW k \in 1..Len(sock.out), sock' = Deliver(sock, k) PROVE FetchInv'
  <2> DEFINE a == SubSeq(sock.out, 1, k)
             b == SubSeq(sock.out, k + 1, Len(sock.out))
  <2>1. sock' = [sock EXCEPT !.rx = sock.rx \o a, !.out = b]
    BY <1>4 DEF Deliver
  <2>2. Len(sock.out) \in Nat /\ k \in 0..Len(sock.out) /\ k # 0
    BY <1>1, RunFacts DEF OwnAnswer
  <2>3. /\ a \in Run(i) /\ b \in Seq(Piece(i))
        /\ raw # << >> \/ sock.rx # << >> => a \in Seq(Piece(i))
    BY <1>1, <2>2, CutRun DEF OwnAnswer
  <2> HIDE DEF a, b
  <2>4. sock.rx \o a \in Run(i)
    BY <1>1, <2>3, JoinRun DEF OwnAnswer
  <2>5. raw # << >> => sock.rx \o a \in Seq(Piece(i))
    BY <1>1, <2>3 DEF OwnAnswer
  <2>6. sock \in Sockets(Piece(i) \cup {EndOfHeader})
    BY <1>1 DEF OwnAnswer
  <2>7. b \in Run(i)
    BY <2>3, PiecesAreRun
  <2>8. /\ sock' \in Sockets(Piece(i) \cup {EndOfHeader})
        /\ sock'.rx = sock.rx \o a /\ sock'.out = b
    <3> DEFINE T == Piece(i) \cup {EndOfHeader}
               r == sock.rx \o a
    <3>1. r \in Seq(T) /\ b \in Seq(T)
      BY <2>4, <2>7, RunFacts
    <3>2. sock \in Sockets(T) /\ sock' = [sock EXCEPT !.rx = r, !.out = b]
      BY <2>1, <2>6
    <3> HIDE DEF r, T
    <3>3. sock' \in Sockets(T) /\ sock'.rx = r /\ sock'.out = b
      BY <3>1, <3>2 DEF Sockets
    <3> QED
      BY <3>3 DEF r, T
  <2>9. OwnAnswer'
    BY <1>2, <2>3, <2>4, <2>5, <2>7, <2>8 DEF OwnAnswer
  <2> QED
    BY <1>1, <1>2, <2>9 DEF FetchInv
<1>5. CASE sock' = [sock EXCEPT !.st = "Established"]
  BY <1>3, <1>5 DEF SocketStates
<1>6. CASE sock' \in AfterFin(sock) \/ sock' = AfterRst(sock)
  <2>1. CASE sock' = AfterRst(sock)
    BY <1>3, <2>1 DEF AfterRst, SocketStates
  <2>2. CASE sock' \in AfterFin(sock)
    <3> DEFINE T == CASE sock.st = "Established" -> {"CloseWait"}
                      [] sock.st = "FinWait1"    -> {"Closing", "TimeWait"}
                      [] OTHER                   -> {"TimeWait"}
    <3>1. T \subseteq SocketStates
      BY DEF SocketStates
    <3>2. \E t \in T : sock' = [sock EXCEPT !.st = t, !.out = << >>]
      BY <2>2 DEF AfterFin
    <3> HIDE DEF T
    <3> QED
      BY <1>3, <3>1, <3>2
  <2> QED
    BY <1>6, <2>1, <2>2
<1> QED
  BY <1>4, <1>5, <1>6 DEF Network

\* One result is loaded, or the last one has been.
LEMMA LoadStep == ASSUME FetchInv, Load PROVE FetchInv'
<1>1. /\ phase = "load" /\ UNCHANGED << sock, raw, results >>
      /\ i \in Nat \ {0} /\ raw = << >> /\ sock = None
      /\ results \in Seq(Result) /\ routes \in Seq(Result) /\ LoadedBefore(i)
      /\ \A m, n \in 1..Len(results) : m < n => results[m].entry < results[n].entry
  BY DEF Load, FetchInv
<1>2. Len(results) \in Nat /\ Len(routes) \in Nat
  BY <1>1
<1>3. CASE i > Len(results)
  <2>1. phase' = "serve" /\ UNCHANGED << i, routes >>
    BY <1>3 DEF Load
  <2>2. LoadedBefore(Len(results) + 1)
    <3>1. /\ \A m \in 1..(i - 1) : m <= Len(results) => m \in 1..(Len(results) + 1 - 1)
          /\ \A m \in 1..(Len(results) + 1 - 1) : m \in 1..(i - 1)
      BY <1>1, <1>2, <1>3
    <3> DEFINE n == Len(results) + 1
    <3>2. \A m \in 1..(i - 1) : m <= Len(results) => m \in 1..(n - 1)
      BY <3>1
    <3>3. \A m \in 1..(n - 1) : m \in 1..(i - 1)
      BY <3>1
    <3> HIDE DEF n
    <3>4. \A j \in 1..Len(routes) : \E m \in 1..(n - 1) :
            m <= Len(results) /\ routes[j] = results[m] /\ BecomesRoute(results[m])
      BY <1>1, <3>2, Zenon DEF LoadedBefore
    <3>5. \A m \in 1..(n - 1) : m <= Len(results) /\ BecomesRoute(results[m]) =>
            \E j \in 1..Len(routes) : routes[j] = results[m]
      BY <1>1, <3>3, Zenon DEF LoadedBefore
    <3>6. LoadedBefore(n)
      BY <3>4, <3>5, Zenon DEF LoadedBefore
    <3> QED
      BY <3>6 DEF n
  <2>3. LoadedBefore(Len(results) + 1)'
    BY <1>1, <2>1, <2>2 DEF LoadedBefore
  <2> QED
    BY <1>1, <2>1, <2>3, EmptyRun DEF FetchInv
<1>4. CASE ~(i > Len(results))
  <2>1. /\ i' = i + 1 /\ phase' = "load"
        /\ routes' = IF BecomesRoute(results[i]) THEN Append(routes, results[i]) ELSE routes
    BY <1>1, <1>4 DEF Load
  <2>2. i \in 1..Len(results) /\ results[i] \in Result
    BY <1>1, <1>2, <1>4, ElementOfSeq
  <2>3. routes' \in Seq(Result)
    BY <1>1, <2>1, <2>2
  <2>4. LoadedBefore(i)'
    <3>1. CASE ~BecomesRoute(results[i])
      <4>1. routes' = routes /\ results' = results
        BY <1>1, <2>1, <3>1
      <4>2. \A m \in 1..i : m \in 1..(i - 1) \/ m = i
        BY <1>1
      <4>3. \A m \in 1..(i - 1) : m \in 1..i
        BY <1>1
      <4>4. \A j \in 1..Len(routes) : \E m \in 1..i :
              m <= Len(results) /\ routes[j] = results[m] /\ BecomesRoute(results[m])
        BY <1>1, <4>3, Zenon DEF LoadedBefore
      <4>5. \A m \in 1..i : m <= Len(results) /\ BecomesRoute(results[m]) =>
              \E j \in 1..Len(routes) : routes[j] = results[m]
        BY <1>1, <3>1, <4>2, Zenon DEF LoadedBefore
      <4>6. \A r : BecomesRoute(r)' <=> BecomesRoute(r)
        BY DEF BecomesRoute, Loads
      <4>7. i' - 1 = i
        BY <1>1, <2>1
      <4> QED
        BY <4>1, <4>4, <4>5, <4>6, <4>7 DEF LoadedBefore
    <3>2. CASE BecomesRoute(results[i])
      <4>1. /\ results' = results /\ routes' = Append(routes, results[i])
            /\ Len(routes') = Len(routes) + 1
            /\ \A j \in 1..Len(routes) : routes'[j] = routes[j]
            /\ routes'[Len(routes) + 1] = results[i]
        BY <1>1, <2>1, <2>2, <3>2
      <4>2. /\ \A m \in 1..i : m \in 1..(i - 1) \/ m = i
            /\ \A m \in 1..(i - 1) : m \in 1..i
            /\ i \in 1..i /\ i <= Len(results) /\ i + 1 - 1 = i
        BY <1>1, <1>2, <2>2
      <4>3. /\ \A j \in 1..Len(routes') : j \in 1..Len(routes) \/ j = Len(routes) + 1
            /\ \A j \in 1..Len(routes) : j \in 1..Len(routes')
            /\ Len(routes) + 1 \in 1..Len(routes')
        BY <1>2, <4>1
      <4>4. \A j \in 1..Len(routes') : \E m \in 1..i :
              m <= Len(results) /\ routes'[j] = results[m] /\ BecomesRoute(results[m])
        BY <1>1, <3>2, <4>1, <4>2, <4>3 DEF LoadedBefore
      <4>5. \A m \in 1..i : m <= Len(results) /\ BecomesRoute(results[m]) =>
              \E j \in 1..Len(routes') : routes'[j] = results[m]
        BY <1>1, <4>1, <4>2, <4>3 DEF LoadedBefore
      <4>6. \A r : BecomesRoute(r)' <=> BecomesRoute(r)
        BY DEF BecomesRoute, Loads
      <4>7. i' - 1 = i /\ results' = results
        BY <1>1, <2>1
      <4> QED
        BY <4>4, <4>5, <4>6, <4>7 DEF LoadedBefore
    <3> QED
      BY <3>1, <3>2
  <2> QED
    BY <1>1, <2>1, <2>3, <2>4, EmptyRun DEF FetchInv
<1> QED
  BY <1>3, <1>4

LEMMA FetchStep == FetchInv /\ [Next]_vars => FetchInv'
<1> SUFFICES ASSUME FetchInv, [Next]_vars PROVE FetchInv'
  OBVIOUS
<1>1. CASE VsockInit \/ FindCap \/ FetchSecret \/ FwCfg \/ NetInit \/ BlkInit
  <2>1. UNCHANGED fetch /\ phase \in {"vsock", "caps", "secret", "fw_cfg", "net", "blk"}
    BY <1>1 DEF VsockInit, FindCap, FetchSecret, FwCfg, NetInit, BlkInit
  <2>2. phase' \in {"vsock", "caps", "secret", "fw_cfg", "net", "blk", "start", "halt"}
    BY <1>1 DEF VsockInit, FindCap, FetchSecret, FwCfg, NetInit, BlkInit
  <2> QED
    BY <2>1, <2>2, BeforeFetching
<1>2. CASE UNCHANGED vars
  <2>1. UNCHANGED << phase, i, sock, raw, results, routes >>
    BY <1>2 DEF vars, fetch
  <2>2. (OwnAnswer' <=> OwnAnswer) /\ (LoadedBefore(i)' <=> LoadedBefore(i))
        /\ (LoadedBefore(Len(results) + 1)' <=> LoadedBefore(Len(results) + 1))
    BY <2>1 DEF OwnAnswer, LoadedBefore
  <2> QED
    BY <2>1, <2>2 DEF FetchInv
<1> QED
  BY <1>1, <1>2, StartStep, ConnectStep, RecvStep, NetworkStep, LoadStep DEF Next, Kernel

\* Whatever the registry and the network do, for any entries, files and limits
\* of do_fetch: a file is only ever taken for its own entry, without the header,
\* and the initial routes are exactly the modules that arrived whole.
THEOREM BootRoutesOfOwnFiles == Spec => []RoutesOfOwnFiles
<1>1. FetchInv => RoutesOfOwnFiles
  <2> SUFFICES ASSUME FetchInv PROVE RoutesOfOwnFiles
    OBVIOUS
  <2>1. /\ results \in Seq(Result) /\ routes \in Seq(Result)
        /\ DOMAIN results = 1..Len(results) /\ DOMAIN routes = 1..Len(routes)
        /\ Len(results) \in Nat /\ Len(routes) \in Nat
    BY LenProperties DEF FetchInv
  <2>2. ASSUME NEW n \in DOMAIN results
        PROVE  \A j \in DOMAIN results[n].body : /\ results[n].body[j].k # "eoh"
                                                 /\ results[n].body[j].of = results[n].entry
    <3>1. results[n] \in Result
      BY <2>1, ElementOfSeq
    <3>2. results[n].body \in Seq(Piece(results[n].entry))
      BY <3>1 DEF Result
    <3>3. \A j \in DOMAIN results[n].body : results[n].body[j] \in Piece(results[n].entry)
      BY <3>2, LenProperties, ElementOfSeq
    <3> QED
      BY <3>3 DEF Piece
  <2>3. ASSUME phase = "serve"
        PROVE  /\ \A n \in DOMAIN results : Contains(routes, results[n]) <=> BecomesRoute(results[n])
               /\ \A n \in DOMAIN routes : Contains(results, routes[n])
    <3>1. LoadedBefore(Len(results) + 1) /\ Len(results) + 1 - 1 = Len(results)
      BY <2>1, <2>3 DEF FetchInv
    <3>2. /\ \A j \in 1..Len(routes) : \E m \in 1..Len(results) :
                routes[j] = results[m] /\ BecomesRoute(results[m])
          /\ \A m \in 1..Len(results) : BecomesRoute(results[m]) =>
                \E j \in 1..Len(routes) : routes[j] = results[m]
      BY <2>1, <3>1 DEF LoadedBefore
    <3> QED
      BY <2>1, <3>2 DEF Contains
  <2> QED
    BY <2>1, <2>2, <2>3 DEF RoutesOfOwnFiles, FetchInv
<1> QED
  BY <1>1, FetchInit, FetchStep, PTL DEF Spec
=============================================================================

------------------------------- MODULE Devices -------------------------------
(***************************************************************************)
(* The machine the kernel boots on: its PCI functions, as pci::find and    *)
(* find_cap read them, what the init functions of the three virtio drivers *)
(* make of them, and the firmware configuration of fw_cfg.rs.              *)
(*                                                                         *)
(* A machine is [pci, multi, fw]: pci[s][f] is function f of slot s, None  *)
(* or [id, bar, size, tx_size, features, caps], with the sizes its first   *)
(* two queues report; multi is the set of slots with the multi-function    *)
(* bit; fw is None or the sequence of files [name, size].                  *)
(* A capability is [cap, next], its place in the list its index; the list  *)
(* starts at 1 and 0 ends it.                                              *)
(***************************************************************************)
EXTENDS Sequences, QueueLayout

CONSTANTS
    QUEUE_BUFS,        \* of virtio_net.rs
    VSOCK_QUEUE_SIZE,  \* QUEUE_SIZE of vsock.rs
    CAP_GUARD,         \* find_cap follows at most 32 links
    SECRET_MAX,        \* the buffer kernel_main reads a secret into, 256
    None

ASSUME DeviceConstants ==
    /\ QUEUE_BUFS \in Nat /\ VSOCK_QUEUE_SIZE \in Nat \ {0}
    /\ CAP_GUARD \in Nat /\ SECRET_MAX \in Nat

\* The functions pci::find looks at: 0, and the others of a slot whose header
\* says that it has several.
Scanned(m, s) ==
    IF m.pci[s][0] = None THEN {}
    ELSE {f \in DOMAIN m.pci[s] : m.pci[s][f] # None /\ (f = 0 \/ s \in m.multi)}

Before(p, q) == p[1] < q[1] \/ (p[1] = q[1] /\ p[2] <= q[2])

\* pci::find: the first function with the given identity.
pci_find(m, id) ==
    LET hits == {p \in (DOMAIN m.pci) \X (0..7) :
                    p[2] \in Scanned(m, p[1]) /\ m.pci[p[1]][p[2]].id = id}
    IN  IF hits = {} THEN None
        ELSE LET p == CHOOSE p \in hits : \A q \in hits : Before(p, q) IN m.pci[p[1]][p[2]]

\* find_cap starts at the head of the list, if the status register says that
\* there is one.
FirstCap(d) == IF d.caps = << >> THEN 0 ELSE 1

-----------------------------------------------------------------------------
(* The init functions.  Each returns the queues it has set up: the empty     *)
(* set stands for None or Err.                                               *)

Queue(dev, size, device_size, slots) ==
    [dev |-> dev, size |-> size, device_size |-> device_size,
     alloc |-> queue_mem_size(size), slots |-> slots]

\* VirtioNetDev::init: QUEUE_BUFS descriptors for receiving, and all the slots
\* of the second queue for sending, both as long as the device says the first
\* is: the size it reports for the second is read and ignored.
NetQueues(d) ==
    IF d = None \/ d.bar # "io" THEN {}
    ELSE {Queue("net_rx", d.size, d.size, QUEUE_BUFS), Queue("net_tx", d.size, d.tx_size, d.size)}

\* VirtioBlkDev::init: three descriptors, of a queue that is not empty.
BlkQueues(d) ==
    IF d = None \/ d.bar # "io" \/ d.size = 0 THEN {}
    ELSE {Queue("blk", d.size, d.size, 3)}

\* The event queue has a page of memory and no buffers.
EventQueue == [Queue("event", 2, 2, 0) EXCEPT !.alloc = PAGE_SIZE]

\* VsockDev::init after both capabilities were found.  The driver tells the
\* device the size and the places of its queues.
VsockQueues(d) ==
    IF d.bar # "mem" \/ ~d.features THEN {}
    ELSE {Queue(q, VSOCK_QUEUE_SIZE, VSOCK_QUEUE_SIZE, VSOCK_QUEUE_SIZE) :
             q \in {"vsock_rx", "vsock_tx"}} \cup {EventQueue}

-----------------------------------------------------------------------------
(* fw_cfg: the size of the file, None without the device or the file.       *)

find_file(m, name) ==
    IF m.fw = None THEN None
    ELSE LET hits == {k \in DOMAIN m.fw : m.fw[k].name = name}
         IN  IF hits = {} THEN None
             ELSE m.fw[CHOOSE k \in hits : \A j \in hits : k <= j].size
=============================================================================

------------------------------- MODULE VirtioTx -------------------------------
(***************************************************************************)
(* The transmit queue of unikernel/src/virtio_net.rs: send_packet on the   *)
(* driver's side, the virtio device on the other.  sent and fetched count, *)
(* without bound, the frames published and the frames the device has       *)
(* fetched; tx_next_avail is sent % Width.  Frame number n is the n-th the *)
(* stack sends.                                                            *)
(*                                                                         *)
(* send_packet never looks at the used ring: it may run any number of      *)
(* frames ahead of the device.                                             *)
(***************************************************************************)
EXTENDS VirtQueue

CONSTANT MaxSends     \* bound on the frames sent

ASSUME TxConstants ==
    /\ QueueSize \in Nat \ {0} /\ Bufs \in Nat \ {0} /\ Width \in Nat \ {0}
    /\ Width % QueueSize = 0 /\ QueueSize % Bufs = 0
    /\ QueueSize < Width
    /\ MaxSends \in Nat
    /\ OverflowChecks \in BOOLEAN

VARIABLES
    ring,    \* avail ring: slot -> descriptor
    desc,    \* descriptor table: descriptor -> buffer
    tx_buf,  \* buffer -> number of the frame in it
    sent, fetched,
    tx_drv,  \* where send_packet stands
    wire     \* the frame the device put on the wire last

TxVars == << ring, desc, tx_buf, sent, fetched, tx_drv, wire >>

Buffers == 0..(Bufs - 1)

BufOf_One(n) == 0

\* desc_i: the buffer of the frame after n others.
BufOf(n) == Slot(n) % Bufs

TxInit ==
    /\ ring = [s \in Slots |-> 0] /\ desc = [s \in Slots |-> 0]
    /\ tx_buf = [b \in Buffers |-> 0]
    /\ sent = 0 /\ fetched = 0 /\ tx_drv = "idle" /\ wire = 0

-----------------------------------------------------------------------------
(* send_packet.                                                             *)

\* The frame is copied into its buffer ...
Fill ==
    /\ tx_drv = "idle" /\ sent < MaxSends
    /\ tx_buf' = [tx_buf EXCEPT ![BufOf(sent)] = sent + 1]
    /\ tx_drv' = "filled"
    /\ UNCHANGED << ring, desc, sent, fetched, wire >>

\* ... the descriptor and the avail ring entry are written ...
List ==
    /\ tx_drv = "filled"
    /\ desc' = [desc EXCEPT ![Slot(sent)] = BufOf(sent)]
    /\ ring' = [ring EXCEPT ![Slot(sent)] = Slot(sent)]
    /\ tx_drv' = "listed"
    /\ UNCHANGED << tx_buf, sent, fetched, wire >>

\* ... and after the fence the avail index makes the frame visible.  "+= 1" on
\* a u16 panics in a build with overflow checks.
TxPublish ==
    /\ tx_drv = "listed"
    /\ IF Overflows(sent)
       THEN tx_drv' = "panic" /\ UNCHANGED sent
       ELSE tx_drv' = "idle" /\ sent' = sent + 1
    /\ UNCHANGED << ring, desc, tx_buf, fetched, wire >>

\* The device (external) transmits the next frame the avail index shows.
DevSend ==
    /\ Reg(fetched) # Reg(sent)
    /\ wire' = tx_buf[desc[ring[Slot(fetched)]]]
    /\ fetched' = fetched + 1
    /\ UNCHANGED << ring, desc, tx_buf, sent, tx_drv >>

TxNext == Fill \/ List \/ TxPublish \/ DevSend

TxSpec == TxInit /\ [][TxNext]_TxVars

-----------------------------------------------------------------------------
(* Properties.                                                              *)

TxTypeOK ==
    /\ ring \in [Slots -> Slots] /\ desc \in [Slots -> Buffers]
    /\ tx_buf \in [Buffers -> Nat]
    /\ sent \in Nat /\ fetched \in Nat /\ wire \in Nat
    /\ tx_drv \in {"idle", "filled", "listed", "panic"}

\* The frames send_packet has begun to write.
Begun == sent + IF tx_drv = "idle" THEN 0 ELSE 1

\* A frame goes out as the stack sent it, and as the next in order, unless a
\* burst of Bufs later frames has been begun before the device fetched it:
\* what the QUEUE_BUFS independent buffers give (virtio_net.rs:260).
IntactWithinBufs ==
    [][fetched' # fetched /\ Begun - fetched <= Bufs => wire' = fetched']_TxVars

\* The n-th frame on the wire is the n-th frame the stack sent, however many
\* one poll sends (docs/PLAN.md:256, 382: independent buffers cure the
\* overwriting when one poll sends several packets).
TxIntact == wire = fetched

=============================================================================

------------------------------- MODULE VirtioRx -------------------------------
(***************************************************************************)
(* The receive queue of unikernel/src/virtio_net.rs: VirtioNetDev::init    *)
(* and try_recv on the driver's side, the virtio device on the other.      *)
(*                                                                         *)
(* made, popped, done and taken count, without bound, the descriptors the  *)
(* driver has published, the device has fetched, the device has completed  *)
(* and the driver has consumed.  The 16-bit registers of the code are      *)
(* their remainders: rx_next_avail and the avail index are made % Width,   *)
(* rx_last_used is taken % Width, the used index is done % Width.  Frames  *)
(* are numbered in the order the device completes them, so the frame put   *)
(* into used entry number c is c + 1.                                      *)
(***************************************************************************)
EXTENDS VirtQueue

CONSTANTS
    MaxFrames        \* bound on the frames the device receives

\* A legacy device has a queue size that is a power of two, and init publishes
\* QUEUE_BUFS descriptors without comparing them with queue_size.
ASSUME RxConstants ==
    /\ QueueSize \in Nat \ {0} /\ Bufs \in 1..QueueSize
    /\ Width \in Nat /\ Bufs < Width
    /\ Width % QueueSize = 0
    /\ MaxFrames \in Nat
    /\ OverflowChecks \in BOOLEAN

VARIABLES
    avail,   \* avail ring: slot -> descriptor
    made, popped,
    held,    \* descriptors the device has fetched and not completed
    used,    \* used ring: slot -> descriptor
    done, taken,
    buf,     \* descriptor -> number of the frame in its buffer
    drv,     \* where try_recv stands
    hand,    \* desc_id of try_recv
    last     \* the frame the latest try_recv returned

vars == << avail, made, popped, held, used, done, taken, buf, drv, hand, last >>

Descs == 0..(Bufs - 1)

Init_AllSlots ==
    /\ avail = [i \in Slots |-> i]
    /\ made = QueueSize /\ popped = 0 /\ held = {}
    /\ used = [i \in Slots |-> 0] /\ done = 0 /\ taken = 0
    /\ buf = [d \in Descs |-> 0]
    /\ drv = "idle" /\ hand = 0 /\ last = 0

Init ==
    /\ avail = [i \in Slots |-> IF i < Bufs THEN i ELSE 0]
    /\ made = Bufs /\ popped = 0 /\ held = {}
    /\ used = [i \in Slots |-> 0] /\ done = 0 /\ taken = 0
    /\ buf = [d \in Descs |-> 0]
    /\ drv = "idle" /\ hand = 0 /\ last = 0

-----------------------------------------------------------------------------
(* try_recv.  When the used index equals rx_last_used it returns None and   *)
(* changes nothing.                                                         *)

HasUsed_Greater == Reg(done) > Reg(taken)
HasUsed_Unchecked == TRUE

HasUsed == Reg(done) # Reg(taken)

UsedEntry_AfterIncrement == used[Slot(taken + 1)]

UsedEntry == used[Slot(taken)]

\* The descriptor is read from the used ring and the frame copied out of its
\* buffer.
TakeUsed ==
    /\ drv = "idle" /\ HasUsed
    /\ IF Overflows(taken)
       THEN /\ drv' = "panic" /\ UNCHANGED << taken, hand, last >>
       ELSE /\ hand' = UsedEntry
            /\ taken' = taken + 1
            /\ last' = buf[UsedEntry]
            /\ drv' = "copied"
    /\ UNCHANGED << avail, made, popped, held, used, done, buf >>

GiveBack_SlotOfUsed ==
    /\ drv = "copied"
    /\ avail' = [avail EXCEPT ![Slot(taken)] = hand]
    /\ drv' = "listed"
    /\ UNCHANGED << made, popped, held, used, done, taken, buf, hand, last >>

\* The descriptor is written into the next slot of the avail ring ...
GiveBack ==
    /\ drv = "copied"
    /\ avail' = [avail EXCEPT ![Slot(made)] = hand]
    /\ drv' = "listed"
    /\ UNCHANGED << made, popped, held, used, done, taken, buf, hand, last >>

\* ... and after the fence the avail index makes it visible.
Publish ==
    /\ drv = "listed"
    /\ IF Overflows(made)
       THEN drv' = "panic" /\ UNCHANGED made
       ELSE drv' = "idle" /\ made' = made + 1
    /\ UNCHANGED << avail, popped, held, used, done, taken, buf, hand, last >>

-----------------------------------------------------------------------------
(* The device (external): it fetches what the avail index shows and         *)
(* completes what it holds in any order.                                    *)

DevFetch ==
    /\ Reg(popped) # Reg(made)
    /\ held' = held \cup {avail[Slot(popped)]}
    /\ popped' = popped + 1
    /\ UNCHANGED << avail, made, used, done, taken, buf, drv, hand, last >>

DevComplete(d) ==
    /\ d \in held /\ done < MaxFrames
    /\ buf' = [buf EXCEPT ![d] = done + 1]
    /\ used' = [used EXCEPT ![Slot(done)] = d]
    /\ done' = done + 1
    /\ held' = held \ {d}
    /\ UNCHANGED << avail, made, popped, taken, drv, hand, last >>

Driver == TakeUsed \/ GiveBack \/ Publish
Device == DevFetch \/ \E d \in Descs : DevComplete(d)

Next == Driver \/ Device

\* The server loop polls the device for ever.
Spec == Init /\ [][Next]_vars /\ WF_vars(Driver)

-----------------------------------------------------------------------------
(* Properties.                                                              *)

TypeOK ==
    /\ avail \in [Slots -> Descs] /\ used \in [Slots -> Descs]
    /\ made \in Nat /\ popped \in Nat /\ done \in Nat /\ taken \in Nat
    /\ held \subseteq Descs
    /\ buf \in [Descs -> Nat] /\ last \in Nat
    /\ drv \in {"idle", "copied", "listed", "panic"}
    /\ hand \in Descs

\* The n-th try_recv that returns a frame returns the n-th frame of the device:
\* no frame is lost, repeated, reordered or overwritten before it is copied,
\* although buffers are recycled and the 16-bit indices wrap.
RxInOrder == last = taken

AvailDescs == {avail[Slot(n)] : n \in popped..(made - 1)}
UsedDescs == {used[Slot(n)] : n \in taken..(done - 1)}
InHand == IF drv \in {"copied", "listed"} THEN {hand} ELSE {}

\* No descriptor is ever lost or owned twice: each is waiting in the avail
\* ring, held by the device, waiting in the used ring or in the driver's hand,
\* in one of these places only.  (Counted after a panic the one in hand is
\* gone, with everything else.)
BuffersConserved ==
    drv # "panic" =>
        /\ AvailDescs \cup held \cup UsedDescs \cup InHand = Descs
        /\ held \cap (AvailDescs \cup UsedDescs \cup InHand) = {}
        /\ AvailDescs \cap (UsedDescs \cup InHand) = {}
        /\ UsedDescs \cap InHand = {}

\* Neither side ever writes a ring entry the other has not read: what is
\* published and unread fits into the ring and into the 16-bit distance.
RingsNeverOverrun == /\ popped <= made /\ made - popped <= Bufs
                     /\ taken <= done /\ done - taken <= Bufs

\* A frame the device has completed is handed to the stack.
FramesDelivered == \A n \in 1..MaxFrames : (done >= n) ~> (last >= n)

=============================================================================

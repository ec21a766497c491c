------------------------------ MODULE VirtQueue ------------------------------
(***************************************************************************)
(* What the two queues of unikernel/src/virtio_net.rs have in common: the  *)
(* arithmetic of the free-running u16 counters and the slots they stand    *)
(* for.                                                                    *)
(***************************************************************************)
EXTENDS Integers

CONSTANTS
    QueueSize,       \* queue_size, as the device reports it
    Bufs,            \* QUEUE_BUFS
    Width,           \* 2^16, the range of the u16 counters
    OverflowChecks   \* TRUE in the dev profile, FALSE in the release profile

Slots == 0..(QueueSize - 1)
Reg(n) == n % Width
Slot(n) == Reg(n) % QueueSize

\* "+= 1" on a u16 panics in a build with overflow checks.
Overflows(n) == OverflowChecks /\ Reg(n) = Width - 1
=============================================================================

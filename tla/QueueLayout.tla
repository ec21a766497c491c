----------------------------- MODULE QueueLayout -----------------------------
(***************************************************************************)
(* Where a virtqueue lies in the memory its driver allocates:              *)
(* avail_offset, used_offset and queue_mem_size, which virtio_net.rs,      *)
(* blk.rs and vsock.rs each define alike.  A table is the half-open range  *)
(* [lo, hi) of bytes from the start of that memory.                        *)
(***************************************************************************)
EXTENDS Integers

CONSTANT PAGE_SIZE

\* A page holds at least the avail ring of a queue of two.
ASSUME PageSize == PAGE_SIZE \in Nat /\ PAGE_SIZE >= 42

PageUp(n) == ((n + PAGE_SIZE - 1) \div PAGE_SIZE) * PAGE_SIZE

avail_offset(qs) == qs * 16

used_offset_Packed(qs) == avail_offset(qs) + 6 + 2 * qs

used_offset(qs) == PageUp(avail_offset(qs) + 6 + 2 * qs)

queue_mem_size(qs) == PageUp(used_offset(qs) + 6 + 8 * qs)

\* What desc_write, avail_idx and avail_ring, and used_idx and used_id reach: the
\* first n descriptors, and the two rings.
DescTable(n) == [lo |-> 0, hi |-> 16 * n]
AvailTable(qs) == [lo |-> avail_offset(qs), hi |-> avail_offset(qs) + 6 + 2 * qs]
UsedTable(qs) == [lo |-> used_offset(qs), hi |-> used_offset(qs) + 6 + 8 * qs]

Apart(r, s) == r.hi <= s.lo \/ s.hi <= r.lo

\* Where a device of the legacy interface, which is given only the page number
\* of the queue, looks for the rings (external).
DeviceAvailOffset(qs) == 16 * qs
DeviceUsedOffset(qs) == PageUp(16 * qs + 6 + 2 * qs)

\* A queue is [size, device_size, alloc, slots]: its size as the driver and as
\* the device have it, the bytes allocated for it, and how many of its
\* descriptors the driver fills.  The rings are where the device looks.
SamePlaces(q) ==
    /\ avail_offset(q.size) = DeviceAvailOffset(q.device_size)
    /\ used_offset(q.size) = DeviceUsedOffset(q.device_size)

\* No table overlaps another, driver and device use the same places, and what a
\* device may write to, which it does only to return a descriptor, is inside
\* the memory.
TablesSound(q) ==
    /\ Apart(DescTable(q.slots), AvailTable(q.size))
    /\ Apart(DescTable(q.slots), UsedTable(q.size))
    /\ Apart(AvailTable(q.size), UsedTable(q.size))
    /\ SamePlaces(q)
    /\ AvailTable(q.size).hi <= q.alloc
    /\ q.slots > 0 => DeviceUsedOffset(q.device_size) + 6 + 8 * q.device_size <= q.alloc
=============================================================================

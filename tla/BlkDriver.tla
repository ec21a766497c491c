------------------------------ MODULE BlkDriver ------------------------------
(***************************************************************************)
(* VirtioBlkDev::do_io of unikernel/src/blk.rs and the virtio-blk device.  *)
(*                                                                         *)
(* do_io always uses descriptors 0, 1 and 2, keeps its header, its status  *)
(* byte and (for its callers) the data buffer in the memory of the call,   *)
(* publishes one request, polls the used index POLL_LIMIT times and        *)
(* returns.  Requests are numbered by the call that made them; asked, got, *)
(* answered and seen count what the driver published, the device fetched   *)
(* and completed, and the driver consumed (last_used).                     *)
(***************************************************************************)
EXTENDS Naturals, FiniteSets

CONSTANTS
    Sectors, Contents,   \* sectors and what may be written to them
    MaxCalls,            \* bound on the number of do_io calls
    Garbage,             \* what reused memory holds
    Unknown,             \* contents of a sector whose last write failed
    None

\* The requests of the n-th do_io: write_sectors and read_sectors.
Requests(n) ==
    {[id |-> n, op |-> "out", lba |-> s, val |-> v] : s \in Sectors, v \in Contents}
        \cup {[id |-> n, op |-> "in", lba |-> s, val |-> None] : s \in Sectors}

ASSUME BlkConstants == MaxCalls \in Nat /\ \A n \in 1..MaxCalls : None \notin Requests(n)

VARIABLES
    call,     \* the do_io under way, None between calls
    chain,     \* the request in the descriptor table
    asked, got, answered, seen,
    inside,   \* requests the device has fetched and not completed
    status,   \* the status byte of the call under way; 0 is VIRTIO_BLK_S_OK
    disk,     \* sector -> contents
    completed,   \* history: calls whose request was carried out
    returned,    \* history: the last return, [id, ok]
    expected,    \* history: sector -> contents after the last write returned true
    stray        \* history: the device wrote its status into memory of a call that was over

blk_vars == << call, chain, asked, got, answered, seen, inside, status, disk,
               completed, returned, expected, stray >>

BlkInit ==
    /\ call = None /\ chain = None
    /\ asked = 0 /\ got = 0 /\ answered = 0 /\ seen = 0
    /\ inside = {} /\ status = 0
    /\ disk = [s \in Sectors |-> None]
    /\ completed = {} /\ returned = None
    /\ expected = [s \in Sectors |-> None]
    /\ stray = FALSE

-----------------------------------------------------------------------------
(* do_io.                                                                   *)

\* Header and descriptors are filled, the status byte is cleared, the avail
\* entry is published and the device is notified.
Submit(req) ==
    /\ call = None /\ asked < MaxCalls
    /\ call' = req /\ chain' = req
    /\ asked' = asked + 1
    /\ status' = 0
    /\ UNCHANGED << got, answered, seen, inside, disk, completed, returned,
                    expected, stray >>

Return(ok) ==
    /\ call' = None
    /\ returned' = [id |-> call.id, ok |-> ok]
    /\ expected' = IF call.op = "out"
                   THEN [expected EXCEPT ![call.lba] = IF ok THEN call.val ELSE Unknown]
                   ELSE expected
    /\ UNCHANGED << chain, asked, got, answered, inside, status, disk, completed,
                    stray >>

UsedMoved_Always == TRUE

\* used_idx != last_used.
UsedMoved == answered # seen

\* The used index has moved: last_used advances by one and the status byte
\* decides.  It was preset to 0, so it also reads as OK when the device has
\* not written it.
Finish == /\ call # None /\ UsedMoved
          /\ seen' = seen + 1
          /\ Return(status = 0)

Timeout_Unlimited == FALSE /\ UNCHANGED blk_vars

\* POLL_LIMIT polls without an answer: the call gives up, and neither recalls
\* the request nor advances last_used.
Timeout == /\ call # None /\ answered = seen
           /\ UNCHANGED seen
           /\ Return(FALSE)

-----------------------------------------------------------------------------
(* The device (external).                                                   *)

\* An avail entry always names descriptor 0, so the device finds whatever
\* request the descriptors describe when it looks.
BlkFetch ==
    /\ got < asked
    /\ got' = got + 1
    /\ inside' = inside \cup {[n |-> got + 1, req |-> chain]}
    /\ UNCHANGED << call, chain, asked, answered, seen, status, disk, completed,
                    returned, expected, stray >>

\* The memory of a call holds the call's data as long as it runs.
Alive(req) == call = req
Memory(req) == IF Alive(req) THEN req.val ELSE Garbage

\* The device carries a request out or fails it, and writes its status byte.
\* When the call is over that byte is stack memory a later call may be using.
BlkComplete(r, ok) ==
    /\ inside' = inside \ {r}
    /\ disk' = IF ok /\ r.req.op = "out"
               THEN [disk EXCEPT ![r.req.lba] = Memory(r.req)]
               ELSE disk
    /\ completed' = IF ok THEN completed \cup {r.req.id} ELSE completed
    /\ answered' = answered + 1
    /\ LET byte == IF ok THEN 0 ELSE 1
       IN  status' \in IF Alive(r.req) THEN {byte} ELSE {byte, status}
    /\ stray' = (stray \/ ~Alive(r.req))
    /\ UNCHANGED << call, chain, asked, got, seen, returned, expected >>

do_io == Finish \/ Timeout
BlkDevice == BlkFetch \/ \E r \in inside, ok \in BOOLEAN : BlkComplete(r, ok)
BlkNext == (\E req \in Requests(asked + 1) : Submit(req)) \/ do_io \/ BlkDevice

\* The poll loop of do_io runs on; nothing is assumed of the device.
BlkFairness == WF_blk_vars(do_io)
BlkSpec == BlkInit /\ [][BlkNext]_blk_vars /\ BlkFairness

-----------------------------------------------------------------------------
(* Properties.                                                              *)

\* No call has timed out: the driver has consumed the answer to every request
\* but the one under way.  A timeout leaves asked ahead of seen for good.
Punctual == asked - seen = IF call = None THEN 0 ELSE 1

\* blk.rs:143: do_io is synchronous: when it returns true its own request has
\* been carried out.
OwnRequestDone == returned # None /\ returned.ok => returned.id \in completed

\* So it is until a call times out, and until then the device never writes its
\* status byte into the memory of a call that is over (blk.rs:145).  The code
\* neither recalls a request nor resets the queue, so a late answer is taken for
\* that of the next call.
Synchronous == Punctual => OwnRequestDone /\ ~stray

\* Until a call times out a sector whose last write returned true holds,
\* between calls, what that write put there, whatever reads, failed requests
\* and other writes came between.
WritesLand ==
    Punctual /\ call = None =>
        \A s \in Sectors : expected[s] \in {Unknown, disk[s]}

\* A call returns, also when the device never answers.
CallReturns == (call # None) ~> (call = None)

=============================================================================

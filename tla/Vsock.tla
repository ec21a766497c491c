-------------------------------- MODULE Vsock --------------------------------
(***************************************************************************)
(* The vsock link of unikernel/src/vsock.rs: the secret fetched at boot    *)
(* (fetch_secret) and the file calls of the WASM apps (file_read,          *)
(* file_write, file_list), with the file server of                         *)
(* alpine/vsock-file-server.py at the other end.                           *)
(*                                                                         *)
(* The driver has one receive path, and try_recv returns packets of every  *)
(* connection without looking at their ports.  All file calls use the same *)
(* pair of ports, so what tells an answer from a leftover of an earlier    *)
(* call is only the order of the packets.  Each direction is a FIFO (a     *)
(* virtqueue).  Calls are numbered; an answer carries the number of the    *)
(* call it answers, which no part of the protocol reads.  Lengths are      *)
(* counted in pieces, the RW packets an answer is split into.              *)
(***************************************************************************)
EXTENDS Naturals, Sequences

CONSTANTS
    Paths,        \* file names under /data
    MaxCalls,     \* bound on the number of file calls
    MaxCredits,   \* bound on the credit updates the host kernel sends
    MaxTimeouts,  \* bound on the wait loops of file calls that run out
    SecretTimeouts, \* bound on those of fetch_secret, 0 or 1
    MaxPieces,    \* pieces of the longest answer
    BufAlloc,     \* BUF_ALLOC: pieces the host may send ahead of fwd_cnt
    None

Torn == MaxCalls + 1  \* the contents of a file whose write failed half way

Ports == {"secret", "file"}
Ops == {"read", "write", "list"}
NoCall == [id |-> 0, op |-> "none", path |-> None]
SecretCall == [id |-> 0, op |-> "secret", path |-> None]
FileCalls == [id : 1..MaxCalls, op : Ops, path : Paths]

\* One packet of an answer: which call it answers, its place among len others,
\* the status, and what the answer says of the files.
Pieces == [id : 0..MaxCalls, k : 1..MaxPieces, len : 1..MaxPieces, ok : BOOLEAN,
           holds : [data : 0..Torn, names : SUBSET Paths]]

ASSUME VsockConstants ==
    /\ MaxCalls \in Nat /\ MaxCredits \in Nat /\ MaxTimeouts \in Nat
    /\ SecretTimeouts \in {0, 1}
    /\ MaxPieces \in Nat \ {0} /\ BufAlloc \in Nat \ {0}
    /\ None \notin Seq(Pieces)

VARIABLES
    dev,       \* FILE_DEV is Some: the device has been initialised
    pc,        \* "boot", "idle" or the wait loop under way: "connect", "resp"
    call,      \* the last call begun: [id, op, path]
    port,      \* its pair of ports: "secret" or "file"
    got,       \* pieces of the answer received so far
    fwd_cnt,   \* pieces the driver has taken from the ring on this connection
    g2h, h2g,  \* packets in flight, guest to host and host to guest
    conns,     \* the host kernel's connections in the order they were made
    conn,      \* pair of ports -> its live connection in conns, 0 if none
    backlog,   \* connections the file server has yet to accept
    server,    \* the connection the file server handles, 0 if none
    out,       \* pieces of its answer still to be sent, None before the answer
    files,     \* path -> id of the call whose data it holds, 0 if absent
    budget,    \* what is left of the bounds
    ret        \* history: the last return, [call, ok, data]

guest == << dev, pc, call, port, got, ret >>
fileserver == << backlog, server, out, files >>
vars == << guest, fwd_cnt, g2h, h2g, conns, conn, fileserver, budget >>

\* The wait loops that may still run out, for either pair of ports.
Patience == [p \in Ports |-> IF p = "secret" THEN SecretTimeouts ELSE MaxTimeouts]

Init ==
    /\ dev = FALSE /\ pc = "boot" /\ call = NoCall /\ port = "secret"
    /\ got = << >> /\ fwd_cnt = 0
    /\ g2h = << >> /\ h2g = << >>
    /\ conns = << >> /\ conn = [p \in Ports |-> 0]
    /\ backlog = << >> /\ server = 0 /\ out = None
    /\ files = [p \in Paths |-> 0]
    /\ budget = [calls |-> MaxCalls, credits |-> MaxCredits, timeouts |-> Patience]
    /\ ret = [call |-> NoCall, ok |-> FALSE, data |-> << >>]

Nothing == [data |-> 0, names |-> {}]
ToGuest(op) == [op |-> op]
Piece(d) == [op |-> "rw", data |-> d]

\* make_hdr: every packet of the guest carries its fwd_cnt.
ToHost(op, p, fwd) == [op |-> op, port |-> p, fwd |-> fwd]
Request(p, fwd, c) == [op |-> "rw", port |-> p, fwd |-> fwd, req |-> c]

\* A packet goes to the end of the transmit ring.
send_raw(q, pkt) == Append(q, pkt)

-----------------------------------------------------------------------------
(* The guest.  One call at a time: its callers wait for the answer.         *)

\* The call is over: what it returns to its caller.
Return(ok, data) ==
    /\ pc' = "idle" /\ got' = << >>
    /\ ret' = [call |-> call, ok |-> ok, data |-> data]
    /\ UNCHANGED << dev, call, port >>

\* fetch_secret on a fresh device: nothing to drain, nothing to reset.  It
\* returns at once when VsockDev::init finds no device.
FetchSecret ==
    /\ pc = "boot" /\ call' = SecretCall
    /\ \/ /\ dev' = TRUE /\ pc' = "connect"
          /\ g2h' = send_raw(g2h, ToHost("request", "secret", fwd_cnt))
       \/ /\ pc' = "idle"
          /\ UNCHANGED << dev, g2h >>
    /\ UNCHANGED << port, got, fwd_cnt, h2g, conns, conn, fileserver, budget, ret >>

Spent(b) == [b EXCEPT !.calls = @ - 1]

\* The next file call there is, numbered in order.
NewCall(op, path) == [id |-> MaxCalls - budget.calls + 1, op |-> op, path |-> path]

\* ensure_file_dev tries again to initialise the device and fails.
FileCallNoDev(op, path) ==
    /\ pc = "idle" /\ ~dev /\ budget.calls > 0
    /\ budget' = Spent(budget)
    /\ ret' = [call |-> NewCall(op, path), ok |-> FALSE, data |-> << >>]
    /\ UNCHANGED << dev, pc, call, port, got, fwd_cnt, g2h, h2g, conns, conn, fileserver >>

\* file_read, file_write and file_list as far as the wait loop of
\* connect_port: what has arrived is drained, fwd_cnt reset and the
\* connection requested.
FileCall(op, path) ==
    /\ pc = "idle" /\ budget.calls > 0
    /\ budget' = Spent(budget)
    /\ dev' = TRUE /\ pc' = "connect" /\ port' = "file"
    /\ call' = NewCall(op, path)
    /\ h2g' = << >> /\ fwd_cnt' = 0
    /\ g2h' = send_raw(g2h, ToHost("request", "file", 0))
    /\ UNCHANGED << got, conns, conn, fileserver, ret >>

\* try_recv counts the data of every packet it takes from the ring.
Counted(pkt) == IF pkt.op = "rw" THEN fwd_cnt + 1 ELSE fwd_cnt

Answers_AnyPacket(pkt) == pkt.op # "rst"

\* The packet that ends the wait for a connection.
Answers(pkt) == pkt.op = "response"

\* One packet in the wait loop of connect or connect_port.  After RESPONSE the
\* guest announces its buffer and sends its request in one packet (the key
\* name, or send_file_req).  RST fails the call.  Everything else is dropped;
\* connect, which waits in recv_op, also answers a credit update.
ConnectRecv ==
    /\ pc = "connect" /\ h2g # << >>
    /\ LET pkt == Head(h2g)
           fwd == Counted(pkt)
       IN
       /\ fwd_cnt' = fwd
       /\ \/ /\ Answers(pkt)
             /\ pc' = "resp"
             /\ g2h' = g2h \o << ToHost("credit", port, fwd), Request(port, fwd, call) >>
             /\ UNCHANGED << dev, call, port, got, ret >>
          \/ /\ pkt.op = "rst"
             /\ Return(FALSE, << >>)
             /\ UNCHANGED g2h
          \/ /\ ~Answers(pkt) /\ pkt.op # "rst"
             /\ g2h' = IF pkt.op = "credit" /\ port = "secret"
                       THEN send_raw(g2h, ToHost("credit", port, fwd)) ELSE g2h
             /\ UNCHANGED guest
    /\ h2g' = Tail(h2g)
    /\ UNCHANGED << conns, conn, fileserver, budget >>

\* The wait loop runs out before the connection is answered: the call fails
\* without a word to the host.
ConnectTimeout ==
    /\ pc = "connect" /\ budget.timeouts[port] > 0
    /\ budget' = [budget EXCEPT !.timeouts[port] = @ - 1]
    /\ Return(FALSE, << >>)
    /\ UNCHANGED << fwd_cnt, g2h, h2g, conns, conn, fileserver >>

close_port_Silent(q, fwd) == q

\* close and close_port: the connection is reset.
close_port(q, fwd) == send_raw(q, ToHost("rst", port, fwd))

Complete_Strict(pieces) == port = "secret" \/ Len(pieces) > pieces[1].len

\* payload.len() >= expected_len, which the first piece announces.  The secret
\* is whatever the first RW packet holds.
Complete(pieces) == port = "secret" \/ Len(pieces) >= pieces[1].len

\* One packet in the wait loop of recv_file_resp, or of recv_data.
RespRecv ==
    /\ pc = "resp" /\ h2g # << >>
    /\ LET pkt == Head(h2g)
           fwd == Counted(pkt)
       IN
       /\ fwd_cnt' = fwd
       /\ \/ /\ pkt.op = "credit"
             /\ g2h' = send_raw(g2h, ToHost("credit", port, fwd))
             /\ UNCHANGED guest
          \/ /\ pkt.op = "rst"
             /\ Return(FALSE, << >>)
             /\ g2h' = close_port(g2h, fwd)
          \/ /\ pkt.op = "rw"
             /\ LET all == Append(got, pkt.data) IN
                IF Complete(all)
                THEN Return(all[1].ok, all) /\ g2h' = close_port(g2h, fwd)
                ELSE /\ got' = all
                     /\ UNCHANGED << dev, pc, call, port, ret, g2h >>
          \/ /\ pkt.op \in {"response", "shutdown"}
             /\ UNCHANGED << guest, g2h >>
    /\ h2g' = Tail(h2g)
    /\ UNCHANGED << conns, conn, fileserver, budget >>

\* The wait loop runs out before the answer is complete.
RespTimeout ==
    /\ pc = "resp" /\ budget.timeouts[port] > 0
    /\ budget' = [budget EXCEPT !.timeouts[port] = @ - 1]
    /\ Return(FALSE, << >>)
    /\ g2h' = close_port(g2h, fwd_cnt)
    /\ UNCHANGED << fwd_cnt, h2g, conns, conn, fileserver >>

-----------------------------------------------------------------------------
(* The host kernel and the secret server (external), as the guest uses      *)
(* them.  What a reset connection has received can still be read by the     *)
(* server; what is sent on it is lost.                                      *)

NewConn(fwd) == [req |-> NoCall, live |-> TRUE, sent |-> 0, fwd |-> fwd]

Reply(op) == h2g' = Append(h2g, ToGuest(op))

\* A connection request: accepted, or refused when no server listens; on a
\* connection that exists it is dropped.
KernelRequest(pkt) ==
    /\ pkt.op = "request"
    /\ IF conn[pkt.port] # 0
       THEN UNCHANGED << h2g, conns, conn, backlog >>
       ELSE \/ /\ conns' = Append(conns, NewConn(pkt.fwd))
               /\ conn' = [conn EXCEPT ![pkt.port] = Len(conns) + 1]
               /\ backlog' = IF pkt.port = "file" THEN Append(backlog, Len(conns) + 1)
                             ELSE backlog
               /\ Reply("response")
            \/ Reply("rst") /\ UNCHANGED << conns, conn, backlog >>

\* Data and credit for a connection; what belongs to none is answered by RST.
KernelData(pkt) ==
    /\ pkt.op \in {"rw", "credit"}
    /\ IF conn[pkt.port] = 0
       THEN Reply("rst") /\ UNCHANGED conns
       ELSE /\ conns' = [conns EXCEPT ![conn[pkt.port]].fwd = pkt.fwd,
                            ![conn[pkt.port]].req = IF pkt.op = "rw" THEN pkt.req ELSE @]
            /\ UNCHANGED h2g
    /\ UNCHANGED << conn, backlog >>

KernelReset(pkt) ==
    /\ pkt.op = "rst"
    /\ conns' = [i \in DOMAIN conns |-> IF i = conn[pkt.port]
                                        THEN [conns[i] EXCEPT !.live = FALSE]
                                        ELSE conns[i]]
    /\ conn' = [conn EXCEPT ![pkt.port] = 0]
    /\ UNCHANGED << h2g, backlog >>

Kernel ==
    /\ g2h # << >>
    /\ LET pkt == Head(g2h)
       IN  KernelRequest(pkt) \/ KernelData(pkt) \/ KernelReset(pkt)
    /\ g2h' = Tail(g2h)
    /\ UNCHANGED << guest, fwd_cnt, server, out, files, budget >>

\* The kernel may announce its own buffer space at any time.
KernelCredit ==
    /\ budget.credits > 0 /\ \E p \in Ports : conn[p] # 0
    /\ budget' = [budget EXCEPT !.credits = @ - 1]
    /\ Reply("credit")
    /\ UNCHANGED << guest, fwd_cnt, g2h, conns, conn, fileserver >>

\* The secret server answers a key with one packet.  The handler of install.sh
\* (74-99) then closes the connection, and answers an empty secret by that alone:
\* what the host sends for it, SHUTDOWN, is left out, because every wait loop of
\* the guest drops it; with an empty secret fetch_secret waits until it times
\* out or the host resets the connection.
SecretServer ==
    /\ conn["secret"] # 0 /\ conns[conn["secret"]].req # NoCall
    /\ conns[conn["secret"]].sent = 0
    /\ conns' = [conns EXCEPT ![conn["secret"]].sent = 1]
    /\ h2g' = Append(h2g, Piece([id |-> 0, k |-> 1, len |-> 1, ok |-> TRUE, holds |-> Nothing]))
    /\ UNCHANGED << guest, fwd_cnt, g2h, conn, fileserver, budget >>

-----------------------------------------------------------------------------
(* The file server: one connection at a time, in the order they came.       *)

ServerAccept_Newest ==
    /\ server = 0 /\ backlog # << >>
    /\ server' = backlog[Len(backlog)]
    /\ backlog' = SubSeq(backlog, 1, Len(backlog) - 1)
    /\ UNCHANGED << guest, fwd_cnt, g2h, h2g, conns, conn, out, files, budget >>

ServerAccept ==
    /\ server = 0 /\ backlog # << >>
    /\ server' = Head(backlog) /\ backlog' = Tail(backlog)
    /\ UNCHANGED << guest, fwd_cnt, g2h, h2g, conns, conn, out, files, budget >>

\* send_response: status and length go out with the first piece.
Response(id, ok, n, holds) ==
    [k \in 1..n |-> [id |-> id, k |-> k, len |-> n, ok |-> ok, holds |-> holds]]

\* A write replaces the file and answers, or raises half way and leaves the
\* file as it was or torn.
HandleWrite(c) ==
    \/ /\ files' = [files EXCEPT ![c.path] = c.id]
       /\ out' = Response(c.id, TRUE, 1, [data |-> c.id, names |-> {}])
    \/ /\ files' \in {files, [files EXCEPT ![c.path] = Torn]}
       /\ out' = Response(c.id, FALSE, 1, Nothing)

Found(c) ==
    IF c.op = "list" THEN [data |-> 0, names |-> {p \in Paths : files[p] # 0}]
    ELSE [data |-> files[c.path], names |-> {}]

\* The file or the listing, or an error: no such file, not a directory, not
\* below /data.
HandleRead(c) ==
    /\ \/ /\ c.op = "list" \/ files[c.path] # 0
          /\ \E n \in 1..MaxPieces : out' = Response(c.id, TRUE, n, Found(c))
       \/ out' = Response(c.id, FALSE, 1, Nothing)
    /\ UNCHANGED files

\* handle_connection once the request is complete.
ServerHandle ==
    /\ server # 0 /\ out = None /\ conns[server].req # NoCall
    /\ LET c == conns[server].req
       IN  IF c.op = "write" THEN HandleWrite(c) ELSE HandleRead(c)
    /\ UNCHANGED << guest, fwd_cnt, g2h, h2g, conns, conn, backlog, server, budget >>

\* conn.sendall, as far as the guest's credit goes.
ServerSend ==
    /\ server # 0 /\ out \notin {None, << >>} /\ conns[server].live
    /\ conns[server].sent < conns[server].fwd + BufAlloc
    /\ h2g' = Append(h2g, Piece(Head(out)))
    /\ out' = Tail(out)
    /\ conns' = [conns EXCEPT ![server].sent = @ + 1]
    /\ UNCHANGED << guest, fwd_cnt, g2h, conn, backlog, server, files, budget >>

\* conn.close after the answer, or after the ConnectionError of a reset
\* connection.
ServerClose ==
    /\ server # 0
    /\ \/ /\ conns[server].live /\ out = << >> /\ Reply("shutdown")
       \/ /\ ~conns[server].live
          /\ out # None \/ conns[server].req = NoCall
          /\ UNCHANGED h2g
    /\ server' = 0 /\ out' = None
    /\ UNCHANGED << guest, fwd_cnt, g2h, conns, conn, backlog, files, budget >>

-----------------------------------------------------------------------------

Guest == FetchSecret \/ ConnectRecv \/ RespRecv
Timeouts == ConnectTimeout \/ RespTimeout
FileServer == ServerAccept \/ ServerHandle \/ ServerSend \/ ServerClose

Next ==
    \/ Guest \/ Timeouts
    \/ \E op \in Ops, path \in Paths : FileCall(op, path) \/ FileCallNoDev(op, path)
    \/ Kernel \/ KernelCredit \/ SecretServer \/ FileServer

\* The guest polls, the kernel moves packets and the servers run; nobody is
\* obliged to make a call, to time out or to send a credit update.
Spec ==
    /\ Init /\ [][Next]_vars
    /\ WF_vars(Guest) /\ WF_vars(Kernel)
    /\ WF_vars(SecretServer) /\ WF_vars(FileServer)

-----------------------------------------------------------------------------
(* Properties.                                                              *)

Calls == FileCalls \cup {SecretCall, NoCall}

\* The packets of the guest: a request belongs to the ports it is sent on.
GuestPackets ==
    [op : {"request", "credit", "rst"}, port : Ports, fwd : Nat]
        \cup [op : {"rw"}, port : {"file"}, fwd : Nat, req : FileCalls]
        \cup [op : {"rw"}, port : {"secret"}, fwd : Nat, req : {SecretCall}]

HostPackets == [op : {"response", "rst", "credit", "shutdown"}] \cup [op : {"rw"}, data : Pieces]

Connections == [req : Calls, live : BOOLEAN, sent : Nat, fwd : Nat]

\* Shape of the link's variables; a call never holds a whole answer back, the
\* file server only ever has connections there are, and files hold what some
\* call has written.
TypeOK ==
    /\ dev \in BOOLEAN /\ pc \in {"boot", "idle", "connect", "resp"}
    /\ port \in Ports /\ call \in Calls /\ fwd_cnt \in Nat
    /\ g2h \in Seq(GuestPackets) /\ h2g \in Seq(HostPackets)
    /\ conns \in Seq(Connections) /\ conn \in [Ports -> 0..Len(conns)]
    /\ backlog \in Seq(1..Len(conns)) /\ server \in 0..Len(conns)
    /\ out \in {None} \cup Seq(Pieces) /\ files \in [Paths -> 0..Torn]
    /\ budget \in [calls : 0..MaxCalls, credits : Nat, timeouts : [Ports -> Nat]]
    /\ ret \in [call : Calls, ok : BOOLEAN, data : Seq(Pieces)]
    /\ got \in Seq(Pieces) /\ Len(got) < MaxPieces

\* vsock.rs:502: what previous connections left behind is discarded; so a
\* call that succeeds returns the whole answer to its own request, with no
\* piece of an earlier call's late answer and nothing missing.
AnswersOwnRequest ==
    ret.ok => /\ \A i \in DOMAIN ret.data : /\ ret.data[i].id = ret.call.id
                                            /\ ret.data[i].k = i
              /\ Len(ret.data) = ret.data[1].len

IsWrite(pkt) == pkt.op = "rw" /\ pkt.port = "file" /\ pkt.req.op = "write"

\* The writes the file server may still carry out: of the call that waits for
\* its connection, in a packet under way, or received and not yet handled.
Undone ==
    {c \in {call} : pc = "connect" /\ c.op = "write"}
        \cup {g2h[i].req : i \in {j \in DOMAIN g2h : IsWrite(g2h[j])}}
        \cup {c \in {conns[i].req : i \in {backlog[j] : j \in DOMAIN backlog}
                                        \cup {j \in {server} : j # 0 /\ out = None}} :
                c.op = "write"}

Returned == IF ret.ok THEN ret.data[1].holds ELSE Nothing

OfFile(c) == IF c.op = "secret" THEN NoCall ELSE c
DataOf(c) == c.id

Promise == INSTANCE FileService WITH
    Calls <- FileCalls, Absent <- 0,
    Disks <- {[p \in Paths |-> 0]},
    call <- IF pc \in {"boot", "idle"} THEN NoCall ELSE OfFile(call),
    undone <- Undone,
    ret <- [call |-> OfFile(ret.call), ok |-> ret.ok /\ ret.call.op # "secret",
            data |-> Returned.data, names |-> Returned.names]

\* The calls keep the promise of FileService: whatever timed out before, a
\* call that succeeds leaves nothing undone that could still change a file,
\* a write that returned true is what the file holds, and a read returns what
\* the file holds when it returns.
IsFileService == Promise!Spec

TimedOut == budget.timeouts # Patience

\* An answer longer than the buffer the guest announces (vsock.rs:75): the
\* guest sends no credit before it has the whole answer.
Stalled == server # 0 /\ out \notin {None, << >>} /\ out[1].len > BufAlloc

\* As long as no wait loop runs out and no answer exceeds BUF_ALLOC every call
\* is answered: guest, kernel and server never all wait for each other.  A timeout
\* ends the promise: the connection whose answer connect_port did not wait for
\* (vsock.rs:518) is not reset, the file server may wait for its request, and the
\* calls after it may get no answer either.
CallAnswered == (pc # "idle") ~> (pc = "idle" \/ TimedOut \/ Stalled)

=============================================================================

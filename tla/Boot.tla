--------------------------------- MODULE Boot ---------------------------------
(***************************************************************************)
(* The boot sequence of unikernel/src/main.rs up to the HTTP loop.  The    *)
(* secret is asked for over vsock, or else in the firmware configuration;  *)
(* the drivers are started; then registry::fetch_all and do_fetch of       *)
(* registry.rs fetch the WASM modules and the static files one after the   *)
(* other from the registry, each over a connection of its own, and the     *)
(* modules that load become the initial routes.                            *)
(***************************************************************************)
EXTENDS Devices, SequencesExt, TcpSocket

CONSTANTS
    Entries,        \* WASM_ENTRIES followed by STATIC_ENTRIES: [kind, route]
    FileSizes,      \* sizes of the registry's files, in tokens
    ConnectPolls,   \* polls do_fetch waits for the handshake
    RecvPolls,      \* polls it waits for the end of the answer
    RecvChunk,      \* tokens one recv_slice call returns
    Machines        \* the machines it may boot on

ASSUME BootConstants ==
    /\ ConnectPolls \in Nat /\ RecvPolls \in Nat \ {0} /\ RecvChunk \in Nat \ {0}
    /\ FileSizes \subseteq Nat \ {0}
    /\ \A i \in DOMAIN Entries : Entries[i].kind \in {"wasm", "static"}

\* A queue size register holds a number.
ASSUME QueueSizes ==
    \A m \in Machines : \A id \in {"net", "blk"} :
        pci_find(m, id) # None => {pci_find(m, id).size, pci_find(m, id).tx_size} \subseteq Nat

VARIABLES
    machine,  \* the machine, which does not change
    phase,    \* "vsock", "caps", "secret", "fw_cfg", "net", "blk", "start",
              \* "connect", "recv", "load", "serve", "halt" or "panic"
    ptr, guard, \* find_cap: the capability it looks at, the links it has followed
    want,     \* the capabilities still to be found, in order
    queues,   \* the virtqueues of the devices that were started
    secret,   \* [from, len], None without one
    i,        \* the entry being fetched, then the result being loaded
    sock,     \* the socket of do_fetch, None outside it
    polls,    \* polls of the loop under way
    raw,      \* what has been received
    leaked,   \* sockets an early return of do_fetch left in the SocketSet
    results,  \* what was fetched: [entry, body]
    routes    \* the routes handed to run_http_server

found == << machine, ptr, guard, want, queues, secret >>
fetch == << i, sock, polls, raw, leaked, results, routes >>
vars == << found, phase, fetch >>

Init ==
    /\ machine \in Machines /\ phase = "vsock"
    /\ ptr = 0 /\ guard = 0 /\ want = << >> /\ queues = {} /\ secret = None
    /\ i = 1 /\ sock = None /\ polls = 0 /\ raw = << >>
    /\ leaked = 0 /\ results = << >> /\ routes = << >>

\* What the registry may answer for entry e: the file, an error page, or a
\* header without a body.
RegistryAnswers(e) ==
    {<< [k |-> "eoh"] >> \o [j \in 1..n |-> [k |-> "file", of |-> e, size |-> n]] :
        n \in FileSizes}
    \cup {<< [k |-> "eoh"], [k |-> "page", of |-> e, size |-> 1] >>, << [k |-> "eoh"] >>}

-----------------------------------------------------------------------------
(* main: the secret and the devices.                                       *)

\* VsockDev::init finds the device, and looks for two of its capabilities.
VsockInit ==
    /\ phase = "vsock"
    /\ IF pci_find(machine, "vsock") = None
       THEN phase' = "fw_cfg" /\ UNCHANGED << ptr, guard, want >>
       ELSE /\ phase' = "caps" /\ ptr' = FirstCap(pci_find(machine, "vsock")) /\ guard' = 0
            /\ want' = << "common", "notify" >>
    /\ UNCHANGED << machine, queues, secret, fetch >>

\* while ptr != 0 && guard < 32
CapsEnd == ptr = 0 \/ guard >= CAP_GUARD

\* One turn of the loop of find_cap.  Both capabilities are searched from the
\* start of the list; a device without one of them is not used.
FindCap ==
    LET dev == pci_find(machine, "vsock") IN
    /\ phase = "caps"
    /\ \/ /\ CapsEnd
          /\ phase' = "fw_cfg" /\ UNCHANGED << ptr, guard, want, queues >>
       \/ /\ ~CapsEnd /\ dev.caps[ptr].cap = Head(want) /\ Len(want) > 1
          /\ ptr' = FirstCap(dev) /\ guard' = 0 /\ want' = Tail(want)
          /\ UNCHANGED << phase, queues >>
       \/ /\ ~CapsEnd /\ dev.caps[ptr].cap = Head(want) /\ Len(want) = 1
          /\ queues' = VsockQueues(dev)
          /\ phase' = IF queues' = {} THEN "fw_cfg" ELSE "secret"
          /\ UNCHANGED << ptr, guard, want >>
       \/ /\ ~CapsEnd /\ dev.caps[ptr].cap # Head(want)
          /\ ptr' = dev.caps[ptr].next /\ guard' = guard + 1
          /\ UNCHANGED << phase, want, queues >>
    /\ UNCHANGED << machine, secret, fetch >>

\* fetch_secret's conversation (Vsock) ends with the secret or without.
FetchSecret ==
    /\ phase = "secret"
    /\ \/ phase' = "net" /\ secret' = [from |-> "vsock", len |-> 1]
       \/ phase' = "fw_cfg" /\ UNCHANGED secret
    /\ UNCHANGED << machine, ptr, guard, want, queues, fetch >>

\* The fallback, cut to the buffer.
FwCfg ==
    /\ phase = "fw_cfg"
    /\ LET size == find_file(machine, "opt/secret")
       IN  secret' = IF size = None THEN None
                     ELSE [from |-> "fw_cfg", len |-> IF size < SECRET_MAX THEN size ELSE SECRET_MAX]
    /\ phase' = "net"
    /\ UNCHANGED << machine, ptr, guard, want, queues, fetch >>

\* Without a network card there is nothing to serve.
NetInit ==
    /\ phase = "net"
    /\ LET q == NetQueues(pci_find(machine, "net"))
       IN  /\ queues' = queues \cup q
           /\ phase' = IF q = {} THEN "halt" ELSE "blk"
    /\ UNCHANGED << machine, ptr, guard, want, secret, fetch >>

\* The store is optional.
BlkInit ==
    /\ phase = "blk"
    /\ queues' = queues \cup BlkQueues(pci_find(machine, "blk"))
    /\ phase' = "start"
    /\ UNCHANGED << machine, ptr, guard, want, secret, fetch >>

-----------------------------------------------------------------------------
(* do_fetch.                                                                *)

\* do_fetch returns: a body is kept, and it is the next entry's turn.
Fetched(body) ==
    /\ results' = IF body = << >> THEN results
                  ELSE Append(results, [entry |-> i, body |-> body])
    /\ i' = IF i = Len(Entries) THEN 1 ELSE i + 1
    /\ phase' = IF i = Len(Entries) THEN "load" ELSE "start"
    /\ sock' = None /\ polls' = 0 /\ raw' = << >>

\* connect() of a new socket from the next local port; it may refuse.
Start ==
    /\ phase = "start"
    /\ \/ \E w \in RegistryAnswers(i) :
             /\ sock' = Connect(i, w)
             /\ phase' = "connect" /\ polls' = 0
             /\ UNCHANGED << i, raw, leaked, results >>
       \/ Fetched(<< >>) /\ UNCHANGED leaked
    /\ UNCHANGED << routes, found >>

NextPoll_Uncounted == polls

\* for _ in 0..N: each turn of a wait loop is counted.
NextPoll == polls + 1

\* The socket closed, or the polls ran out.
ConnectOver == sock.st = "Closed" \/ polls >= ConnectPolls

\* A card that reports an empty queue: send_packet divides by its size.
CannotSend == pci_find(machine, "net").size = 0

\* One turn of the wait for the handshake, whose poll sends.  Once the socket
\* may send, the request goes out; a failed wait returns and leaves the socket
\* in the set.
ConnectPoll ==
    /\ phase = "connect"
    /\ \/ /\ CannotSend /\ phase' = "panic"
          /\ UNCHANGED << i, sock, polls, raw, leaked, results >>
       \/ /\ ~CannotSend /\ may_send(sock)
          /\ phase' = "recv" /\ polls' = 0
          /\ UNCHANGED << i, sock, raw, leaked, results >>
       \/ /\ ~CannotSend /\ ~may_send(sock) /\ ConnectOver
          /\ Fetched(<< >>) /\ leaked' = leaked + 1
       \/ /\ ~CannotSend /\ ~may_send(sock) /\ ~ConnectOver
          /\ polls' = NextPoll
          /\ UNCHANGED << phase, i, sock, raw, leaked, results >>
    /\ UNCHANGED << routes, found >>

Body_Raw(buf) == buf

\* What follows the blank line; the status line is not looked at.
Body(buf) ==
    LET ends == {j \in DOMAIN buf : buf[j].k = "eoh"}
    IN  IF ends = {} THEN << >> ELSE SubSeq(buf, Min(ends) + 1, Len(buf))

\* One turn of the receive loop.  It ends with the socket closed or with the
\* polls; a registry that has sent its FIN leaves the socket in CloseWait,
\* which is open.
RecvPoll ==
    /\ phase = "recv"
    /\ LET buf == raw \o (IF can_recv(sock) THEN Received(sock, RecvChunk) ELSE << >>)
       IN  IF ~is_open(sock) \/ NextPoll >= RecvPolls
           THEN Fetched(Body(buf)) /\ UNCHANGED leaked
           ELSE /\ raw' = buf /\ sock' = AfterRecv(sock, RecvChunk)
                /\ polls' = NextPoll
                /\ UNCHANGED << phase, i, leaked, results >>
    /\ UNCHANGED << routes, found >>

-----------------------------------------------------------------------------
(* main: the modules that load become routes, in order.                    *)

\* WasmApp::from_bytes accepts exactly a whole module.
Loads(body) == /\ \A j \in DOMAIN body : body[j].k = "file"
               /\ Len(body) = body[1].size

BecomesRoute(r) == Entries[r.entry].kind = "wasm" /\ Loads(r.body)

\* One turn of the loop over what was fetched.
Load ==
    /\ phase = "load"
    /\ IF i > Len(results) THEN phase' = "serve" /\ UNCHANGED << i, routes >>
       ELSE /\ i' = i + 1 /\ UNCHANGED phase
            /\ routes' = IF BecomesRoute(results[i]) THEN Append(routes, results[i]) ELSE routes
    /\ UNCHANGED << found, sock, polls, raw, leaked, results >>

-----------------------------------------------------------------------------
(* iface.poll: the registry and the network.                               *)

Network ==
    /\ phase \in {"connect", "recv"}
    /\ \/ sock.st = "SynSent" /\ sock' = [sock EXCEPT !.st = "Established"]
       \/ /\ phase = "recv" /\ CanDeliver(sock)
          /\ \E k \in 1..Len(sock.out) : sock' = Deliver(sock, k)
       \/ CanFin(sock) /\ sock' \in AfterFin(sock)
       \/ CanRst(sock) /\ sock' = AfterRst(sock)
    /\ UNCHANGED << found, phase, i, polls, raw, leaked, results, routes >>

Kernel ==
    \/ VsockInit \/ FindCap \/ FetchSecret \/ FwCfg \/ NetInit \/ BlkInit
    \/ Start \/ ConnectPoll \/ RecvPoll \/ Load

\* The kernel runs; once it serves or has halted this module has no more steps.
Next == Kernel \/ Network
Spec == Init /\ [][Next]_vars /\ WF_vars(Kernel)

-----------------------------------------------------------------------------
(* Properties.                                                              *)

\* The kernel comes to serve (or halts without a network card) whatever the
\* registry does: refuses, stays silent, stalls in mid-file, or keeps its
\* connection open; and whatever devices there are, with a list of
\* capabilities that has an end or none.  Only a network card that reports an
\* empty queue makes it panic (virtio_net.rs:260).
BootEnds == <>(phase \in {"serve", "halt"} \/ (phase = "panic" /\ CannotSend))

\* virtio_net.rs:161, 193, vsock.rs:333: the tables of every queue the kernel
\* has started are apart, inside their memory and where the device looks for
\* them, exactly if the device's queue has the driver's size and as many slots
\* as the driver fills.  The network and the block driver compare neither; the
\* event queue's used ring is outside its page, which does no harm only because
\* the device is given no buffer to return.
QueueMemorySound ==
    \A q \in queues : TablesSound(q) <=> q.slots <= q.size /\ q.size = q.device_size

\* Every result is what the registry sent for its own entry, in the order of
\* the entries and without the header, and the modules that arrived whole, and
\* nothing else, have a route.
RoutesOfOwnFiles ==
    /\ \A n \in DOMAIN results :
          /\ \A j \in DOMAIN results[n].body : /\ results[n].body[j].k # "eoh"
                                               /\ results[n].body[j].of = results[n].entry
          /\ \A o \in DOMAIN results : n < o => results[n].entry < results[o].entry
    /\ phase = "serve" =>
          /\ \A n \in DOMAIN results : Contains(routes, results[n]) <=> BecomesRoute(results[n])
          /\ \A n \in DOMAIN routes : Contains(results, routes[n])

=============================================================================

----------------------------- MODULE Vsock_proofs -----------------------------
(***************************************************************************)
(* Proofs about Vsock, for any number of calls, timeouts and credit        *)
(* updates, any files and any length of the answers.                       *)
(*                                                                         *)
(* TypeInv holds whatever times out.  LinkInv says which packets can be on *)
(* the way together: it is the reason why a call that looks at operations  *)
(* only, and not at ports or numbers, gets the answer to its own request,  *)
(* provided the wait loops of fetch_secret do not run out.  RefInv adds    *)
(* what is in the answers and where a write can still be, and every step   *)
(* is then one of FileService.                                             *)
(***************************************************************************)
EXTENDS Vsock, Integers, SequenceTheorems, TLAPS

-----------------------------------------------------------------------------
(* Queues.                                                                  *)

\* Taking the first element of a queue.
LEMMA Take ==
    ASSUME NEW S, NEW q \in Seq(S), q # << >>
    PROVE  /\ Len(q) \in Nat \ {0} /\ q[1] \in S /\ Head(q) = q[1]
           /\ Tail(q) \in Seq(S) /\ Len(Tail(q)) = Len(q) - 1
           /\ \A i \in 1..(Len(q) - 1) : Tail(q)[i] = q[i + 1]
  BY HeadTailProperties, LenProperties, EmptySeq, ElementOfSeq

\* Adding an element to a queue.
LEMMA Put ==
    ASSUME NEW S, NEW q \in Seq(S), NEW x \in S
    PROVE  /\ Append(q, x) \in Seq(S) /\ Len(q) \in Nat /\ Len(Append(q, x)) = Len(q) + 1
           /\ \A i \in 1..Len(q) : Append(q, x)[i] = q[i]
           /\ Append(q, x)[Len(q) + 1] = x
  BY AppendProperties, LenProperties

\* Adding two.
LEMMA PutTwo ==
    ASSUME NEW S, NEW q \in Seq(S), NEW x \in S, NEW y \in S
    PROVE  /\ q \o << x, y >> \in Seq(S) /\ Len(q) \in Nat
           /\ Len(q \o << x, y >>) = Len(q) + 2
           /\ \A i \in 1..Len(q) : (q \o << x, y >>)[i] = q[i]
           /\ (q \o << x, y >>)[Len(q) + 1] = x /\ (q \o << x, y >>)[Len(q) + 2] = y
<1>1. << x, y >> \in Seq(S) /\ Len(<< x, y >>) = 2
  OBVIOUS
<1>2. Len(q) \in Nat
  BY LenProperties
<1> QED
  BY <1>1, <1>2, ConcatProperties

\* A queue of the same length with elements of the set.
LEMMA Redone ==
    ASSUME NEW S, NEW q \in Seq(S), NEW r, DOMAIN r = DOMAIN q,
           r = [i \in DOMAIN q |-> r[i]], \A i \in 1..Len(q) : r[i] \in S
    PROVE  r \in Seq(S) /\ Len(r) = Len(q)
<1>1. DOMAIN q = 1..Len(q) /\ Len(q) \in Nat
  BY LenProperties
<1> QED
  BY <1>1, IsASeq, LenProperties

-----------------------------------------------------------------------------
(* Types.                                                                   *)

Waiting == {backlog[i] : i \in 1..Len(backlog)}

\* The connections of the file server.
FileConns == (Waiting \cup {server, conn["file"]}) \ {0}

\* The guest and its packets.
GuestType ==
    /\ dev \in BOOLEAN /\ pc \in {"boot", "idle", "connect", "resp"}
    /\ port \in Ports /\ call \in Calls /\ fwd_cnt \in Nat
    /\ g2h \in Seq(GuestPackets) /\ h2g \in Seq(HostPackets)
    /\ budget \in [calls : 0..MaxCalls, credits : Nat, timeouts : [Ports -> Nat]]
    /\ ret \in [call : Calls, ok : BOOLEAN, data : Seq(Pieces)]
    /\ pc = "boot" => port = "secret"
    /\ pc \in {"connect", "resp"} =>
          IF port = "file" THEN call \in FileCalls ELSE call = SecretCall
    /\ got \in Seq(Pieces) /\ (pc # "resp" => got = << >>)
    /\ got # << >> => Len(got) < got[1].len

\* The host: the file server has file calls only.
HostType ==
    /\ conns \in Seq(Connections) /\ conn \in [Ports -> 0..Len(conns)]
    /\ backlog \in Seq(1..Len(conns)) /\ server \in 0..Len(conns)
    /\ out \in {None} \cup Seq(Pieces) /\ files \in [Paths -> 0..Torn]
    /\ conn["secret"] \notin FileConns
    /\ \A c \in FileConns : conns[c].req \in FileCalls \cup {NoCall}
    /\ server = 0 => out = None

TypeInv == GuestType /\ HostType

\* The kinds of packets.
LEMMA PacketTypes ==
    /\ \A op \in {"request", "credit", "rst"}, p \in Ports, f \in Nat :
          ToHost(op, p, f) \in GuestPackets
    /\ \A f \in Nat, c \in FileCalls : Request("file", f, c) \in GuestPackets
    /\ \A f \in Nat : Request("secret", f, SecretCall) \in GuestPackets
    /\ \A op \in {"response", "rst", "credit", "shutdown"} : ToGuest(op) \in HostPackets
    /\ \A d \in Pieces : Piece(d) \in HostPackets
    /\ \A pkt \in HostPackets : pkt.op = "rw" => pkt.data \in Pieces
  BY DEF ToHost, Request, ToGuest, Piece, GuestPackets, HostPackets

\* A call returns.
LEMMA ReturnTypes ==
    ASSUME GuestType, NEW ok \in BOOLEAN, NEW data \in Seq(Pieces), Return(ok, data),
           fwd_cnt' \in Nat, g2h' \in Seq(GuestPackets), h2g' \in Seq(HostPackets),
           budget' \in [calls : 0..MaxCalls, credits : Nat, timeouts : [Ports -> Nat]]
    PROVE  GuestType'
<1>1. /\ pc' = "idle" /\ got' = << >> /\ UNCHANGED << dev, call, port >>
      /\ ret' = [call |-> call, ok |-> ok, data |-> data]
  BY DEF Return
<1>2. ret' \in [call : Calls, ok : BOOLEAN, data : Seq(Pieces)]
  BY <1>1 DEF GuestType
<1>3. << >> \in Seq(Pieces)
  BY EmptySeq
<1> QED
  BY <1>1, <1>2, <1>3 DEF GuestType

\* The beginning of a call.
LEMMA CallTypes ==
    ASSUME GuestType,
           FetchSecret \/ \E op \in Ops, path \in Paths : FileCall(op, path) \/ FileCallNoDev(op, path)
    PROVE  GuestType'
<1>1. MaxCalls \in Nat /\ << >> \in Seq(Pieces) /\ << >> \in Seq(HostPackets)
  BY VsockConstants, EmptySeq
<1>2. CASE FetchSecret
  <2>1. /\ pc = "boot" /\ call' = SecretCall /\ pc' \in {"connect", "idle"} /\ dev' \in BOOLEAN
        /\ UNCHANGED << port, got, fwd_cnt, h2g, budget, ret >>
        /\ g2h' = g2h \/ g2h' = Append(g2h, ToHost("request", "secret", fwd_cnt))
    BY <1>2 DEF FetchSecret, GuestType, send_raw
  <2>2. g2h' \in Seq(GuestPackets)
    <3>1. ToHost("request", "secret", fwd_cnt) \in GuestPackets
      BY PacketTypes DEF GuestType, Ports
    <3>2. g2h \in Seq(GuestPackets)
      BY DEF GuestType
    <3> QED
      BY <2>1, <3>1, <3>2, Put
  <2>3. port = "secret" /\ "secret" # "file" /\ SecretCall \in Calls /\ got = << >>
    BY <2>1 DEF GuestType, Calls
  <2> QED
    BY <2>1, <2>2, <2>3 DEF GuestType
<1>3. ASSUME NEW op \in Ops, NEW path \in Paths, budget.calls > 0
      PROVE  /\ NewCall(op, path) \in FileCalls
             /\ Spent(budget) \in [calls : 0..MaxCalls, credits : Nat, timeouts : [Ports -> Nat]]
  <2>1. budget.calls \in 1..MaxCalls
    BY <1>1, <1>3 DEF GuestType
  <2>2. NewCall(op, path) \in FileCalls
    BY <1>1, <2>1 DEF NewCall, FileCalls
  <2>3. budget \in [calls : 0..MaxCalls, credits : Nat, timeouts : [Ports -> Nat]]
    BY DEF GuestType
  <2> QED
    BY <1>1, <2>1, <2>2, <2>3 DEF Spent
<1>4. ASSUME NEW op \in Ops, NEW path \in Paths, FileCall(op, path) PROVE GuestType'
  <2>1. /\ pc = "idle" /\ budget.calls > 0 /\ budget' = Spent(budget)
        /\ dev' = TRUE /\ pc' = "connect" /\ port' = "file" /\ call' = NewCall(op, path)
        /\ h2g' = << >> /\ fwd_cnt' = 0 /\ UNCHANGED << got, ret >>
        /\ g2h' = Append(g2h, ToHost("request", "file", 0))
    BY <1>4 DEF FileCall, send_raw
  <2>2. g2h' \in Seq(GuestPackets)
    <3>1. ToHost("request", "file", 0) \in GuestPackets
      BY PacketTypes DEF Ports
    <3> QED
      BY <2>1, <3>1, Put DEF GuestType
  <2>3. call' \in FileCalls /\ call' \in Calls /\ got = << >>
    BY <1>3, <2>1 DEF GuestType, Calls
  <2> QED
    BY <1>1, <1>3, <2>1, <2>2, <2>3 DEF GuestType, Ports
<1>5. ASSUME NEW op \in Ops, NEW path \in Paths, FileCallNoDev(op, path) PROVE GuestType'
  <2>1. /\ budget.calls > 0 /\ budget' = Spent(budget)
        /\ ret' = [call |-> NewCall(op, path), ok |-> FALSE, data |-> << >>]
        /\ UNCHANGED << dev, pc, call, port, got, fwd_cnt, g2h, h2g >>
    BY <1>5 DEF FileCallNoDev
  <2>2. NewCall(op, path) \in Calls
    BY <1>3, <2>1 DEF Calls
  <2>3. ret' \in [call : Calls, ok : BOOLEAN, data : Seq(Pieces)]
    BY <1>1, <2>1, <2>2
  <2> QED
    BY <1>3, <2>1, <2>3 DEF GuestType
<1> QED
  BY <1>2, <1>4, <1>5

\* The waits.
LEMMA WaitTypes ==
    ASSUME GuestType, ConnectRecv \/ RespRecv \/ ConnectTimeout \/ RespTimeout
    PROVE  GuestType'
<1> DEFINE pkt == Head(h2g)
           fwd == Counted(pkt)
           Budgets == [calls : 0..MaxCalls, credits : Nat, timeouts : [Ports -> Nat]]
<1>1. << >> \in Seq(Pieces) /\ port \in Ports /\ fwd_cnt \in Nat /\ budget \in Budgets
      /\ g2h \in Seq(GuestPackets) /\ h2g \in Seq(HostPackets)
  BY EmptySeq DEF GuestType
<1>2. \A f \in Nat : /\ close_port(g2h, f) \in Seq(GuestPackets)
                     /\ send_raw(g2h, ToHost("credit", port, f)) \in Seq(GuestPackets)
  BY <1>1, PacketTypes, Put DEF close_port, send_raw
<1>3. ASSUME ConnectRecv \/ RespRecv
      PROVE  /\ pkt \in HostPackets /\ Tail(h2g) \in Seq(HostPackets)
             /\ h2g' = Tail(h2g) /\ fwd \in Nat /\ fwd_cnt' = fwd /\ UNCHANGED budget
  <2>1. h2g # << >> /\ h2g' = Tail(h2g) /\ fwd_cnt' = fwd /\ UNCHANGED budget
    BY <1>3 DEF ConnectRecv, RespRecv
  <2>2. fwd \in Nat
    BY <1>1 DEF Counted
  <2>3. pkt \in HostPackets /\ Tail(h2g) \in Seq(HostPackets)
    BY <1>1, <2>1, Take
  <2> HIDE DEF pkt, fwd
  <2> QED
    BY <2>1, <2>2, <2>3
<1> HIDE DEF Budgets
<1>4. ASSUME budget' = [budget EXCEPT !.timeouts[port] = @ - 1], budget.timeouts[port] > 0
      PROVE  budget' \in Budgets
  <2>1. budget.timeouts \in [Ports -> Nat] /\ budget.timeouts[port] - 1 \in Nat
    BY <1>1, <1>4 DEF Budgets
  <2>2. [budget.timeouts EXCEPT ![port] = @ - 1] \in [Ports -> Nat]
    BY <2>1
  <2> QED
    BY <1>1, <1>4, <2>2 DEF Budgets
<1>5. CASE ConnectTimeout
  <2>1. /\ Return(FALSE, << >>) /\ UNCHANGED << fwd_cnt, g2h, h2g >>
        /\ budget' = [budget EXCEPT !.timeouts[port] = @ - 1] /\ budget.timeouts[port] > 0
    BY <1>5 DEF ConnectTimeout
  <2>2. budget' \in Budgets
    BY <1>4, <2>1
  <2> QED
    BY <1>1, <2>1, <2>2, ReturnTypes DEF Budgets
<1>6. CASE RespTimeout
  <2>1. /\ Return(FALSE, << >>) /\ UNCHANGED << fwd_cnt, h2g >> /\ g2h' = close_port(g2h, fwd_cnt)
        /\ budget' = [budget EXCEPT !.timeouts[port] = @ - 1] /\ budget.timeouts[port] > 0
    BY <1>6 DEF RespTimeout
  <2>2. budget' \in Budgets
    BY <1>4, <2>1
  <2> QED
    BY <1>1, <1>2, <2>1, <2>2, ReturnTypes DEF Budgets
<1>7. CASE ConnectRecv
  <2>1. CASE Answers(pkt)
    <3>1. /\ pc = "connect" /\ pc' = "resp" /\ UNCHANGED << dev, call, port, got, ret >>
          /\ g2h' = g2h \o << ToHost("credit", port, fwd), Request(port, fwd, call) >>
      BY <1>7, <2>1 DEF ConnectRecv, Answers
    <3>2. ToHost("credit", port, fwd) \in GuestPackets /\ Request(port, fwd, call) \in GuestPackets
      <4> HIDE DEF fwd
      <4> QED
        BY <1>1, <1>3, <1>7, <3>1, PacketTypes DEF GuestType, Ports
    <3>3. g2h' \in Seq(GuestPackets)
      <4> HIDE DEF fwd
      <4> QED
        BY <1>1, <3>1, <3>2, PutTwo
    <3> HIDE DEF fwd, pkt
    <3> QED
      BY <1>3, <1>7, <3>1, <3>3 DEF GuestType
  <2>2. CASE pkt.op = "rst"
    <3>1. Return(FALSE, << >>) /\ UNCHANGED g2h
      BY <1>7, <2>2 DEF ConnectRecv, Answers
    <3> HIDE DEF fwd, pkt
    <3> QED
      BY <1>1, <1>3, <1>7, <3>1, ReturnTypes DEF Budgets
  <2>3. CASE ~Answers(pkt) /\ pkt.op # "rst"
    <3>1. /\ UNCHANGED guest
          /\ g2h' = g2h \/ g2h' = send_raw(g2h, ToHost("credit", port, fwd))
      BY <1>7, <2>3 DEF ConnectRecv
    <3> HIDE DEF fwd, pkt
    <3>2. g2h' \in Seq(GuestPackets)
      BY <1>1, <1>2, <1>3, <1>7, <3>1
    <3> QED
      BY <1>3, <1>7, <3>1, <3>2 DEF guest, GuestType
  <2> QED
    BY <2>1, <2>2, <2>3
<1>8. CASE RespRecv
  <2>1. CASE pkt.op = "rw"
    <3> DEFINE all == Append(got, pkt.data)
    <3>1. /\ pc = "resp"
          /\ IF Complete(all)
             THEN Return(all[1].ok, all) /\ g2h' = close_port(g2h, fwd)
             ELSE got' = all /\ UNCHANGED << dev, pc, call, port, ret, g2h >>
      BY <1>8, <2>1 DEF RespRecv
    <3>2. pkt.data \in Pieces
      <4> HIDE DEF pkt
      <4> QED
        BY <1>3, <1>8, <2>1, PacketTypes
    <3>3. /\ all \in Seq(Pieces) /\ Len(all) \in Nat \ {0} /\ all[1] \in Pieces /\ all # << >>
      <4> HIDE DEF pkt
      <4>1. got \in Seq(Pieces)
        BY DEF GuestType
      <4>2. all \in Seq(Pieces) /\ Len(all) = Len(got) + 1 /\ Len(got) \in Nat
        BY <3>2, <4>1, Put
      <4> HIDE DEF all
      <4> QED
        BY <4>2, ElementOfSeq, EmptySeq
    <3>4. all[1].ok \in BOOLEAN /\ all[1].len \in Nat
      <4> HIDE DEF all
      <4> QED
        BY <3>3, VsockConstants DEF Pieces
    <3>5. CASE Complete(all)
      <4> HIDE DEF pkt, fwd, all
      <4> QED
        BY <1>1, <1>2, <1>3, <1>8, <3>1, <3>3, <3>4, <3>5, ReturnTypes DEF Budgets
    <3>6. CASE ~Complete(all)
      <4>1. got' = all /\ UNCHANGED << dev, pc, call, port, ret, g2h >> /\ Len(all) < all[1].len
        <5> HIDE DEF all
        <5> QED
          BY <3>1, <3>3, <3>4, <3>6 DEF Complete
      <4> HIDE DEF pkt, fwd, all
      <4> QED
        BY <1>3, <1>8, <3>1, <3>3, <4>1 DEF GuestType
    <3> QED
      BY <3>5, <3>6
  <2>2. CASE pkt.op = "rst"
    <3>1. Return(FALSE, << >>) /\ g2h' = close_port(g2h, fwd)
      BY <1>8, <2>2 DEF RespRecv
    <3> HIDE DEF fwd, pkt
    <3> QED
      BY <1>1, <1>2, <1>3, <1>8, <3>1, ReturnTypes DEF Budgets
  <2>3. CASE pkt.op \notin {"rw", "rst"}
    <3>1. /\ UNCHANGED guest
          /\ g2h' = g2h \/ g2h' = send_raw(g2h, ToHost("credit", port, fwd))
      BY <1>8, <2>3 DEF RespRecv
    <3> HIDE DEF fwd, pkt
    <3>2. g2h' \in Seq(GuestPackets)
      BY <1>1, <1>2, <1>3, <1>8, <3>1
    <3> QED
      BY <1>3, <1>8, <3>1, <3>2 DEF guest, GuestType
  <2> QED
    BY <2>1, <2>2, <2>3
<1> QED
  BY <1>5, <1>6, <1>7, <1>8

\* A step of the host leaves the guest alone.
LEMMA GuestKept ==
    ASSUME GuestType, UNCHANGED << guest, fwd_cnt >>,
           g2h' \in Seq(GuestPackets), h2g' \in Seq(HostPackets),
           budget' \in [calls : 0..MaxCalls, credits : Nat, timeouts : [Ports -> Nat]]
    PROVE  GuestType'
<1>1. UNCHANGED << dev, pc, call, port, got, ret, fwd_cnt >>
  BY DEF guest
<1> QED
  BY <1>1 DEF GuestType

\* The connections of the file server exist.
LEMMA FileConnsExist ==
    ASSUME HostType
    PROVE  /\ Len(conns) \in Nat /\ FileConns \subseteq 1..Len(conns)
           /\ Waiting \subseteq 1..Len(conns)
           /\ \A c \in 1..Len(conns) : conns[c] \in Connections
           /\ conn["file"] \in 0..Len(conns) /\ conn["secret"] \in 0..Len(conns)
<1>1. Len(conns) \in Nat /\ \A c \in 1..Len(conns) : conns[c] \in Connections
  BY LenProperties, ElementOfSeq DEF HostType
<1>2. \A i \in 1..Len(backlog) : backlog[i] \in 1..Len(conns)
  BY ElementOfSeq DEF HostType
<1>3. conn["file"] \in 0..Len(conns) /\ conn["secret"] \in 0..Len(conns)
  BY DEF HostType, Ports
<1>4. server \in 0..Len(conns)
  BY DEF HostType
<1> QED
  BY <1>1, <1>2, <1>3, <1>4 DEF FileConns, Waiting

\* Connections that change without a new one, and requests of file calls only.
LEMMA HostKept ==
    ASSUME HostType, NEW cs \in Seq(Connections), Len(cs) = Len(conns), conns' = cs,
           NEW cn \in [Ports -> 0..Len(conns)], conn' = cn,
           \A p \in Ports : cn[p] \in {conn[p], 0},
           \A c \in FileConns : cs[c].req \in FileCalls \cup {NoCall},
           UNCHANGED fileserver
    PROVE  HostType'
<1>1. UNCHANGED << backlog, server, out, files >>
  BY DEF fileserver
<1>2. Waiting' = Waiting
  BY <1>1 DEF Waiting
<1>3. cn["file"] \in {conn["file"], 0} /\ cn["secret"] \in {conn["secret"], 0}
  BY DEF Ports
<1>4. FileConns' \subseteq FileConns /\ 0 \notin FileConns'
  BY <1>1, <1>2, <1>3 DEF FileConns
<1> QED
  BY <1>1, <1>3, <1>4 DEF HostType

\* A packet of the guest reaches the host.
LEMMA KernelTypes ==
    ASSUME TypeInv, Kernel
    PROVE  TypeInv'
<1> DEFINE pkt == Head(g2h)
<1>1. /\ UNCHANGED << guest, fwd_cnt, server, out, files, budget >> /\ g2h' = Tail(g2h)
      /\ g2h # << >> /\ (KernelRequest(pkt) \/ KernelData(pkt) \/ KernelReset(pkt))
  BY DEF Kernel
<1>2. pkt \in GuestPackets /\ g2h' \in Seq(GuestPackets) /\ h2g \in Seq(HostPackets)
  <2>1. g2h \in Seq(GuestPackets) /\ h2g \in Seq(HostPackets)
    BY DEF TypeInv, GuestType
  <2> QED
    BY <1>1, <2>1, Take
<1> HIDE DEF pkt
<1>3. pkt.port \in Ports /\ pkt.fwd \in Nat
      /\ (pkt.op = "rw" => pkt.req = SecretCall \/ pkt.req \in FileCalls)
      /\ (pkt.op = "rw" /\ pkt.port = "file" => pkt.req \in FileCalls)
  BY <1>2 DEF GuestPackets, Ports
<1>4. h2g' \in Seq(HostPackets)
  <2>1. h2g' = h2g \/ \E op \in {"response", "rst"} : h2g' = Append(h2g, ToGuest(op))
    BY <1>1 DEF KernelRequest, KernelData, KernelReset, Reply
  <2>2. ToGuest("response") \in HostPackets /\ ToGuest("rst") \in HostPackets
    BY PacketTypes
  <2> QED
    BY <1>2, <2>1, <2>2, Put
<1>5. GuestType'
  BY <1>1, <1>2, <1>4, GuestKept DEF TypeInv, GuestType
<1>6. /\ HostType /\ Len(conns) \in Nat /\ FileConns \subseteq 1..Len(conns)
      /\ conns \in Seq(Connections) /\ conn \in [Ports -> 0..Len(conns)]
      /\ backlog \in Seq(1..Len(conns)) /\ Waiting \subseteq 1..Len(conns)
      /\ \A c \in 1..Len(conns) : conns[c] \in Connections
      /\ conn["file"] \in 0..Len(conns) /\ conn["secret"] \in 0..Len(conns)
  BY FileConnsExist DEF TypeInv, HostType
<1>7. CASE UNCHANGED << conns, conn, backlog >>
  <2>1. UNCHANGED fileserver
    BY <1>1, <1>7 DEF fileserver
  <2>2. HostType'
    BY <1>6, <1>7, <2>1, HostKept DEF HostType
  <2> QED
    BY <1>5, <2>2 DEF TypeInv
<1>8. CASE KernelRequest(pkt) /\ ~UNCHANGED << conns, conn, backlog >>
  <2> DEFINE new == Len(conns) + 1
             nc == NewConn(pkt.fwd)
  <2>1. /\ conn[pkt.port] = 0 /\ conns' = Append(conns, nc)
        /\ conn' = [conn EXCEPT ![pkt.port] = new]
        /\ backlog' = IF pkt.port = "file" THEN Append(backlog, new) ELSE backlog
    BY <1>8 DEF KernelRequest
  <2>2. nc \in Connections /\ nc.req = NoCall
    BY <1>3 DEF NewConn, Connections, Calls
  <2> HIDE DEF nc
  <2>3. /\ conns' \in Seq(Connections) /\ Len(conns') = new /\ conns'[new].req = NoCall
        /\ \A c \in 1..Len(conns) : conns'[c] = conns[c]
    BY <1>6, <2>1, <2>2, Put
  <2>4. 0..Len(conns) \subseteq 0..Len(conns') /\ 1..Len(conns) \subseteq 1..Len(conns')
        /\ new \in 1..Len(conns')
    BY <1>6, <2>3
  <2>5. conn' \in [Ports -> 0..Len(conns')]
    BY <1>3, <1>6, <2>1, <2>4
  <2>6. /\ backlog' \in Seq(1..Len(conns')) /\ Waiting' \subseteq Waiting \cup {new}
        /\ pkt.port # "file" => Waiting' = Waiting
    <3>1. backlog \in Seq(1..Len(conns'))
      BY <1>6, <2>4, SeqMonotonic
    <3> HIDE DEF new
    <3>2. CASE pkt.port = "file"
      <4>1. /\ backlog' \in Seq(1..Len(conns')) /\ Len(backlog') = Len(backlog) + 1
            /\ Len(backlog) \in Nat /\ \A i \in 1..Len(backlog) : backlog'[i] = backlog[i]
            /\ backlog'[Len(backlog) + 1] = new
        BY <2>1, <2>4, <3>1, <3>2, Put
      <4>2. \A i \in 1..Len(backlog') : i \in 1..Len(backlog) \/ i = Len(backlog) + 1
        BY <4>1
      <4> QED
        BY <3>2, <4>1, <4>2 DEF Waiting
    <3>3. CASE pkt.port # "file"
      BY <2>1, <3>1, <3>3 DEF Waiting
    <3> QED
      BY <3>2, <3>3
  <2>7. server' = server /\ out' = out /\ files' = files /\ server \in 0..Len(conns)
    BY <1>1, <1>6 DEF HostType
  <2>8. CASE pkt.port = "file"
    <3>1. conn'["file"] = new /\ conn'["secret"] = conn["secret"]
      BY <1>6, <2>1, <2>8 DEF Ports
    <3>2. FileConns' \subseteq FileConns \cup {new}
      BY <2>6, <2>7, <3>1 DEF FileConns
    <3>3. conn["secret"] # new
      BY <1>6
    <3>4. conn'["secret"] \notin FileConns'
      BY <1>6, <3>1, <3>2, <3>3 DEF HostType
    <3>5. \A c \in FileConns' : conns'[c].req \in FileCalls \cup {NoCall}
      BY <1>6, <2>3, <3>2 DEF HostType
    <3>6. HostType'
      BY <1>6, <2>3, <2>4, <2>5, <2>6, <2>7, <3>4, <3>5 DEF HostType
    <3> QED
      BY <1>5, <3>6 DEF TypeInv
  <2>9. CASE pkt.port = "secret"
    <3>1. conn'["secret"] = new /\ conn'["file"] = conn["file"]
      BY <1>6, <2>1, <2>9 DEF Ports
    <3>2. FileConns' = FileConns
      BY <2>6, <2>7, <2>9, <3>1 DEF FileConns
    <3>3. new \notin FileConns
      BY <1>6
    <3>4. conn'["secret"] \notin FileConns'
      BY <3>1, <3>2, <3>3
    <3>5. \A c \in FileConns' : conns'[c].req \in FileCalls \cup {NoCall}
      BY <1>6, <2>3, <3>2 DEF HostType
    <3>6. HostType'
      BY <1>6, <2>3, <2>4, <2>5, <2>6, <2>7, <3>4, <3>5 DEF HostType
    <3> QED
      BY <1>5, <3>6 DEF TypeInv
  <2> QED
    BY <1>3, <2>8, <2>9 DEF Ports
<1>9. CASE KernelData(pkt) /\ ~UNCHANGED << conns, conn, backlog >>
  <2> DEFINE c == conn[pkt.port]
             e == [conns[c] EXCEPT !.fwd = pkt.fwd, !.req = IF pkt.op = "rw" THEN pkt.req ELSE @]
  <2>1. /\ c # 0 /\ UNCHANGED << conn, backlog >>
        /\ conns' = [conns EXCEPT ![c].fwd = pkt.fwd,
                                  ![c].req = IF pkt.op = "rw" THEN pkt.req ELSE @]
    BY <1>9 DEF KernelData
  <2>2. c \in 1..Len(conns) /\ conns[c] \in Connections
    BY <1>3, <1>6, <2>1
  <2>3. conns' = [conns EXCEPT ![c] = e]
    BY <1>6, <2>1, <2>2 DEF Connections
  <2>4. e \in Connections /\ e.req = IF pkt.op = "rw" THEN pkt.req ELSE conns[c].req
    BY <1>3, <2>2 DEF Connections, Calls
  <2> HIDE DEF e
  <2>5. /\ conns' \in Seq(Connections) /\ Len(conns') = Len(conns)
        /\ \A d \in 1..Len(conns) : conns'[d] = IF d = c THEN e ELSE conns[d]
    BY <1>6, <2>2, <2>3, <2>4, ExceptSeq
  <2>6. ASSUME NEW d \in FileConns PROVE conns'[d].req \in FileCalls \cup {NoCall}
    <3>1. d \in 1..Len(conns) /\ conns[d].req \in FileCalls \cup {NoCall} /\ d # conn["secret"]
      BY <1>6 DEF HostType
    <3>2. d = c => pkt.port = "file"
      BY <1>3, <3>1 DEF Ports
    <3> QED
      BY <1>3, <2>4, <2>5, <3>1, <3>2
  <2>7. UNCHANGED fileserver
    BY <1>1, <2>1 DEF fileserver
  <2>8. HostType'
    BY <1>6, <2>1, <2>5, <2>6, <2>7, HostKept
  <2> QED
    BY <1>5, <2>8 DEF TypeInv
<1>10. CASE KernelReset(pkt)
  <2>1. /\ conns' = [i \in DOMAIN conns |-> IF i = conn[pkt.port]
                                            THEN [conns[i] EXCEPT !.live = FALSE]
                                            ELSE conns[i]]
        /\ conn' = [conn EXCEPT ![pkt.port] = 0] /\ UNCHANGED backlog
    BY <1>10 DEF KernelReset
  <2>2. DOMAIN conns = 1..Len(conns)
    BY <1>6, LenProperties
  <2>3. ASSUME NEW i \in 1..Len(conns)
        PROVE  conns'[i] \in Connections /\ conns'[i].req = conns[i].req
    BY <1>6, <2>1, <2>2 DEF Connections
  <2>4. conns' \in Seq(Connections) /\ Len(conns') = Len(conns)
    <3>1. DOMAIN conns' = DOMAIN conns /\ conns' = [i \in DOMAIN conns |-> conns'[i]]
      BY <2>1
    <3> QED
      BY <1>6, <2>3, <3>1, Redone
  <2>5. conn' \in [Ports -> 0..Len(conns)] /\ \A p \in Ports : conn'[p] \in {conn[p], 0}
    <3>1. 0 \in 0..Len(conns) /\ conn \in [Ports -> 0..Len(conns)]
      BY <1>6
    <3> QED
      BY <1>3, <2>1, <3>1
  <2>6. UNCHANGED fileserver
    BY <1>1, <2>1 DEF fileserver
  <2>7. \A d \in FileConns : conns'[d].req \in FileCalls \cup {NoCall}
    BY <1>6, <2>3 DEF HostType
  <2>8. HostType'
    BY <1>6, <2>4, <2>5, <2>6, <2>7, HostKept
  <2> QED
    BY <1>5, <2>8 DEF TypeInv
<1> QED
  BY <1>1, <1>7, <1>8, <1>9, <1>10

\* An answer: n pieces.
LEMMA ResponseFacts ==
    ASSUME NEW id \in 0..MaxCalls, NEW ok \in BOOLEAN, NEW n \in 1..MaxPieces,
           NEW holds \in [data : 0..Torn, names : SUBSET Paths]
    PROVE  /\ Response(id, ok, n, holds) \in Seq(Pieces) /\ Len(Response(id, ok, n, holds)) = n
           /\ \A k \in 1..n : /\ Response(id, ok, n, holds)[k].id = id
                              /\ Response(id, ok, n, holds)[k].k = k
                              /\ Response(id, ok, n, holds)[k].len = n
<1> DEFINE r == Response(id, ok, n, holds)
<1>1. MaxPieces \in Nat /\ n \in Nat
  BY VsockConstants
<1>2. r = [k \in 1..n |-> [id |-> id, k |-> k, len |-> n, ok |-> ok, holds |-> holds]]
  BY DEF Response
<1>3. \A k \in 1..n : [id |-> id, k |-> k, len |-> n, ok |-> ok, holds |-> holds] \in Pieces
  BY <1>1 DEF Pieces
<1> HIDE DEF r
<1>4. \A k \in 1..n : r[k].id = id /\ r[k].k = k /\ r[k].len = n
  BY <1>2
<1>5. r \in [1..n -> Pieces]
  BY <1>2, <1>3
<1>6. r \in Seq(Pieces) /\ Len(r) = n
  BY <1>1, <1>5, SeqDef
<1> QED
  BY <1>4, <1>6 DEF r

\* What the file server makes of a request.
LEMMA HandleFacts ==
    ASSUME HostType, ServerHandle
    PROVE  /\ server # 0 /\ out = None /\ conns[server].req \in FileCalls
           /\ files' \in [Paths -> 0..Torn]
           /\ \E ok \in BOOLEAN, n \in 1..MaxPieces,
                 holds \in [data : 0..Torn, names : SUBSET Paths] :
                    out' = Response(conns[server].req.id, ok, n, holds)
<1> DEFINE c == conns[server].req
           Holding == [data : 0..Torn, names : SUBSET Paths]
<1>1. server # 0 /\ out = None /\ c # NoCall
      /\ IF c.op = "write" THEN HandleWrite(c) ELSE HandleRead(c)
  BY DEF ServerHandle
<1>2. c \in FileCalls
  <2>1. server \in FileConns
    BY <1>1 DEF FileConns
  <2> QED
    BY <1>1, <2>1 DEF HostType
<1> HIDE DEF c
<1>3. /\ c.id \in 1..MaxCalls /\ c.id \in 0..Torn /\ c.path \in Paths /\ MaxCalls \in Nat
      /\ Torn \in 0..Torn /\ 0 \in 0..Torn /\ 1 \in 1..MaxPieces
  BY <1>2, VsockConstants DEF FileCalls, Torn
<1>4. files \in [Paths -> 0..Torn]
  BY DEF HostType
<1>5. Nothing \in Holding /\ [data |-> c.id, names |-> {}] \in Holding
  BY <1>3 DEF Nothing
<1>6. Found(c) \in Holding
  BY <1>3, <1>4 DEF Found
<1>7. files' \in [Paths -> 0..Torn]
  <2>1. \/ files' = files \/ files' = [files EXCEPT ![c.path] = c.id]
        \/ files' = [files EXCEPT ![c.path] = Torn]
    BY <1>1 DEF HandleWrite, HandleRead
  <2> QED
    BY <1>3, <1>4, <2>1
<1>8. \E ok \in BOOLEAN, n \in 1..MaxPieces, holds \in Holding : out' = Response(c.id, ok, n, holds)
  <2>1. \/ out' = Response(c.id, TRUE, 1, [data |-> c.id, names |-> {}])
        \/ out' = Response(c.id, FALSE, 1, Nothing)
        \/ \E n \in 1..MaxPieces : out' = Response(c.id, TRUE, n, Found(c))
    BY <1>1 DEF HandleWrite, HandleRead
  <2> HIDE DEF Holding
  <2> QED
    BY <1>3, <1>5, <1>6, <2>1
<1> QED
  BY <1>1, <1>2, <1>7, <1>8 DEF c

\* The file server and the secret server.
LEMMA ServerTypes ==
    ASSUME TypeInv, KernelCredit \/ SecretServer \/ FileServer
    PROVE  TypeInv'
<1> DEFINE Budgets == [calls : 0..MaxCalls, credits : Nat, timeouts : [Ports -> Nat]]
<1>1. /\ g2h \in Seq(GuestPackets) /\ h2g \in Seq(HostPackets) /\ budget \in Budgets /\ GuestType
  BY DEF TypeInv, GuestType
<1>2. /\ HostType /\ Len(conns) \in Nat /\ FileConns \subseteq 1..Len(conns)
      /\ Waiting \subseteq 1..Len(conns)
      /\ conns \in Seq(Connections) /\ conn \in [Ports -> 0..Len(conns)]
      /\ backlog \in Seq(1..Len(conns)) /\ server \in 0..Len(conns)
      /\ \A c \in 1..Len(conns) : conns[c] \in Connections
      /\ conn["file"] \in 0..Len(conns) /\ conn["secret"] \in 0..Len(conns)
  BY FileConnsExist DEF TypeInv, HostType
<1>3. UNCHANGED << guest, fwd_cnt, g2h, conn >>
  BY DEF KernelCredit, SecretServer, FileServer, ServerAccept, ServerHandle, ServerSend,
         ServerClose
<1> HIDE DEF Budgets
<1>4. ASSUME h2g' \in Seq(HostPackets), budget' \in Budgets PROVE GuestType'
  BY <1>1, <1>3, <1>4, GuestKept DEF Budgets
<1>5. ASSUME NEW c \in 1..Len(conns), NEW e \in Connections, e.req = conns[c].req,
             conns' = [conns EXCEPT ![c] = e]
      PROVE  /\ conns' \in Seq(Connections) /\ Len(conns') = Len(conns)
             /\ \A d \in FileConns : conns'[d].req \in FileCalls \cup {NoCall}
  <2>1. /\ conns' \in Seq(Connections) /\ Len(conns') = Len(conns)
        /\ \A d \in 1..Len(conns) : conns'[d] = IF d = c THEN e ELSE conns[d]
    BY <1>2, <1>5, ExceptSeq
  <2> QED
    BY <1>2, <1>5, <2>1 DEF HostType
<1>6. CASE KernelCredit
  <2>1. /\ budget.credits > 0 /\ budget' = [budget EXCEPT !.credits = @ - 1]
        /\ h2g' = Append(h2g, ToGuest("credit")) /\ UNCHANGED << conns, fileserver >>
    BY <1>6 DEF KernelCredit, Reply
  <2>2. budget' \in Budgets
    <3>1. budget \in Budgets
      BY <1>1
    <3>2. budget.credits - 1 \in Nat
      BY <2>1, <3>1 DEF Budgets
    <3> QED
      BY <2>1, <3>1, <3>2 DEF Budgets
  <2>3. h2g' \in Seq(HostPackets)
    BY <1>1, <2>1, PacketTypes, Put
  <2>4. HostType'
    BY <1>2, <1>3, <2>1, HostKept DEF HostType
  <2> QED
    BY <1>4, <2>2, <2>3, <2>4 DEF TypeInv
<1>7. CASE SecretServer
  <2> DEFINE c == conn["secret"]
             e == [conns[c] EXCEPT !.sent = 1]
             d == [id |-> 0, k |-> 1, len |-> 1, ok |-> TRUE, holds |-> Nothing]
  <2>1. /\ c # 0 /\ conns' = [conns EXCEPT ![c].sent = 1] /\ UNCHANGED << fileserver, budget >>
        /\ h2g' = Append(h2g, Piece(d))
    BY <1>7 DEF SecretServer
  <2>2. c \in 1..Len(conns) /\ conns[c] \in Connections
    BY <1>2, <2>1
  <2>3. e \in Connections /\ e.req = conns[c].req /\ conns' = [conns EXCEPT ![c] = e]
    BY <1>2, <2>1, <2>2 DEF Connections
  <2>4. d \in Pieces
    BY VsockConstants DEF Pieces, Nothing, Torn
  <2> HIDE DEF c, e, d
  <2>5. h2g' \in Seq(HostPackets)
    BY <1>1, <2>1, <2>4, PacketTypes, Put
  <2>6. /\ conns' \in Seq(Connections) /\ Len(conns') = Len(conns)
        /\ \A f \in FileConns : conns'[f].req \in FileCalls \cup {NoCall}
    BY <1>5, <2>2, <2>3
  <2>7. HostType'
    BY <1>2, <1>3, <2>1, <2>6, HostKept
  <2> QED
    BY <1>1, <1>4, <2>1, <2>5, <2>7 DEF TypeInv
<1>8. CASE ServerAccept
  <2>1. /\ server = 0 /\ backlog # << >> /\ server' = Head(backlog) /\ backlog' = Tail(backlog)
        /\ UNCHANGED << h2g, conns, out, files, budget >>
    BY <1>8 DEF ServerAccept
  <2>2. /\ server' = backlog[1] /\ backlog[1] \in 1..Len(conns) /\ backlog' \in Seq(1..Len(conns))
        /\ Len(backlog) \in Nat \ {0} /\ Len(backlog') = Len(backlog) - 1
        /\ \A i \in 1..(Len(backlog) - 1) : backlog'[i] = backlog[i + 1]
    BY <1>2, <2>1, Take
  <2>3. Waiting' \subseteq Waiting /\ server' \in Waiting
    <3>1. \A i \in 1..Len(backlog') : backlog'[i] = backlog[i + 1] /\ i + 1 \in 1..Len(backlog)
      BY <2>2
    <3>2. 1 \in 1..Len(backlog)
      BY <2>2
    <3> QED
      BY <2>2, <3>1, <3>2 DEF Waiting
  <2>4. FileConns' \subseteq FileConns
    BY <1>3, <2>3 DEF FileConns
  <2>5. server' \in 0..Len(conns) /\ server' # 0
    BY <1>2, <2>2
  <2>6. HostType'
    BY <1>2, <1>3, <2>1, <2>2, <2>4, <2>5 DEF HostType
  <2> QED
    BY <1>1, <1>4, <2>1, <2>6 DEF TypeInv
<1>9. CASE ServerHandle
  <2>1. UNCHANGED << h2g, conns, backlog, server, budget >>
    BY <1>9 DEF ServerHandle
  <2>2. /\ server # 0 /\ conns[server].req \in FileCalls /\ files' \in [Paths -> 0..Torn]
        /\ \E ok \in BOOLEAN, n \in 1..MaxPieces,
              holds \in [data : 0..Torn, names : SUBSET Paths] :
                 out' = Response(conns[server].req.id, ok, n, holds)
    BY <1>2, <1>9, HandleFacts
  <2>3. conns[server].req.id \in 0..MaxCalls
    BY <2>2, VsockConstants DEF FileCalls
  <2>4. out' \in Seq(Pieces)
    BY <2>2, <2>3, ResponseFacts
  <2>5. FileConns' = FileConns
    BY <1>3, <2>1 DEF FileConns, Waiting
  <2>6. HostType'
    BY <1>2, <1>3, <2>1, <2>2, <2>4, <2>5 DEF HostType
  <2> QED
    BY <1>1, <1>4, <2>1, <2>6 DEF TypeInv
<1>10. CASE ServerSend
  <2> DEFINE e == [conns[server] EXCEPT !.sent = @ + 1]
  <2>1. /\ server # 0 /\ out \notin {None, << >>} /\ h2g' = Append(h2g, Piece(Head(out)))
        /\ out' = Tail(out) /\ conns' = [conns EXCEPT ![server].sent = @ + 1]
        /\ UNCHANGED << backlog, server, files, budget >>
    BY <1>10 DEF ServerSend
  <2>2. out \in Seq(Pieces) /\ server \in 1..Len(conns) /\ conns[server] \in Connections
    BY <1>2, <2>1 DEF HostType
  <2>3. Head(out) \in Pieces /\ out' \in Seq(Pieces)
    BY <2>1, <2>2, Take
  <2>4. e \in Connections /\ e.req = conns[server].req /\ conns' = [conns EXCEPT ![server] = e]
    <3>1. e \in Connections /\ e.req = conns[server].req
      BY <2>2 DEF Connections
    <3>2. conns' = [conns EXCEPT ![server] = e]
      BY <2>1
    <3> QED
      BY <3>1, <3>2
  <2> HIDE DEF e
  <2>5. h2g' \in Seq(HostPackets)
    BY <1>1, <2>1, <2>3, PacketTypes, Put
  <2>6. /\ conns' \in Seq(Connections) /\ Len(conns') = Len(conns)
        /\ \A f \in FileConns : conns'[f].req \in FileCalls \cup {NoCall}
    BY <1>5, <2>2, <2>4
  <2>7. FileConns' = FileConns
    BY <1>3, <2>1 DEF FileConns, Waiting
  <2>8. HostType'
    BY <1>2, <1>3, <2>1, <2>3, <2>6, <2>7 DEF HostType
  <2> QED
    BY <1>1, <1>4, <2>1, <2>5, <2>8 DEF TypeInv
<1>11. CASE ServerClose
  <2>1. /\ server' = 0 /\ out' = None /\ UNCHANGED << conns, backlog, files, budget >>
        /\ h2g' = h2g \/ h2g' = Append(h2g, ToGuest("shutdown"))
    BY <1>11 DEF ServerClose, Reply
  <2>2. h2g' \in Seq(HostPackets)
    <3>1. ToGuest("shutdown") \in HostPackets
      BY PacketTypes
    <3> QED
      BY <1>1, <2>1, <3>1, Put
  <2>3. FileConns' \subseteq FileConns
    BY <1>3, <2>1 DEF FileConns, Waiting
  <2>4. HostType'
    BY <1>2, <1>3, <2>1, <2>3 DEF HostType
  <2> QED
    BY <1>1, <1>4, <2>1, <2>2, <2>4 DEF TypeInv
<1> QED
  BY <1>6, <1>7, <1>8, <1>9, <1>10, <1>11 DEF FileServer

\* A step of the guest leaves the host alone.
LEMMA HostUnchanged ==
    ASSUME HostType, UNCHANGED << conns, conn, fileserver >>
    PROVE  HostType' /\ FileConns' = FileConns /\ Waiting' = Waiting
  BY DEF HostType, fileserver, FileConns, Waiting

\* TypeInv is kept.
LEMMA TypeStep ==
    ASSUME TypeInv, [Next]_vars
    PROVE  TypeInv'
<1>1. CASE UNCHANGED vars
  BY <1>1 DEF vars, guest, fileserver, TypeInv, GuestType, HostType, FileConns, Waiting
<1>2. CASE \/ FetchSecret
           \/ \E op \in Ops, path \in Paths : FileCall(op, path) \/ FileCallNoDev(op, path)
  <2>1. UNCHANGED << conns, conn, fileserver >>
    BY <1>2 DEF FetchSecret, FileCall, FileCallNoDev
  <2> QED
    BY <1>2, <2>1, CallTypes, HostUnchanged DEF TypeInv
<1>3. CASE ConnectRecv \/ RespRecv \/ ConnectTimeout \/ RespTimeout
  <2>1. UNCHANGED << conns, conn, fileserver >>
    BY <1>3 DEF ConnectRecv, RespRecv, ConnectTimeout, RespTimeout
  <2> QED
    BY <1>3, <2>1, WaitTypes, HostUnchanged DEF TypeInv
<1> QED
  BY <1>1, <1>2, <1>3, KernelTypes, ServerTypes DEF Next, Guest, Timeouts

\* At the start.
LEMMA TypeInit ==
    ASSUME Init
    PROVE  TypeInv
<1>1. /\ << >> \in Seq(Pieces) /\ << >> \in Seq(GuestPackets) /\ << >> \in Seq(HostPackets)
      /\ << >> \in Seq(Connections) /\ Len(<< >>) = 0
  BY EmptySeq
<1>2. /\ MaxCalls \in Nat /\ MaxCredits \in Nat /\ MaxTimeouts \in Nat /\ SecretTimeouts \in Nat
      /\ 0 \in 0..Torn /\ MaxCalls \in 0..MaxCalls
  BY VsockConstants DEF Torn
<1>3. Patience \in [Ports -> Nat]
  BY <1>2 DEF Patience
<1>4. budget = [calls |-> MaxCalls, credits |-> MaxCredits, timeouts |-> Patience]
  BY DEF Init
<1>5. budget \in [calls : 0..MaxCalls, credits : Nat, timeouts : [Ports -> Nat]]
  BY <1>2, <1>3, <1>4
<1>6. NoCall \in Calls
  BY DEF Calls
<1>7. ret = [call |-> NoCall, ok |-> FALSE, data |-> << >>]
  BY DEF Init
<1>8. ret \in [call : Calls, ok : BOOLEAN, data : Seq(Pieces)]
  BY <1>1, <1>6, <1>7
<1>9. GuestType
  BY <1>1, <1>5, <1>6, <1>8 DEF Init, GuestType, Ports
<1>10. conns = << >> /\ backlog = << >> /\ server = 0 /\ conn = [p \in Ports |-> 0] /\ out = None
       /\ files = [p \in Paths |-> 0]
  BY DEF Init
<1>11. FileConns = {}
  BY <1>1, <1>10 DEF FileConns, Waiting, Ports
<1>12. << >> \in Seq(1..Len(<< >>))
  BY EmptySeq
<1>13. HostType
  BY <1>1, <1>2, <1>10, <1>11, <1>12 DEF HostType
<1> QED
  BY <1>9, <1>13 DEF TypeInv

\* TypeInv has all that TypeOK asks for.
LEMMA TypeInvTypeOK == TypeInv => TypeOK
<1> SUFFICES ASSUME TypeInv PROVE TypeOK
  OBVIOUS
<1>1. got \in Seq(Pieces) /\ (got # << >> => Len(got) < got[1].len)
  BY DEF TypeInv, GuestType
<1>2. Len(got) < MaxPieces
  <2>1. MaxPieces \in Nat \ {0} /\ Len(<< >>) = 0
    BY VsockConstants
  <2>2. CASE got = << >>
    BY <2>1, <2>2
  <2>3. CASE got # << >>
    <3>1. Len(got) \in Nat /\ got[1] \in Pieces /\ Len(got) < got[1].len
      BY <1>1, <2>3, Take
    <3>2. got[1].len \in 1..MaxPieces
      BY <3>1 DEF Pieces
    <3> QED
      BY <2>1, <3>1, <3>2
  <2> QED
    BY <2>2, <2>3
<1> QED
  BY <1>2 DEF TypeInv, GuestType, HostType, TypeOK

\* The shape of the link's variables, whatever times out; no call ever holds a
\* whole answer back.
THEOREM VsockTypeOK == Spec => []TypeOK
<1>1. Init => TypeInv
  BY TypeInit
<1>2. TypeInv /\ [Next]_vars => TypeInv'
  BY TypeStep
<1> QED
  BY <1>1, <1>2, TypeInvTypeOK, PTL DEF Spec

-----------------------------------------------------------------------------
(* An answer on its way.                                                    *)

Own(d, id, k, n) == d.id = id /\ d.k = k /\ d.len = n

\* The first s of n pieces have been sent: the guest has those in g, and the
\* others are in the queue q, in order.
OnTheWay(q, g, id, n, s) ==
    /\ Len(g) < n /\ Len(g) <= s /\ \A k \in 1..Len(g) : Own(g[k], id, k, n)
    /\ \A i \in 1..Len(q) : q[i].op = "rw" =>
          /\ q[i].data.k \in (Len(g) + 1)..s /\ Own(q[i].data, id, q[i].data.k, n)
          /\ \A j \in 1..(i - 1) : q[j].op = "rw" => q[j].data.k < q[i].data.k
    /\ \A k \in (Len(g) + 1)..s : \E i \in 1..Len(q) : q[i].op = "rw" /\ q[i].data.k = k

\* Packets of other kinds make no difference.
LEMMA OtherPackets ==
    ASSUME NEW q \in Seq(HostPackets), NEW g \in Seq(Pieces), NEW id, NEW n \in Nat, NEW s \in Nat,
           OnTheWay(q, g, id, n, s)
    PROVE  /\ \A x \in HostPackets : x.op # "rw" => OnTheWay(Append(q, x), g, id, n, s)
           /\ q # << >> /\ q[1].op # "rw" => OnTheWay(Tail(q), g, id, n, s)
<1>1. Len(q) \in Nat /\ Len(g) \in Nat
  BY LenProperties
<1>2. ASSUME NEW x \in HostPackets, x.op # "rw" PROVE OnTheWay(Append(q, x), g, id, n, s)
  <2> DEFINE a == Append(q, x)
  <2>1. Len(a) = Len(q) + 1 /\ (\A i \in 1..Len(q) : a[i] = q[i]) /\ a[Len(q) + 1] = x
    BY Put
  <2> HIDE DEF a
  <2>2. \A i \in 1..Len(a) : a[i].op = "rw" => i \in 1..Len(q)
    BY <1>1, <1>2, <2>1
  <2>3. \A i \in 1..Len(a) : a[i].op = "rw" =>
          /\ a[i].data.k \in (Len(g) + 1)..s /\ Own(a[i].data, id, a[i].data.k, n)
          /\ \A j \in 1..(i - 1) : a[j].op = "rw" => a[j].data.k < a[i].data.k
    <3> TAKE i \in 1..Len(a)
    <3> HAVE a[i].op = "rw"
    <3>1. i \in 1..Len(q) /\ a[i] = q[i] /\ \A j \in 1..(i - 1) : j \in 1..Len(q) /\ a[j] = q[j]
      BY <1>1, <2>1, <2>2
    <3>2. /\ q[i].data.k \in (Len(g) + 1)..s /\ Own(q[i].data, id, q[i].data.k, n)
          /\ \A j \in 1..(i - 1) : q[j].op = "rw" => q[j].data.k < q[i].data.k
      BY <3>1 DEF OnTheWay
    <3> QED
      BY <3>1, <3>2
  <2>4. \A k \in (Len(g) + 1)..s : \E i \in 1..Len(a) : a[i].op = "rw" /\ a[i].data.k = k
    <3> TAKE k \in (Len(g) + 1)..s
    <3>1. PICK i \in 1..Len(q) : q[i].op = "rw" /\ q[i].data.k = k
      BY DEF OnTheWay
    <3>2. i \in 1..Len(a)
      BY <1>1, <2>1
    <3> QED
      BY <2>1, <3>1, <3>2
  <2>5. OnTheWay(a, g, id, n, s)
    BY <2>3, <2>4 DEF OnTheWay
  <2> QED
    BY <2>5 DEF a
<1>3. ASSUME q # << >>, q[1].op # "rw" PROVE OnTheWay(Tail(q), g, id, n, s)
  <2> DEFINE t == Tail(q)
  <2>1. Len(t) = Len(q) - 1 /\ Len(q) > 0 /\ \A i \in 1..(Len(q) - 1) : t[i] = q[i + 1]
    BY <1>3, Take
  <2> HIDE DEF t
  <2>2. \A i \in 1..Len(t) : t[i].op = "rw" =>
          /\ t[i].data.k \in (Len(g) + 1)..s /\ Own(t[i].data, id, t[i].data.k, n)
          /\ \A j \in 1..(i - 1) : t[j].op = "rw" => t[j].data.k < t[i].data.k
    <3> TAKE i \in 1..Len(t)
    <3> HAVE t[i].op = "rw"
    <3>1. i + 1 \in 1..Len(q) /\ t[i] = q[i + 1]
      BY <1>1, <2>1
    <3>2. \A j \in 1..(i - 1) : j + 1 \in 1..((i + 1) - 1) /\ t[j] = q[j + 1]
      BY <1>1, <2>1
    <3>3. /\ q[i + 1].data.k \in (Len(g) + 1)..s /\ Own(q[i + 1].data, id, q[i + 1].data.k, n)
          /\ \A j \in 1..((i + 1) - 1) : q[j].op = "rw" => q[j].data.k < q[i + 1].data.k
      BY <3>1 DEF OnTheWay
    <3> QED
      BY <3>1, <3>2, <3>3
  <2>3. \A k \in (Len(g) + 1)..s : \E i \in 1..Len(t) : t[i].op = "rw" /\ t[i].data.k = k
    <3> TAKE k \in (Len(g) + 1)..s
    <3>1. PICK i \in 1..Len(q) : q[i].op = "rw" /\ q[i].data.k = k
      BY DEF OnTheWay
    <3>2. i # 1
      BY <1>3, <3>1
    <3>3. i - 1 \in 1..Len(t) /\ t[i - 1] = q[i]
      BY <1>1, <2>1, <3>2
    <3> QED
      BY <3>1, <3>3
  <2>4. OnTheWay(t, g, id, n, s)
    BY <2>2, <2>3 DEF OnTheWay
  <2> QED
    BY <2>4 DEF t
<1> QED
  BY <1>2, <1>3

\* The next piece is sent.
LEMMA SendPiece ==
    ASSUME NEW q \in Seq(HostPackets), NEW g \in Seq(Pieces), NEW id, NEW n \in Nat, NEW s \in Nat,
           OnTheWay(q, g, id, n, s), NEW d \in Pieces, Own(d, id, s + 1, n)
    PROVE  OnTheWay(Append(q, Piece(d)), g, id, n, s + 1)
<1> DEFINE x == Piece(d)
           a == Append(q, x)
<1>1. Len(q) \in Nat /\ Len(g) \in Nat
  BY LenProperties
<1>2. x \in HostPackets /\ x.op = "rw" /\ x.data = d
  BY PacketTypes DEF Piece
<1> HIDE DEF x
<1>3. Len(a) = Len(q) + 1 /\ (\A i \in 1..Len(q) : a[i] = q[i]) /\ a[Len(q) + 1] = x
  BY <1>2, Put
<1> HIDE DEF a
<1>4. \A i \in 1..Len(a) : a[i].op = "rw" =>
          /\ a[i].data.k \in (Len(g) + 1)..(s + 1) /\ Own(a[i].data, id, a[i].data.k, n)
          /\ \A j \in 1..(i - 1) : a[j].op = "rw" => a[j].data.k < a[i].data.k
  <2> TAKE i \in 1..Len(a)
  <2> HAVE a[i].op = "rw"
  <2>1. CASE i \in 1..Len(q)
    <3>1. a[i] = q[i] /\ \A j \in 1..(i - 1) : j \in 1..Len(q) /\ a[j] = q[j]
      BY <1>1, <1>3, <2>1
    <3>2. /\ q[i].data.k \in (Len(g) + 1)..s /\ Own(q[i].data, id, q[i].data.k, n)
          /\ \A j \in 1..(i - 1) : q[j].op = "rw" => q[j].data.k < q[i].data.k
      BY <2>1, <3>1 DEF OnTheWay
    <3> QED
      BY <1>1, <3>1, <3>2
  <2>2. CASE i = Len(q) + 1
    <3>1. a[i].data = d /\ d.k = s + 1
      BY <1>2, <1>3, <2>2 DEF Own
    <3>2. \A j \in 1..(i - 1) : j \in 1..Len(q) /\ a[j] = q[j]
      BY <1>1, <1>3, <2>2
    <3>3. \A j \in 1..Len(q) : q[j].op = "rw" => q[j].data.k \in (Len(g) + 1)..s
      BY DEF OnTheWay
    <3>4. \A j \in 1..(i - 1) : a[j].op = "rw" => a[j].data.k < s + 1
      BY <1>1, <3>2, <3>3
    <3>5. s + 1 \in (Len(g) + 1)..(s + 1)
      BY <1>1 DEF OnTheWay
    <3> QED
      BY <3>1, <3>4, <3>5
  <2> QED
    BY <1>1, <1>3, <2>1, <2>2
<1>5. \A k \in (Len(g) + 1)..(s + 1) : \E i \in 1..Len(a) : a[i].op = "rw" /\ a[i].data.k = k
  <2> TAKE k \in (Len(g) + 1)..(s + 1)
  <2>1. CASE k = s + 1
    <3>1. Len(q) + 1 \in 1..Len(a)
      BY <1>1, <1>3
    <3> QED
      BY <1>2, <1>3, <2>1, <3>1 DEF Own
  <2>2. CASE k # s + 1
    <3>1. k \in (Len(g) + 1)..s
      BY <1>1, <2>2
    <3>2. PICK i \in 1..Len(q) : q[i].op = "rw" /\ q[i].data.k = k
      BY <3>1 DEF OnTheWay
    <3>3. i \in 1..Len(a)
      BY <1>1, <1>3
    <3> QED
      BY <1>3, <3>2, <3>3
  <2> QED
    BY <2>1, <2>2
<1>6. Len(g) < n /\ Len(g) <= s + 1 /\ \A k \in 1..Len(g) : Own(g[k], id, k, n)
  BY <1>1 DEF OnTheWay
<1>7. OnTheWay(a, g, id, n, s + 1)
  BY <1>4, <1>5, <1>6 DEF OnTheWay
<1> QED
  BY <1>7 DEF a, x

\* The piece that comes first is the next one.
LEMMA TakePiece ==
    ASSUME NEW q \in Seq(HostPackets), NEW g \in Seq(Pieces), NEW id, NEW n \in Nat, NEW s \in Nat,
           OnTheWay(q, g, id, n, s), q # << >>, q[1].op = "rw"
    PROVE  /\ \A k \in 1..(Len(g) + 1) : Own(Append(g, q[1].data)[k], id, k, n)
           /\ Len(g) + 1 < n => OnTheWay(Tail(q), Append(g, q[1].data), id, n, s)
<1> DEFINE t == Tail(q)
           d == q[1].data
           h == Append(g, d)
<1>1. Len(q) \in Nat /\ Len(g) \in Nat
  BY LenProperties
<1>2. Len(t) = Len(q) - 1 /\ Len(q) > 0 /\ \A i \in 1..(Len(q) - 1) : t[i] = q[i + 1]
  BY Take
<1>3. d \in Pieces
  BY Take, PacketTypes
<1> HIDE DEF t
<1>4. d.k = Len(g) + 1 /\ Own(d, id, d.k, n) /\ Len(g) + 1 <= s
  <2>1. 1 \in 1..Len(q)
    BY <1>1, <1>2
  <2>2. d.k \in (Len(g) + 1)..s /\ Own(d, id, d.k, n)
    BY <2>1 DEF OnTheWay
  <2>3. Len(g) + 1 \in (Len(g) + 1)..s
    BY <1>1, <2>2
  <2>4. PICK i \in 1..Len(q) : q[i].op = "rw" /\ q[i].data.k = Len(g) + 1
    BY <2>3 DEF OnTheWay
  <2>5. CASE i = 1
    BY <1>1, <2>2, <2>4, <2>5
  <2>6. CASE i # 1
    <3>1. 1 \in 1..(i - 1)
      BY <1>1, <2>6
    <3>2. d.k < q[i].data.k
      BY <2>4, <3>1 DEF OnTheWay
    <3> QED
      BY <1>1, <2>2, <2>4, <3>2
  <2> QED
    BY <2>5, <2>6
<1> HIDE DEF d
<1>5. h \in Seq(Pieces) /\ Len(h) = Len(g) + 1 /\ (\A k \in 1..Len(g) : h[k] = g[k])
      /\ h[Len(g) + 1] = d
  BY <1>3, Put
<1> HIDE DEF h
<1>6. \A k \in 1..(Len(g) + 1) : Own(h[k], id, k, n)
  <2> TAKE k \in 1..(Len(g) + 1)
  <2>1. CASE k \in 1..Len(g)
    BY <1>5, <2>1 DEF OnTheWay
  <2>2. CASE k = Len(g) + 1
    BY <1>4, <1>5, <2>2
  <2> QED
    BY <1>1, <2>1, <2>2
<1>7. \A i \in 1..Len(t) : t[i].op = "rw" =>
          /\ t[i].data.k \in (Len(h) + 1)..s /\ Own(t[i].data, id, t[i].data.k, n)
          /\ \A j \in 1..(i - 1) : t[j].op = "rw" => t[j].data.k < t[i].data.k
  <2> TAKE i \in 1..Len(t)
  <2> HAVE t[i].op = "rw"
  <2>1. i + 1 \in 1..Len(q) /\ t[i] = q[i + 1]
    BY <1>1, <1>2
  <2>2. \A j \in 1..(i - 1) : j + 1 \in 1..((i + 1) - 1) /\ t[j] = q[j + 1]
    BY <1>1, <1>2
  <2>3. /\ t[i].data.k \in (Len(g) + 1)..s /\ Own(t[i].data, id, t[i].data.k, n)
        /\ \A j \in 1..((i + 1) - 1) : q[j].op = "rw" => q[j].data.k < t[i].data.k
    BY <2>1 DEF OnTheWay
  <2>4. 1 \in 1..((i + 1) - 1)
    BY <1>1, <1>2
  <2>5. d.k < t[i].data.k
    BY <2>3, <2>4 DEF d
  <2>6. t[i].data.k \in (Len(h) + 1)..s
    BY <1>1, <1>4, <1>5, <2>3, <2>5
  <2> QED
    BY <2>2, <2>3, <2>6
<1>8. \A k \in (Len(h) + 1)..s : \E i \in 1..Len(t) : t[i].op = "rw" /\ t[i].data.k = k
  <2> TAKE k \in (Len(h) + 1)..s
  <2>1. k \in (Len(g) + 1)..s /\ k # Len(g) + 1
    BY <1>1, <1>5
  <2>2. PICK i \in 1..Len(q) : q[i].op = "rw" /\ q[i].data.k = k
    BY <2>1 DEF OnTheWay
  <2>3. i # 1
    BY <1>4, <2>1, <2>2 DEF d
  <2>4. i - 1 \in 1..Len(t) /\ t[i - 1] = q[i]
    BY <1>1, <1>2, <2>3
  <2> QED
    BY <2>2, <2>4
<1>9. Len(g) + 1 < n => OnTheWay(t, h, id, n, s)
  BY <1>4, <1>5, <1>6, <1>7, <1>8 DEF OnTheWay
<1> QED
  BY <1>6, <1>9 DEF t, h, d

-----------------------------------------------------------------------------
(* What is in a queue.                                                      *)

Elems(q) == {q[i] : i \in 1..Len(q)}

Has(q, op) == \E x \in Elems(q) : x.op = op

LEMMA ElemsTake ==
    ASSUME NEW S, NEW q \in Seq(S), q # << >>
    PROVE  Elems(q) = {q[1]} \cup Elems(Tail(q))
<1> DEFINE t == Tail(q)
<1>1. /\ Len(q) \in Nat \ {0} /\ Len(t) = Len(q) - 1
      /\ \A i \in 1..(Len(q) - 1) : t[i] = q[i + 1]
  BY Take
<1> HIDE DEF t
<1>2. ASSUME NEW x \in Elems(q) PROVE x = q[1] \/ x \in Elems(t)
  <2>1. PICK i \in 1..Len(q) : x = q[i]
    BY <1>2 DEF Elems
  <2>2. i = 1 \/ (i - 1 \in 1..Len(t) /\ t[i - 1] = q[i])
    BY <1>1
  <2> QED
    BY <2>1, <2>2 DEF Elems
<1>3. q[1] \in Elems(q)
  BY <1>1 DEF Elems
<1>4. ASSUME NEW x \in Elems(t) PROVE x \in Elems(q)
  <2>1. PICK i \in 1..Len(t) : x = t[i]
    BY <1>4 DEF Elems
  <2>2. i + 1 \in 1..Len(q) /\ t[i] = q[i + 1]
    BY <1>1
  <2> QED
    BY <2>1, <2>2 DEF Elems
<1>5. Elems(q) = {q[1]} \cup Elems(t)
  BY <1>2, <1>3, <1>4
<1> QED
  BY <1>5 DEF t

LEMMA ElemsPut ==
    ASSUME NEW S, NEW q \in Seq(S), NEW x \in S
    PROVE  Elems(Append(q, x)) = Elems(q) \cup {x}
<1> DEFINE a == Append(q, x)
<1>1. /\ Len(q) \in Nat /\ Len(a) = Len(q) + 1
      /\ (\A i \in 1..Len(q) : a[i] = q[i]) /\ a[Len(q) + 1] = x
  BY Put
<1> HIDE DEF a
<1>2. 1..Len(a) = 1..Len(q) \cup {Len(q) + 1}
  BY <1>1
<1>3. Elems(a) = Elems(q) \cup {x}
  BY <1>1, <1>2 DEF Elems
<1> QED
  BY <1>3 DEF a

LEMMA ElemsPutTwo ==
    ASSUME NEW S, NEW q \in Seq(S), NEW x \in S, NEW y \in S
    PROVE  /\ q \o << x, y >> = Append(Append(q, x), y)
           /\ Append(q, x) \in Seq(S) /\ Append(q, x) # << >>
<1> DEFINE a == q \o << x, y >>
           b == Append(Append(q, x), y)
<1>1. /\ a \in Seq(S) /\ Len(q) \in Nat /\ Len(a) = Len(q) + 2
      /\ \A i \in 1..Len(q) : a[i] = q[i]
      /\ a[Len(q) + 1] = x /\ a[Len(q) + 2] = y
  BY PutTwo
<1>2. /\ Append(q, x) \in Seq(S) /\ Len(Append(q, x)) = Len(q) + 1
      /\ \A i \in 1..Len(q) : Append(q, x)[i] = q[i]
      /\ Append(q, x)[Len(q) + 1] = x
  BY Put
<1>3. /\ b \in Seq(S) /\ Len(b) = Len(q) + 2
      /\ \A i \in 1..(Len(q) + 1) : b[i] = Append(q, x)[i]
      /\ b[Len(q) + 2] = y
  BY <1>1, <1>2, Put
<1>4. Append(q, x) # << >>
  BY <1>1, <1>2, EmptySeq
<1>5. \A i \in 1..Len(a) : a[i] = b[i]
  <2> HIDE DEF a, b
  <2> TAKE i \in 1..Len(a)
  <2>1. i \in 1..Len(q) \/ i = Len(q) + 1 \/ i = Len(q) + 2
    BY <1>1
  <2>2. CASE i \in 1..Len(q)
    BY <1>1, <1>2, <1>3, <2>2
  <2>3. CASE i = Len(q) + 1
    BY <1>1, <1>2, <1>3, <2>3
  <2>4. CASE i = Len(q) + 2
    BY <1>1, <1>3, <2>4
  <2> QED
    BY <2>1, <2>2, <2>3, <2>4
<1>6. Len(a) = Len(b)
  BY <1>1, <1>3
<1> HIDE DEF a, b
<1>7. a = b
  BY <1>1, <1>3, <1>5, <1>6, SeqEqual
<1> QED
  BY <1>2, <1>4, <1>7 DEF a, b

LEMMA ElemsEmpty == Elems(<< >>) = {}
  BY EmptySeq DEF Elems

-----------------------------------------------------------------------------
(* The order of the guest's packets.                                        *)

\* What the secret's connection still has to say comes first.
SecretFirst(q) ==
    \A i, j \in 1..Len(q) : j < i /\ q[i].port = "secret" => q[j].port = "secret"

OneReset(q) == \A i, j \in 1..Len(q) : q[i].op = "rst" /\ q[j].op = "rst" => i = j

\* The connection of every request is reset.
Ended(q) ==
    \A i \in 1..Len(q) : q[i].op = "rw" => \E j \in 1..Len(q) : i < j /\ q[j].op = "rst"

LEMMA OrderTake ==
    ASSUME NEW q \in Seq(GuestPackets), q # << >>
    PROVE  /\ SecretFirst(q) => SecretFirst(Tail(q))
           /\ SecretFirst(q) /\ (\E x \in Elems(q) : x.port = "secret") => q[1].port = "secret"
           /\ OneReset(q) => OneReset(Tail(q)) /\ (q[1].op = "rst" => ~Has(Tail(q), "rst"))
           /\ Ended(q) => Ended(Tail(q)) /\ (q[1].op = "rw" => Has(Tail(q), "rst"))
<1> DEFINE t == Tail(q)
<1>1. /\ Len(q) \in Nat \ {0} /\ Len(t) = Len(q) - 1
      /\ \A i \in 1..(Len(q) - 1) : t[i] = q[i + 1]
  BY Take
<1> HIDE DEF t
<1>2. \A i \in 1..Len(t) : i + 1 \in 1..Len(q) /\ t[i] = q[i + 1] /\ i \in Nat
  BY <1>1
<1>3. SecretFirst(q) => SecretFirst(t)
  <2> HAVE SecretFirst(q)
  <2>1. ASSUME NEW i \in 1..Len(t), NEW j \in 1..Len(t), j < i, t[i].port = "secret"
        PROVE  t[j].port = "secret"
    <3>1. j + 1 < i + 1 /\ q[i + 1].port = "secret"
      BY <1>2, <2>1
    <3>2. q[j + 1].port = "secret"
      BY <1>2, <3>1 DEF SecretFirst
    <3> QED
      BY <1>2, <3>2
  <2> QED
    BY <2>1 DEF SecretFirst
<1>4. SecretFirst(q) /\ (\E x \in Elems(q) : x.port = "secret") => q[1].port = "secret"
  <2> HAVE SecretFirst(q) /\ (\E x \in Elems(q) : x.port = "secret")
  <2>1. PICK i \in 1..Len(q) : q[i].port = "secret"
    BY DEF Elems
  <2>2. i = 1 \/ (1 < i /\ 1 \in 1..Len(q))
    BY <1>1
  <2> QED
    BY <2>1, <2>2 DEF SecretFirst
<1>5. OneReset(q) => OneReset(t) /\ (q[1].op = "rst" => ~Has(t, "rst"))
  <2> HAVE OneReset(q)
  <2>1. ASSUME NEW i \in 1..Len(t), NEW j \in 1..Len(t), t[i].op = "rst", t[j].op = "rst"
        PROVE  i = j
    <3>1. i + 1 = j + 1
      BY <1>2, <2>1 DEF OneReset
    <3> QED
      BY <1>2, <3>1
  <2>2. ASSUME q[1].op = "rst", Has(t, "rst") PROVE FALSE
    <3>1. PICK i \in 1..Len(t) : t[i].op = "rst"
      BY <2>2 DEF Has, Elems
    <3>2. 1 \in 1..Len(q) /\ i + 1 # 1
      BY <1>1, <1>2
    <3> QED
      BY <1>2, <2>2, <3>1, <3>2 DEF OneReset
  <2> QED
    BY <2>1, <2>2 DEF OneReset
<1>6. Ended(q) => Ended(t) /\ (q[1].op = "rw" => Has(t, "rst"))
  <2> HAVE Ended(q)
  <2>1. ASSUME NEW i \in 1..Len(q), q[i].op = "rw"
        PROVE  \E j \in 1..Len(t) : i < j + 1 /\ t[j].op = "rst"
    <3>1. PICK j \in 1..Len(q) : i < j /\ q[j].op = "rst"
      BY <2>1 DEF Ended
    <3>2. j - 1 \in 1..Len(t) /\ t[j - 1] = q[j] /\ i < (j - 1) + 1
      BY <1>1, <3>1
    <3> QED
      BY <3>1, <3>2
  <2>2. Ended(t)
    <3>1. ASSUME NEW i \in 1..Len(t), t[i].op = "rw"
          PROVE  \E j \in 1..Len(t) : i < j /\ t[j].op = "rst"
      <4>1. PICK j \in 1..Len(t) : i + 1 < j + 1 /\ t[j].op = "rst"
        BY <1>2, <2>1, <3>1
      <4>2. i < j
        BY <1>2, <4>1
      <4> QED
        BY <4>1, <4>2
    <3> QED
      BY <3>1 DEF Ended
  <2>3. ASSUME q[1].op = "rw" PROVE Has(t, "rst")
    <3>1. 1 \in 1..Len(q)
      BY <1>1
    <3>2. \E j \in 1..Len(t) : t[j].op = "rst"
      BY <2>1, <2>3, <3>1
    <3> QED
      BY <3>2 DEF Has, Elems
  <2> QED
    BY <2>2, <2>3
<1> QED
  BY <1>3, <1>4, <1>5, <1>6 DEF t

LEMMA OrderPut ==
    ASSUME NEW q \in Seq(GuestPackets), NEW x \in GuestPackets
    PROVE  /\ SecretFirst(q) /\ x.port = "file" => SecretFirst(Append(q, x))
           /\ OneReset(q) /\ (x.op = "rst" => ~Has(q, "rst")) => OneReset(Append(q, x))
           /\ Ended(q) /\ x.op # "rw" => Ended(Append(q, x))
           /\ x.op = "rst" => Ended(Append(q, x))
<1> DEFINE a == Append(q, x)
<1>1. /\ Len(q) \in Nat /\ Len(a) = Len(q) + 1
      /\ (\A i \in 1..Len(q) : a[i] = q[i]) /\ a[Len(q) + 1] = x
  BY Put
<1> HIDE DEF a
<1>2. \A i \in 1..Len(a) : i = Len(q) + 1 \/ (i \in 1..Len(q) /\ a[i] = q[i] /\ i < Len(q) + 1)
  BY <1>1
<1>3. SecretFirst(q) /\ x.port = "file" => SecretFirst(a)
  <2> HAVE SecretFirst(q) /\ x.port = "file"
  <2>1. ASSUME NEW i \in 1..Len(a), NEW j \in 1..Len(a), j < i, a[i].port = "secret"
        PROVE  a[j].port = "secret"
    <3>1. i \in 1..Len(q) /\ a[i] = q[i]
      BY <1>1, <1>2, <2>1
    <3>2. j \in 1..Len(q) /\ a[j] = q[j]
      BY <1>1, <2>1, <3>1
    <3> QED
      BY <2>1, <3>1, <3>2 DEF SecretFirst
  <2> QED
    BY <2>1 DEF SecretFirst
<1>4. OneReset(q) /\ (x.op = "rst" => ~Has(q, "rst")) => OneReset(a)
  <2> HAVE OneReset(q) /\ (x.op = "rst" => ~Has(q, "rst"))
  <2>1. \A i \in 1..Len(q) : x.op = "rst" => q[i].op # "rst"
    BY DEF Has, Elems
  <2> QED
    BY <1>1, <1>2, <2>1 DEF OneReset
<1>5. Len(q) + 1 \in 1..Len(a) /\ 1..Len(q) \subseteq 1..Len(a)
  BY <1>1
<1>6. Ended(q) /\ x.op # "rw" => Ended(a)
  <2> HAVE Ended(q) /\ x.op # "rw"
  <2>1. ASSUME NEW i \in 1..Len(a), a[i].op = "rw"
        PROVE  \E j \in 1..Len(a) : i < j /\ a[j].op = "rst"
    <3>1. i \in 1..Len(q) /\ a[i] = q[i]
      BY <1>1, <1>2, <2>1
    <3>2. PICK j \in 1..Len(q) : i < j /\ q[j].op = "rst"
      BY <2>1, <3>1 DEF Ended
    <3> QED
      BY <1>1, <1>5, <3>2
  <2> QED
    BY <2>1 DEF Ended
<1>7. x.op = "rst" => Ended(a)
  <2> HAVE x.op = "rst"
  <2>1. ASSUME NEW i \in 1..Len(a), a[i].op = "rw"
        PROVE  \E j \in 1..Len(a) : i < j /\ a[j].op = "rst"
    BY <1>1, <1>2, <1>5, <2>1
  <2> QED
    BY <2>1 DEF Ended
<1> QED
  BY <1>3, <1>4, <1>6, <1>7 DEF a

-----------------------------------------------------------------------------
(* The order of the host's packets.                                         *)

\* No data and no second RESPONSE after a RESPONSE.
Quiet(q) ==
    \A i, j \in 1..Len(q) : i < j /\ q[i].op = "response" => q[j].op \notin {"response", "rw"}

LEMMA QuietTake ==
    ASSUME NEW q \in Seq(HostPackets), q # << >>, Quiet(q)
    PROVE  /\ Quiet(Tail(q))
           /\ q[1].op = "response" => ~Has(Tail(q), "response") /\ ~Has(Tail(q), "rw")
<1> DEFINE t == Tail(q)
<1>1. /\ Len(q) \in Nat \ {0} /\ Len(t) = Len(q) - 1
      /\ \A i \in 1..(Len(q) - 1) : t[i] = q[i + 1]
  BY Take
<1> HIDE DEF t
<1>2. \A i \in 1..Len(t) : i + 1 \in 1..Len(q) /\ t[i] = q[i + 1] /\ i \in Nat /\ 1 < i + 1
  BY <1>1
<1>3. Quiet(t)
  <2>1. ASSUME NEW i \in 1..Len(t), NEW j \in 1..Len(t), i < j, t[i].op = "response"
        PROVE  t[j].op \notin {"response", "rw"}
    <3>1. i + 1 < j + 1 /\ q[i + 1].op = "response"
      BY <1>2, <2>1
    <3>2. q[j + 1].op \notin {"response", "rw"}
      BY <1>2, <3>1 DEF Quiet
    <3> QED
      BY <1>2, <3>2
  <2> QED
    BY <2>1 DEF Quiet
<1>4. ASSUME q[1].op = "response", NEW op \in {"response", "rw"}, Has(t, op) PROVE FALSE
  <2>1. PICK i \in 1..Len(t) : t[i].op = op
    BY <1>4 DEF Has, Elems
  <2>2. 1 \in 1..Len(q)
    BY <1>1
  <2>3. q[i + 1].op \notin {"response", "rw"}
    BY <1>2, <1>4, <2>2 DEF Quiet
  <2> QED
    BY <1>2, <2>1, <2>3
<1> QED
  BY <1>3, <1>4 DEF t

LEMMA QuietPut ==
    ASSUME NEW q \in Seq(HostPackets), NEW x \in HostPackets, Quiet(q),
           x.op \notin {"response", "rw"} \/ ~Has(q, "response")
    PROVE  Quiet(Append(q, x))
<1> DEFINE a == Append(q, x)
<1>1. /\ Len(q) \in Nat /\ Len(a) = Len(q) + 1
      /\ (\A i \in 1..Len(q) : a[i] = q[i]) /\ a[Len(q) + 1] = x
  BY Put
<1> HIDE DEF a
<1>2. ASSUME NEW i \in 1..Len(a), NEW j \in 1..Len(a), i < j, a[i].op = "response"
      PROVE  a[j].op \notin {"response", "rw"}
  <2>1. i \in 1..Len(q) /\ a[i] = q[i]
    BY <1>1, <1>2
  <2>2. Has(q, "response")
    BY <1>2, <2>1 DEF Has, Elems
  <2>3. CASE j = Len(q) + 1
    BY <1>1, <2>2, <2>3
  <2>4. CASE j # Len(q) + 1
    <3>1. j \in 1..Len(q) /\ a[j] = q[j]
      BY <1>1, <2>4
    <3> QED
      BY <1>2, <2>1, <3>1 DEF Quiet
  <2> QED
    BY <2>3, <2>4
<1>3. Quiet(a)
  BY <1>2 DEF Quiet
<1> QED
  BY <1>3 DEF a

-----------------------------------------------------------------------------
(* Which packets can be under way together.                                 *)

FetchingSecret == port = "secret" /\ pc # "idle"

\* Until the secret has been fetched there is nothing else, and its connection
\* is requested, refused or made.
SecretInv ==
    FetchingSecret =>
    /\ \A x \in Elems(g2h) : x.port = "secret" /\ x.op # "rst"
    /\ FileConns = {} /\ got = << >>
    /\ \A x \in Elems(h2g) : x.op = "rw" => Own(x.data, 0, 1, 1)
    /\ pc = "boot" => g2h = << >> /\ h2g = << >> /\ conn["secret"] = 0
    /\ pc = "connect" =>
          /\ ~Has(g2h, "rw")
          /\ \/ conn["secret"] = 0 /\ h2g = << >> /\ Tail(g2h) = << >>
             \/ conn["secret"] = 0 /\ ~Has(g2h, "request") /\ ~Has(h2g, "response")
             \/ conn["secret"] # 0 /\ ~Has(g2h, "request") /\ ~Has(h2g, "rst")
    /\ pc = "resp" => conn["secret"] # 0 /\ ~Has(g2h, "request")

\* What the guest has sent from then on: one reset at most, for a connection
\* there is, and before it all that belongs to that connection.
SentOf(q) ==
    /\ SecretFirst(q) /\ OneReset(q)
    /\ \A x \in Elems(q) : x.port = "secret" => x.op # "request" /\ FileConns = {}
    /\ \A x \in Elems(q) : x.op = "rst" => conn[x.port] # 0
    /\ conn["secret"] # 0 => \E x \in Elems(q) : x.op = "rst" /\ x.port = "secret"

SentInv == ~FetchingSecret => SentOf(g2h) /\ (pc # "resp" => Ended(g2h))

\* A connection is live while it has its ports, and is served once.
HostInv ==
    /\ \A p \in Ports : conn[p] # 0 => conns[conn[p]].live
    /\ \A c \in 1..Len(conns) : conns[c].live => \E p \in Ports : conn[p] = c
    /\ \A i, j \in 1..Len(backlog) : i < j => backlog[i] < backlog[j]
    /\ \A c \in Waiting : server < c
    /\ out # None => conns[server].req # NoCall
    /\ conn["file"] # 0 /\ conns[conn["file"]].req = NoCall =>
          conn["file"] \in Waiting \cup {server}

\* Nothing has been asked on a connection that is not to be reset, unless the
\* call waits for the answer.
FreshInv ==
    conn["file"] # 0 /\ ~Has(g2h, "rst") /\ pc # "resp" => conns[conn["file"]].req = NoCall

\* A RESPONSE that is on the way is that of the current connection.
ConnectInv ==
    pc = "connect" /\ port = "file" =>
    /\ Quiet(h2g)
    /\ Has(h2g, "response") => conn["file"] # 0 /\ ~Has(g2h, "rst")

\* How many of the n pieces of its answer the file server has sent.
Sent(n) ==
    IF conn["file"] \in Waiting THEN 0
    ELSE IF conn["file"] # server THEN n
    ELSE IF out = None THEN 0 ELSE n - Len(out)

\* The answer has n pieces: the guest has some, some are on the way, and the
\* server has the others.
AnswerOf(n) ==
    /\ OnTheWay(h2g, got, call.id, n, Sent(n))
    /\ conn["file"] = server /\ out # None =>
          Len(out) <= n /\ \A k \in 1..Len(out) : Own(out[k], call.id, n - Len(out) + k, n)

RespInv ==
    pc = "resp" /\ port = "file" =>
    /\ conn["file"] # 0 /\ ~Has(g2h, "rst") /\ ~Has(h2g, "response")
    /\ \A x \in Elems(g2h) : x.op = "rw" => x.req = call
    /\ conns[conn["file"]].req \in {NoCall, call}
    /\ \E n \in 1..MaxPieces : AnswerOf(n)

LinkInv ==
    /\ SecretInv /\ SentInv /\ HostInv /\ FreshInv /\ ConnectInv /\ RespInv
    /\ AnswersOwnRequest /\ budget.timeouts["secret"] = 0

\* What the kernel does with the first packet of the guest.
First == g2h[1]

\* It makes a connection,
Accepted(p) ==
    /\ First.op = "request" /\ First.port = p /\ conn[p] = 0
    /\ Len(conns') = Len(conns) + 1 /\ \A c \in 1..Len(conns) : conns'[c] = conns[c]
    /\ conns'[Len(conns) + 1].live /\ conns'[Len(conns) + 1].req = NoCall
    /\ conn' = [conn EXCEPT ![p] = Len(conns) + 1]
    /\ backlog' = IF p = "file" THEN Append(backlog, Len(conns) + 1) ELSE backlog
    /\ h2g' = Append(h2g, ToGuest("response"))

\* drops the packet or resets the sender,
Refused ==
    /\ First.op # "rst" /\ UNCHANGED << conns, conn, backlog >>
    /\ First.op = "request" \/ conn[First.port] = 0
    /\ h2g' = h2g \/ (conn[First.port] = 0 /\ h2g' = Append(h2g, ToGuest("rst")))

\* hands it to a connection,
Taken(p) ==
    /\ First.op \in {"rw", "credit"} /\ First.port = p /\ conn[p] # 0
    /\ Len(conns') = Len(conns) /\ UNCHANGED << conn, backlog, h2g >>
    /\ \A c \in 1..Len(conns) :
          /\ conns'[c].live = conns[c].live
          /\ conns'[c].req = IF c = conn[p] /\ First.op = "rw" THEN First.req ELSE conns[c].req

\* or ends one.
Ends(p) ==
    /\ First.op = "rst" /\ First.port = p
    /\ Len(conns') = Len(conns) /\ UNCHANGED << backlog, h2g >>
    /\ conn' = [conn EXCEPT ![p] = 0]
    /\ \A c \in 1..Len(conns) : conns'[c].req = conns[c].req
    /\ \A c \in 1..Len(conns) : c # conn[p] => conns'[c].live = conns[c].live
    /\ conn[p] # 0 => ~conns'[conn[p]].live

LEMMA KernelEffect ==
    ASSUME TypeInv, Kernel
    PROVE  /\ g2h # << >> /\ g2h' = Tail(g2h) /\ First \in GuestPackets /\ First.port \in Ports
           /\ UNCHANGED << guest, fwd_cnt, server, out, files, budget >>
           /\ Refused \/ \E p \in Ports : Accepted(p) \/ Taken(p) \/ Ends(p)
<1> DEFINE pkt == Head(g2h)
<1>1. /\ UNCHANGED << guest, fwd_cnt, server, out, files, budget >> /\ g2h' = Tail(g2h)
      /\ g2h # << >> /\ (KernelRequest(pkt) \/ KernelData(pkt) \/ KernelReset(pkt))
  BY DEF Kernel
<1>2. pkt = First /\ First \in GuestPackets
  BY <1>1, Take DEF TypeInv, GuestType, First
<1> HIDE DEF pkt
<1>3. First.port \in Ports /\ First.fwd \in Nat
  BY <1>2 DEF GuestPackets, Ports
<1>4. /\ HostType /\ conns \in Seq(Connections) /\ conn \in [Ports -> 0..Len(conns)]
      /\ Len(conns) \in Nat /\ \A c \in 1..Len(conns) : conns[c] \in Connections
  BY FileConnsExist DEF TypeInv, HostType
<1>5. DOMAIN conns = 1..Len(conns)
  BY <1>4, LenProperties
<1>6. CASE Refused
  BY <1>1, <1>2, <1>3, <1>6
<1>7. CASE KernelRequest(pkt) /\ ~Refused
  <2> DEFINE nc == NewConn(First.fwd)
  <2>1. /\ First.op = "request" /\ conn[First.port] = 0 /\ conns' = Append(conns, nc)
        /\ conn' = [conn EXCEPT ![First.port] = Len(conns) + 1]
        /\ backlog' = IF First.port = "file" THEN Append(backlog, Len(conns) + 1) ELSE backlog
        /\ h2g' = Append(h2g, ToGuest("response"))
    BY <1>2, <1>7 DEF KernelRequest, Refused, Reply
  <2>2. nc \in Connections /\ nc.req = NoCall /\ nc.live
    BY <1>3 DEF NewConn, Connections, Calls
  <2> HIDE DEF nc
  <2>3. /\ Len(conns') = Len(conns) + 1 /\ conns'[Len(conns) + 1] = nc
        /\ \A c \in 1..Len(conns) : conns'[c] = conns[c]
    BY <1>4, <2>1, <2>2, Put
  <2>4. Accepted(First.port)
    BY <2>1, <2>2, <2>3 DEF Accepted
  <2> QED
    BY <1>1, <1>2, <1>3, <2>4
<1>8. CASE KernelData(pkt) /\ ~Refused
  <2> DEFINE cp == conn[First.port]
  <2>1. /\ First.op \in {"rw", "credit"} /\ cp # 0 /\ UNCHANGED << conn, backlog, h2g >>
        /\ conns' = [conns EXCEPT ![cp].fwd = First.fwd,
                        ![cp].req = IF First.op = "rw" THEN First.req ELSE @]
    BY <1>2, <1>8 DEF KernelData, Refused, Reply
  <2>2. cp \in 1..Len(conns)
    BY <1>3, <1>4, <2>1
  <2> HIDE DEF cp
  <2>3. /\ conns' = [c \in DOMAIN conns |-> conns'[c]] /\ DOMAIN conns' = DOMAIN conns
        /\ \A c \in DOMAIN conns : c # cp => conns'[c] = conns[c]
        /\ conns'[cp] = [conns[cp] EXCEPT !.fwd = First.fwd,
                            !.req = IF First.op = "rw" THEN First.req ELSE @]
    BY <1>5, <2>1, <2>2
  <2>4. conns[cp] \in Connections
    BY <1>4, <2>2
  <2>5. /\ conns'[cp].live = conns[cp].live
        /\ conns'[cp].req = IF First.op = "rw" THEN First.req ELSE conns[cp].req
    BY <2>3, <2>4 DEF Connections
  <2>6. Len(conns') = Len(conns)
    <3>1. conns' \in Seq(Connections)
      BY KernelTypes DEF TypeInv, HostType
    <3>2. DOMAIN conns' = 1..Len(conns') /\ Len(conns') \in Nat
      BY <3>1, LenProperties
    <3> QED
      BY <1>4, <1>5, <2>3, <3>2
  <2>7. \A c \in 1..Len(conns) :
          /\ conns'[c].live = conns[c].live
          /\ conns'[c].req = IF c = cp /\ First.op = "rw" THEN First.req ELSE conns[c].req
    BY <1>5, <2>3, <2>5
  <2>8. Taken(First.port)
    <3>1. \A c \in 1..Len(conns) :
            /\ conns'[c].live = conns[c].live
            /\ conns'[c].req = IF c = conn[First.port] /\ First.op = "rw" THEN First.req
                              ELSE conns[c].req
      BY <2>7 DEF cp
    <3> QED
      BY <2>1, <2>6, <3>1 DEF Taken, cp
  <2> QED
    BY <1>1, <1>2, <1>3, <2>8
<1>9. CASE KernelReset(pkt)
  <2> DEFINE cp == conn[First.port]
  <2>1. /\ First.op = "rst" /\ UNCHANGED << backlog, h2g >>
        /\ conn' = [conn EXCEPT ![First.port] = 0]
        /\ conns' = [i \in 1..Len(conns) |-> IF i = cp THEN [conns[i] EXCEPT !.live = FALSE]
                                             ELSE conns[i]]
    BY <1>2, <1>5, <1>9 DEF KernelReset
  <2>2. cp \in 0..Len(conns)
    BY <1>3, <1>4
  <2> HIDE DEF cp
  <2>3. \A c \in 1..Len(conns) : /\ c # cp => conns'[c] = conns[c]
                                 /\ c = cp => conns'[c] = [conns[c] EXCEPT !.live = FALSE]
    BY <2>1
  <2>4. \A c \in 1..Len(conns) : c = cp => conns'[c].req = conns[c].req /\ ~conns'[c].live
    BY <1>4, <2>3 DEF Connections
  <2>5. Len(conns') = Len(conns)
    <3>1. conns' \in Seq(Connections)
      BY KernelTypes DEF TypeInv, HostType
    <3>2. DOMAIN conns' = 1..Len(conns') /\ Len(conns') \in Nat
      BY <3>1, LenProperties
    <3> QED
      BY <1>4, <2>1, <3>2
  <2>6. cp # 0 => cp \in 1..Len(conns)
    BY <1>4, <2>2
  <2>7. Ends(First.port)
    BY <2>1, <2>3, <2>4, <2>5, <2>6 DEF Ends, cp
  <2> QED
    BY <1>1, <1>2, <1>3, <2>7
<1> QED
  BY <1>1, <1>2, <1>3, <1>6, <1>7, <1>8, <1>9

\* Nothing but the count of what was sent changes.
SameConns ==
    /\ Len(conns') = Len(conns)
    /\ \A c \in 1..Len(conns) : conns'[c].live = conns[c].live /\ conns'[c].req = conns[c].req

LEMMA SentOnly ==
    ASSUME TypeInv, SecretServer \/ ServerSend
    PROVE  SameConns
<1>1. /\ HostType /\ conns \in Seq(Connections) /\ Len(conns) \in Nat
      /\ \A c \in 1..Len(conns) : conns[c] \in Connections
      /\ conn["secret"] \in 0..Len(conns) /\ server \in 0..Len(conns)
  BY FileConnsExist DEF TypeInv, HostType
<1>2. DOMAIN conns = 1..Len(conns)
  BY <1>1, LenProperties
<1>3. ASSUME NEW c \in 1..Len(conns), NEW n, conns' = [conns EXCEPT ![c].sent = n]
      PROVE  SameConns
  <2>1. /\ DOMAIN conns' = DOMAIN conns /\ conns'[c] = [conns[c] EXCEPT !.sent = n]
        /\ \A e \in 1..Len(conns) : e # c => conns'[e] = conns[e]
    BY <1>2, <1>3
  <2>2. conns'[c].live = conns[c].live /\ conns'[c].req = conns[c].req
    BY <1>1, <2>1 DEF Connections
  <2>3. conns' \in Seq(Connections)
    BY ServerTypes DEF TypeInv, HostType, FileServer
  <2>4. DOMAIN conns' = 1..Len(conns') /\ Len(conns') \in Nat
    BY <2>3, LenProperties
  <2>5. Len(conns') = Len(conns)
    BY <1>1, <1>2, <2>1, <2>4
  <2> QED
    BY <2>1, <2>2, <2>5 DEF SameConns
<1>4. CASE SecretServer
  <2>1. conn["secret"] # 0 /\ conns' = [conns EXCEPT ![conn["secret"]].sent = 1]
    BY <1>4 DEF SecretServer
  <2>2. conn["secret"] \in 1..Len(conns)
    BY <1>1, <2>1
  <2> QED
    BY <1>3, <2>1, <2>2
<1>5. CASE ServerSend
  <2>1. server # 0 /\ conns' = [conns EXCEPT ![server].sent = conns[server].sent + 1]
    BY <1>5 DEF ServerSend
  <2>2. server \in 1..Len(conns)
    BY <1>1, <2>1
  <2> QED
    BY <1>3, <2>1, <2>2
<1> QED
  BY <1>4, <1>5

-----------------------------------------------------------------------------
(* HostInv is kept.                                                         *)

LEMMA HostInvKept ==
    ASSUME TypeInv, HostInv, SameConns, UNCHANGED << conn, backlog, server >>,
           out' # None => out # None \/ conns[server].req # NoCall, server = 0 => out' = None
    PROVE  HostInv'
<1>1. Waiting' = Waiting
  BY DEF Waiting
<1>2. /\ Len(conns) \in Nat /\ conn["file"] \in 0..Len(conns) /\ server \in 0..Len(conns)
      /\ conn \in [Ports -> 0..Len(conns)]
  BY FileConnsExist DEF TypeInv, HostType
<1>3. \A p \in Ports : conn[p] # 0 => conn[p] \in 1..Len(conns)
  BY <1>2
<1>4. (server # 0 => server \in 1..Len(conns)) /\ (conn["file"] # 0 => conn["file"] \in 1..Len(conns))
  BY <1>2
<1> QED
  BY <1>1, <1>3, <1>4 DEF HostInv, SameConns

LEMMA HostInvKernel ==
    ASSUME TypeInv, HostInv, Kernel
    PROVE  HostInv'
<1>1. /\ First \in GuestPackets /\ UNCHANGED << server, out >>
      /\ Refused \/ \E p \in Ports : Accepted(p) \/ Taken(p) \/ Ends(p)
  BY KernelEffect
<1>2. /\ HostType /\ Len(conns) \in Nat /\ conn \in [Ports -> 0..Len(conns)]
      /\ conn["file"] \in 0..Len(conns) /\ conn["secret"] \in 0..Len(conns)
      /\ server \in 0..Len(conns) /\ Waiting \subseteq 1..Len(conns)
      /\ backlog \in Seq(1..Len(conns)) /\ (server = 0 => out = None)
      /\ conn["secret"] \notin FileConns
  BY FileConnsExist DEF TypeInv, HostType
<1>3. \A p \in Ports : conn[p] # 0 => conn[p] \in 1..Len(conns)
  BY <1>2
<1>4. server # 0 => server \in 1..Len(conns)
  BY <1>2
<1>5. \A p, q \in Ports : conn[p] # 0 /\ conn[p] = conn[q] => p = q
  BY <1>2 DEF Ports, FileConns
<1>6. CASE Refused
  <2>1. SameConns /\ UNCHANGED << conn, backlog, server, out >>
    BY <1>1, <1>6 DEF Refused, SameConns
  <2> QED
    BY <1>2, <2>1, HostInvKept
<1>7. ASSUME NEW p \in Ports, Accepted(p) PROVE HostInv'
  <2> DEFINE new == Len(conns) + 1
  <2>1. /\ conn[p] = 0 /\ Len(conns') = new /\ (\A c \in 1..Len(conns) : conns'[c] = conns[c])
        /\ conns'[new].live /\ conns'[new].req = NoCall
        /\ conn' = [conn EXCEPT ![p] = new]
        /\ backlog' = IF p = "file" THEN Append(backlog, new) ELSE backlog
    BY <1>7 DEF Accepted
  <2>2. conn'[p] = new /\ \A q \in Ports : q # p => conn'[q] = conn[q]
    BY <1>2, <2>1
  <2>3. 1..new = 1..Len(conns) \cup {new} /\ new # 0
        /\ (\A c \in 1..Len(conns) : c < new) /\ server < new /\ new \in Nat
    <3>1. Len(conns) \in Nat /\ server \in 0..Len(conns)
      BY <1>2
    <3>2. 1..new = 1..Len(conns) \cup {new}
      BY <3>1
    <3> QED
      BY <3>1, <3>2
  <2> HIDE DEF new
  <2>4. \A q \in Ports : conn'[q] # 0 => conns'[conn'[q]].live
    BY <1>3, <2>1, <2>2 DEF HostInv
  <2>5. \A c \in 1..Len(conns') : conns'[c].live => \E q \in Ports : conn'[q] = c
    <3> TAKE c \in 1..Len(conns')
    <3>1. CASE c = new
      BY <2>2, <3>1
    <3>2. CASE c \in 1..Len(conns)
      <4> HAVE conns'[c].live
      <4>1. PICK q \in Ports : conn[q] = c
        BY <2>1, <3>2 DEF HostInv
      <4>2. c # 0
        BY <1>2, <3>2
      <4> QED
        BY <2>1, <2>2, <4>1, <4>2
    <3> QED
      BY <2>1, <2>3, <3>1, <3>2
  <2>6. /\ Len(backlog) \in Nat
        /\ \A i \in 1..Len(backlog) : backlog[i] \in 1..Len(conns)
    BY <1>2, LenProperties, ElementOfSeq
  <2>7. p = "file" => /\ Len(backlog') = Len(backlog) + 1 /\ backlog'[Len(backlog) + 1] = new
                      /\ \A i \in 1..Len(backlog) : backlog'[i] = backlog[i]
    <3>1. backlog \in Seq(Nat)
      BY <1>2, SeqMonotonic
    <3> QED
      BY <2>1, <2>3, <3>1, Put
  <2>8. Waiting' = IF p = "file" THEN Waiting \cup {new} ELSE Waiting
    <3>1. CASE p = "file"
      <4>1. 1..Len(backlog') = 1..Len(backlog) \cup {Len(backlog) + 1}
        BY <2>6, <2>7, <3>1
      <4> QED
        BY <2>7, <3>1, <4>1 DEF Waiting
    <3>2. CASE p # "file"
      BY <2>1, <3>2 DEF Waiting
    <3> QED
      BY <3>1, <3>2
  <2>9. \A i, j \in 1..Len(backlog') : i < j => backlog'[i] < backlog'[j]
    <3>1. CASE p = "file"
      <4> TAKE i, j \in 1..Len(backlog')
      <4> HAVE i < j
      <4>1. i \in 1..Len(backlog) /\ backlog'[i] = backlog[i] /\ backlog[i] < new
        BY <2>3, <2>6, <2>7, <3>1
      <4>2. j = Len(backlog) + 1 \/ (j \in 1..Len(backlog) /\ backlog'[j] = backlog[j])
        BY <2>6, <2>7, <3>1
      <4> QED
        BY <2>7, <3>1, <4>1, <4>2 DEF HostInv
    <3>2. CASE p # "file"
      BY <2>1, <3>2 DEF HostInv
    <3> QED
      BY <3>1, <3>2
  <2>10. \A c \in Waiting' : server' < c
    BY <1>1, <2>3, <2>8 DEF HostInv
  <2>11. out' # None => conns'[server'].req # NoCall
    BY <1>1, <1>2, <1>4, <2>1 DEF HostInv
  <2>12. conn'["file"] # 0 /\ conns'[conn'["file"]].req = NoCall =>
            conn'["file"] \in Waiting' \cup {server'}
    <3>1. CASE p = "file"
      BY <2>2, <2>8, <3>1
    <3>2. CASE p # "file"
      <4>1. "file" \in Ports /\ conn'["file"] = conn["file"]
        BY <2>2, <3>2 DEF Ports
      <4> QED
        BY <1>1, <1>3, <2>1, <2>8, <3>2, <4>1 DEF HostInv
    <3> QED
      BY <3>1, <3>2
  <2> QED
    BY <2>4, <2>5, <2>9, <2>10, <2>11, <2>12 DEF HostInv
<1>8. ASSUME NEW p \in Ports, Taken(p) PROVE HostInv'
  <2>1. /\ First.op \in {"rw", "credit"} /\ Len(conns') = Len(conns) /\ UNCHANGED << conn, backlog >>
        /\ \A c \in 1..Len(conns) : conns'[c].live = conns[c].live
        /\ \A c \in 1..Len(conns) :
              conns'[c].req = IF c = conn[p] /\ First.op = "rw" THEN First.req ELSE conns[c].req
    BY <1>8 DEF Taken
  <2>2. First.op = "rw" => First.req # NoCall
    BY <1>1 DEF GuestPackets, NoCall, SecretCall, FileCalls, Ops
  <2>3. \A c \in 1..Len(conns) : conns'[c].req = NoCall => conns[c].req = NoCall
    BY <2>1, <2>2
  <2>4. Waiting' = Waiting
    BY <2>1 DEF Waiting
  <2>5. "file" \in Ports
    BY DEF Ports
  <2> QED
    BY <1>1, <1>2, <1>3, <1>4, <2>1, <2>3, <2>4, <2>5 DEF HostInv
<1>9. ASSUME NEW p \in Ports, Ends(p) PROVE HostInv'
  <2>1. /\ Len(conns') = Len(conns) /\ UNCHANGED backlog /\ conn' = [conn EXCEPT ![p] = 0]
        /\ \A c \in 1..Len(conns) : conns'[c].req = conns[c].req
        /\ \A c \in 1..Len(conns) : c # conn[p] => conns'[c].live = conns[c].live
        /\ conn[p] # 0 => ~conns'[conn[p]].live
    BY <1>9 DEF Ends
  <2>2. conn'[p] = 0 /\ \A q \in Ports : q # p => conn'[q] = conn[q]
    BY <1>2, <2>1
  <2>3. \A q \in Ports : conn'[q] # 0 => conns'[conn'[q]].live
    BY <1>3, <1>5, <2>1, <2>2 DEF HostInv
  <2>4. \A c \in 1..Len(conns') : conns'[c].live => \E q \in Ports : conn'[q] = c
    <3> TAKE c \in 1..Len(conns')
    <3> HAVE conns'[c].live
    <3>1. c \in 1..Len(conns) /\ c # 0
      BY <1>2, <2>1
    <3>2. c # conn[p]
      BY <2>1, <3>1
    <3>3. PICK q \in Ports : conn[q] = c
      BY <2>1, <3>1, <3>2 DEF HostInv
    <3> QED
      BY <2>2, <3>2, <3>3
  <2>5. Waiting' = Waiting
    BY <2>1 DEF Waiting
  <2>6. "file" \in Ports
    BY DEF Ports
  <2>7. conn'["file"] # 0 => conn'["file"] = conn["file"]
    BY <2>2, <2>6
  <2>8. out' # None => conns'[server'].req # NoCall
    BY <1>1, <1>2, <1>4, <2>1 DEF HostInv
  <2>9. conn'["file"] # 0 /\ conns'[conn'["file"]].req = NoCall =>
            conn'["file"] \in Waiting' \cup {server'}
    BY <1>1, <1>3, <2>1, <2>5, <2>6, <2>7 DEF HostInv
  <2> QED
    BY <1>1, <2>1, <2>3, <2>4, <2>5, <2>8, <2>9 DEF HostInv
<1> QED
  BY <1>1, <1>6, <1>7, <1>8, <1>9

LEMMA HostInvServer ==
    ASSUME TypeInv, HostInv, KernelCredit \/ SecretServer \/ FileServer
    PROVE  HostInv'
<1>1. /\ HostType /\ Len(conns) \in Nat /\ conn \in [Ports -> 0..Len(conns)]
      /\ conn["file"] \in 0..Len(conns) /\ server \in 0..Len(conns)
      /\ Waiting \subseteq 1..Len(conns) /\ backlog \in Seq(1..Len(conns))
      /\ (server = 0 => out = None)
  BY FileConnsExist DEF TypeInv, HostType
<1>2. CASE KernelCredit \/ SecretServer \/ ServerSend \/ ServerHandle
  <2>1. SameConns
    <3>1. CASE KernelCredit \/ ServerHandle
      BY <3>1 DEF KernelCredit, ServerHandle, SameConns
    <3>2. CASE SecretServer \/ ServerSend
      BY <3>2, SentOnly
    <3> QED
      BY <1>2, <3>1, <3>2
  <2>2. /\ UNCHANGED << conn, backlog, server >>
        /\ out' # None => out # None \/ conns[server].req # NoCall
        /\ server = 0 => out' = None
    <3>1. CASE KernelCredit \/ SecretServer
      BY <1>1, <3>1 DEF KernelCredit, SecretServer, fileserver
    <3>2. CASE ServerSend
      BY <3>2 DEF ServerSend
    <3>3. CASE ServerHandle
      BY <3>3 DEF ServerHandle
    <3> QED
      BY <1>2, <3>1, <3>2, <3>3
  <2> QED
    BY <2>1, <2>2, HostInvKept
<1>3. CASE ServerAccept
  <2>1. /\ server = 0 /\ backlog # << >> /\ server' = Head(backlog) /\ backlog' = Tail(backlog)
        /\ UNCHANGED << conns, conn, out >>
    BY <1>3 DEF ServerAccept
  <2>2. /\ Len(backlog) \in Nat \ {0} /\ server' = backlog[1] /\ Len(backlog') = Len(backlog) - 1
        /\ \A i \in 1..(Len(backlog) - 1) : backlog'[i] = backlog[i + 1]
    BY <1>1, <2>1, Take
  <2>3. Waiting = {server'} \cup Waiting'
    <3>1. Elems(backlog) = {backlog[1]} \cup Elems(Tail(backlog))
      BY <1>1, <2>1, ElemsTake
    <3> QED
      BY <2>1, <2>2, <3>1 DEF Waiting, Elems
  <2>4. \A i, j \in 1..Len(backlog') : i < j => backlog'[i] < backlog'[j]
    <3> TAKE i, j \in 1..Len(backlog')
    <3> HAVE i < j
    <3>1. i + 1 \in 1..Len(backlog) /\ j + 1 \in 1..Len(backlog) /\ i + 1 < j + 1
          /\ backlog'[i] = backlog[i + 1] /\ backlog'[j] = backlog[j + 1]
      BY <2>2
    <3> QED
      BY <3>1 DEF HostInv
  <2>5. \A c \in Waiting' : server' < c
    <3> TAKE c \in Waiting'
    <3>1. PICK i \in 1..Len(backlog') : c = backlog'[i]
      BY DEF Waiting
    <3>2. i + 1 \in 1..Len(backlog) /\ 1 \in 1..Len(backlog) /\ 1 < i + 1
          /\ backlog'[i] = backlog[i + 1]
      BY <2>2
    <3> QED
      BY <2>2, <3>1, <3>2 DEF HostInv
  <2>6. out' = None
    BY <1>1, <2>1
  <2> QED
    BY <2>1, <2>3, <2>4, <2>5, <2>6 DEF HostInv
<1>4. CASE ServerClose
  <2>1. /\ server # 0 /\ server' = 0 /\ out' = None /\ UNCHANGED << conns, conn, backlog >>
        /\ \/ conns[server].live /\ out = << >>
           \/ ~conns[server].live
    BY <1>4 DEF ServerClose
  <2>2. Waiting' = Waiting
    BY <2>1 DEF Waiting
  <2>3. \A c \in Waiting' : server' < c
    BY <1>1, <2>1, <2>2
  <2>4. conn["file"] # 0 /\ conns[conn["file"]].req = NoCall => conn["file"] # server
    <3>1. conn["file"] # 0 => conns[conn["file"]].live
      BY DEF HostInv, Ports
    <3>2. << >> # None
      BY EmptySeq, VsockConstants
    <3> QED
      BY <2>1, <3>1, <3>2 DEF HostInv
  <2> QED
    BY <2>1, <2>2, <2>3, <2>4 DEF HostInv
<1> QED
  BY <1>2, <1>3, <1>4 DEF FileServer

-----------------------------------------------------------------------------
(* The guest's steps.                                                       *)

\* A step that leaves the host alone.
LEMMA GuestStepHost ==
    ASSUME TypeInv, HostInv, UNCHANGED << conns, conn, fileserver >>
    PROVE  HostInv' /\ FileConns' = FileConns /\ Waiting' = Waiting
  BY DEF HostInv, fileserver, FileConns, Waiting

\* Packets of the file ports go to the end.
LEMMA SentPut ==
    ASSUME TypeInv, NEW q \in Seq(GuestPackets), SentOf(q), NEW x \in GuestPackets,
           x.port = "file", x.op = "rst" => conn["file"] # 0 /\ ~Has(q, "rst")
    PROVE  SentOf(Append(q, x))
<1>1. Elems(Append(q, x)) = Elems(q) \cup {x}
  BY ElemsPut
<1>2. SecretFirst(Append(q, x)) /\ OneReset(Append(q, x))
  BY OrderPut DEF SentOf
<1> QED
  BY <1>1, <1>2 DEF SentOf

\* When the secret has been fetched.
LEMMA SecretOver ==
    ASSUME NEW q \in Seq(GuestPackets), \A x \in Elems(q) : x.port = "secret" /\ x.op # "rst"
    PROVE  /\ SecretFirst(q) /\ OneReset(q)
           /\ ~Has(q, "rst") /\ (~Has(q, "rw") => Ended(q))
           /\ \A x \in GuestPackets : x.op = "rst" /\ x.port = "secret" =>
                 SecretFirst(Append(q, x)) /\ OneReset(Append(q, x)) /\ Ended(Append(q, x))
<1>1. \A i \in 1..Len(q) : q[i] \in Elems(q)
  BY DEF Elems
<1>2. SecretFirst(q) /\ OneReset(q) /\ ~Has(q, "rst")
  BY <1>1 DEF SecretFirst, OneReset, Has
<1>3. ~Has(q, "rw") => Ended(q)
  BY <1>1 DEF Ended, Has
<1>4. ASSUME NEW x \in GuestPackets, x.op = "rst", x.port = "secret"
      PROVE  SecretFirst(Append(q, x)) /\ OneReset(Append(q, x)) /\ Ended(Append(q, x))
  <2> DEFINE a == Append(q, x)
  <2>1. Elems(a) = Elems(q) \cup {x}
    BY ElemsPut
  <2>2. \A i \in 1..Len(a) : a[i] \in Elems(a)
    BY DEF Elems
  <2> HIDE DEF a
  <2>3. SecretFirst(a)
    BY <1>4, <2>1, <2>2 DEF SecretFirst
  <2> QED
    BY <1>2, <1>4, <2>3, OrderPut DEF a
<1> QED
  BY <1>2, <1>3, <1>4

\* The beginning of a call.
LEMMA CallsLink ==
    ASSUME TypeInv, LinkInv,
           \/ FetchSecret
           \/ \E op \in Ops, path \in Paths : FileCall(op, path) \/ FileCallNoDev(op, path)
    PROVE  LinkInv'
<1>1. /\ g2h \in Seq(GuestPackets) /\ h2g \in Seq(HostPackets) /\ fwd_cnt \in Nat
      /\ pc = "boot" => port = "secret"
  BY DEF TypeInv, GuestType
<1>2. /\ SecretInv /\ SentInv /\ HostInv /\ FreshInv /\ ConnectInv /\ RespInv
      /\ AnswersOwnRequest /\ budget.timeouts["secret"] = 0
  BY DEF LinkInv
<1>3. UNCHANGED << conns, conn, fileserver >>
  BY DEF FetchSecret, FileCall, FileCallNoDev
<1>4. HostInv' /\ FileConns' = FileConns
  BY <1>2, <1>3, GuestStepHost
<1>5. CASE FetchSecret
  <2>1. /\ pc = "boot" /\ UNCHANGED << port, got, fwd_cnt, h2g, budget, ret >>
        /\ \/ pc' = "connect" /\ g2h' = Append(g2h, ToHost("request", "secret", fwd_cnt))
           \/ pc' = "idle" /\ UNCHANGED g2h
    BY <1>5 DEF FetchSecret, send_raw
  <2>2. /\ FetchingSecret /\ FileConns = {} /\ g2h = << >> /\ h2g = << >> /\ conn["secret"] = 0
    BY <1>1, <1>2, <2>1 DEF FetchingSecret, SecretInv
  <2>3. conn["file"] = 0
    BY <2>2 DEF FileConns
  <2>4. FreshInv' /\ ConnectInv' /\ RespInv' /\ AnswersOwnRequest' /\ budget'.timeouts["secret"] = 0
    BY <1>1, <1>2, <1>3, <2>1, <2>3 DEF FreshInv, ConnectInv, RespInv, AnswersOwnRequest
  <2>5. CASE pc' = "connect" /\ g2h' = Append(g2h, ToHost("request", "secret", fwd_cnt))
    <3> DEFINE x == ToHost("request", "secret", fwd_cnt)
    <3>1. x \in GuestPackets /\ x.op = "request" /\ x.port = "secret"
      BY <1>1, PacketTypes DEF ToHost, Ports
    <3> HIDE DEF x
    <3>2. g2h' = Append(g2h, x)
      BY <2>5 DEF x
    <3>3. Elems(g2h') = {x} /\ Tail(g2h') = << >>
      <4>1. Elems(g2h') = Elems(g2h) \cup {x}
        BY <1>1, <3>1, <3>2, ElemsPut
      <4>2. Elems(g2h) = {}
        BY <2>2, ElemsEmpty
      <4>3. Tail(g2h') = << >>
        BY <2>2, <3>2
      <4> QED
        BY <4>1, <4>2, <4>3
    <3>4. Elems(h2g') = {}
      BY <2>1, <2>2, ElemsEmpty
    <3>5. SecretInv'
      BY <1>2, <1>3, <1>4, <2>1, <2>2, <2>5, <3>1, <3>3, <3>4 DEF SecretInv, Has
    <3>6. SentInv'
      BY <1>1, <2>1, <2>5 DEF SentInv, FetchingSecret
    <3> QED
      BY <1>4, <2>4, <3>5, <3>6 DEF LinkInv
  <2>6. CASE pc' = "idle" /\ UNCHANGED g2h
    <3>1. Elems(g2h) = {}
      BY <2>2, ElemsEmpty
    <3>2. SecretFirst(g2h) /\ OneReset(g2h) /\ Ended(g2h)
      BY <1>1, <3>1, SecretOver DEF Has
    <3>3. SentInv'
      BY <1>3, <2>2, <2>6, <3>1, <3>2 DEF SentInv, SentOf
    <3>4. SecretInv'
      BY <2>6 DEF SecretInv, FetchingSecret
    <3> QED
      BY <1>4, <2>4, <3>3, <3>4 DEF LinkInv
  <2> QED
    BY <2>1, <2>5, <2>6
<1>6. ASSUME NEW op \in Ops, NEW path \in Paths, FileCall(op, path) PROVE LinkInv'
  <2> DEFINE x == ToHost("request", "file", 0)
  <2>1. /\ pc = "idle" /\ pc' = "connect" /\ port' = "file" /\ h2g' = << >>
        /\ g2h' = Append(g2h, x) /\ budget' = Spent(budget) /\ UNCHANGED ret
    BY <1>6 DEF FileCall, send_raw
  <2>2. x \in GuestPackets /\ x.op = "request" /\ x.port = "file"
    BY PacketTypes DEF ToHost, Ports
  <2> HIDE DEF x
  <2>3. ~FetchingSecret /\ ~FetchingSecret'
    BY <2>1 DEF FetchingSecret
  <2>4. Elems(g2h') = Elems(g2h) \cup {x} /\ Elems(h2g') = {}
    BY <1>1, <2>1, <2>2, ElemsPut, ElemsEmpty
  <2>5. SentOf(g2h) /\ Ended(g2h)
    BY <1>2, <2>1, <2>3 DEF SentInv
  <2>6. SentOf(Append(g2h, x)) /\ Ended(Append(g2h, x))
    BY <1>1, <2>2, <2>5, SentPut, OrderPut
  <2>7. SentOf(g2h)'
    BY <1>3, <1>4, <2>1, <2>6 DEF SentOf
  <2>8. SentInv'
    BY <2>1, <2>6, <2>7 DEF SentInv
  <2>9. FreshInv'
    BY <1>2, <1>3, <2>1, <2>4 DEF FreshInv, Has
  <2>10. ConnectInv'
    <3>1. Quiet(h2g')
      BY <2>1 DEF Quiet
    <3> QED
      BY <2>4, <3>1 DEF ConnectInv, Has
  <2>11. SecretInv' /\ RespInv'
    BY <2>1, <2>3 DEF SecretInv, RespInv
  <2>12. budget'.timeouts["secret"] = 0
    BY <1>2, <2>1 DEF Spent, TypeInv, GuestType
  <2>13. AnswersOwnRequest'
    BY <1>2, <2>1 DEF AnswersOwnRequest
  <2> QED
    BY <1>4, <2>8, <2>9, <2>10, <2>11, <2>12, <2>13 DEF LinkInv
<1>7. ASSUME NEW op \in Ops, NEW path \in Paths, FileCallNoDev(op, path) PROVE LinkInv'
  <2>1. /\ UNCHANGED << pc, call, port, got, g2h, h2g, backlog, server, out >> /\ budget' = Spent(budget)
        /\ ret'.ok = FALSE
    BY <1>7 DEF FileCallNoDev, fileserver
  <2>2. SecretInv' /\ SentInv' /\ FreshInv' /\ ConnectInv'
    BY <1>2, <1>3, <1>4, <2>1 DEF SecretInv, SentInv, SentOf, FreshInv, ConnectInv, FetchingSecret
  <2>3. RespInv'
    BY <1>2, <1>3, <2>1 DEF RespInv, AnswerOf, Sent, Waiting
  <2>4. budget'.timeouts["secret"] = 0
    BY <1>2, <2>1 DEF Spent, TypeInv, GuestType
  <2>5. AnswersOwnRequest'
    BY <2>1 DEF AnswersOwnRequest
  <2> QED
    BY <1>4, <2>2, <2>3, <2>4, <2>5 DEF LinkInv
<1> QED
  BY <1>5, <1>6, <1>7

\* What both wait loops find.
LEMMA WaitFacts ==
    ASSUME TypeInv, LinkInv
    PROVE  /\ g2h \in Seq(GuestPackets) /\ h2g \in Seq(HostPackets) /\ fwd_cnt \in Nat
           /\ port \in Ports /\ got \in Seq(Pieces)
           /\ h2g # << >> => /\ Head(h2g) = h2g[1] /\ h2g[1] \in HostPackets
                             /\ Tail(h2g) \in Seq(HostPackets)
                             /\ Elems(h2g) = {h2g[1]} \cup Elems(Tail(h2g))
           /\ pc \in {"connect", "resp"} /\ port = "secret" => FetchingSecret /\ call = SecretCall
           /\ pc \in {"connect", "resp"} /\ port = "file" => ~FetchingSecret /\ call \in FileCalls
           /\ pc = "connect" => got = << >>
           /\ FetchingSecret => FileConns = {} /\ conn["file"] = 0
           /\ SecretInv /\ SentInv /\ HostInv /\ FreshInv /\ ConnectInv /\ RespInv
           /\ AnswersOwnRequest /\ budget.timeouts["secret"] = 0
<1>1. /\ g2h \in Seq(GuestPackets) /\ h2g \in Seq(HostPackets) /\ fwd_cnt \in Nat
      /\ port \in Ports /\ got \in Seq(Pieces) /\ (pc = "connect" => got = << >>)
      /\ pc \in {"connect", "resp"} =>
            IF port = "file" THEN call \in FileCalls ELSE call = SecretCall
  BY DEF TypeInv, GuestType
<1>2. h2g # << >> => /\ Head(h2g) = h2g[1] /\ h2g[1] \in HostPackets
                     /\ Tail(h2g) \in Seq(HostPackets)
                     /\ Elems(h2g) = {h2g[1]} \cup Elems(Tail(h2g))
  BY <1>1, Take, ElemsTake
<1>3. /\ SecretInv /\ SentInv /\ HostInv /\ FreshInv /\ ConnectInv /\ RespInv
      /\ AnswersOwnRequest /\ budget.timeouts["secret"] = 0
  BY DEF LinkInv
<1>4. FetchingSecret => FileConns = {} /\ conn["file"] = 0
  BY <1>3 DEF SecretInv, FileConns
<1> QED
  BY <1>1, <1>2, <1>3, <1>4 DEF FetchingSecret

\* A packet while the guest waits for its connection.
LEMMA ConnectLink ==
    ASSUME TypeInv, LinkInv, ConnectRecv
    PROVE  LinkInv'
<1> DEFINE x == h2g[1]
           t == Tail(h2g)
           fwd == Counted(x)
<1>1. /\ g2h \in Seq(GuestPackets) /\ h2g \in Seq(HostPackets) /\ fwd_cnt \in Nat
      /\ port \in Ports /\ h2g # << >> /\ Head(h2g) = x /\ x \in HostPackets
      /\ t \in Seq(HostPackets) /\ Elems(h2g) = {x} \cup Elems(t)
      /\ port = "secret" => FetchingSecret /\ call = SecretCall
      /\ port = "file" => ~FetchingSecret /\ call \in FileCalls
      /\ FetchingSecret => FileConns = {} /\ conn["file"] = 0
      /\ pc = "connect" /\ got = << >> /\ h2g' = t
  BY WaitFacts DEF ConnectRecv
<1>2. /\ SecretInv /\ SentInv /\ HostInv /\ FreshInv /\ ConnectInv /\ RespInv
      /\ AnswersOwnRequest /\ budget.timeouts["secret"] = 0
  BY DEF LinkInv
<1>3. UNCHANGED << conns, conn, fileserver, budget >>
  BY DEF ConnectRecv
<1>4. HostInv' /\ FileConns' = FileConns /\ Waiting' = Waiting
  BY <1>2, <1>3, GuestStepHost
<1>5. port = "secret" \/ port = "file"
  BY <1>1 DEF Ports
<1>6. \/ /\ x.op = "response" /\ pc' = "resp" /\ UNCHANGED << call, port, got, ret >>
         /\ g2h' = g2h \o << ToHost("credit", port, fwd), Request(port, fwd, call) >>
      \/ x.op = "rst" /\ Return(FALSE, << >>) /\ UNCHANGED g2h
      \/ /\ x.op # "response" /\ x.op # "rst" /\ UNCHANGED << pc, call, port, got, ret >>
         /\ g2h' = IF x.op = "credit" /\ port = "secret"
                   THEN Append(g2h, ToHost("credit", port, fwd)) ELSE g2h
  BY <1>1 DEF ConnectRecv, Answers, send_raw, guest
<1>7. fwd \in Nat
  BY <1>1 DEF Counted
<1> HIDE DEF x, t, fwd
<1>8. CASE /\ x.op = "response" /\ pc' = "resp" /\ UNCHANGED << call, port, got, ret >>
           /\ g2h' = g2h \o << ToHost("credit", port, fwd), Request(port, fwd, call) >>
  <2> DEFINE c == ToHost("credit", port, fwd)
             r == Request(port, fwd, call)
             q == Append(g2h, c)
  <2>1. c \in GuestPackets /\ c.op = "credit" /\ c.port = port
    BY <1>1, <1>7, PacketTypes DEF ToHost
  <2>2. r \in GuestPackets /\ r.op = "rw" /\ r.port = port /\ r.req = call
    BY <1>1, <1>5, <1>7, PacketTypes DEF Request
  <2>3. g2h' = Append(q, r) /\ q \in Seq(GuestPackets)
    <3> HIDE DEF c, r
    <3>1. g2h' = g2h \o << c, r >>
      BY <1>8 DEF c, r
    <3> QED
      BY <1>1, <2>1, <2>2, <3>1, ElemsPutTwo
  <2> HIDE DEF c, r
  <2>4. Elems(g2h') = Elems(g2h) \cup {c, r}
    <3>1. Elems(q) = Elems(g2h) \cup {c}
      BY <1>1, <2>1, ElemsPut
    <3> HIDE DEF q
    <3>2. Elems(Append(q, r)) = Elems(q) \cup {r}
      BY <2>2, <2>3, ElemsPut
    <3> QED
      BY <2>3, <3>1, <3>2
  <2> HIDE DEF q
  <2>5. AnswersOwnRequest' /\ budget'.timeouts["secret"] = 0 /\ FreshInv' /\ ConnectInv'
    BY <1>2, <1>3, <1>8 DEF AnswersOwnRequest, FreshInv, ConnectInv
  <2>6. CASE port = "secret"
    <3>1. FetchingSecret /\ FetchingSecret'
      BY <1>1, <1>8, <2>6 DEF FetchingSecret
    <3>2. /\ \A e \in Elems(g2h) : e.port = "secret" /\ e.op # "rst"
          /\ FileConns = {} /\ conn["secret"] # 0 /\ ~Has(g2h, "request")
          /\ \A e \in Elems(h2g) : e.op = "rw" => Own(e.data, 0, 1, 1)
      <4>1. Has(h2g, "response")
        BY <1>1, <1>8 DEF Has
      <4> QED
        BY <1>1, <1>2, <3>1, <4>1 DEF SecretInv
    <3>3. \A e \in Elems(g2h') : e.port = "secret" /\ e.op # "rst" /\ e.op # "request"
      BY <2>1, <2>2, <2>4, <2>6, <3>2 DEF Has
    <3>4. SecretInv'
      BY <1>1, <1>3, <1>4, <1>8, <3>2, <3>3 DEF SecretInv, Has
    <3>5. SentInv' /\ RespInv'
      BY <1>8, <2>6, <3>1 DEF SentInv, RespInv
    <3> QED
      BY <1>4, <2>5, <3>4, <3>5 DEF LinkInv
  <2>7. CASE port = "file"
    <3>1. ~FetchingSecret /\ ~FetchingSecret'
      BY <1>1, <1>8, <2>7 DEF FetchingSecret
    <3>2. SentOf(g2h) /\ Ended(g2h)
      BY <1>1, <1>2, <3>1 DEF SentInv
    <3>3. SentOf(q)
      BY <1>1, <2>1, <2>7, <3>2, SentPut DEF q
    <3>4. SentOf(Append(q, r))
      BY <2>2, <2>3, <2>7, <3>3, SentPut
    <3>5. SentInv'
      BY <1>3, <1>4, <1>8, <2>3, <3>4 DEF SentInv, SentOf
    <3>6. /\ conn["file"] # 0 /\ ~Has(g2h, "rst") /\ ~Has(t, "response") /\ ~Has(t, "rw")
      <4>1. Has(h2g, "response")
        BY <1>1, <1>8 DEF Has
      <4>2. Quiet(h2g) /\ conn["file"] # 0 /\ ~Has(g2h, "rst")
        BY <1>1, <1>2, <2>7, <4>1 DEF ConnectInv
      <4> QED
        BY <1>1, <1>8, <4>2, QuietTake DEF x, t
    <3>7. \A e \in Elems(g2h) : e.op # "rw"
      <4>1. \A i \in 1..Len(g2h) : g2h[i].op # "rst" /\ g2h[i] \in Elems(g2h)
        BY <3>6 DEF Has, Elems
      <4>2. \A i \in 1..Len(g2h) : g2h[i].op # "rw"
        BY <3>2, <4>1 DEF Ended
      <4> QED
        BY <4>2 DEF Elems
    <3>8. conns[conn["file"]].req = NoCall
      BY <1>1, <1>2, <3>6 DEF FreshInv
    <3>9. Sent(1) = 0 /\ (conn["file"] = server => out = None)
      BY <1>2, <3>6, <3>8 DEF HostInv, Sent
    <3>10. OnTheWay(t, << >>, call.id, 1, 0)
      <4>1. \A i \in 1..Len(t) : t[i] \in Elems(t)
        BY DEF Elems
      <4>2. \A i \in 1..Len(t) : t[i].op # "rw"
        BY <3>6, <4>1 DEF Has
      <4> QED
        BY <4>2 DEF OnTheWay
    <3>11. AnswerOf(1)'
      <4>1. Sent(1)' = 0 /\ (conn["file"] = server => out = None)'
        BY <1>3, <1>4, <3>9 DEF Sent, fileserver
      <4> QED
        BY <1>1, <1>8, <3>10, <4>1 DEF AnswerOf
    <3>12. 1 \in 1..MaxPieces
      BY VsockConstants
    <3>13. RespInv'
      BY <1>1, <1>3, <1>8, <2>1, <2>2, <2>4, <3>6, <3>7, <3>8, <3>11, <3>12 DEF RespInv, Has
    <3>14. SecretInv'
      BY <3>1 DEF SecretInv
    <3> QED
      BY <1>4, <2>5, <3>5, <3>13, <3>14 DEF LinkInv
  <2> QED
    BY <1>5, <2>6, <2>7
<1>9. CASE x.op = "rst" /\ Return(FALSE, << >>) /\ UNCHANGED g2h
  <2>1. pc' = "idle" /\ ret'.ok = FALSE /\ UNCHANGED port
    BY <1>9 DEF Return
  <2>2. SecretInv' /\ ConnectInv' /\ RespInv' /\ AnswersOwnRequest' /\ budget'.timeouts["secret"] = 0
    BY <1>2, <1>3, <2>1 DEF SecretInv, FetchingSecret, ConnectInv, RespInv, AnswersOwnRequest
  <2>3. FreshInv'
    BY <1>1, <1>2, <1>3, <1>9, <2>1 DEF FreshInv
  <2>4. SentOf(g2h) /\ Ended(g2h)
    <3>1. CASE port = "secret"
      <4>1. Has(h2g, "rst")
        BY <1>1, <1>9 DEF Has
      <4>2. /\ \A e \in Elems(g2h) : e.port = "secret" /\ e.op # "rst"
            /\ ~Has(g2h, "rw") /\ ~Has(g2h, "request") /\ conn["secret"] = 0 /\ FileConns = {}
        BY <1>1, <1>2, <3>1, <4>1 DEF SecretInv
      <4>3. SecretFirst(g2h) /\ OneReset(g2h) /\ Ended(g2h)
        BY <1>1, <4>2, SecretOver
      <4> QED
        BY <4>2, <4>3 DEF SentOf, Has
    <3>2. CASE port = "file"
      BY <1>1, <1>2, <3>2 DEF SentInv
    <3> QED
      BY <1>5, <3>1, <3>2
  <2>5. SentInv'
    BY <1>3, <1>4, <1>9, <2>4 DEF SentInv, SentOf
  <2> QED
    BY <1>4, <2>2, <2>3, <2>5 DEF LinkInv
<1>10. CASE /\ x.op # "response" /\ x.op # "rst" /\ UNCHANGED << pc, call, port, got, ret >>
            /\ g2h' = IF x.op = "credit" /\ port = "secret"
                      THEN Append(g2h, ToHost("credit", port, fwd)) ELSE g2h
  <2>1. AnswersOwnRequest' /\ budget'.timeouts["secret"] = 0 /\ RespInv'
    BY <1>1, <1>2, <1>3, <1>10 DEF AnswersOwnRequest, RespInv
  <2>2. CASE port = "secret"
    <3>1. FetchingSecret /\ FetchingSecret'
      BY <1>1, <1>10, <2>2 DEF FetchingSecret
    <3>2. \A e \in Elems(g2h') : e \in Elems(g2h) \/ (e.op = "credit" /\ e.port = "secret")
      <4> DEFINE c == ToHost("credit", port, fwd)
      <4>1. c \in GuestPackets /\ c.op = "credit" /\ c.port = port
        BY <1>1, <1>7, PacketTypes DEF ToHost
      <4> HIDE DEF c
      <4>2. g2h' = g2h \/ g2h' = Append(g2h, c)
        BY <1>10 DEF c
      <4>3. Elems(Append(g2h, c)) = Elems(g2h) \cup {c}
        BY <1>1, <4>1, ElemsPut
      <4> QED
        BY <2>2, <4>1, <4>2, <4>3
    <3>3. h2g # << >> /\ pc # "boot" /\ pc # "resp"
      BY <1>1
    <3>4. SecretInv'
      BY <1>1, <1>2, <1>3, <1>4, <1>10, <3>1, <3>2, <3>3 DEF SecretInv, Has
    <3>5. SentInv' /\ ConnectInv'
      BY <1>10, <2>2, <3>1 DEF SentInv, ConnectInv
    <3>6. FreshInv'
      BY <1>1, <1>3, <3>1 DEF FreshInv
    <3> QED
      BY <1>4, <2>1, <3>4, <3>5, <3>6 DEF LinkInv
  <2>3. CASE port = "file"
    <3>1. UNCHANGED g2h /\ ~FetchingSecret /\ ~FetchingSecret'
      BY <1>1, <1>10, <2>3 DEF FetchingSecret
    <3>2. SentInv' /\ FreshInv' /\ SecretInv'
      BY <1>2, <1>3, <1>4, <1>10, <3>1 DEF SentInv, SentOf, FreshInv, SecretInv
    <3>3. ConnectInv'
      <4>1. Quiet(h2g) /\ (Has(h2g, "response") => conn["file"] # 0 /\ ~Has(g2h, "rst"))
        BY <1>1, <1>2, <2>3 DEF ConnectInv
      <4>2. Quiet(t)
        BY <1>1, <4>1, QuietTake DEF t
      <4>3. Has(t, "response") => Has(h2g, "response")
        BY <1>1 DEF Has
      <4> QED
        BY <1>1, <1>3, <3>1, <4>1, <4>2, <4>3 DEF ConnectInv
    <3> QED
      BY <1>4, <2>1, <3>2, <3>3 DEF LinkInv
  <2> QED
    BY <1>5, <2>2, <2>3
<1> QED
  BY <1>6, <1>8, <1>9, <1>10

\* A call ends and resets its connection.
LEMMA CloseLink ==
    ASSUME TypeInv, LinkInv, pc = "resp", pc' = "idle", UNCHANGED port,
           NEW y \in GuestPackets, y.op = "rst", y.port = port, g2h' = Append(g2h, y),
           UNCHANGED << conns, conn, fileserver >>,
           AnswersOwnRequest', budget'.timeouts["secret"] = 0
    PROVE  LinkInv'
<1>1. /\ g2h \in Seq(GuestPackets) /\ port \in Ports
      /\ port = "secret" => FetchingSecret
      /\ port = "file" => ~FetchingSecret
      /\ SecretInv /\ SentInv /\ HostInv /\ RespInv
  BY WaitFacts
<1>2. HostInv' /\ FileConns' = FileConns
  BY <1>1, GuestStepHost
<1>3. Elems(g2h') = Elems(g2h) \cup {y}
  BY <1>1, ElemsPut
<1>4. SecretInv' /\ ConnectInv' /\ RespInv' /\ FreshInv'
  BY <1>3 DEF SecretInv, FetchingSecret, ConnectInv, RespInv, FreshInv, Has
<1>5. SentOf(Append(g2h, y)) /\ Ended(Append(g2h, y))
  <2>1. CASE port = "secret"
    <3>1. /\ \A e \in Elems(g2h) : e.port = "secret" /\ e.op # "rst"
          /\ FileConns = {} /\ conn["secret"] # 0 /\ ~Has(g2h, "request")
      BY <1>1, <2>1 DEF SecretInv
    <3>2. SecretFirst(Append(g2h, y)) /\ OneReset(Append(g2h, y)) /\ Ended(Append(g2h, y))
      BY <1>1, <2>1, <3>1, SecretOver
    <3>3. Elems(Append(g2h, y)) = Elems(g2h) \cup {y}
      BY <1>3
    <3> QED
      BY <2>1, <3>1, <3>2, <3>3 DEF SentOf, Has
  <2>2. CASE port = "file"
    <3>1. SentOf(g2h) /\ conn["file"] # 0 /\ ~Has(g2h, "rst")
      BY <1>1, <2>2 DEF SentInv, RespInv
    <3> QED
      BY <1>1, <2>2, <3>1, SentPut, OrderPut
  <2> QED
    BY <1>1, <2>1, <2>2 DEF Ports
<1>6. SentInv'
  BY <1>2, <1>5 DEF SentInv, SentOf
<1> QED
  BY <1>2, <1>4, <1>6 DEF LinkInv

\* A packet while the guest waits for its answer.
LEMMA RespLink ==
    ASSUME TypeInv, LinkInv, RespRecv
    PROVE  LinkInv'
<1> DEFINE x == h2g[1]
           t == Tail(h2g)
           fwd == Counted(x)
           y == ToHost("rst", port, fwd)
           c == ToHost("credit", port, fwd)
           all == Append(got, x.data)
<1>1. /\ g2h \in Seq(GuestPackets) /\ h2g \in Seq(HostPackets) /\ fwd_cnt \in Nat
      /\ port \in Ports /\ h2g # << >> /\ Head(h2g) = x /\ x \in HostPackets
      /\ t \in Seq(HostPackets) /\ Elems(h2g) = {x} \cup Elems(t)
      /\ port = "secret" => FetchingSecret /\ call = SecretCall
      /\ port = "file" => ~FetchingSecret /\ call \in FileCalls
      /\ FetchingSecret => FileConns = {} /\ conn["file"] = 0
      /\ pc = "resp" /\ got \in Seq(Pieces) /\ h2g' = t
      /\ SecretInv /\ SentInv /\ HostInv /\ FreshInv /\ ConnectInv /\ RespInv
      /\ AnswersOwnRequest /\ budget.timeouts["secret"] = 0
  BY WaitFacts DEF RespRecv
<1>2. UNCHANGED << conns, conn, fileserver, budget >>
  BY DEF RespRecv
<1>3. HostInv' /\ FileConns' = FileConns /\ Waiting' = Waiting /\ UNCHANGED << server, out >>
  BY <1>1, <1>2, GuestStepHost DEF fileserver
<1>4. port = "secret" \/ port = "file"
  BY <1>1 DEF Ports
<1>5. \/ /\ x.op = "credit" /\ g2h' = Append(g2h, c) /\ UNCHANGED << pc, call, port, got, ret >>
      \/ x.op = "rst" /\ Return(FALSE, << >>) /\ g2h' = Append(g2h, y)
      \/ x.op = "rw" /\ Complete(all) /\ Return(all[1].ok, all) /\ g2h' = Append(g2h, y)
      \/ /\ x.op = "rw" /\ ~Complete(all) /\ got' = all
         /\ UNCHANGED << pc, call, port, ret, g2h >>
      \/ x.op \in {"response", "shutdown"} /\ UNCHANGED << pc, call, port, got, ret, g2h >>
  <2> HIDE DEF x, fwd, all
  <2>1. \/ /\ x.op = "credit" /\ g2h' = send_raw(g2h, c) /\ UNCHANGED guest
        \/ x.op = "rst" /\ Return(FALSE, << >>) /\ g2h' = close_port(g2h, fwd)
        \/ x.op = "rw" /\ (IF Complete(all)
                           THEN Return(all[1].ok, all) /\ g2h' = close_port(g2h, fwd)
                           ELSE got' = all /\ UNCHANGED << dev, pc, call, port, ret, g2h >>)
        \/ x.op \in {"response", "shutdown"} /\ UNCHANGED << guest, g2h >>
    BY <1>1 DEF RespRecv, all, fwd
  <2> QED
    BY <2>1 DEF send_raw, close_port, guest
<1>6. fwd \in Nat
  BY <1>1 DEF Counted
<1>7. /\ y \in GuestPackets /\ y.op = "rst" /\ y.port = port
      /\ c \in GuestPackets /\ c.op = "credit" /\ c.port = port
  BY <1>1, <1>6, PacketTypes DEF ToHost
<1> HIDE DEF x, t, fwd, y, c
<1>8. CASE x.op = "rst" /\ Return(FALSE, << >>) /\ g2h' = Append(g2h, y)
  <2>1. pc' = "idle" /\ ret'.ok = FALSE /\ UNCHANGED port
    BY <1>8 DEF Return
  <2>2. AnswersOwnRequest' /\ budget'.timeouts["secret"] = 0
    BY <1>1, <1>2, <2>1 DEF AnswersOwnRequest
  <2> QED
    BY <1>1, <1>2, <1>7, <1>8, <2>1, <2>2, CloseLink
<1>9. /\ x.op = "rw" => x.data \in Pieces /\ all \in Seq(Pieces) /\ Len(all) = Len(got) + 1
      /\ Len(got) \in Nat
  BY <1>1, PacketTypes, Put, LenProperties
\* The answer is the call's own as far as it has come.
<1>10. ASSUME x.op = "rw", port = "file"
       PROVE  \E n \in 1..MaxPieces :
                 /\ \A k \in 1..Len(all) : Own(all[k], call.id, k, n)
                 /\ Len(got) < n /\ (Len(all) < n => OnTheWay(t, all, call.id, n, Sent(n)))
                 /\ AnswerOf(n)
  <2>1. PICK n \in 1..MaxPieces : AnswerOf(n)
    BY <1>1, <1>10 DEF RespInv
  <2>2. OnTheWay(h2g, got, call.id, n, Sent(n)) /\ Len(got) < n
    BY <2>1 DEF AnswerOf, OnTheWay
  <2>3. n \in Nat
    BY VsockConstants
  <2>4. Sent(n) \in Nat
    <3>1. out # None => out \in Seq(Pieces)
      BY DEF TypeInv, HostType
    <3>2. conn["file"] = server /\ out # None => Len(out) <= n /\ Len(out) \in Nat
      BY <2>1, <3>1, LenProperties DEF AnswerOf
    <3> QED
      BY <2>3, <3>2 DEF Sent
  <2> DEFINE id == call.id
             s == Sent(n)
  <2>5. OnTheWay(h2g, got, id, n, s) /\ s \in Nat
    BY <2>2, <2>4
  <2> HIDE DEF id, s
  <2>6. /\ \A k \in 1..(Len(got) + 1) : Own(all[k], id, k, n)
        /\ Len(got) + 1 < n => OnTheWay(t, all, id, n, s)
    <3>1. h2g[1].op = "rw" /\ h2g # << >>
      BY <1>1, <1>10 DEF x
    <3> QED
      BY <1>1, <2>3, <2>5, <3>1, TakePiece DEF x, t
  <2> HIDE DEF all
  <2> QED
    BY <1>9, <1>10, <2>1, <2>2, <2>6 DEF id, s
<1>11. CASE x.op = "rw" /\ Complete(all) /\ Return(all[1].ok, all) /\ g2h' = Append(g2h, y)
  <2>1. /\ pc' = "idle" /\ UNCHANGED port
        /\ ret' = [call |-> call, ok |-> all[1].ok, data |-> all]
    BY <1>11 DEF Return
  <2> HIDE DEF all
  <2>2. /\ \A i \in 1..Len(all) : all[i].id = call.id /\ all[i].k = i
        /\ Len(all) = all[1].len
    <3>1. 1 \in 1..Len(all)
      BY <1>9, <1>11
    <3>2. CASE port = "secret"
      <4>1. Own(x.data, 0, 1, 1) /\ got = << >> /\ call.id = 0
        BY <1>1, <1>11, <3>2 DEF SecretInv, SecretCall
      <4>2. Len(got) = 0 /\ Len(all) = 1
        BY <1>9, <1>11, <4>1
      <4>3. all[1] = x.data
        BY <1>9, <1>11, <4>2, Put DEF all
      <4>4. \A i \in 1..Len(all) : i = 1
        BY <4>2
      <4> QED
        BY <4>1, <4>2, <4>3, <4>4 DEF Own
    <3>3. CASE port = "file"
      <4>1. PICK n \in 1..MaxPieces : /\ \A k \in 1..Len(all) : Own(all[k], call.id, k, n)
                                      /\ Len(got) < n
        BY <1>10, <1>11, <3>3
      <4>2. n \in Nat /\ all[1].len = n
        BY <3>1, <4>1, VsockConstants DEF Own
      <4>3. Len(all) >= all[1].len
        BY <1>11, <3>3 DEF Complete
      <4>4. Len(all) = n
        BY <1>9, <1>11, <4>1, <4>2, <4>3
      <4> QED
        BY <4>1, <4>2, <4>4 DEF Own
    <3> QED
      BY <1>4, <3>2, <3>3
  <2>3. DOMAIN all = 1..Len(all)
    BY <1>9, <1>11, LenProperties
  <2>4. AnswersOwnRequest' /\ budget'.timeouts["secret"] = 0
    BY <1>1, <1>2, <2>1, <2>2, <2>3 DEF AnswersOwnRequest
  <2> QED
    BY <1>1, <1>2, <1>7, <1>11, <2>1, <2>4, CloseLink
<1>12. CASE x.op = "rw" /\ ~Complete(all) /\ got' = all /\ UNCHANGED << pc, call, port, ret, g2h >>
  <2> HIDE DEF all
  <2>1. port = "file" /\ Len(all) < all[1].len
    <3>1. port = "file" /\ ~(Len(all) >= all[1].len)
      BY <1>4, <1>12 DEF Complete
    <3>2. all[1] \in Pieces
      <4>1. 1 \in 1..Len(all) /\ all \in Seq(Pieces)
        BY <1>9, <1>12
      <4> QED
        BY <4>1, ElementOfSeq
    <3>3. all[1].len \in Nat
      BY <3>2, VsockConstants DEF Pieces
    <3> QED
      BY <1>9, <1>12, <3>1, <3>3
  <2>2. PICK n \in 1..MaxPieces :
          /\ \A k \in 1..Len(all) : Own(all[k], call.id, k, n)
          /\ Len(got) < n /\ (Len(all) < n => OnTheWay(t, all, call.id, n, Sent(n)))
          /\ AnswerOf(n)
    BY <1>10, <1>12, <2>1
  <2>3. all[1].len = n
    <3>1. 1 \in 1..Len(all)
      BY <1>9, <1>12
    <3> QED
      BY <2>2, <3>1 DEF Own
  <2>4. AnswerOf(n)'
    BY <1>1, <1>2, <1>3, <1>12, <2>1, <2>2, <2>3 DEF AnswerOf, Sent
  <2>5. RespInv'
    BY <1>1, <1>2, <1>12, <2>1, <2>4 DEF RespInv, Has
  <2>6. SecretInv' /\ SentInv' /\ FreshInv' /\ ConnectInv' /\ AnswersOwnRequest'
        /\ budget'.timeouts["secret"] = 0
    BY <1>1, <1>2, <1>3, <1>12, <2>1
       DEF SecretInv, SentInv, SentOf, FreshInv, ConnectInv, AnswersOwnRequest, FetchingSecret
  <2> QED
    BY <1>3, <2>5, <2>6 DEF LinkInv
\* Packets of no consequence, apart from the answer to a credit update.
<1>13. CASE /\ x.op \notin {"rw", "rst"} /\ UNCHANGED << pc, call, port, got, ret >>
            /\ g2h' = g2h \/ g2h' = Append(g2h, c)
  <2>1. \A e \in Elems(g2h') : e \in Elems(g2h) \/ (e.op = "credit" /\ e.port = port)
    <3>1. Elems(Append(g2h, c)) = Elems(g2h) \cup {c}
      BY <1>1, <1>7, ElemsPut
    <3> QED
      BY <1>7, <1>13, <3>1
  <2>2. AnswersOwnRequest' /\ budget'.timeouts["secret"] = 0 /\ FreshInv' /\ ConnectInv'
    BY <1>1, <1>2, <1>13 DEF AnswersOwnRequest, FreshInv, ConnectInv
  <2>3. SecretInv'
    BY <1>1, <1>2, <1>3, <1>13, <2>1 DEF SecretInv, FetchingSecret, Has
  <2>4. SentInv'
    <3>1. CASE port = "secret"
      BY <1>1, <1>13, <3>1 DEF SentInv, FetchingSecret
    <3>2. CASE port = "file"
      <4>1. SentOf(g2h) /\ SentOf(Append(g2h, c))
        BY <1>1, <1>7, <3>2, SentPut DEF SentInv
      <4> QED
        BY <1>1, <1>2, <1>3, <1>13, <4>1 DEF SentInv, SentOf
    <3> QED
      BY <1>4, <3>1, <3>2
  <2>5. RespInv'
    <3> SUFFICES ASSUME port = "file" PROVE RespInv'
      BY <1>4, <1>13 DEF RespInv
    <3>1. PICK n \in 1..MaxPieces : AnswerOf(n)
      BY <1>1 DEF RespInv
    <3> DEFINE id == call.id
               s == Sent(n)
    <3>2. OnTheWay(h2g, got, id, n, s) /\ n \in Nat
      BY <3>1, VsockConstants DEF AnswerOf
    <3>3. s \in Nat
      <4>1. out # None => out \in Seq(Pieces)
        BY DEF TypeInv, HostType
      <4>2. conn["file"] = server /\ out # None => Len(out) <= n /\ Len(out) \in Nat
        BY <3>1, <4>1, LenProperties DEF AnswerOf
      <4> QED
        BY <3>2, <4>2 DEF Sent
    <3> HIDE DEF id, s
    <3>4. OnTheWay(t, got, id, n, s)
      BY <1>1, <1>13, <3>2, <3>3, OtherPackets DEF x, t
    <3>5. AnswerOf(n)'
      BY <1>1, <1>2, <1>3, <1>13, <3>1, <3>4 DEF AnswerOf, Sent, id, s
    <3> QED
      BY <1>1, <1>2, <1>13, <2>1, <3>5 DEF RespInv, Has
  <2> QED
    BY <1>3, <2>2, <2>3, <2>4, <2>5 DEF LinkInv
<1> QED
  BY <1>5, <1>8, <1>11, <1>12, <1>13

\* A wait loop of a file call runs out.
LEMMA TimeoutLink ==
    ASSUME TypeInv, LinkInv, Timeouts
    PROVE  LinkInv'
<1>1. /\ fwd_cnt \in Nat /\ port \in Ports
      /\ port = "file" /\ pc = "connect" => ~FetchingSecret
      /\ SentInv /\ HostInv /\ FreshInv /\ budget.timeouts["secret"] = 0
  BY WaitFacts
<1>2. budget \in [calls : 0..MaxCalls, credits : Nat, timeouts : [Ports -> Nat]]
  BY DEF TypeInv, GuestType
<1>3. /\ budget.timeouts[port] > 0 /\ budget' = [budget EXCEPT !.timeouts[port] = @ - 1]
      /\ Return(FALSE, << >>) /\ UNCHANGED << conns, conn, fileserver >>
  BY DEF Timeouts, ConnectTimeout, RespTimeout
<1>4. port = "file"
  BY <1>1, <1>3 DEF Ports
<1>5. budget'.timeouts["secret"] = 0
  BY <1>1, <1>2, <1>3, <1>4 DEF Ports
<1>6. pc' = "idle" /\ ret'.ok = FALSE /\ UNCHANGED port
  BY <1>3 DEF Return
<1>7. AnswersOwnRequest'
  BY <1>6 DEF AnswersOwnRequest
<1>8. CASE RespTimeout
  <2> DEFINE y == ToHost("rst", port, fwd_cnt)
  <2>1. pc = "resp" /\ g2h' = Append(g2h, y)
    BY <1>8 DEF RespTimeout, close_port, send_raw
  <2>2. y \in GuestPackets /\ y.op = "rst" /\ y.port = port
    BY <1>1, PacketTypes DEF ToHost
  <2> HIDE DEF y
  <2> QED
    BY <1>3, <1>5, <1>6, <1>7, <2>1, <2>2, CloseLink
<1>9. CASE ConnectTimeout
  <2>1. pc = "connect" /\ UNCHANGED << g2h, h2g >>
    BY <1>9 DEF ConnectTimeout
  <2>2. HostInv' /\ FileConns' = FileConns
    BY <1>1, <1>3, GuestStepHost
  <2>3. SecretInv' /\ ConnectInv' /\ RespInv'
    BY <1>6 DEF SecretInv, FetchingSecret, ConnectInv, RespInv
  <2>4. SentInv' /\ FreshInv'
    BY <1>1, <1>3, <1>4, <1>6, <2>1, <2>2 DEF SentInv, SentOf, FreshInv
  <2> QED
    BY <1>5, <1>7, <2>2, <2>3, <2>4 DEF LinkInv
<1> QED
  BY <1>8, <1>9 DEF Timeouts

-----------------------------------------------------------------------------
(* The kernel's steps.                                                      *)

\* How much of an answer was sent is a number.
LEMMA SentNat ==
    ASSUME TypeInv, NEW n \in 1..MaxPieces, AnswerOf(n)
    PROVE  n \in Nat /\ Sent(n) \in Nat /\ (out # None => out \in Seq(Pieces) /\ Len(out) \in Nat)
<1>1. n \in Nat
  BY VsockConstants
<1>2. out # None => out \in Seq(Pieces) /\ Len(out) \in Nat
  BY LenProperties DEF TypeInv, HostType
<1>3. conn["file"] = server /\ out # None => Len(out) <= n
  BY DEF AnswerOf
<1> QED
  BY <1>1, <1>2, <1>3 DEF Sent

\* A packet to the guest that is neither data nor a RESPONSE.
LEMMA HostSays ==
    ASSUME TypeInv, LinkInv, NEW x \in HostPackets, x.op \notin {"rw", "response"},
           h2g' = Append(h2g, x) \/ h2g' = h2g, UNCHANGED << pc, call, port, got, conn >>,
           \A e \in Elems(g2h') : e \in Elems(g2h),
           conn["file"] # 0 => conns'[conn["file"]].req \in {conns[conn["file"]].req, call},
           \A n \in 1..MaxPieces : pc = "resp" /\ port = "file" /\ AnswerOf(n) =>
              /\ Sent(n)' = Sent(n)
              /\ (conn["file"] = server /\ out # None)' => conn["file"] = server /\ out' = out
    PROVE  ConnectInv' /\ RespInv'
<1>1. h2g \in Seq(HostPackets) /\ got \in Seq(Pieces) /\ ConnectInv /\ RespInv
  BY WaitFacts
<1>2. Elems(h2g') \subseteq Elems(h2g) \cup {x}
  <2>1. Elems(Append(h2g, x)) = Elems(h2g) \cup {x}
    BY <1>1, ElemsPut
  <2>2. CASE h2g' = Append(h2g, x)
    BY <2>1, <2>2, Zenon
  <2>3. CASE h2g' = h2g
    BY <2>3, Zenon
  <2> QED
    BY <2>2, <2>3
<1>3. ConnectInv'
  <2>1. Quiet(h2g) => Quiet(h2g')
    BY <1>1, QuietPut
  <2> QED
    BY <1>1, <1>2, <2>1 DEF ConnectInv, Has
<1>4. RespInv'
  <2> SUFFICES ASSUME pc = "resp", port = "file" PROVE RespInv'
    BY DEF RespInv
  <2>1. PICK n \in 1..MaxPieces : AnswerOf(n)
    BY <1>1 DEF RespInv
  <2> DEFINE id == call.id
             s == Sent(n)
  <2>2. OnTheWay(h2g, got, id, n, s) /\ n \in Nat /\ s \in Nat
    BY <2>1, SentNat DEF AnswerOf
  <2> HIDE DEF id, s
  <2>3. OnTheWay(h2g', got, id, n, s)
    BY <1>1, <2>2, OtherPackets
  <2>4. AnswerOf(n)'
    BY <2>1, <2>3 DEF AnswerOf, id, s
  <2> QED
    BY <1>1, <1>2, <2>4 DEF RespInv, Has
<1> QED
  BY <1>3, <1>4

LEMMA KernelLink ==
    ASSUME TypeInv, LinkInv, Kernel
    PROVE  LinkInv'
<1> DEFINE t == Tail(g2h)
<1>1. /\ g2h # << >> /\ g2h' = t /\ First \in GuestPackets /\ First.port \in Ports
      /\ UNCHANGED << pc, call, port, got, ret, server, out, budget >>
      /\ Refused \/ \E p \in Ports : Accepted(p) \/ Taken(p) \/ Ends(p)
  BY KernelEffect DEF guest
<1>2. /\ g2h \in Seq(GuestPackets) /\ h2g \in Seq(HostPackets)
      /\ FetchingSecret => FileConns = {} /\ conn["file"] = 0
      /\ SecretInv /\ SentInv /\ HostInv /\ FreshInv /\ ConnectInv /\ RespInv
      /\ AnswersOwnRequest /\ budget.timeouts["secret"] = 0
  BY WaitFacts
<1>3. HostInv' /\ AnswersOwnRequest' /\ budget'.timeouts["secret"] = 0
  BY <1>1, <1>2, HostInvKernel DEF AnswersOwnRequest
<1>4. Elems(g2h) = {First} \cup Elems(t) /\ t \in Seq(GuestPackets)
  BY <1>1, <1>2, ElemsTake, Take DEF First
<1>5. FetchingSecret' = FetchingSecret
  BY <1>1 DEF FetchingSecret
<1>6. FetchingSecret => pc # "boot" /\ First.port = "secret" /\ First.op # "rst"
  BY <1>1, <1>2, <1>4 DEF SecretInv
<1>7. ~FetchingSecret =>
         /\ SecretFirst(t) /\ OneReset(t) /\ (pc # "resp" => Ended(t))
         /\ (\E e \in Elems(g2h) : e.port = "secret") => First.port = "secret"
         /\ First.op = "rst" => ~Has(t, "rst")
         /\ pc # "resp" /\ First.op = "rw" => Has(t, "rst")
  BY <1>1, <1>2, OrderTake DEF SentInv, SentOf, First
<1>8. /\ Len(conns) \in Nat /\ conn \in [Ports -> 0..Len(conns)] /\ conn["secret"] \notin FileConns
  BY FileConnsExist DEF TypeInv, HostType
<1> HIDE DEF t
\* The packets that remain, while connections stay as they are.
<1>9. ASSUME First.op # "rst", UNCHANGED << conn, backlog >>
      PROVE  SentInv' /\ FileConns' = FileConns /\ Waiting' = Waiting
  <2>1. FileConns' = FileConns /\ Waiting' = Waiting
    BY <1>1, <1>9 DEF FileConns, Waiting
  <2>2. SentInv'
    <3> SUFFICES ASSUME ~FetchingSecret PROVE SentInv'
      BY <1>5 DEF SentInv
    <3>1. SentOf(g2h)
      BY <1>2 DEF SentInv
    <3>2. SentOf(t)
      BY <1>4, <1>7, <1>9, <3>1 DEF SentOf
    <3> QED
      BY <1>1, <1>7, <1>9, <2>1, <3>2 DEF SentInv, SentOf
  <2> QED
    BY <2>1, <2>2
<1>10. CASE Refused
  <2> DEFINE x == ToGuest("rst")
  <2>1. /\ First.op # "rst" /\ UNCHANGED << conns, conn, backlog >>
        /\ h2g' = h2g \/ (conn[First.port] = 0 /\ h2g' = Append(h2g, x))
    BY <1>10 DEF Refused
  <2>2. x \in HostPackets /\ x.op = "rst"
    BY PacketTypes DEF ToGuest
  <2> HIDE DEF x
  <2>3. SentInv' /\ FileConns' = FileConns /\ Waiting' = Waiting
    BY <1>9, <2>1
  <2>4. FreshInv'
    BY <1>1, <1>2, <1>4, <2>1 DEF FreshInv, Has
  <2>5. \A n : Sent(n)' = Sent(n)
    BY <1>1, <2>1, <2>3 DEF Sent
  <2>6. ConnectInv' /\ RespInv'
    BY <1>1, <1>4, <2>1, <2>2, <2>5, HostSays
  <2>7. SecretInv'
    <3> SUFFICES ASSUME FetchingSecret PROVE SecretInv'
      BY <1>5 DEF SecretInv
    <3>1. Elems(Append(h2g, x)) = Elems(h2g) \cup {x}
      BY <1>2, <2>2, ElemsPut
    <3>2. /\ \A e \in Elems(h2g') : e \in Elems(h2g) \/ e = x
          /\ conn["secret"] # 0 => h2g' = h2g
      BY <1>6, <2>1, <3>1
    <3>3. t = << >> => Elems(t) = {}
      BY ElemsEmpty
    <3>4. h2g = << >> => Elems(h2g) = {}
      BY ElemsEmpty
    <3>5. pc = "connect" =>
            /\ ~Has(t, "rw")
            /\ \/ conn["secret"] = 0 /\ ~Has(t, "request") /\ ~Has(h2g', "response")
               \/ conn["secret"] # 0 /\ ~Has(t, "request") /\ ~Has(h2g', "rst")
      BY <1>2, <1>4, <2>2, <3>2, <3>3, <3>4 DEF SecretInv, Has, t
    <3> QED
      BY <1>1, <1>2, <1>4, <1>6, <2>1, <2>2, <2>3, <3>2, <3>5 DEF SecretInv, Has
  <2> QED
    BY <1>3, <2>3, <2>4, <2>6, <2>7 DEF LinkInv
<1>11. ASSUME NEW p \in Ports, Accepted(p) PROVE LinkInv'
  <2> DEFINE x == ToGuest("response")
             new == Len(conns) + 1
  <2>1. /\ First.op = "request" /\ First.port = p /\ conn[p] = 0
        /\ conns'[new].req = NoCall /\ conn' = [conn EXCEPT ![p] = new]
        /\ backlog' = IF p = "file" THEN Append(backlog, new) ELSE backlog
        /\ h2g' = Append(h2g, x)
    BY <1>11 DEF Accepted
  <2>2. x \in HostPackets /\ x.op = "response"
    BY PacketTypes DEF ToGuest
  <2>3. new # 0 /\ conn'[p] = new /\ \A q \in Ports : q # p => conn'[q] = conn[q]
    BY <1>8, <2>1
  <2> HIDE DEF x, new
  <2>4. Elems(h2g') = Elems(h2g) \cup {x}
    BY <1>2, <2>1, <2>2, ElemsPut
  <2>5. CASE FetchingSecret
    <3>1. p = "secret" /\ pc = "connect" /\ port = "secret"
      <4>1. Has(g2h, "request")
        BY <1>4, <2>1 DEF Has
      <4>2. pc # "boot" /\ pc # "resp" /\ pc # "idle" /\ port = "secret"
        BY <1>2, <1>6, <2>5, <4>1 DEF SecretInv, FetchingSecret
      <4> QED
        BY <1>6, <2>1, <2>5, <4>2 DEF TypeInv, GuestType
    <3>2. h2g = << >> /\ t = << >>
      <4>1. Has(g2h, "request")
        BY <1>4, <2>1 DEF Has
      <4> QED
        BY <1>2, <2>5, <3>1, <4>1 DEF SecretInv, t
    <3>3. Elems(h2g') = {x} /\ Elems(g2h') = {}
      BY <1>1, <2>4, <3>2, ElemsEmpty
    <3>4. conn'["secret"] # 0 /\ conn'["file"] = 0 /\ FileConns' = {}
      <4>1. conn'["secret"] # 0 /\ conn'["file"] = conn["file"] /\ conn["file"] = 0
        BY <1>2, <2>3, <2>5, <3>1 DEF Ports
      <4> QED
        BY <1>1, <1>2, <2>1, <2>5, <3>1, <4>1 DEF FileConns, Waiting
    <3>5. SecretInv'
      BY <1>1, <1>2, <2>2, <2>5, <3>1, <3>3, <3>4 DEF SecretInv, Has
    <3>6. SentInv' /\ FreshInv' /\ ConnectInv' /\ RespInv'
      BY <1>1, <1>5, <2>5, <3>1, <3>4 DEF SentInv, FreshInv, ConnectInv, RespInv
    <3> QED
      BY <1>3, <3>5, <3>6 DEF LinkInv
  <2>6. CASE ~FetchingSecret
    <3>1. SentOf(g2h)
      BY <1>2, <2>6 DEF SentInv
    <3>2. p = "file"
      BY <1>4, <2>1, <3>1 DEF SentOf, Ports
    <3>3. \A e \in Elems(g2h) : e.port = "file" /\ e.op # "rst"
      <4>1. \A e \in Elems(g2h) : e.port # "secret"
        BY <1>7, <2>1, <2>6, <3>2
      <4>2. \A e \in Elems(g2h) : e \in GuestPackets
        BY <1>2, ElementOfSeq DEF Elems
      <4>3. \A e \in Elems(g2h) : e.port \in Ports
        BY <4>2 DEF GuestPackets, Ports
      <4> QED
        BY <2>1, <3>1, <3>2, <4>1, <4>3 DEF SentOf, Ports
    <3>4. conn["secret"] = 0 /\ conn'["secret"] = 0 /\ conn'["file"] = new
      BY <2>3, <3>1, <3>2, <3>3 DEF SentOf, Ports
    <3>5. SentInv'
      BY <1>1, <1>4, <1>5, <1>7, <2>6, <3>3, <3>4 DEF SentInv, SentOf
    <3>6. FreshInv'
      BY <2>1, <3>4 DEF FreshInv
    <3>7. SecretInv'
      BY <1>5, <2>6 DEF SecretInv
    <3>8. RespInv'
      BY <1>1, <1>2, <2>1, <3>2 DEF RespInv
    <3>9. ConnectInv'
      <4> SUFFICES ASSUME pc = "connect", port = "file" PROVE ConnectInv'
        BY <1>1 DEF ConnectInv
      <4>1. Quiet(h2g) /\ ~Has(h2g, "response")
        BY <1>2, <2>1, <3>2 DEF ConnectInv
      <4>2. Quiet(h2g')
        BY <1>2, <2>1, <2>2, <4>1, QuietPut
      <4> QED
        BY <1>1, <1>4, <2>3, <3>3, <3>4, <4>2 DEF ConnectInv, Has
    <3> QED
      BY <1>3, <3>5, <3>6, <3>7, <3>8, <3>9 DEF LinkInv
  <2> QED
    BY <2>5, <2>6
<1>12. ASSUME NEW p \in Ports, Taken(p) PROVE LinkInv'
  <2>1. /\ First.op \in {"rw", "credit"} /\ First.port = p /\ conn[p] # 0
        /\ UNCHANGED << conn, backlog, h2g >>
        /\ \A c \in 1..Len(conns) :
              conns'[c].req = IF c = conn[p] /\ First.op = "rw" THEN First.req ELSE conns[c].req
    BY <1>12 DEF Taken
  <2>2. SentInv' /\ FileConns' = FileConns /\ Waiting' = Waiting
    BY <1>9, <2>1
  <2>3. conn["file"] # 0 => conn["file"] \in 1..Len(conns)
    BY <1>8 DEF Ports
  <2>4. FreshInv'
    <3> SUFFICES ASSUME conn["file"] # 0, ~Has(t, "rst"), pc # "resp"
                 PROVE  conns'[conn["file"]].req = NoCall
      BY <1>1, <2>1 DEF FreshInv
    <3>1. First.op # "rw"
      BY <1>2, <1>7
    <3>2. ~Has(g2h, "rst")
      BY <1>4, <2>1 DEF Has
    <3> QED
      BY <1>2, <2>1, <2>3, <3>1, <3>2 DEF FreshInv
  <2>5. pc = "resp" /\ port = "file" =>
          conns'[conn["file"]].req \in {conns[conn["file"]].req, call}
    BY <1>2, <1>4, <2>1, <2>3 DEF RespInv
  <2>6. \A n : Sent(n)' = Sent(n)
    BY <1>1, <2>1, <2>2 DEF Sent
  <2>7. ConnectInv'
    BY <1>1, <1>2, <1>4, <2>1 DEF ConnectInv, Has
  <2>8. RespInv'
    <3> SUFFICES ASSUME pc = "resp", port = "file" PROVE RespInv'
      BY <1>1 DEF RespInv
    <3>1. PICK n \in 1..MaxPieces : AnswerOf(n)
      BY <1>2 DEF RespInv
    <3>2. AnswerOf(n)'
      BY <1>1, <2>1, <2>6, <3>1 DEF AnswerOf
    <3> QED
      BY <1>1, <1>2, <1>4, <2>1, <2>5, <3>2 DEF RespInv, Has
  <2>9. SecretInv'
    <3> SUFFICES ASSUME FetchingSecret PROVE SecretInv'
      BY <1>5 DEF SecretInv
    <3>1. conn["secret"] # 0
      BY <1>6, <2>1
    <3> QED
      BY <1>1, <1>2, <1>4, <1>6, <2>1, <2>2, <3>1 DEF SecretInv, Has
  <2> QED
    BY <1>3, <2>2, <2>4, <2>7, <2>8, <2>9 DEF LinkInv
<1>13. ASSUME NEW p \in Ports, Ends(p) PROVE LinkInv'
  <2>1. /\ First.op = "rst" /\ First.port = p /\ UNCHANGED << backlog, h2g >>
        /\ conn' = [conn EXCEPT ![p] = 0]
    BY <1>13 DEF Ends
  <2>2. conn'[p] = 0 /\ \A q \in Ports : q # p => conn'[q] = conn[q]
    BY <1>8, <2>1
  <2>3. ~FetchingSecret /\ SentOf(g2h)
    BY <1>2, <1>6, <2>1 DEF SentInv
  <2>4. ~Has(t, "rst") /\ Has(g2h, "rst")
    BY <1>4, <1>7, <2>1, <2>3 DEF Has
  <2>5. conn'["file"] \in {0, conn["file"]} /\ conn'["secret"] \in {0, conn["secret"]}
    BY <2>2 DEF Ports
  <2>6. FileConns = {} => FileConns' = {}
    BY <1>1, <2>1, <2>5 DEF FileConns, Waiting
  <2>7. conn'["secret"] = 0
    <3>1. CASE p = "secret"
      BY <2>2, <3>1
    <3>2. CASE p = "file"
      <4>1. ~\E e \in Elems(g2h) : e.op = "rst" /\ e.port = "secret"
        BY <1>4, <2>1, <2>4, <3>2 DEF Has
      <4>2. conn["secret"] = 0
        BY <2>3, <4>1 DEF SentOf
      <4> QED
        BY <2>5, <4>2
    <3> QED
      BY <3>1, <3>2 DEF Ports
  <2>8. SentInv'
    BY <1>1, <1>4, <1>5, <1>7, <2>3, <2>4, <2>6, <2>7 DEF SentInv, SentOf, Has
  <2>9. conn'["file"] = 0
    <3>1. CASE p = "file"
      BY <2>2, <3>1
    <3>2. CASE p = "secret"
      <4>1. FileConns = {}
        BY <1>4, <2>1, <2>3, <3>2 DEF SentOf
      <4> QED
        BY <2>5, <4>1 DEF FileConns
    <3> QED
      BY <3>1, <3>2 DEF Ports
  <2>10. FreshInv' /\ SecretInv' /\ ConnectInv' /\ RespInv'
    BY <1>1, <1>2, <1>5, <2>1, <2>3, <2>4, <2>9 DEF FreshInv, SecretInv, ConnectInv, RespInv
  <2> QED
    BY <1>3, <2>8, <2>10 DEF LinkInv
<1> QED
  BY <1>1, <1>10, <1>11, <1>12, <1>13

-----------------------------------------------------------------------------
(* The servers' steps.                                                      *)

\* A server that sends is at the current connection of the file ports.
LEMMA LiveServer ==
    ASSUME TypeInv, HostInv, server # 0, conns[server].live
    PROVE  conn["file"] = server
<1>1. server \in 1..Len(conns) /\ conn["secret"] \notin FileConns
  BY FileConnsExist DEF TypeInv, HostType
<1>2. PICK p \in Ports : conn[p] = server
  BY <1>1 DEF HostInv
<1>3. server \in FileConns
  BY DEF FileConns
<1> QED
  BY <1>1, <1>2, <1>3 DEF Ports

\* The answer to a request is numbered as it is.
LEMMA AnswerFacts ==
    ASSUME TypeInv, ServerHandle, conns[server].req = call
    PROVE  \E m \in 1..MaxPieces : /\ out' # None /\ Len(out') = m
                                   /\ \A k \in 1..m : Own(out'[k], call.id, k, m)
<1>1. PICK ok \in BOOLEAN, m \in 1..MaxPieces, holds \in [data : 0..Torn, names : SUBSET Paths] :
        out' = Response(call.id, ok, m, holds)
  BY HandleFacts DEF TypeInv
<1>2. call.id \in 0..MaxCalls
  <2>1. call \in FileCalls
    BY HandleFacts DEF TypeInv
  <2> QED
    BY <2>1, VsockConstants DEF FileCalls
<1> DEFINE id == call.id
           r == Response(id, ok, m, holds)
<1>3. /\ r \in Seq(Pieces) /\ Len(r) = m
      /\ \A k \in 1..m : r[k].id = id /\ r[k].k = k /\ r[k].len = m
  <2> HIDE DEF id
  <2>1. id \in 0..MaxCalls
    BY <1>2 DEF id
  <2> QED
    BY <2>1, ResponseFacts
<1>4. r # None
  BY <1>3, VsockConstants
<1> HIDE DEF r
<1>5. out' = r
  BY <1>1 DEF r
<1> QED
  BY <1>3, <1>4, <1>5 DEF Own

LEMMA ServerLink ==
    ASSUME TypeInv, LinkInv, KernelCredit \/ SecretServer \/ FileServer
    PROVE  LinkInv'
<1>1. /\ g2h \in Seq(GuestPackets) /\ h2g \in Seq(HostPackets) /\ got \in Seq(Pieces)
      /\ FetchingSecret => FileConns = {} /\ conn["file"] = 0
      /\ pc \in {"connect", "resp"} /\ port = "file" => ~FetchingSecret
      /\ SecretInv /\ SentInv /\ HostInv /\ FreshInv /\ ConnectInv /\ RespInv
      /\ AnswersOwnRequest /\ budget.timeouts["secret"] = 0
  BY WaitFacts
<1>2. UNCHANGED << pc, call, port, got, ret, g2h, conn >>
  BY DEF KernelCredit, SecretServer, FileServer, ServerAccept, ServerHandle, ServerSend,
         ServerClose, guest
<1>3. budget'.timeouts["secret"] = 0
  BY <1>1 DEF KernelCredit, SecretServer, FileServer, ServerAccept, ServerHandle, ServerSend,
              ServerClose, TypeInv, GuestType
<1>4. HostInv' /\ AnswersOwnRequest' /\ FetchingSecret' = FetchingSecret
  BY <1>1, <1>2, HostInvServer DEF AnswersOwnRequest, FetchingSecret
<1>5. /\ HostType /\ Len(conns) \in Nat /\ conn["file"] \in 0..Len(conns)
      /\ conn["secret"] \in 0..Len(conns) /\ server \in 0..Len(conns)
      /\ Waiting \subseteq 1..Len(conns) /\ backlog \in Seq(1..Len(conns))
      /\ (server = 0 => out = None) /\ out \in {None} \cup Seq(Pieces)
  BY FileConnsExist DEF TypeInv, HostType
<1>6. conn["file"] # 0 => conn["file"] \in 1..Len(conns)
  BY <1>5
\* Nothing but the server has moved.
<1>7. ASSUME FileConns = {} => FileConns' = {}
      PROVE  SentInv'
  BY <1>1, <1>2, <1>4, <1>7 DEF SentInv, SentOf
<1>8. ASSUME conn["file"] # 0 => conns'[conn["file"]].req = conns[conn["file"]].req
      PROVE  FreshInv'
  BY <1>1, <1>2, <1>8 DEF FreshInv
<1>9. CASE KernelCredit
  <2> DEFINE x == ToGuest("credit")
  <2>1. /\ UNCHANGED << conns, backlog, server, out >> /\ h2g' = Append(h2g, x)
        /\ \E p \in Ports : conn[p] # 0
    BY <1>9 DEF KernelCredit, Reply, fileserver
  <2>2. x \in HostPackets /\ x.op = "credit"
    BY PacketTypes DEF ToGuest
  <2> HIDE DEF x
  <2>3. FileConns' = FileConns /\ Waiting' = Waiting /\ \A n : Sent(n)' = Sent(n)
    BY <1>2, <2>1 DEF FileConns, Waiting, Sent
  <2>4. ConnectInv' /\ RespInv'
    BY <1>2, <2>1, <2>2, <2>3, HostSays
  <2>5. SecretInv'
    <3> SUFFICES ASSUME FetchingSecret PROVE SecretInv'
      BY <1>4 DEF SecretInv
    <3>1. Elems(h2g') = Elems(h2g) \cup {x}
      BY <1>1, <2>1, <2>2, ElemsPut
    <3>2. conn["secret"] # 0
      BY <1>1, <2>1 DEF Ports
    <3> QED
      BY <1>1, <1>2, <2>2, <2>3, <3>1, <3>2 DEF SecretInv, Has
  <2> QED
    BY <1>3, <1>4, <1>7, <1>8, <2>1, <2>3, <2>4, <2>5 DEF LinkInv
<1>10. CASE SecretServer
  <2> DEFINE d == [id |-> 0, k |-> 1, len |-> 1, ok |-> TRUE, holds |-> Nothing]
             x == Piece(d)
  <2>1. /\ conn["secret"] # 0 /\ UNCHANGED << backlog, server, out >> /\ h2g' = Append(h2g, x)
    BY <1>10 DEF SecretServer, fileserver
  <2>2. x \in HostPackets /\ x.op = "rw" /\ Own(x.data, 0, 1, 1)
    <3>1. d \in Pieces
      BY VsockConstants DEF Pieces, Nothing, Torn
    <3> QED
      BY <3>1, PacketTypes DEF Piece, Own
  <2> HIDE DEF x, d
  <2>3. FileConns' = FileConns
    BY <1>2, <2>1 DEF FileConns, Waiting
  <2>4. conn["file"] # 0 => conns'[conn["file"]].req = conns[conn["file"]].req
    BY <1>6, <1>10, SentOnly DEF SameConns
  <2>5. CASE FetchingSecret
    <3>1. Elems(h2g') = Elems(h2g) \cup {x}
      BY <1>1, <2>1, <2>2, ElemsPut
    <3>2. SecretInv'
      BY <1>1, <1>2, <2>1, <2>2, <2>3, <2>5, <3>1 DEF SecretInv, Has
    <3>3. ConnectInv' /\ RespInv'
      BY <1>1, <1>2, <2>5 DEF ConnectInv, RespInv
    <3> QED
      BY <1>3, <1>4, <1>7, <1>8, <2>3, <2>4, <3>2, <3>3 DEF LinkInv
  <2>6. CASE ~FetchingSecret
    <3>1. Has(g2h, "rst")
      BY <1>1, <2>1, <2>6 DEF SentInv, SentOf, Has
    <3>2. RespInv'
      BY <1>1, <1>2, <3>1 DEF RespInv
    <3>3. ConnectInv'
      <4> SUFFICES ASSUME pc = "connect", port = "file" PROVE ConnectInv'
        BY <1>2 DEF ConnectInv
      <4>1. Quiet(h2g) /\ ~Has(h2g, "response")
        BY <1>1, <3>1 DEF ConnectInv
      <4>2. Quiet(h2g')
        BY <1>1, <2>1, <2>2, <4>1, QuietPut
      <4>3. Elems(h2g') = Elems(h2g) \cup {x}
        BY <1>1, <2>1, <2>2, ElemsPut
      <4> QED
        BY <2>2, <4>1, <4>2, <4>3 DEF ConnectInv, Has
    <3>4. SecretInv'
      BY <1>4, <2>6 DEF SecretInv
    <3> QED
      BY <1>3, <1>4, <1>7, <1>8, <2>3, <2>4, <3>2, <3>3, <3>4 DEF LinkInv
  <2> QED
    BY <2>5, <2>6
\* The file server has nothing to do while the secret is fetched.
<1>11. FileServer => ~FetchingSecret
  <2>1. FileConns = {} => server = 0 /\ backlog = << >>
    <3>1. FileConns = {} => Waiting = {} /\ server = 0
      BY <1>5 DEF FileConns
    <3>2. backlog # << >> => backlog[1] \in Waiting
      BY <1>5, Take DEF Waiting
    <3> QED
      BY <3>1, <3>2
  <2> QED
    BY <1>1, <2>1 DEF FileServer, ServerAccept, ServerHandle, ServerSend, ServerClose
<1>12. FileServer => SecretInv'
  BY <1>4, <1>11 DEF SecretInv
<1>13. CASE ServerAccept
  <2>1. /\ server = 0 /\ backlog # << >> /\ server' = Head(backlog) /\ backlog' = Tail(backlog)
        /\ UNCHANGED << h2g, conns, out >>
    BY <1>13 DEF ServerAccept
  <2>2. server' = backlog[1] /\ Waiting = {server'} \cup Waiting'
    <3>1. Elems(backlog) = {backlog[1]} \cup Elems(Tail(backlog)) /\ Head(backlog) = backlog[1]
      BY <1>5, <2>1, ElemsTake, Take
    <3> QED
      BY <2>1, <3>1 DEF Waiting, Elems
  <2>3. FileConns' = FileConns
    BY <1>2, <1>5, <2>1, <2>2 DEF FileConns
  <2>4. conn["file"] # 0 => \A n : Sent(n)' = Sent(n)
    BY <1>2, <1>5, <2>1, <2>2 DEF Sent
  <2>5. RespInv'
    <3> SUFFICES ASSUME pc = "resp", port = "file" PROVE RespInv'
      BY <1>2 DEF RespInv
    <3>1. PICK n \in 1..MaxPieces : AnswerOf(n)
      BY <1>1 DEF RespInv
    <3>2. conn["file"] # 0 /\ out' = None
      BY <1>1, <1>5, <2>1 DEF RespInv
    <3>3. AnswerOf(n)'
      BY <1>2, <2>1, <2>4, <3>1, <3>2 DEF AnswerOf
    <3> QED
      BY <1>1, <1>2, <2>1, <3>3 DEF RespInv
  <2>6. ConnectInv'
    BY <1>1, <1>2, <2>1 DEF ConnectInv
  <2> QED
    BY <1>3, <1>4, <1>7, <1>8, <1>12, <1>13, <2>1, <2>3, <2>5, <2>6 DEF LinkInv, FileServer
<1>14. CASE ServerHandle
  <2>1. /\ server # 0 /\ out = None /\ conns[server].req # NoCall
        /\ UNCHANGED << h2g, conns, backlog, server >>
    BY <1>14 DEF ServerHandle
  <2>2. FileConns' = FileConns /\ Waiting' = Waiting
    BY <1>2, <2>1 DEF FileConns, Waiting
  <2>3. ConnectInv'
    BY <1>1, <1>2, <2>1 DEF ConnectInv
  <2>4. RespInv'
    <3> SUFFICES ASSUME pc = "resp", port = "file" PROVE RespInv'
      BY <1>2 DEF RespInv
    <3>1. PICK n \in 1..MaxPieces : AnswerOf(n)
      BY <1>1 DEF RespInv
    <3>2. \E m \in 1..MaxPieces : AnswerOf(m)'
      <4>1. CASE conn["file"] # server
        <5>1. Sent(n)' = Sent(n)
          BY <1>2, <2>1, <2>2, <4>1 DEF Sent
        <5>2. AnswerOf(n)'
          BY <1>2, <2>1, <3>1, <4>1, <5>1 DEF AnswerOf
        <5> QED
          BY <5>2
      <4>2. CASE conn["file"] = server
        <5>1. conns[server].req = call
          BY <1>1, <2>1, <4>2 DEF RespInv
        <5>2. PICK m \in 1..MaxPieces : /\ out' # None /\ Len(out') = m
                                        /\ \A k \in 1..m : Own(out'[k], call.id, k, m)
          BY <1>14, <5>1, AnswerFacts
        <5>3. m \in Nat
          BY VsockConstants
        <5>4. Sent(n) = 0 /\ Sent(m)' = 0
          BY <1>2, <2>1, <2>2, <4>2, <5>2, <5>3 DEF Sent
        <5>5. OnTheWay(h2g, got, call.id, n, 0) /\ Len(got) \in Nat /\ Len(h2g) \in Nat
          BY <1>1, <3>1, <5>4, LenProperties DEF AnswerOf
        <5>6. Len(got) = 0 /\ \A i \in 1..Len(h2g) : h2g[i].op # "rw"
          BY <5>5 DEF OnTheWay
        <5>7. OnTheWay(h2g, got, call.id, m, 0)
          BY <5>3, <5>6 DEF OnTheWay
        <5>8. AnswerOf(m)'
          BY <1>2, <2>1, <5>2, <5>3, <5>4, <5>7 DEF AnswerOf
        <5> QED
          BY <5>8
      <4> QED
        BY <4>1, <4>2
    <3> QED
      BY <1>1, <1>2, <2>1, <3>2 DEF RespInv
  <2> QED
    BY <1>3, <1>4, <1>7, <1>8, <1>12, <1>14, <2>1, <2>2, <2>3, <2>4 DEF LinkInv, FileServer
<1>15. CASE ServerSend
  <2> DEFINE d == out[1]
             x == Piece(d)
  <2>1. /\ server # 0 /\ out # None /\ out # << >> /\ conns[server].live
        /\ h2g' = Append(h2g, Piece(Head(out))) /\ out' = Tail(out)
        /\ UNCHANGED << backlog, server >>
    BY <1>15 DEF ServerSend
  <2>2. /\ out \in Seq(Pieces) /\ d \in Pieces /\ Head(out) = d /\ Len(out) \in Nat \ {0}
        /\ Tail(out) \in Seq(Pieces) /\ Len(Tail(out)) = Len(out) - 1
        /\ \A i \in 1..(Len(out) - 1) : Tail(out)[i] = out[i + 1]
    BY <1>5, <2>1, Take
  <2>3. x \in HostPackets /\ x.op = "rw" /\ h2g' = Append(h2g, x)
    BY <2>1, <2>2, PacketTypes DEF Piece
  <2> HIDE DEF x
  <2>4. FileConns' = FileConns /\ Waiting' = Waiting
    BY <1>2, <2>1 DEF FileConns, Waiting
  <2>5. conn["file"] = server /\ conns[conn["file"]].req # NoCall
    BY <1>1, <2>1, LiveServer DEF HostInv
  <2>6. conns'[conn["file"]].req = conns[conn["file"]].req
    BY <1>6, <1>15, <2>1, <2>5, SentOnly DEF SameConns
  <2>7. ConnectInv'
    <3> SUFFICES ASSUME pc = "connect", port = "file" PROVE ConnectInv'
      BY <1>2 DEF ConnectInv
    <3>1. Has(g2h, "rst")
      BY <1>1, <2>1, <2>5 DEF FreshInv
    <3>2. Quiet(h2g) /\ ~Has(h2g, "response")
      BY <1>1, <3>1 DEF ConnectInv
    <3>3. Quiet(h2g')
      BY <1>1, <2>3, <3>2, QuietPut
    <3>4. Elems(h2g') = Elems(h2g) \cup {x}
      BY <1>1, <2>3, ElemsPut
    <3> QED
      BY <2>3, <3>2, <3>3, <3>4 DEF ConnectInv, Has
  <2>8. RespInv'
    <3> SUFFICES ASSUME pc = "resp", port = "file" PROVE RespInv'
      BY <1>2 DEF RespInv
    <3>1. PICK n \in 1..MaxPieces : AnswerOf(n)
      BY <1>1 DEF RespInv
    <3> DEFINE id == call.id
               s == n - Len(out)
    <3>2. conn["file"] \notin Waiting
      BY <1>1, <1>5, <2>5 DEF HostInv
    <3>3. n \in Nat /\ Len(out) <= n /\ s \in Nat /\ Sent(n) = s
      <4>1. n \in Nat /\ Len(out) <= n
        BY <2>1, <2>5, <3>1, SentNat DEF AnswerOf
      <4> QED
        BY <2>1, <2>2, <2>5, <3>2, <4>1 DEF Sent
    <3>4. \A k \in 1..Len(out) : Own(out[k], id, s + k, n)
      BY <2>1, <2>5, <3>1 DEF AnswerOf
    <3>5. OnTheWay(h2g, got, id, n, s) /\ Own(d, id, s + 1, n)
      <4>1. 1 \in 1..Len(out)
        BY <2>2
      <4> QED
        BY <3>1, <3>3, <3>4, <4>1 DEF AnswerOf
    <3>6. Tail(out) # None /\ Sent(n)' = s + 1
      <4>1. Tail(out) # None
        BY <2>2, VsockConstants
      <4>2. n - Len(Tail(out)) = s + 1
        BY <2>2, <3>3
      <4> QED
        BY <1>2, <2>1, <2>4, <2>5, <3>2, <4>1, <4>2 DEF Sent
    <3>7. /\ Len(Tail(out)) <= n
          /\ \A k \in 1..Len(Tail(out)) : Own(Tail(out)[k], id, n - Len(Tail(out)) + k, n)
      <4>1. Len(Tail(out)) <= n
        BY <2>2, <3>3
      <4>2. ASSUME NEW k \in 1..Len(Tail(out))
            PROVE  Own(Tail(out)[k], id, n - Len(Tail(out)) + k, n)
        <5>1. k + 1 \in 1..Len(out) /\ Tail(out)[k] = out[k + 1]
          BY <2>2
        <5>2. n - Len(Tail(out)) + k = s + (k + 1)
          BY <2>2, <3>3
        <5> QED
          BY <3>4, <5>1, <5>2
      <4> QED
        BY <4>1, <4>2
    <3> HIDE DEF id, s, d
    <3>8. OnTheWay(h2g', got, id, n, s + 1)
      BY <1>1, <2>2, <2>3, <3>3, <3>5, SendPiece DEF x
    <3>9. AnswerOf(n)'
      BY <1>2, <2>1, <3>6, <3>7, <3>8 DEF AnswerOf, id
    <3>10. Elems(h2g') = Elems(h2g) \cup {x}
      BY <1>1, <2>3, ElemsPut
    <3> QED
      BY <1>1, <1>2, <2>3, <2>6, <3>9, <3>10 DEF RespInv, Has
  <2> QED
    BY <1>3, <1>4, <1>7, <1>8, <1>12, <1>15, <2>4, <2>6, <2>7, <2>8 DEF LinkInv, FileServer
<1>16. CASE ServerClose
  <2> DEFINE x == ToGuest("shutdown")
  <2>1. /\ server # 0 /\ server' = 0 /\ out' = None /\ UNCHANGED << conns, backlog >>
        /\ \/ conns[server].live /\ out = << >> /\ h2g' = Append(h2g, x)
           \/ ~conns[server].live /\ h2g' = h2g
    BY <1>16 DEF ServerClose, Reply
  <2>2. x \in HostPackets /\ x.op = "shutdown"
    BY PacketTypes DEF ToGuest
  <2> HIDE DEF x
  <2>3. Waiting' = Waiting /\ FileConns' \subseteq FileConns
    BY <1>2, <2>1 DEF FileConns, Waiting
  <2>4. ASSUME NEW n \in 1..MaxPieces, conn["file"] # 0 PROVE Sent(n)' = Sent(n)
    <3>1. CASE conn["file"] = server
      <4>1. conns[server].live
        BY <1>1, <2>4, <3>1 DEF HostInv, Ports
      <4>2. out = << >> /\ << >> # None
        BY <2>1, <4>1, EmptySeq, VsockConstants
      <4>3. conn["file"] \notin Waiting
        BY <1>1, <1>5, <3>1 DEF HostInv
      <4>4. n - Len(out) = n
        BY <4>2, VsockConstants
      <4> QED
        BY <1>2, <2>1, <2>3, <2>4, <3>1, <4>2, <4>3, <4>4 DEF Sent
    <3>2. CASE conn["file"] # server
      BY <1>2, <2>1, <2>3, <2>4, <3>2 DEF Sent
    <3> QED
      BY <3>1, <3>2
  <2>5. ConnectInv' /\ RespInv'
    <3>1. \A n \in 1..MaxPieces : pc = "resp" /\ port = "file" /\ AnswerOf(n) =>
              /\ Sent(n)' = Sent(n)
              /\ (conn["file"] = server /\ out # None)' => conn["file"] = server /\ out' = out
      BY <1>1, <2>1, <2>4 DEF RespInv
    <3> QED
      BY <1>2, <2>1, <2>2, <3>1, HostSays
  <2> QED
    BY <1>3, <1>4, <1>7, <1>8, <1>12, <1>16, <2>1, <2>3, <2>5 DEF LinkInv, FileServer
<1> QED
  BY <1>9, <1>10, <1>13, <1>14, <1>15, <1>16 DEF FileServer

-----------------------------------------------------------------------------
(* LinkInv is an invariant.                                                 *)

LEMMA LinkInit ==
    ASSUME Init, SecretTimeouts = 0
    PROVE  LinkInv
<1>1. /\ pc = "boot" /\ port = "secret" /\ got = << >> /\ g2h = << >> /\ h2g = << >>
      /\ conns = << >> /\ conn = [p \in Ports |-> 0] /\ backlog = << >> /\ server = 0 /\ out = None
      /\ budget = [calls |-> MaxCalls, credits |-> MaxCredits, timeouts |-> Patience]
      /\ ret.ok = FALSE
  BY DEF Init
<1>2. Elems(g2h) = {} /\ Elems(h2g) = {} /\ Waiting = {}
  BY <1>1, ElemsEmpty DEF Elems, Waiting
<1>3. conn["secret"] = 0 /\ conn["file"] = 0 /\ FileConns = {}
  BY <1>1, <1>2 DEF Ports, FileConns
<1>4. SecretInv /\ SentInv /\ FreshInv /\ ConnectInv /\ RespInv /\ AnswersOwnRequest
  BY <1>1, <1>2, <1>3 DEF SecretInv, FetchingSecret, SentInv, FreshInv, ConnectInv, RespInv,
                          AnswersOwnRequest
<1>5. HostInv
  BY <1>1, <1>2, <1>3 DEF HostInv
<1>6. budget.timeouts["secret"] = 0
  BY <1>1 DEF Patience, Ports
<1> QED
  BY <1>4, <1>5, <1>6 DEF LinkInv

LEMMA LinkStep ==
    ASSUME TypeInv, LinkInv, [Next]_vars
    PROVE  LinkInv'
<1>1. CASE UNCHANGED vars
  <2>1. /\ UNCHANGED << pc, call, port, got, ret, g2h, h2g, conns, conn, backlog, server, out, budget >>
    BY <1>1 DEF vars, guest, fileserver
  <2>2. Waiting' = Waiting /\ FileConns' = FileConns /\ \A n : Sent(n)' = Sent(n)
    BY <2>1 DEF Waiting, FileConns, Sent
  <2>3. \A n : AnswerOf(n)' = AnswerOf(n)
    BY <2>1, <2>2 DEF AnswerOf
  <2> QED
    BY <2>1, <2>2, <2>3 DEF LinkInv, SecretInv, FetchingSecret, SentInv, SentOf, HostInv, FreshInv,
                            ConnectInv, RespInv, AnswersOwnRequest
<1> QED
  BY <1>1, CallsLink, ConnectLink, RespLink, TimeoutLink, KernelLink, ServerLink
     DEF Next, Guest

\* As long as the wait loops of fetch_secret do not run out, a call that
\* succeeds returns the whole answer to its own request, whatever earlier file
\* calls left on the way when they timed out.  The hypothesis is needed: the
\* late RESPONSE of a secret connection that was given up is taken for that of
\* the next call.
THEOREM VsockAnswersOwnRequest ==
    ASSUME SecretTimeouts = 0
    PROVE  Spec => []AnswersOwnRequest
<1>1. Init => TypeInv /\ LinkInv
  BY TypeInit, LinkInit
<1>2. TypeInv /\ LinkInv /\ [Next]_vars => TypeInv' /\ LinkInv'
  BY TypeStep, LinkStep
<1>3. LinkInv => AnswersOwnRequest
  BY DEF LinkInv
<1> QED
  BY <1>1, <1>2, <1>3, PTL DEF Spec

-----------------------------------------------------------------------------
(* The steps of FileService, by what they do to its variables.              *)

ACall == IF pc \in {"boot", "idle"} THEN NoCall ELSE OfFile(call)
ARet == [call |-> OfFile(ret.call), ok |-> ret.ok /\ ret.call.op # "secret",
         data |-> Returned.data, names |-> Returned.names]
Failed(c) == [call |-> c, ok |-> FALSE, data |-> 0, names |-> {}]

AStep == [Promise!Next]_(Promise!vars)

\* Nothing that FileService sees.
LEMMA AbsStutter ==
    ASSUME ACall' = ACall, Undone' = Undone, ARet' = ARet, files' = files
    PROVE  AStep
  BY DEF AStep, Promise!vars, ACall, ARet

\* A call begins; a write may take effect from now on.
LEMMA AbsBegin ==
    ASSUME NEW c \in FileCalls, ACall = NoCall, ACall' = c, ARet' = ARet, files' = files,
           Undone' = Undone \cup {b \in {c} : b.op = "write"}
    PROVE  AStep
<1>1. Promise!Begin(c)
  BY DEF Promise!Begin, Promise!Writes, ACall, ARet
<1> QED
  BY <1>1 DEF AStep, Promise!Next

\* A call fails before anything was sent.
LEMMA AbsRefuse ==
    ASSUME NEW c \in FileCalls, ACall = NoCall, ACall' = NoCall, ARet' = Failed(c), files' = files,
           Undone' = Undone
    PROVE  AStep
<1>1. Promise!Refuse(c)
  BY DEF Promise!Refuse, Promise!Returned, ACall, ARet, Failed
<1> QED
  BY <1>1 DEF AStep, Promise!Next

\* A write is carried out, broken off or lost.
LEMMA AbsEffect ==
    ASSUME NEW c \in Undone, Undone' = Undone \ {c}, ACall' = ACall, ARet' = ARet,
           files' \in {files, [files EXCEPT ![c.path] = c.id], [files EXCEPT ![c.path] = Torn]}
    PROVE  AStep
<1>1. Promise!Effect(c)
  BY DEF Promise!Effect, ACall, ARet, DataOf
<1> QED
  BY <1>1 DEF AStep, Promise!Next

\* A call fails; a write that was never sent cannot take effect any more.
LEMMA AbsFail ==
    ASSUME ACall # NoCall, ACall' = NoCall, ARet' = Failed(ACall), files' = files,
           Undone' \in {Undone, Undone \ {ACall}}
    PROVE  AStep
<1>1. Promise!Fail
  BY DEF Promise!Fail, Promise!Returned, ACall, ARet, Failed
<1> QED
  BY <1>1 DEF AStep, Promise!Next

\* A call succeeds: nothing is left to be done, and it returns what there is.
LEMMA AbsSucceed ==
    ASSUME ACall # NoCall, ACall' = NoCall, files' = files, Undone = {}, Undone' = {},
           ACall.op = "write" => files[ACall.path] = ACall.id,
           ACall.op = "read" => files[ACall.path] # 0,
           ARet' = [call |-> ACall, ok |-> TRUE, data |-> Found(ACall).data,
                    names |-> Found(ACall).names]
    PROVE  AStep
<1>1. CASE ACall.op = "list"
  <2>1. ARet' = [call |-> ACall, ok |-> TRUE, data |-> 0, names |-> {p \in Paths : files[p] # 0}]
    BY <1>1 DEF Found
  <2>2. Promise!Succeed
    BY <1>1, <2>1 DEF Promise!Succeed, Promise!Found, Promise!Returned, ACall, ARet, DataOf
  <2> QED
    BY <2>2 DEF AStep, Promise!Next
<1>2. CASE ACall.op # "list"
  <2>1. ARet' = [call |-> ACall, ok |-> TRUE, data |-> files[ACall.path], names |-> {}]
    BY <1>2 DEF Found
  <2>2. Promise!Succeed
    BY <1>2, <2>1 DEF Promise!Succeed, Promise!Found, Promise!Returned, ACall, ARet, DataOf
  <2> QED
    BY <2>2 DEF AStep, Promise!Next
<1> QED
  BY <1>1, <1>2

-----------------------------------------------------------------------------
(* What the file server may still be asked to do.                           *)

FileRw(x) == x.op = "rw" /\ x.port = "file"

\* Requests on their way, and those the file server has not handled.
Asking == {x.req : x \in {y \in Elems(g2h) : FileRw(y)}}
Queued == Waiting \cup {j \in {server} : j # 0 /\ out = None}
Held == {conns[i].req : i \in Queued}
Opening == {c \in {call} : pc = "connect"}
Pending == Opening \cup Asking \cup Held

\* Undone is made of the requests that are pending.
LEMMA UndoneIs == TypeInv => Undone = {c \in Pending : c.op = "write"}
<1> HAVE TypeInv
<1>1. DOMAIN g2h = 1..Len(g2h) /\ DOMAIN backlog = 1..Len(backlog)
  BY LenProperties DEF TypeInv, GuestType, HostType
<1>2. {c \in {call} : pc = "connect" /\ c.op = "write"} = {c \in Opening : c.op = "write"}
  BY DEF Opening
<1>3. {g2h[i].req : i \in {j \in DOMAIN g2h : IsWrite(g2h[j])}} = {c \in Asking : c.op = "write"}
  <2>1. ASSUME NEW i \in DOMAIN g2h, IsWrite(g2h[i])
        PROVE  g2h[i].req \in Asking /\ g2h[i].req.op = "write"
    BY <1>1, <2>1 DEF IsWrite, Asking, FileRw, Elems
  <2>2. ASSUME NEW c \in Asking, c.op = "write"
        PROVE  \E i \in DOMAIN g2h : IsWrite(g2h[i]) /\ g2h[i].req = c
    <3>1. PICK x \in Elems(g2h) : FileRw(x) /\ x.req = c
      BY DEF Asking
    <3>2. PICK i \in 1..Len(g2h) : g2h[i] = x
      BY DEF Elems
    <3> QED
      BY <1>1, <2>2, <3>1, <3>2 DEF IsWrite, FileRw
  <2> QED
    BY <2>1, <2>2
<1>4. {backlog[j] : j \in DOMAIN backlog} \cup {j \in {server} : j # 0 /\ out = None} = Queued
  BY <1>1 DEF Queued, Waiting
<1> DEFINE B == {backlog[j] : j \in DOMAIN backlog} \cup {j \in {server} : j # 0 /\ out = None}
<1>5. {c \in {conns[i].req : i \in B} : c.op = "write"} = {c \in Held : c.op = "write"}
  BY <1>4 DEF Held
<1> QED
  BY <1>2, <1>3, <1>5 DEF Undone, Pending

\* The same after a step.
LEMMA UndoneNext == TypeInv' => Undone' = {c \in Pending' : c.op = "write"}
<1>1. (TypeInv => Undone = {c \in Pending : c.op = "write"})'
  BY UndoneIs, PTL
<1> QED
  BY <1>1

\* A step that keeps the requests keeps the writes.
LEMMA SamePending ==
    ASSUME TypeInv, TypeInv', Pending' = Pending
    PROVE  Undone' = Undone
  BY UndoneIs, UndoneNext

-----------------------------------------------------------------------------
(* What makes every step one of FileService.                                *)

\* Before the secret is there no call has returned and no answer holds a file.
RetInv == FetchingSecret =>
    /\ ret.call = NoCall /\ ret.ok = FALSE
    /\ \A x \in Elems(h2g) : x.op = "rw" => x.data.holds = Nothing

\* The current connection is the newest the file server has, and when it has
\* been served all others have been.
NewestInv == conn["file"] # 0 =>
    /\ \A c \in Waiting \cup {server} : c <= conn["file"]
    /\ conn["file"] \notin Waiting \cup {server} => Waiting = {} /\ server = 0

OneRw(q) == \A i, j \in 1..Len(q) : q[i].op = "rw" /\ q[j].op = "rw" => i = j

\* One request at most is on its way, and none to a connection that has one.
OnceInv ==
    /\ OneRw(g2h)
    /\ conn["file"] # 0 /\ conns[conn["file"]].req # NoCall => Asking = {}

\* The calls made so far, and those the host has heard of.
Made == MaxCalls - budget.calls
Asked == {conns[i].req : i \in 1..Len(conns)} \cap FileCalls

\* No two requests have the same number.
NumInv ==
    /\ call \in FileCalls => call.id <= Made
    /\ \A c \in Asking \cup Asked : c.id <= Made
    /\ pc = "connect" /\ port = "file" => \A c \in Asking \cup Asked : c.id < call.id
    /\ Asking \cap Asked = {}
    /\ \A i, j \in 1..Len(conns) :
          conns[i].req \in FileCalls /\ conns[i].req = conns[j].req => i = j

\* What an answer to the call says is so.
GoodPieces == {d \in Pieces :
    d.ok => /\ d.holds = Found(call)
            /\ call.op = "write" => files[call.path] = call.id
            /\ call.op = "read" => files[call.path] # 0}

HoldInv == pc = "resp" /\ port = "file" =>
    /\ Elems(got) \subseteq GoodPieces
    /\ \A x \in Elems(h2g) : x.op = "rw" => x.data \in GoodPieces
    /\ conn["file"] = server /\ out # None => Elems(out) \subseteq GoodPieces

RefInv == RetInv /\ NewestInv /\ OnceInv /\ NumInv /\ HoldInv

-----------------------------------------------------------------------------
(* Requests on their way.                                                   *)

\* One request at most, when a packet is taken from the queue,
LEMMA OneRwTake ==
    ASSUME NEW q \in Seq(GuestPackets), q # << >>, OneRw(q)
    PROVE  OneRw(Tail(q)) /\ (q[1].op = "rw" => ~Has(Tail(q), "rw"))
<1> DEFINE t == Tail(q)
<1>1. /\ Len(q) \in Nat \ {0} /\ Len(t) = Len(q) - 1
      /\ \A i \in 1..(Len(q) - 1) : t[i] = q[i + 1]
  BY Take
<1> HIDE DEF t
<1>2. \A i \in 1..Len(t) : i + 1 \in 1..Len(q) /\ t[i] = q[i + 1] /\ i \in Nat /\ i + 1 # 1
  BY <1>1
<1>3. OneRw(t)
  <2> SUFFICES ASSUME NEW i \in 1..Len(t), NEW j \in 1..Len(t), t[i].op = "rw", t[j].op = "rw"
               PROVE  i = j
    BY DEF OneRw
  <2>1. i + 1 = j + 1
    BY <1>2 DEF OneRw
  <2> QED
    BY <1>2, <2>1
<1>4. ASSUME q[1].op = "rw", Has(t, "rw") PROVE FALSE
  <2>1. PICK i \in 1..Len(t) : t[i].op = "rw"
    BY <1>4 DEF Has, Elems
  <2>2. 1 \in 1..Len(q)
    BY <1>1
  <2>3. i + 1 = 1
    BY <1>2, <1>4, <2>1, <2>2 DEF OneRw
  <2> QED
    BY <1>2, <2>3
<1> QED
  BY <1>3, <1>4 DEF t

\* and when one is added.
LEMMA OneRwPut ==
    ASSUME NEW q \in Seq(GuestPackets), OneRw(q), NEW x \in GuestPackets,
           x.op # "rw" \/ ~Has(q, "rw")
    PROVE  OneRw(Append(q, x))
<1> DEFINE a == Append(q, x)
<1>1. /\ Len(q) \in Nat /\ Len(a) = Len(q) + 1
      /\ (\A i \in 1..Len(q) : a[i] = q[i]) /\ a[Len(q) + 1] = x
  BY Put
<1> HIDE DEF a
<1>2. ASSUME NEW i \in 1..Len(a), NEW j \in 1..Len(a), a[i].op = "rw", a[j].op = "rw"
      PROVE  i = j
  <2>1. (i \in 1..Len(q) \/ i = Len(q) + 1) /\ (j \in 1..Len(q) \/ j = Len(q) + 1)
    BY <1>1
  <2>2. \A k \in 1..Len(q) : a[k].op = "rw" => Has(q, "rw") /\ q[k].op = "rw"
    BY <1>1 DEF Has, Elems
  <2>3. CASE i \in 1..Len(q) /\ j \in 1..Len(q)
    BY <1>2, <2>2, <2>3 DEF OneRw
  <2>4. CASE x.op = "rw"
    BY <1>2, <2>1, <2>2, <2>4
  <2>5. CASE x.op # "rw"
    BY <1>1, <1>2, <2>1, <2>3, <2>5
  <2> QED
    BY <2>4, <2>5
<1>3. OneRw(a)
  BY <1>2 DEF OneRw
<1> QED
  BY <1>3 DEF a

\* The queue loses its first packet.
LEMMA AskingTake ==
    ASSUME g2h \in Seq(GuestPackets), g2h # << >>, g2h' = Tail(g2h), OneRw(g2h)
    PROVE  /\ Asking = Asking' \cup {x.req : x \in {y \in {First} : FileRw(y)}}
           /\ OneRw(g2h') /\ (First.op = "rw" => Asking' = {})
           /\ Asking \subseteq FileCalls
<1>1. Elems(g2h) = {First} \cup Elems(g2h') /\ g2h' \in Seq(GuestPackets)
  BY ElemsTake, Take DEF First
<1>2. OneRw(g2h') /\ (First.op = "rw" => ~Has(g2h', "rw"))
  BY OneRwTake DEF First
<1>3. First.op = "rw" => Asking' = {}
  BY <1>2 DEF Has, Asking, FileRw
<1>4. Asking = Asking' \cup {x.req : x \in {y \in {First} : FileRw(y)}}
  BY <1>1 DEF Asking
<1>5. \A x \in Elems(g2h) : x \in GuestPackets
  BY ElementOfSeq DEF Elems
<1>6. Asking \subseteq FileCalls
  BY <1>5 DEF Asking, FileRw, GuestPackets
<1> QED
  BY <1>2, <1>3, <1>4, <1>6

\* It gains one that is no request.
LEMMA AskingPut ==
    ASSUME g2h \in Seq(GuestPackets), NEW x \in GuestPackets, x.op # "rw",
           g2h' = Append(g2h, x) \/ g2h' = g2h
    PROVE  Asking' = Asking /\ (OneRw(g2h) => OneRw(g2h'))
<1>1. CASE g2h' = g2h
  BY <1>1 DEF Asking
<1>2. CASE g2h' = Append(g2h, x)
  <2>1. Elems(g2h') = Elems(g2h) \cup {x}
    BY <1>2, ElemsPut
  <2>2. OneRw(g2h) => OneRw(g2h')
    BY <1>2, OneRwPut
  <2>3. Asking' = Asking
    BY <2>1 DEF Asking, FileRw
  <2> QED
    BY <2>2, <2>3
<1> QED
  BY <1>1, <1>2

\* The requests are file calls.
LEMMA AskingTypes ==
    ASSUME TypeInv
    PROVE  Asking \subseteq FileCalls /\ Asked \subseteq FileCalls /\ Made \in Nat
<1>1. g2h \in Seq(GuestPackets) /\ budget.calls \in 0..MaxCalls /\ MaxCalls \in Nat
  BY VsockConstants DEF TypeInv, GuestType
<1>2. \A x \in Elems(g2h) : x \in GuestPackets
  BY <1>1, ElementOfSeq DEF Elems
<1>3. Asking \subseteq FileCalls
  BY <1>2 DEF Asking, FileRw, GuestPackets
<1> QED
  BY <1>1, <1>3 DEF Asked, Made

-----------------------------------------------------------------------------
(* The guest's steps.                                                       *)

\* A step that leaves the host alone.
LEMMA GuestStepRef ==
    ASSUME TypeInv, RefInv, UNCHANGED << conns, conn, fileserver >>
    PROVE  /\ NewestInv' /\ Held' = Held /\ Asked' = Asked /\ Waiting' = Waiting
           /\ UNCHANGED << server, out, files >>
           /\ (\A i, j \in 1..Len(conns) :
                  conns[i].req \in FileCalls /\ conns[i].req = conns[j].req => i = j)'
<1>1. Waiting' = Waiting /\ UNCHANGED << server, out, files >>
  BY DEF Waiting, fileserver
<1>2. Queued' = Queued
  BY <1>1 DEF Queued
<1>3. Held' = Held
  BY <1>2 DEF Held
<1>4. Asked' = Asked
  BY DEF Asked
<1>5. NewestInv'
  BY <1>1 DEF NewestInv, RefInv
<1>6. (\A i, j \in 1..Len(conns) :
          conns[i].req \in FileCalls /\ conns[i].req = conns[j].req => i = j)'
  BY DEF RefInv, NumInv
<1> QED
  BY <1>1, <1>3, <1>4, <1>5, <1>6

\* It puts no request on the way and begins no call.
LEMMA QuietStepRef ==
    ASSUME TypeInv, RefInv, UNCHANGED << conns, conn, fileserver, call, port >>,
           budget'.calls = budget.calls, OneRw(g2h'), Asking' = Asking, pc' = pc \/ pc' = "idle", pc # "boot"
    PROVE  NewestInv' /\ OnceInv' /\ NumInv' /\ Held' = Held
<1>1. /\ NewestInv' /\ Held' = Held /\ Asked' = Asked
      /\ (\A i, j \in 1..Len(conns) :
             conns[i].req \in FileCalls /\ conns[i].req = conns[j].req => i = j)'
  BY GuestStepRef
<1>2. OnceInv'
  BY DEF RefInv, OnceInv
<1>3. Made' = Made
  BY DEF Made
<1>4. NumInv'
  BY <1>1, <1>3 DEF RefInv, NumInv
<1> QED
  BY <1>1, <1>2, <1>4

\* A step that returns nothing and changes no file.
LEMMA StutterRef ==
    ASSUME TypeInv, TypeInv', Pending' = Pending, ACall' = ACall, UNCHANGED << ret, files >>
    PROVE  AStep
<1>1. Undone' = Undone
  BY SamePending
<1>2. ARet' = ARet
  BY DEF ARet, Returned
<1> QED
  BY <1>1, <1>2, AbsStutter

\* The beginning of a call.
LEMMA CallsRef ==
    ASSUME TypeInv, TypeInv', RefInv,
           \/ FetchSecret
           \/ \E op \in Ops, path \in Paths : FileCall(op, path) \/ FileCallNoDev(op, path)
    PROVE  RefInv' /\ AStep
<1>1. UNCHANGED << conns, conn, fileserver >>
  BY DEF FetchSecret, FileCall, FileCallNoDev
<1>2. /\ NewestInv' /\ Held' = Held /\ Asked' = Asked /\ UNCHANGED << server, out, files >>
      /\ (\A i, j \in 1..Len(conns) :
             conns[i].req \in FileCalls /\ conns[i].req = conns[j].req => i = j)'
  BY <1>1, GuestStepRef
<1>3. /\ g2h \in Seq(GuestPackets) /\ fwd_cnt \in Nat /\ 0 \in Nat
      /\ Asking \subseteq FileCalls /\ Asked \subseteq FileCalls /\ Made \in Nat
  BY AskingTypes DEF TypeInv, GuestType
<1>4. RetInv /\ OnceInv /\ NumInv
  BY DEF RefInv
<1>5. \A p \in Ports, f \in Nat : /\ ToHost("request", p, f) \in GuestPackets
                                  /\ ToHost("request", p, f).op = "request"
  BY PacketTypes DEF ToHost
<1>6. CASE FetchSecret
  <2>1. /\ pc = "boot" /\ pc' \in {"connect", "idle"} /\ call' = SecretCall
        /\ UNCHANGED << port, h2g, ret, budget >>
        /\ g2h' = Append(g2h, ToHost("request", "secret", fwd_cnt)) \/ g2h' = g2h
    BY <1>6 DEF FetchSecret, send_raw
  <2>2. Asking' = Asking /\ OneRw(g2h')
    <3>1. \E x \in GuestPackets : x.op # "rw" /\ (g2h' = Append(g2h, x) \/ g2h' = g2h)
      BY <1>3, <1>5, <2>1 DEF Ports
    <3> QED
      BY <1>3, <1>4, <3>1, AskingPut DEF OnceInv
  <2>3. FetchingSecret /\ port = "secret"
    BY <2>1 DEF FetchingSecret, TypeInv, GuestType
  <2>4. RetInv'
    BY <1>4, <2>1, <2>3 DEF RetInv
  <2>5. OnceInv' /\ HoldInv'
    BY <1>1, <1>4, <2>1, <2>2, <2>3 DEF OnceInv, HoldInv
  <2>6. NumInv'
    <3>1. SecretCall \notin FileCalls
      BY DEF SecretCall, FileCalls, Ops
    <3>2. Made' = Made
      BY <2>1 DEF Made
    <3> QED
      BY <1>2, <1>4, <2>1, <2>2, <2>3, <3>1, <3>2 DEF NumInv
  <2>7. Undone' = Undone
    <3>1. \A c \in Opening \cup Opening' : c.op = "secret"
      BY <2>1 DEF Opening, SecretCall
    <3>2. {c \in Pending' : c.op = "write"} = {c \in Pending : c.op = "write"}
      BY <1>2, <2>2, <3>1 DEF Pending
    <3> QED
      BY <3>2, UndoneIs, UndoneNext
  <2>8. ACall' = NoCall /\ ACall = NoCall
    BY <2>1 DEF ACall, OfFile, SecretCall
  <2>9. ARet' = ARet
    BY <2>1 DEF ARet, Returned
  <2> QED
    BY <1>2, <2>4, <2>5, <2>6, <2>7, <2>8, <2>9, AbsStutter DEF RefInv
<1>7. ASSUME NEW op \in Ops, NEW path \in Paths, FileCall(op, path) \/ FileCallNoDev(op, path)
      PROVE  RefInv' /\ AStep
  <2> DEFINE n == NewCall(op, path)
  <2>1. /\ n \in FileCalls /\ n.id = Made + 1 /\ Made' = Made + 1
        /\ pc = "idle"
    <3>1. /\ budget \in [calls : 0..MaxCalls, credits : Nat, timeouts : [Ports -> Nat]]
          /\ MaxCalls \in Nat
      BY VsockConstants DEF TypeInv, GuestType
    <3>2. budget.calls > 0 /\ budget' = Spent(budget) /\ pc = "idle"
      BY <1>7 DEF FileCall, FileCallNoDev
    <3>3. budget.calls \in 0..MaxCalls /\ budget'.calls = budget.calls - 1
      BY <3>1, <3>2 DEF Spent
    <3> QED
      BY <3>1, <3>2, <3>3 DEF NewCall, FileCalls, Made
  <2> HIDE DEF n
  <2>2. ACall = NoCall
    BY <2>1 DEF ACall
  <2>3. CASE FileCallNoDev(op, path)
    <3>1. /\ ret' = [call |-> n, ok |-> FALSE, data |-> << >>]
          /\ UNCHANGED << dev, pc, call, port, got, g2h, h2g >>
      BY <2>3 DEF FileCallNoDev, n
    <3>2. Asking' = Asking /\ Pending' = Pending
      BY <1>2, <3>1 DEF Asking, Pending, Opening
    <3>3. NumInv'
      <4>1. call.id \in Nat /\ \A c \in Asking \cup Asked : c.id \in Nat
        <5>1. call \in Calls
          BY DEF TypeInv, GuestType
        <5>2. MaxCalls \in Nat
          BY VsockConstants
        <5> QED
          BY <1>3, <5>1, <5>2 DEF Calls, FileCalls, SecretCall, NoCall
      <4>2. /\ (call \in FileCalls => call.id <= Made + 1)
            /\ \A c \in Asking \cup Asked : c.id <= Made + 1
        BY <1>3, <1>4, <4>1 DEF NumInv
      <4> QED
        BY <1>2, <1>4, <2>1, <3>1, <3>2, <4>2 DEF NumInv
    <3>4. RetInv' /\ OnceInv' /\ HoldInv'
      BY <1>1, <1>4, <2>1, <3>1, <3>2 DEF RetInv, OnceInv, HoldInv, FetchingSecret
    <3>5. ACall' = NoCall
      BY <2>1, <3>1 DEF ACall
    <3>6. ARet' = Failed(n)
      <4>1. n.op # "secret"
        BY <2>1 DEF FileCalls, Ops
      <4> QED
        BY <3>1, <4>1 DEF ARet, Returned, Failed, OfFile, Nothing
    <3>7. Undone' = Undone
      BY <3>2, SamePending
    <3>8. AStep
      BY <1>2, <2>1, <2>2, <3>5, <3>6, <3>7, AbsRefuse
    <3> QED
      BY <1>2, <3>3, <3>4, <3>8 DEF RefInv
  <2>4. CASE FileCall(op, path)
    <3>1. /\ pc' = "connect" /\ port' = "file" /\ call' = n /\ UNCHANGED ret
          /\ g2h' = Append(g2h, ToHost("request", "file", 0))
      BY <2>4 DEF FileCall, n, send_raw
    <3>2. Asking' = Asking /\ OneRw(g2h')
      <4>1. \E x \in GuestPackets : x.op # "rw" /\ (g2h' = Append(g2h, x) \/ g2h' = g2h)
        BY <1>3, <1>5, <3>1 DEF Ports
      <4> QED
        BY <1>3, <1>4, <4>1, AskingPut DEF OnceInv
    <3>3. NumInv'
      <4>1. \A c \in Asking \cup Asked : c.id \in Nat
        <5>2. MaxCalls \in Nat
          BY VsockConstants
        <5> QED
          BY <1>3, <5>2 DEF FileCalls
      <4>2. \A c \in Asking \cup Asked : c.id <= Made + 1 /\ c.id < Made + 1
        BY <1>3, <1>4, <4>1 DEF NumInv
      <4>3. n.id <= Made'
        BY <1>3, <2>1
      <4> QED
        BY <1>2, <1>4, <2>1, <3>1, <3>2, <4>2, <4>3 DEF NumInv
    <3>4. RetInv' /\ OnceInv' /\ HoldInv'
      BY <1>1, <1>4, <3>1, <3>2 DEF RetInv, OnceInv, HoldInv, FetchingSecret
    <3>5. ACall' = n
      <4>1. n.op # "secret"
        BY <2>1 DEF FileCalls, Ops
      <4> QED
        BY <3>1, <4>1 DEF ACall, OfFile
    <3>6. ARet' = ARet
      BY <3>1 DEF ARet, Returned
    <3>7. Undone' = Undone \cup {b \in {n} : b.op = "write"}
      <4>1. Opening = {} /\ Opening' = {n}
        BY <2>1, <3>1 DEF Opening
      <4>2. Pending' = Pending \cup {n}
        BY <1>2, <3>2, <4>1 DEF Pending
      <4> QED
        BY <4>2, UndoneIs, UndoneNext
    <3>8. AStep
      BY <1>2, <2>1, <2>2, <3>5, <3>6, <3>7, AbsBegin
    <3> QED
      BY <1>2, <3>3, <3>4, <3>8 DEF RefInv
  <2> QED
    BY <1>7, <2>3, <2>4
<1> QED
  BY <1>6, <1>7

\* What the file server has been asked.
LEMMA HeldTypes ==
    ASSUME TypeInv
    PROVE  /\ Queued \subseteq FileConns /\ Queued \subseteq 1..Len(conns)
           /\ Held \subseteq Asked \cup {NoCall}
<1>1. /\ FileConns \subseteq 1..Len(conns) /\ Waiting \subseteq 1..Len(conns) /\ Len(conns) \in Nat
      /\ \A c \in FileConns : conns[c].req \in FileCalls \cup {NoCall}
  BY FileConnsExist DEF TypeInv, HostType
<1>2. 0 \notin 1..Len(conns)
  OBVIOUS
<1>3. Queued \subseteq FileConns
  BY <1>1, <1>2 DEF Queued, FileConns
<1> QED
  BY <1>1, <1>3 DEF Held, Asked

\* A file call fails.
LEMMA FailRef ==
    ASSUME TypeInv, TypeInv', RefInv, pc \in {"connect", "resp"}, port = "file", pc' = "idle",
           NEW d, ret' = [call |-> call, ok |-> FALSE, data |-> d],
           UNCHANGED << conns, conn, fileserver, call, port >>, budget'.calls = budget.calls,
           OneRw(g2h'), Asking' = Asking
    PROVE  RefInv' /\ AStep
<1>1. NewestInv' /\ OnceInv' /\ NumInv' /\ Held' = Held
  BY QuietStepRef
<1>2. RetInv' /\ HoldInv'
  BY DEF RetInv, HoldInv, FetchingSecret
<1>3. call \in FileCalls /\ call.op # "secret" /\ call # NoCall
  <2>1. call \in FileCalls
    BY DEF TypeInv, GuestType
  <2> QED
    BY <2>1 DEF FileCalls, Ops, NoCall
<1>4. ACall = call /\ ACall' = NoCall /\ ACall # NoCall
  BY <1>3 DEF ACall, OfFile
<1>5. ARet' = Failed(ACall)
  BY <1>3, <1>4 DEF ARet, Returned, Failed, OfFile, Nothing
<1>6. Undone' \in {Undone, Undone \ {ACall}}
  <2>1. Opening' = {}
    BY DEF Opening
  <2>2. CASE pc = "resp"
    <3>1. Pending' = Pending
      BY <1>1, <2>1, <2>2 DEF Opening, Pending
    <3> QED
      BY <3>1, SamePending
  <2>3. CASE pc = "connect"
    <3>1. call \notin Asking \cup Held
      <4>1. \A c \in Asking \cup Asked : c.id < call.id
        BY <2>3 DEF RefInv, NumInv
      <4>2. call.id \in Nat
        BY <1>3, VsockConstants DEF FileCalls
      <4>3. call \notin Asking \cup Asked
        BY <4>1, <4>2
      <4> QED
        BY <1>3, <4>3, HeldTypes
    <3>2. Pending' = Pending \ {call}
      BY <1>1, <2>1, <2>3, <3>1 DEF Opening, Pending
    <3> QED
      BY <1>4, <3>2, UndoneIs, UndoneNext
  <2> QED
    BY <2>2, <2>3
<1>7. files' = files
  BY DEF fileserver
<1>8. AStep
  BY <1>4, <1>5, <1>6, <1>7, AbsFail
<1> QED
  BY <1>1, <1>2, <1>8 DEF RefInv

\* fetch_secret is over.
LEMMA SecretRef ==
    ASSUME TypeInv, TypeInv', RefInv, FetchingSecret, pc \in {"connect", "resp"}, pc' = "idle",
           NEW ok \in BOOLEAN, NEW d, ret' = [call |-> call, ok |-> ok, data |-> d],
           ok => d[1].holds = Nothing,
           UNCHANGED << conns, conn, fileserver, call, port >>, budget'.calls = budget.calls,
           OneRw(g2h'), Asking' = Asking
    PROVE  RefInv' /\ AStep
<1>1. NewestInv' /\ OnceInv' /\ NumInv' /\ Held' = Held
  BY QuietStepRef
<1>2. RetInv' /\ HoldInv'
  BY DEF RetInv, HoldInv, FetchingSecret
<1>3. call = SecretCall /\ call.op = "secret"
  BY DEF FetchingSecret, TypeInv, GuestType, SecretCall
<1>4. ACall = NoCall /\ ACall' = NoCall
  BY <1>3 DEF ACall, OfFile
<1>5. ARet = Failed(NoCall)
  <2>1. ret.call = NoCall /\ ret.ok = FALSE
    BY DEF RefInv, RetInv
  <2> QED
    BY <2>1 DEF ARet, Returned, Failed, OfFile, Nothing, NoCall
<1>6. ARet' = Failed(NoCall)
  <2>1. Returned' = Nothing
    BY DEF Returned
  <2>2. OfFile(ret'.call) = NoCall /\ ret'.call.op = "secret"
    BY <1>3 DEF OfFile
  <2> QED
    BY <2>1, <2>2 DEF ARet, Failed, Nothing
<1>7. Undone' = Undone
  <2>1. \A c \in Opening \cup Opening' : c.op = "secret"
    BY <1>3 DEF Opening
  <2>2. {c \in Pending' : c.op = "write"} = {c \in Pending : c.op = "write"}
    BY <1>1, <2>1 DEF Pending
  <2> QED
    BY <2>2, UndoneIs, UndoneNext
<1>8. files' = files
  BY DEF fileserver
<1>9. AStep
  BY <1>4, <1>5, <1>6, <1>7, <1>8, AbsStutter
<1> QED
  BY <1>1, <1>2, <1>9 DEF RefInv

\* A packet while the guest waits for its connection.
LEMMA ConnectRef ==
    ASSUME TypeInv, TypeInv', LinkInv, RefInv, ConnectRecv
    PROVE  RefInv' /\ AStep
<1> DEFINE x == h2g[1]
           t == Tail(h2g)
           fwd == Counted(x)
           c == ToHost("credit", port, fwd)
           r == Request(port, fwd, call)
<1>1. /\ g2h \in Seq(GuestPackets) /\ h2g \in Seq(HostPackets) /\ fwd_cnt \in Nat
      /\ port \in Ports /\ h2g # << >> /\ Head(h2g) = x /\ x \in HostPackets
      /\ t \in Seq(HostPackets) /\ Elems(h2g) = {x} \cup Elems(t)
      /\ port = "secret" => FetchingSecret /\ call = SecretCall
      /\ port = "file" => ~FetchingSecret /\ call \in FileCalls
      /\ pc = "connect" /\ got = << >> /\ h2g' = t
      /\ SecretInv /\ SentInv /\ HostInv /\ FreshInv /\ ConnectInv
  BY WaitFacts DEF ConnectRecv
<1>2. RetInv /\ OnceInv /\ NumInv
  BY DEF RefInv
<1>3. UNCHANGED << conns, conn, fileserver, budget >>
  BY DEF ConnectRecv
<1>4. port = "secret" \/ port = "file"
  BY <1>1 DEF Ports
<1>5. \/ /\ x.op = "response" /\ pc' = "resp" /\ UNCHANGED << call, port, got, ret >>
         /\ g2h' = g2h \o << c, r >>
      \/ x.op = "rst" /\ Return(FALSE, << >>) /\ UNCHANGED g2h
      \/ /\ x.op # "response" /\ x.op # "rst" /\ UNCHANGED << pc, call, port, got, ret >>
         /\ g2h' = Append(g2h, c) \/ g2h' = g2h
  BY <1>1 DEF ConnectRecv, Answers, send_raw, guest
<1>6. fwd \in Nat
  BY <1>1 DEF Counted
<1>7. c \in GuestPackets /\ c.op = "credit" /\ c.port = port
  BY <1>1, <1>6, PacketTypes DEF ToHost
<1>8. r \in GuestPackets /\ r.op = "rw" /\ r.port = port /\ r.req = call
  BY <1>1, <1>4, <1>6, PacketTypes DEF Request
<1> HIDE DEF x, t, fwd, c, r
<1>9. CASE x.op = "rst" /\ Return(FALSE, << >>) /\ UNCHANGED g2h
  <2>1. /\ pc' = "idle" /\ ret' = [call |-> call, ok |-> FALSE, data |-> << >>]
        /\ UNCHANGED << call, port >>
    BY <1>9 DEF Return
  <2>2. Asking' = Asking /\ OneRw(g2h')
    BY <1>2, <1>9 DEF Asking, OnceInv
  <2>3. CASE port = "file"
    BY <1>1, <1>3, <2>1, <2>2, <2>3, FailRef
  <2>4. CASE port = "secret"
    <3>1. FALSE \in BOOLEAN
      OBVIOUS
    <3> QED
      BY <1>1, <1>3, <2>1, <2>2, <2>4, <3>1, SecretRef
  <2> QED
    BY <1>4, <2>3, <2>4
<1>10. CASE /\ x.op # "response" /\ x.op # "rst" /\ UNCHANGED << pc, call, port, got, ret >>
            /\ g2h' = Append(g2h, c) \/ g2h' = g2h
  <2>1. Asking' = Asking /\ OneRw(g2h')
    BY <1>1, <1>2, <1>7, <1>10, AskingPut DEF OnceInv
  <2>2. NewestInv' /\ OnceInv' /\ NumInv' /\ Held' = Held
    BY <1>1, <1>3, <1>10, <2>1, QuietStepRef
  <2>3. RetInv' /\ HoldInv'
    BY <1>1, <1>2, <1>10 DEF RetInv, HoldInv, FetchingSecret
  <2>4. Pending' = Pending /\ ACall' = ACall
    BY <1>10, <2>1, <2>2 DEF Pending, Opening, ACall
  <2>5. AStep
    BY <1>3, <1>10, <2>4, StutterRef DEF fileserver
  <2> QED
    BY <2>2, <2>3, <2>5 DEF RefInv
<1>11. CASE /\ x.op = "response" /\ pc' = "resp" /\ UNCHANGED << call, port, got, ret >>
            /\ g2h' = g2h \o << c, r >>
  <2> DEFINE q == Append(g2h, c)
  <2>1. /\ g2h' = Append(q, r) /\ q \in Seq(GuestPackets)
        /\ Elems(q) = Elems(g2h) \cup {c} /\ Elems(g2h') = Elems(q) \cup {r}
    <3>1. g2h' = Append(q, r) /\ q \in Seq(GuestPackets) /\ Elems(q) = Elems(g2h) \cup {c}
      BY <1>1, <1>7, <1>8, <1>11, ElemsPut, ElemsPutTwo
    <3> HIDE DEF q
    <3>2. Elems(Append(q, r)) = Elems(q) \cup {r}
      BY <1>8, <3>1, ElemsPut
    <3> QED
      BY <3>1, <3>2
  <2>2. ~Has(g2h, "rw")
    <3>1. CASE port = "secret"
      BY <1>1, <3>1 DEF SecretInv
    <3>2. CASE port = "file"
      <4>1. Has(h2g, "response")
        BY <1>1, <1>11 DEF Has
      <4>2. ~Has(g2h, "rst") /\ Ended(g2h)
        BY <1>1, <3>2, <4>1 DEF ConnectInv, SentInv
      <4>3. \A i \in 1..Len(g2h) : g2h[i].op # "rst"
        BY <4>2 DEF Has, Elems
      <4>4. \A i \in 1..Len(g2h) : g2h[i].op # "rw"
        BY <4>2, <4>3 DEF Ended
      <4> QED
        BY <4>4 DEF Has, Elems
    <3> QED
      BY <1>4, <3>1, <3>2
  <2>3. OneRw(g2h')
    <3>1. OneRw(q) /\ ~Has(q, "rw")
      BY <1>1, <1>2, <1>7, <2>1, <2>2, OneRwPut DEF OnceInv, Has
    <3> HIDE DEF q
    <3> QED
      BY <1>8, <2>1, <3>1, OneRwPut
  <2>4. Asking = {} /\ Asking' = {y.req : y \in {z \in {r} : FileRw(z)}}
    <3> HIDE DEF q
    <3>1. \A e \in Elems(g2h) : e.op # "rw"
      BY <2>2 DEF Has
    <3>2. Asking = {}
      BY <3>1 DEF Asking, FileRw
    <3>3. {z \in Elems(g2h') : FileRw(z)} = {z \in {r} : FileRw(z)}
      BY <1>7, <2>1, <3>1 DEF FileRw
    <3> QED
      BY <3>2, <3>3 DEF Asking
  <2> HIDE DEF q
  <2>5. /\ NewestInv' /\ Held' = Held /\ Asked' = Asked /\ UNCHANGED << server, out, files >>
        /\ (\A i, j \in 1..Len(conns) :
               conns[i].req \in FileCalls /\ conns[i].req = conns[j].req => i = j)'
    BY <1>3, GuestStepRef
  <2>6. Made' = Made
    BY <1>3 DEF Made
  <2>7. CASE port = "secret"
    <3>1. Asking' = {}
      BY <1>8, <2>4, <2>7 DEF FileRw
    <3>2. RetInv' /\ HoldInv'
      BY <1>1, <1>2, <1>11, <2>7 DEF RetInv, HoldInv, FetchingSecret
    <3>3. OnceInv'
      BY <2>3, <3>1 DEF OnceInv
    <3>4. NumInv'
      BY <1>2, <1>11, <2>4, <2>5, <2>6, <2>7, <3>1 DEF NumInv
    <3>5. call = SecretCall /\ call.op = "secret"
      BY <1>1, <2>7 DEF SecretCall
    <3>6. ACall' = ACall /\ ARet' = ARet
      BY <1>1, <1>11, <3>5 DEF ACall, OfFile, ARet, Returned
    <3>7. Undone' = Undone
      <4>1. \A e \in Opening \cup Opening' : e.op = "secret"
        BY <1>11, <3>5 DEF Opening
      <4>2. {e \in Pending' : e.op = "write"} = {e \in Pending : e.op = "write"}
        BY <2>4, <2>5, <3>1, <4>1 DEF Pending
      <4> QED
        BY <4>2, UndoneIs, UndoneNext
    <3>8. AStep
      BY <2>5, <3>6, <3>7, AbsStutter
    <3> QED
      BY <2>5, <3>2, <3>3, <3>4, <3>8 DEF RefInv
  <2>8. CASE port = "file"
    <3>1. Asking' = {call}
      BY <1>8, <2>4, <2>8 DEF FileRw
    <3>2. conn["file"] # 0 /\ ~Has(g2h, "rst") /\ ~Has(t, "rw")
      <4>1. Has(h2g, "response")
        BY <1>1, <1>11 DEF Has
      <4>2. Quiet(h2g) /\ conn["file"] # 0 /\ ~Has(g2h, "rst")
        BY <1>1, <2>8, <4>1 DEF ConnectInv
      <4> QED
        BY <1>1, <1>11, <4>2, QuietTake DEF x, t
    <3>3. conns[conn["file"]].req = NoCall
      BY <1>1, <3>2 DEF FreshInv
    <3>4. conn["file"] = server => out = None
      BY <1>1, <3>2, <3>3 DEF HostInv
    <3>5. RetInv' /\ OnceInv'
      BY <1>3, <1>11, <2>3, <2>8, <3>3 DEF RetInv, FetchingSecret, OnceInv
    <3>6. HoldInv'
      <4>1. Elems(got') = {}
        BY <1>1, <1>11, ElemsEmpty
      <4>2. \A e \in Elems(h2g') : e.op # "rw"
        BY <1>1, <3>2 DEF Has
      <4> QED
        BY <1>3, <2>5, <3>4, <4>1, <4>2 DEF HoldInv
    <3>7. NumInv'
      <4>1. \A e \in Asked : e.id < call.id
        BY <1>1, <1>2, <2>8 DEF NumInv
      <4>2. call.id \in Nat
        BY <1>1, <2>8, VsockConstants DEF FileCalls
      <4>3. call \notin Asked
        BY <4>1, <4>2
      <4> QED
        BY <1>1, <1>2, <1>11, <2>5, <2>6, <2>8, <3>1, <4>3 DEF NumInv
    <3>8. Pending' = Pending /\ ACall' = ACall
      <4>1. Opening = {call} /\ Opening' = {}
        BY <1>1, <1>11 DEF Opening
      <4> QED
        BY <1>1, <1>11, <2>4, <2>5, <3>1, <4>1 DEF Pending, ACall
    <3>9. AStep
      BY <1>11, <2>5, <3>8, StutterRef
    <3> QED
      BY <2>5, <3>5, <3>6, <3>7, <3>9 DEF RefInv
  <2> QED
    BY <1>4, <2>7, <2>8
<1> QED
  BY <1>5, <1>9, <1>10, <1>11

\* Once a piece of the answer is on its way nothing is left to be done.
LEMMA ServedRef ==
    ASSUME TypeInv, LinkInv, RefInv, pc = "resp", port = "file", Has(h2g, "rw")
    PROVE  Asking = {} /\ Held = {} /\ Opening = {}
<1>1. HostInv /\ RespInv /\ NewestInv /\ OnceInv /\ conn["file"] # 0
  BY DEF LinkInv, RefInv, RespInv
<1>2. PICK n \in 1..MaxPieces : AnswerOf(n)
  BY <1>1 DEF RespInv
<1>3. n \in Nat /\ Sent(n) \in Nat
  BY <1>2, SentNat
<1>4. Sent(n) # 0
  <2>1. PICK i \in 1..Len(h2g) : h2g[i].op = "rw"
    BY DEF Has, Elems
  <2> DEFINE s == Sent(n)
  <2>2. h2g[i].data.k \in (Len(got) + 1)..s
    BY <1>2, <2>1 DEF AnswerOf, OnTheWay
  <2>3. Len(got) \in Nat /\ s \in Nat
    BY <1>3, LenProperties DEF TypeInv, GuestType
  <2> HIDE DEF s
  <2>4. s # 0
    BY <2>2, <2>3
  <2> QED
    BY <2>4 DEF s
<1>5. conn["file"] \notin Waiting /\ (conn["file"] = server => out # None)
  BY <1>4 DEF Sent
<1>6. Waiting \subseteq Nat /\ server \in Nat
  BY FileConnsExist DEF TypeInv, HostType
<1>7. CASE conn["file"] = server
  <2>1. Waiting = {}
    <3>1. \A c \in Waiting : c <= server /\ server < c /\ c \in Nat
      BY <1>1, <1>6, <1>7 DEF NewestInv, HostInv
    <3> QED
      BY <1>6, <3>1
  <2>2. Queued = {}
    BY <1>5, <1>7, <2>1 DEF Queued
  <2>3. Asking = {}
    BY <1>1, <1>5, <1>7 DEF HostInv, OnceInv
  <2> QED
    BY <2>2, <2>3 DEF Held, Opening
<1>8. CASE conn["file"] # server
  <2>1. Waiting = {} /\ server = 0
    BY <1>1, <1>5, <1>8 DEF NewestInv
  <2>2. Queued = {}
    BY <2>1 DEF Queued
  <2>3. Asking = {}
    BY <1>1, <1>5, <1>8 DEF HostInv, OnceInv
  <2> QED
    BY <2>2, <2>3 DEF Held, Opening
<1> QED
  BY <1>7, <1>8

\* A packet while the guest waits for its answer.
LEMMA RespRef ==
    ASSUME TypeInv, TypeInv', LinkInv, RefInv, RespRecv
    PROVE  RefInv' /\ AStep
<1> DEFINE x == h2g[1]
           t == Tail(h2g)
           fwd == Counted(x)
           y == ToHost("rst", port, fwd)
           c == ToHost("credit", port, fwd)
           all == Append(got, x.data)
<1>1. /\ g2h \in Seq(GuestPackets) /\ h2g \in Seq(HostPackets) /\ fwd_cnt \in Nat
      /\ port \in Ports /\ h2g # << >> /\ Head(h2g) = x /\ x \in HostPackets
      /\ t \in Seq(HostPackets) /\ Elems(h2g) = {x} \cup Elems(t)
      /\ port = "secret" => FetchingSecret /\ call = SecretCall
      /\ port = "file" => ~FetchingSecret /\ call \in FileCalls
      /\ pc = "resp" /\ got \in Seq(Pieces) /\ h2g' = t
      /\ SecretInv
  BY WaitFacts DEF RespRecv
<1>2. RetInv /\ OnceInv /\ NumInv /\ HoldInv
  BY DEF RefInv
<1>3. UNCHANGED << conns, conn, fileserver, budget >> /\ UNCHANGED << server, out, files >>
  BY DEF RespRecv, fileserver
<1>4. port = "secret" \/ port = "file"
  BY <1>1 DEF Ports
<1>5. \/ x.op = "rst" /\ Return(FALSE, << >>) /\ g2h' = Append(g2h, y)
      \/ x.op = "rw" /\ Complete(all) /\ Return(all[1].ok, all) /\ g2h' = Append(g2h, y)
      \/ /\ x.op = "rw" /\ ~Complete(all) /\ got' = all
         /\ UNCHANGED << pc, call, port, ret, g2h >>
      \/ /\ UNCHANGED << pc, call, port, got, ret >>
         /\ g2h' = Append(g2h, c) \/ g2h' = g2h
  <2> HIDE DEF x, fwd, all
  <2>1. \/ /\ x.op = "credit" /\ g2h' = send_raw(g2h, c) /\ UNCHANGED guest
        \/ x.op = "rst" /\ Return(FALSE, << >>) /\ g2h' = close_port(g2h, fwd)
        \/ x.op = "rw" /\ (IF Complete(all)
                           THEN Return(all[1].ok, all) /\ g2h' = close_port(g2h, fwd)
                           ELSE got' = all /\ UNCHANGED << dev, pc, call, port, ret, g2h >>)
        \/ x.op \in {"response", "shutdown"} /\ UNCHANGED << guest, g2h >>
    BY <1>1 DEF RespRecv, all, fwd
  <2> QED
    BY <2>1 DEF send_raw, close_port, guest
<1>6. fwd \in Nat
  BY <1>1 DEF Counted
<1>7. /\ y \in GuestPackets /\ y.op = "rst"
      /\ c \in GuestPackets /\ c.op = "credit"
  BY <1>1, <1>6, PacketTypes DEF ToHost
<1>8. x.op = "rw" => /\ x.data \in Pieces /\ all \in Seq(Pieces) /\ Len(all) = Len(got) + 1
                     /\ Len(got) \in Nat /\ Elems(all) = Elems(got) \cup {x.data}
                     /\ all[Len(got) + 1] = x.data
  BY <1>1, PacketTypes, Put, LenProperties, ElemsPut
<1> HIDE DEF x, t, fwd, y, c, all
<1>9. ASSUME g2h' = Append(g2h, y) \/ g2h' = Append(g2h, c) \/ g2h' = g2h
      PROVE  Asking' = Asking /\ OneRw(g2h')
  <2>1. \E z \in GuestPackets : z.op # "rw" /\ (g2h' = Append(g2h, z) \/ g2h' = g2h)
    BY <1>7, <1>9
  <2> QED
    BY <1>1, <1>2, <2>1, AskingPut DEF OnceInv
<1>10. CASE x.op = "rst" /\ Return(FALSE, << >>) /\ g2h' = Append(g2h, y)
  <2>1. /\ pc' = "idle" /\ ret' = [call |-> call, ok |-> FALSE, data |-> << >>]
        /\ UNCHANGED << call, port >> /\ Asking' = Asking /\ OneRw(g2h')
    BY <1>9, <1>10 DEF Return
  <2>2. CASE port = "file"
    BY <1>1, <1>3, <2>1, <2>2, FailRef
  <2>3. CASE port = "secret"
    <3>1. FALSE \in BOOLEAN
      OBVIOUS
    <3> QED
      BY <1>1, <1>3, <2>1, <2>3, <3>1, SecretRef
  <2> QED
    BY <1>4, <2>2, <2>3
<1>11. CASE /\ UNCHANGED << pc, call, port, ret >>
            /\ got' = got \/ (x.op = "rw" /\ got' = all)
            /\ g2h' = Append(g2h, c) \/ g2h' = g2h
  <2>1. Asking' = Asking /\ OneRw(g2h')
    BY <1>9, <1>11
  <2>2. NewestInv' /\ OnceInv' /\ NumInv' /\ Held' = Held
    BY <1>1, <1>3, <1>11, <2>1, QuietStepRef
  <2>3. RetInv'
    BY <1>1, <1>2, <1>11 DEF RetInv, FetchingSecret
  <2>4. HoldInv'
    <3>1. GoodPieces' = GoodPieces
      BY <1>3, <1>11 DEF GoodPieces, Found
    <3>2. \A e \in Elems(h2g') : e \in Elems(h2g)
      BY <1>1
    <3>3. \A e \in Elems(got') : e \in Elems(got) \/ (x.op = "rw" /\ e = x.data)
      BY <1>8, <1>11
    <3>4. x \in Elems(h2g)
      BY <1>1
    <3> QED
      BY <1>2, <1>3, <1>11, <3>1, <3>2, <3>3, <3>4 DEF HoldInv
  <2>5. Pending' = Pending /\ ACall' = ACall
    BY <1>11, <2>1, <2>2 DEF Pending, Opening, ACall
  <2>6. AStep
    BY <1>3, <1>11, <2>5, StutterRef
  <2> QED
    BY <2>2, <2>3, <2>4, <2>6 DEF RefInv
<1>12. CASE x.op = "rw" /\ Complete(all) /\ Return(all[1].ok, all) /\ g2h' = Append(g2h, y)
  <2>1. /\ pc' = "idle" /\ ret' = [call |-> call, ok |-> all[1].ok, data |-> all]
        /\ UNCHANGED << call, port >> /\ Asking' = Asking /\ OneRw(g2h')
    BY <1>9, <1>12 DEF Return
  <2>2. all[1] \in Elems(all) /\ all[1] \in Pieces /\ all[1].ok \in BOOLEAN
    <3>1. 1 \in 1..Len(all) /\ all \in Seq(Pieces)
      BY <1>8, <1>12
    <3>2. all[1] \in Pieces
      BY <3>1, ElementOfSeq
    <3> QED
      BY <3>1, <3>2 DEF Elems, Pieces
  <2>3. CASE port = "secret"
    <3>1. got = << >>
      BY <1>1, <2>3 DEF SecretInv
    <3>2. all[1] = x.data
      BY <1>8, <1>12, <3>1
    <3>3. all[1].holds = Nothing
      BY <1>1, <1>2, <1>12, <2>3, <3>2 DEF RetInv
    <3> QED
      BY <1>1, <1>3, <2>1, <2>2, <2>3, <3>3, SecretRef
  <2>4. CASE port = "file" /\ all[1].ok = FALSE
    BY <1>1, <1>3, <2>1, <2>4, FailRef
  <2>5. CASE port = "file" /\ all[1].ok = TRUE
    <3>1. NewestInv' /\ OnceInv' /\ NumInv' /\ Held' = Held
      BY <1>1, <1>3, <2>1, QuietStepRef
    <3>2. RetInv' /\ HoldInv'
      BY <2>1, <2>5 DEF RetInv, HoldInv, FetchingSecret
    <3>3. Asking = {} /\ Held = {} /\ Opening = {}
      <4>1. Has(h2g, "rw")
        BY <1>1, <1>12 DEF Has
      <4> QED
        BY <1>1, <2>5, <4>1, ServedRef
    <3>4. Undone = {} /\ Undone' = {}
      <4>1. Pending = {} /\ Pending' = {}
        BY <2>1, <3>1, <3>3 DEF Pending, Opening
      <4> QED
        BY <4>1, UndoneIs, UndoneNext
    <3>5. call \in FileCalls /\ call.op # "secret" /\ call # NoCall
      BY <1>1, <2>5 DEF FileCalls, Ops, NoCall
    <3>6. ACall = call /\ ACall # NoCall /\ ACall' = NoCall
      BY <1>1, <2>1, <3>5 DEF ACall, OfFile
    <3>7. all[1] \in GoodPieces
      <4>1. Elems(all) = Elems(got) \cup {x.data} /\ x \in Elems(h2g)
        BY <1>1, <1>8, <1>12
      <4>2. Elems(got) \subseteq GoodPieces /\ x.data \in GoodPieces
        BY <1>1, <1>2, <1>12, <2>5, <4>1 DEF HoldInv
      <4> QED
        BY <2>2, <4>1, <4>2
    <3>8. /\ all[1].holds = Found(call)
          /\ call.op = "write" => files[call.path] = call.id
          /\ call.op = "read" => files[call.path] # 0
      BY <2>5, <3>7 DEF GoodPieces
    <3>9. ARet' = [call |-> ACall, ok |-> TRUE, data |-> Found(ACall).data,
                   names |-> Found(ACall).names]
      <4>1. Returned' = Found(call)
        BY <2>1, <2>5, <3>8 DEF Returned
      <4> HIDE DEF Found
      <4> QED
        BY <2>1, <2>5, <3>5, <3>6, <4>1 DEF ARet, OfFile
    <3>10. AStep
      BY <1>3, <3>4, <3>6, <3>8, <3>9, AbsSucceed
    <3> QED
      BY <3>1, <3>2, <3>10 DEF RefInv
  <2> QED
    BY <1>4, <2>2, <2>3, <2>4, <2>5
<1> QED
  BY <1>5, <1>10, <1>11, <1>12

\* A wait loop runs out.
LEMMA TimeoutRef ==
    ASSUME TypeInv, TypeInv', LinkInv, RefInv, Timeouts
    PROVE  RefInv' /\ AStep
<1>1. /\ g2h \in Seq(GuestPackets) /\ fwd_cnt \in Nat /\ port \in Ports /\ OneRw(g2h)
      /\ budget.timeouts["secret"] = 0
  BY WaitFacts DEF RefInv, OnceInv
<1>2. /\ pc \in {"connect", "resp"} /\ budget.timeouts[port] > 0 /\ Return(FALSE, << >>)
      /\ budget' = [budget EXCEPT !.timeouts[port] = @ - 1]
      /\ UNCHANGED << conns, conn, fileserver >>
      /\ g2h' = Append(g2h, ToHost("rst", port, fwd_cnt)) \/ g2h' = g2h
  BY DEF Timeouts, ConnectTimeout, RespTimeout, close_port, send_raw
<1>3. port = "file"
  BY <1>1, <1>2 DEF Ports
<1>4. budget'.calls = budget.calls
  <2>1. budget \in [calls : 0..MaxCalls, credits : Nat, timeouts : [Ports -> Nat]]
    BY DEF TypeInv, GuestType
  <2> QED
    BY <1>2, <2>1
<1>5. Asking' = Asking /\ OneRw(g2h')
  <2>1. ToHost("rst", port, fwd_cnt) \in GuestPackets /\ ToHost("rst", port, fwd_cnt).op = "rst"
    BY <1>1, PacketTypes DEF ToHost
  <2> QED
    BY <1>1, <1>2, <2>1, AskingPut
<1>6. /\ pc' = "idle" /\ ret' = [call |-> call, ok |-> FALSE, data |-> << >>]
      /\ UNCHANGED << call, port >>
  BY <1>2 DEF Return
<1> QED
  BY <1>2, <1>3, <1>4, <1>5, <1>6, FailRef

-----------------------------------------------------------------------------
(* The host's steps.                                                        *)

\* No request reaches a connection.
LEMMA SameReqs ==
    ASSUME TypeInv, RefInv, Len(conns') = Len(conns),
           \A c \in 1..Len(conns) : conns'[c].req = conns[c].req
    PROVE  /\ Asked' = Asked /\ (Queued' = Queued => Held' = Held)
           /\ (\A i, j \in 1..Len(conns) :
                  conns[i].req \in FileCalls /\ conns[i].req = conns[j].req => i = j)'
           /\ UNCHANGED conn /\ Asking' \subseteq Asking /\ OneRw(g2h') => OnceInv'
<1>1. Asked' = Asked
  BY DEF Asked
<1>2. Queued' = Queued => Held' = Held
  BY HeldTypes DEF Held
<1>3. (\A i, j \in 1..Len(conns) :
          conns[i].req \in FileCalls /\ conns[i].req = conns[j].req => i = j)'
  BY DEF RefInv, NumInv
<1>4. ASSUME UNCHANGED conn, Asking' \subseteq Asking, OneRw(g2h') PROVE OnceInv'
  <2>1. conn["file"] # 0 => conn["file"] \in 1..Len(conns)
    BY FileConnsExist DEF TypeInv
  <2> QED
    BY <1>4, <2>1 DEF OnceInv, RefInv
<1> QED
  BY <1>1, <1>2, <1>3, <1>4

\* Fewer requests on their way, none new to the connections.
LEMMA FewerNums ==
    ASSUME RefInv, Asking' \cup Asked' \subseteq Asking \cup Asked, Asking' \cap Asked' = {},
           UNCHANGED << pc, port, call >>, budget'.calls = budget.calls,
           (\A i, j \in 1..Len(conns) :
               conns[i].req \in FileCalls /\ conns[i].req = conns[j].req => i = j)'
    PROVE  NumInv'
<1>1. Made' = Made
  BY DEF Made
<1> QED
  BY <1>1 DEF RefInv, NumInv

\* What changes nothing in the answers.
LEMMA SameAnswers ==
    ASSUME TypeInv, RefInv, UNCHANGED << pc, port, call, got, ret, files >>,
           \A x \in Elems(h2g') : x \in Elems(h2g) \/ x.op # "rw",
           conn'["file"] = server' /\ out' # None => conn["file"] = server /\ out # None,
           out' = out \/ out' = None
    PROVE  RetInv' /\ HoldInv' /\ ACall' = ACall /\ ARet' = ARet
<1>1. ACall' = ACall /\ ARet' = ARet
  BY DEF ACall, ARet, Returned
<1>2. RetInv'
  BY DEF RefInv, RetInv, FetchingSecret
<1>3. GoodPieces' = GoodPieces
  BY DEF GoodPieces, Found
<1>4. HoldInv'
  BY <1>3 DEF RefInv, HoldInv
<1> QED
  BY <1>1, <1>2, <1>4

\* A packet of the guest reaches the host: a request on the file ports is lost
\* if there is no connection, else the connection has it.
LEMMA KernelRef ==
    ASSUME TypeInv, TypeInv', LinkInv, RefInv, Kernel
    PROVE  RefInv' /\ AStep
<1>1. /\ g2h # << >> /\ g2h' = Tail(g2h) /\ First \in GuestPackets /\ First.port \in Ports
      /\ UNCHANGED << guest, fwd_cnt, server, out, files, budget >>
      /\ Refused \/ \E p \in Ports : Accepted(p) \/ Taken(p) \/ Ends(p)
  BY KernelEffect
<1>2. UNCHANGED << pc, call, port, got, ret, server, out, files, budget >>
  BY <1>1 DEF guest
<1>3. /\ HostInv /\ NewestInv /\ OnceInv /\ NumInv
      /\ Asking = Asking' \cup {x.req : x \in {y \in {First} : FileRw(y)}}
      /\ OneRw(g2h') /\ (First.op = "rw" => Asking' = {}) /\ Asking \subseteq FileCalls
  <2>1. g2h \in Seq(GuestPackets) /\ OnceInv
    BY DEF TypeInv, GuestType, RefInv
  <2> QED
    BY <1>1, <2>1, AskingTake DEF OnceInv, LinkInv, RefInv
<1>4. /\ Len(conns) \in Nat /\ Waiting \subseteq 1..Len(conns) /\ server \in 0..Len(conns)
      /\ conn["file"] \in 0..Len(conns) /\ conn["secret"] \in 0..Len(conns)
      /\ FileConns \subseteq 1..Len(conns) /\ (server = 0 => out = None)
      /\ conn["secret"] \notin FileConns /\ DOMAIN conn = Ports
  BY FileConnsExist DEF TypeInv, HostType
<1>5. RetInv' /\ HoldInv' /\ ACall' = ACall /\ ARet' = ARet
  <2>1. \A x \in Elems(h2g') : x \in Elems(h2g) \/ x.op # "rw"
    <3>1. /\ h2g \in Seq(HostPackets) /\ ToGuest("rst") \in HostPackets
          /\ ToGuest("response") \in HostPackets
          /\ ToGuest("rst").op # "rw" /\ ToGuest("response").op # "rw"
      BY PacketTypes DEF TypeInv, GuestType, ToGuest
    <3>2. \/ h2g' = h2g \/ h2g' = Append(h2g, ToGuest("rst"))
          \/ h2g' = Append(h2g, ToGuest("response"))
      BY <1>1 DEF Refused, Accepted, Taken, Ends
    <3>3. /\ Elems(Append(h2g, ToGuest("rst"))) = Elems(h2g) \cup {ToGuest("rst")}
          /\ Elems(Append(h2g, ToGuest("response"))) = Elems(h2g) \cup {ToGuest("response")}
      BY <3>1, ElemsPut
    <3> QED
      BY <3>1, <3>2, <3>3
  <2>2. conn'["file"] = server /\ out # None => conn["file"] = server
    <3>1. \/ UNCHANGED conn \/ \E p \in Ports : conn' = [conn EXCEPT ![p] = 0]
          \/ \E p \in Ports : conn' = [conn EXCEPT ![p] = Len(conns) + 1]
      BY <1>1 DEF Refused, Accepted, Taken, Ends
    <3>2. conn'["file"] \in {conn["file"], 0, Len(conns) + 1}
      BY <1>4, <3>1 DEF Ports
    <3>3. server # Len(conns) + 1
      BY <1>4
    <3> QED
      BY <1>4, <3>2, <3>3
  <2> QED
    BY <1>2, <2>1, <2>2, SameAnswers
<1>6. ASSUME NewestInv', OnceInv', NumInv', Undone' = Undone PROVE RefInv' /\ AStep
  BY <1>2, <1>5, <1>6, AbsStutter DEF RefInv
<1>7. Opening' = Opening
  BY <1>2 DEF Opening
<1>8. CASE Refused
  <2>1. UNCHANGED << conns, conn, backlog >>
    BY <1>8 DEF Refused
  <2>2. Waiting' = Waiting /\ Queued' = Queued
    BY <1>2, <2>1 DEF Waiting, Queued
  <2>3. NewestInv'
    BY <1>2, <1>3, <2>1, <2>2 DEF NewestInv
  <2>4. /\ Asked' = Asked /\ Held' = Held /\ OnceInv'
        /\ (\A i, j \in 1..Len(conns) :
               conns[i].req \in FileCalls /\ conns[i].req = conns[j].req => i = j)'
    BY <1>3, <2>1, <2>2, SameReqs
  <2>5. NumInv'
    <3>1. Asking' \cup Asked' \subseteq Asking \cup Asked /\ Asking' \cap Asked' = {}
      BY <1>3, <2>4 DEF NumInv
    <3> QED
      BY <1>2, <2>4, <3>1, FewerNums
  <2>6. CASE FileRw(First) /\ First.req.op = "write"
    <3> DEFINE c == First.req
    <3>1. Asking = {c} /\ Asking' = {} /\ c \in FileCalls /\ c # NoCall
      BY <1>3, <2>6 DEF FileRw, FileCalls, NoCall
    <3> HIDE DEF c
    <3>2. c \notin Held
      BY <1>3, <3>1, HeldTypes DEF NumInv
    <3>3. c \notin Opening
      <4> SUFFICES ASSUME pc = "connect", c = call PROVE FALSE
        BY DEF Opening
      <4>1. port = "file"
        <5>1. SecretCall \notin FileCalls
          BY DEF SecretCall, FileCalls, Ops
        <5> QED
          BY <3>1, <5>1 DEF TypeInv, GuestType, Ports
      <4>2. c.id < c.id /\ c.id \in Nat
        <5>1. c.id \in Nat
          BY <3>1, VsockConstants DEF FileCalls
        <5> QED
          BY <1>3, <3>1, <4>1, <5>1 DEF NumInv
      <4> QED
        BY <4>2
    <3>4. Pending = Pending' \cup {c} /\ c \notin Pending'
      BY <1>7, <2>4, <3>1, <3>2, <3>3 DEF Pending
    <3>5. c \in Undone /\ Undone' = Undone \ {c}
      BY <2>6, <3>4, UndoneIs, UndoneNext DEF c
    <3>6. AStep
      BY <1>2, <1>5, <3>5, AbsEffect
    <3> QED
      BY <1>5, <2>3, <2>4, <2>5, <3>6 DEF RefInv
  <2>7. CASE ~(FileRw(First) /\ First.req.op = "write")
    <3>1. {e \in Asking' : e.op = "write"} = {e \in Asking : e.op = "write"}
      BY <1>3, <2>7
    <3>2. {e \in Pending' : e.op = "write"} = {e \in Pending : e.op = "write"}
      BY <1>7, <2>4, <3>1 DEF Pending
    <3>3. Undone' = Undone
      BY <3>2, UndoneIs, UndoneNext
    <3> QED
      BY <1>6, <2>3, <2>4, <2>5, <3>3
  <2> QED
    BY <2>6, <2>7
<1>9. ASSUME NEW p \in Ports, Ends(p) \/ (Taken(p) /\ First.op # "rw") PROVE RefInv' /\ AStep
  <2>1. /\ Len(conns') = Len(conns) /\ UNCHANGED backlog /\ First.op # "rw"
        /\ \A c \in 1..Len(conns) : conns'[c].req = conns[c].req
        /\ UNCHANGED conn \/ conn' = [conn EXCEPT ![p] = 0]
    BY <1>9 DEF Ends, Taken
  <2>2. Waiting' = Waiting /\ Queued' = Queued
    BY <1>2, <2>1 DEF Waiting, Queued
  <2>3. conn'["file"] \in {conn["file"], 0}
    BY <1>4, <2>1 DEF Ports
  <2>4. NewestInv'
    BY <1>2, <1>3, <2>2, <2>3 DEF NewestInv
  <2>5. Asking' = Asking
    BY <1>3, <2>1 DEF FileRw
  <2>6. /\ Asked' = Asked /\ Held' = Held
        /\ (\A i, j \in 1..Len(conns) :
               conns[i].req \in FileCalls /\ conns[i].req = conns[j].req => i = j)'
    BY <2>1, <2>2, SameReqs
  <2>7. OnceInv'
    <3>1. conn["file"] # 0 => conn["file"] \in 1..Len(conns)
      BY <1>4
    <3> QED
      BY <1>3, <2>1, <2>3, <2>5, <3>1 DEF OnceInv
  <2>8. NumInv'
    <3>1. Asking' \cup Asked' \subseteq Asking \cup Asked /\ Asking' \cap Asked' = {}
      BY <1>3, <2>5, <2>6 DEF NumInv
    <3> QED
      BY <1>2, <2>6, <3>1, FewerNums
  <2>9. Undone' = Undone
    <3>1. Pending' = Pending
      BY <1>7, <2>5, <2>6 DEF Pending
    <3> QED
      BY <3>1, SamePending
  <2> QED
    BY <1>6, <2>4, <2>7, <2>8, <2>9
<1>10. ASSUME NEW p \in Ports, Accepted(p) PROVE RefInv' /\ AStep
  <2> DEFINE l == Len(conns) + 1
  <2>1. /\ First.op = "request" /\ Len(conns') = l /\ conns'[l].req = NoCall
        /\ \A c \in 1..Len(conns) : conns'[c] = conns[c]
        /\ conn' = [conn EXCEPT ![p] = l]
        /\ backlog' = IF p = "file" THEN Append(backlog, l) ELSE backlog
    BY <1>10 DEF Accepted
  <2>2. Len(conns) \in Nat /\ l \in Nat /\ l \notin 1..Len(conns) /\ 1..l = 1..Len(conns) \cup {l}
    BY <1>4
  <2>3. Asking' = Asking
    BY <1>3, <2>1 DEF FileRw
  <2>4. NoCall \notin FileCalls
    BY DEF NoCall, FileCalls, Ops
  <2>5. Waiting' = IF p = "file" THEN Waiting \cup {l} ELSE Waiting
    <3>1. Waiting = Elems(backlog) /\ Waiting' = Elems(backlog')
      BY DEF Waiting, Elems
    <3>2. backlog \in Seq(1..l)
      <4>1. backlog \in Seq(1..Len(conns)) /\ Waiting \subseteq 1..l
        BY <1>4, <2>2 DEF TypeInv, HostType
      <4>2. \A i \in 1..Len(backlog) : backlog[i] \in 1..l
        BY <4>1 DEF Waiting
      <4> QED
        BY <4>1, <4>2, LenProperties
    <3>3. l \in 1..l
      BY <2>2
    <3> HIDE DEF l
    <3>4. Elems(Append(backlog, l)) = Elems(backlog) \cup {l}
      BY <3>2, <3>3, ElemsPut
    <3> QED
      BY <2>1, <3>1, <3>4
  <2> HIDE DEF l
  <2>6. Queued' = IF p = "file" THEN Queued \cup {l} ELSE Queued
    BY <1>2, <2>5 DEF Queued
  <2>7. \A c \in 1..Len(conns') : \/ c \in 1..Len(conns) /\ conns'[c].req = conns[c].req
                                  \/ c = l /\ conns'[c].req = NoCall
    BY <2>1, <2>2
  <2>8. Asked' = Asked
    <3>1. \A c \in 1..Len(conns) : c \in 1..Len(conns')
      BY <2>1, <2>2
    <3> QED
      BY <2>1, <2>4, <2>7, <3>1 DEF Asked
  <2>9. (\A i, j \in 1..Len(conns) :
            conns[i].req \in FileCalls /\ conns[i].req = conns[j].req => i = j)'
    BY <1>3, <2>4, <2>7 DEF NumInv
  <2>10. NumInv'
    <3>1. Asking' \cup Asked' \subseteq Asking \cup Asked /\ Asking' \cap Asked' = {}
      BY <1>3, <2>3, <2>8 DEF NumInv
    <3> QED
      BY <1>2, <2>9, <3>1, FewerNums
  <2>11. NewestInv' /\ OnceInv'
    <3>1. CASE p = "file"
      <4>1. conn'["file"] = l
        BY <1>4, <2>1, <3>1
      <4>2. \A c \in Waiting \cup {server} : c <= l
        BY <1>4, <2>2 DEF l
      <4>3. l <= l
        BY <2>2
      <4> QED
        BY <1>2, <1>3, <2>1, <2>5, <3>1, <4>1, <4>2, <4>3 DEF NewestInv, OnceInv
    <3>2. CASE p = "secret"
      <4>1. conn'["file"] = conn["file"] /\ (conn["file"] # 0 => conn["file"] \in 1..Len(conns))
        BY <1>4, <2>1, <3>2 DEF Ports
      <4> QED
        BY <1>2, <1>3, <2>1, <2>3, <2>5, <3>2, <4>1 DEF NewestInv, OnceInv
    <3> QED
      BY <3>1, <3>2 DEF Ports
  <2>12. Undone' = Undone
    <3>1. {e \in Held' : e.op = "write"} = {e \in Held : e.op = "write"}
      <4>1. \A i \in Queued : i \in 1..Len(conns) /\ conns'[i].req = conns[i].req
        BY <2>1, HeldTypes
      <4>2. NoCall.op # "write"
        BY DEF NoCall
      <4>3. \A e : e.op = "write" => (e \in Held' <=> e \in Held)
        BY <2>1, <2>6, <4>1, <4>2 DEF Held
      <4> QED
        BY <4>3
    <3>2. {e \in Pending' : e.op = "write"} = {e \in Pending : e.op = "write"}
      BY <1>7, <2>3, <3>1 DEF Pending
    <3> QED
      BY <3>2, UndoneIs, UndoneNext
  <2> QED
    BY <1>6, <2>10, <2>11, <2>12
<1>11. ASSUME NEW p \in Ports, Taken(p), First.op = "rw" PROVE RefInv' /\ AStep
  <2> DEFINE n == conn[p]
             r == First.req
  <2>1. /\ First.port = p /\ n # 0 /\ Len(conns') = Len(conns) /\ UNCHANGED << conn, backlog >>
        /\ \A c \in 1..Len(conns) : conns'[c].req = IF c = n THEN r ELSE conns[c].req
    BY <1>11 DEF Taken
  <2>2. n \in 1..Len(conns) /\ Asking' = {}
    BY <1>3, <1>4, <1>11, <2>1 DEF Ports
  <2>3. Waiting' = Waiting /\ Queued' = Queued
    BY <1>2, <2>1 DEF Waiting, Queued
  <2>4. NewestInv' /\ OnceInv'
    BY <1>2, <1>3, <2>1, <2>2, <2>3 DEF NewestInv, OnceInv
  <2>5. CASE p = "secret"
    <3>1. r = SecretCall /\ r \notin FileCalls /\ Asking = {}
      <4>1. r = SecretCall
        BY <1>1, <1>11, <2>1, <2>5 DEF GuestPackets
      <4>2. ~FileRw(First)
        BY <2>1, <2>5 DEF FileRw
      <4> QED
        BY <1>3, <2>2, <4>1, <4>2 DEF SecretCall, FileCalls, Ops
    <3>2. n \notin Queued
      BY <1>4, <2>5, HeldTypes
    <3> HIDE DEF n, r
    <3>3. Held' = Held
      BY <2>1, <2>3, <3>2, HeldTypes DEF Held
    <3>4. Asked' \subseteq Asked
      BY <2>1, <3>1 DEF Asked
    <3>5. (\A i, j \in 1..Len(conns) :
              conns[i].req \in FileCalls /\ conns[i].req = conns[j].req => i = j)'
      BY <1>3, <2>1, <3>1 DEF NumInv
    <3>6. NumInv'
      <4>1. Asking' \cup Asked' \subseteq Asking \cup Asked /\ Asking' \cap Asked' = {}
        BY <2>2, <3>4
      <4> QED
        BY <1>2, <3>5, <4>1, FewerNums
    <3>7. Undone' = Undone
      <4>1. Pending' = Pending
        BY <1>7, <2>2, <3>1, <3>3 DEF Pending
      <4> QED
        BY <4>1, SamePending
    <3> QED
      BY <1>6, <2>4, <3>6, <3>7
  <2>6. CASE p = "file"
    <3>1. Asking = {r} /\ r \in FileCalls
      BY <1>3, <1>11, <2>1, <2>2, <2>6 DEF FileRw
    <3>2. conns[n].req = NoCall
      BY <1>3, <2>1, <2>6, <3>1 DEF OnceInv
    <3>3. n \in Queued
      BY <1>3, <1>4, <2>1, <2>6, <3>2 DEF HostInv, Queued
    <3>4. r \notin Asked
      BY <1>3, <3>1 DEF NumInv
    <3> HIDE DEF n, r
    <3>5. Asked' \subseteq Asked \cup {r}
      BY <2>1, <3>1 DEF Asked
    <3>6. (\A i, j \in 1..Len(conns) :
              conns[i].req \in FileCalls /\ conns[i].req = conns[j].req => i = j)'
      <4>1. \A i \in 1..Len(conns) : conns[i].req # r
        BY <3>1, <3>4 DEF Asked
      <4> QED
        BY <1>3, <2>1, <4>1 DEF NumInv
    <3>7. NumInv'
      <4>1. Asking' \cup Asked' \subseteq Asking \cup Asked /\ Asking' \cap Asked' = {}
        BY <2>2, <3>1, <3>5
      <4> QED
        BY <1>2, <3>6, <4>1, FewerNums
    <3>8. Undone' = Undone
      <4>1. NoCall.op # "write"
        BY DEF NoCall
      <4>2. \A i \in Queued : conns'[i].req = IF i = n THEN r ELSE conns[i].req
        BY <2>1, HeldTypes
      <4>3. \A e : e.op = "write" => (e \in Held' <=> e \in Held \cup {r})
        BY <2>3, <3>2, <3>3, <4>1, <4>2 DEF Held
      <4>4. {e \in Pending' : e.op = "write"} = {e \in Pending : e.op = "write"}
        BY <1>7, <2>2, <3>1, <4>3 DEF Pending
      <4> QED
        BY <4>4, UndoneIs, UndoneNext
    <3> QED
      BY <1>6, <2>4, <3>7, <3>8
  <2> QED
    BY <2>5, <2>6 DEF Ports
<1> QED
  BY <1>1, <1>8, <1>9, <1>10, <1>11

\* Neither requests nor the connections they go to change.
LEMMA HostStepRef ==
    ASSUME TypeInv, TypeInv', RefInv, UNCHANGED << pc, call, port, ret, g2h, conn, files >>,
           budget'.calls = budget.calls, Len(conns') = Len(conns),
           \A c \in 1..Len(conns) : conns'[c].req = conns[c].req,
           {e \in Held' : e.op = "write"} = {e \in Held : e.op = "write"},
           NewestInv', RetInv', HoldInv'
    PROVE  RefInv' /\ AStep
<1>1. Asking' = Asking /\ Opening' = Opening /\ OneRw(g2h')
  BY DEF Asking, Opening, RefInv, OnceInv
<1>2. /\ Asked' = Asked /\ OnceInv'
      /\ (\A i, j \in 1..Len(conns) :
             conns[i].req \in FileCalls /\ conns[i].req = conns[j].req => i = j)'
  BY <1>1, SameReqs
<1>3. NumInv'
  <2>1. Asking' \cup Asked' \subseteq Asking \cup Asked /\ Asking' \cap Asked' = {}
    BY <1>1, <1>2 DEF RefInv, NumInv
  <2> QED
    BY <1>2, <2>1, FewerNums
<1>4. Undone' = Undone
  <2>1. {e \in Pending' : e.op = "write"} = {e \in Pending : e.op = "write"}
    BY <1>1 DEF Pending
  <2> QED
    BY <2>1, UndoneIs, UndoneNext
<1>5. ACall' = ACall /\ ARet' = ARet
  BY DEF ACall, ARet, Returned
<1>6. AStep
  BY <1>4, <1>5, AbsStutter
<1> QED
  BY <1>2, <1>3, <1>6 DEF RefInv

\* The file server goes to its next connection, or leaves one whose request it
\* has handled or which has none; or the kernel announces buffer space.
LEMMA MoveRef ==
    ASSUME TypeInv, TypeInv', LinkInv, RefInv, KernelCredit \/ ServerAccept \/ ServerClose
    PROVE  RefInv' /\ AStep
<1>1. /\ UNCHANGED << pc, call, port, got, ret, g2h, conns, conn, files >>
      /\ budget'.calls = budget.calls
  <2>1. budget \in [calls : 0..MaxCalls, credits : Nat, timeouts : [Ports -> Nat]]
    BY DEF TypeInv, GuestType
  <2> QED
    BY <2>1 DEF KernelCredit, ServerAccept, ServerClose, guest, fileserver
<1>2. HostInv /\ NewestInv
  BY DEF LinkInv, RefInv
<1>3. /\ Waiting \subseteq Nat /\ server \in Nat /\ conn["file"] \in Nat
      /\ (server = 0 => out = None)
  BY FileConnsExist DEF TypeInv, HostType
<1>4. \A x \in Elems(h2g') : x \in Elems(h2g) \/ x.op # "rw"
  <2>1. /\ h2g \in Seq(HostPackets)
        /\ ToGuest("shutdown") \in HostPackets /\ ToGuest("shutdown").op # "rw"
        /\ ToGuest("credit") \in HostPackets /\ ToGuest("credit").op # "rw"
    BY PacketTypes DEF TypeInv, GuestType, ToGuest
  <2>2. \/ h2g' = h2g \/ h2g' = Append(h2g, ToGuest("shutdown"))
        \/ h2g' = Append(h2g, ToGuest("credit"))
    BY DEF KernelCredit, ServerAccept, ServerClose, Reply
  <2>3. /\ Elems(Append(h2g, ToGuest("shutdown"))) = Elems(h2g) \cup {ToGuest("shutdown")}
        /\ Elems(Append(h2g, ToGuest("credit"))) = Elems(h2g) \cup {ToGuest("credit")}
    BY <2>1, ElemsPut
  <2> QED
    BY <2>1, <2>2, <2>3
<1>5. ASSUME NewestInv', {e \in Held' : e.op = "write"} = {e \in Held : e.op = "write"},
             conn'["file"] = server' /\ out' # None => conn["file"] = server /\ out # None,
             out' = out \/ out' = None
      PROVE  RefInv' /\ AStep
  <2>1. RetInv' /\ HoldInv'
    BY <1>1, <1>4, <1>5, SameAnswers
  <2> QED
    BY <1>1, <1>5, <2>1, HostStepRef
<1>6. CASE KernelCredit
  <2>1. UNCHANGED << server, out, backlog >>
    BY <1>6 DEF KernelCredit, fileserver
  <2>2. Waiting' = Waiting /\ Held' = Held
    BY <1>1, <2>1 DEF Waiting, Queued, Held
  <2>3. NewestInv'
    BY <1>1, <1>2, <2>1, <2>2 DEF NewestInv
  <2> QED
    BY <1>1, <1>5, <2>1, <2>2, <2>3
<1>7. CASE ServerAccept
  <2>1. /\ server = 0 /\ backlog # << >> /\ server' = Head(backlog) /\ backlog' = Tail(backlog)
        /\ UNCHANGED out /\ out = None
    BY <1>3, <1>7 DEF ServerAccept
  <2>2. Waiting = Waiting' \cup {server'}
    <3>1. Waiting = Elems(backlog) /\ Waiting' = Elems(backlog')
      BY DEF Waiting, Elems
    <3>2. backlog \in Seq(1..Len(conns))
      BY DEF TypeInv, HostType
    <3>3. Elems(backlog) = {backlog[1]} \cup Elems(Tail(backlog)) /\ Head(backlog) = backlog[1]
      BY <2>1, <3>2, ElemsTake, Take
    <3> QED
      BY <2>1, <3>1, <3>3
  <2>3. server' # 0
    BY <2>1, <2>2, FileConnsExist DEF TypeInv
  <2>4. Held' = Held
    <3>1. Queued' = Queued
      BY <2>1, <2>2, <2>3 DEF Queued
    <3> QED
      BY <1>1, <3>1 DEF Held
  <2>5. NewestInv'
    BY <1>1, <1>2, <2>1, <2>2 DEF NewestInv
  <2> QED
    BY <1>5, <2>1, <2>4, <2>5
<1>8. CASE ServerClose
  <2>1. /\ server # 0 /\ server' = 0 /\ out' = None /\ UNCHANGED backlog
        /\ out # None \/ conns[server].req = NoCall
    <3>1. << >> # None
      <4>1. << >> \in Seq(Pieces)
        BY EmptySeq
      <4> QED
        BY <4>1, VsockConstants
    <3> QED
      BY <1>8, <3>1 DEF ServerClose
  <2>2. Waiting' = Waiting /\ Queued' = Waiting
    BY <2>1 DEF Waiting, Queued
  <2>3. {e \in Held' : e.op = "write"} = {e \in Held : e.op = "write"}
    <3>1. NoCall.op # "write"
      BY DEF NoCall
    <3>2. \A i \in Queued : i \in Waiting \/ conns[i].req = NoCall
      BY <2>1 DEF Queued
    <3>3. Waiting \subseteq Queued
      BY DEF Queued
    <3>4. \A e : e.op = "write" => (e \in Held' <=> e \in Held)
      BY <1>1, <2>2, <3>1, <3>2, <3>3 DEF Held
    <3> QED
      BY <3>4
  <2>4. NewestInv'
    <3>1. ASSUME conn["file"] # 0, conn["file"] \notin Waiting PROVE Waiting = {}
      <4>1. CASE conn["file"] = server
        <5>1. \A c \in Waiting : c <= server /\ server < c /\ c \in Nat
          BY <1>2, <1>3, <3>1, <4>1 DEF NewestInv, HostInv
        <5> QED
          BY <1>3, <5>1
      <4>2. CASE conn["file"] # server
        BY <1>2, <3>1, <4>2 DEF NewestInv
      <4> QED
        BY <4>1, <4>2
    <3>2. conn["file"] # 0 => \A c \in Waiting \cup {0} : c <= conn["file"]
      BY <1>2, <1>3 DEF NewestInv
    <3> QED
      BY <1>1, <2>1, <2>2, <3>1, <3>2 DEF NewestInv
  <2> QED
    BY <1>5, <2>1, <2>3, <2>4
<1> QED
  BY <1>6, <1>7, <1>8

\* A server sends a piece.
LEMMA SendRef ==
    ASSUME TypeInv, TypeInv', LinkInv, RefInv, SecretServer \/ ServerSend
    PROVE  RefInv' /\ AStep
<1>1. /\ UNCHANGED << pc, call, port, got, ret, g2h, conn, files, backlog, server, budget >>
      /\ SameConns /\ h2g \in Seq(HostPackets)
  BY SentOnly DEF SecretServer, ServerSend, guest, fileserver, TypeInv, GuestType
<1>2. Waiting' = Waiting /\ NewestInv'
  <2>1. Waiting' = Waiting
    BY <1>1 DEF Waiting
  <2> QED
    BY <1>1, <2>1 DEF RefInv, NewestInv
<1>3. GoodPieces' = GoodPieces
  BY <1>1 DEF GoodPieces, Found
<1>4. RetInv /\ HoldInv
  BY DEF RefInv
<1>5. ASSUME out' = None <=> out = None, RetInv', HoldInv' PROVE RefInv' /\ AStep
  <2>1. Queued' = Queued
    BY <1>1, <1>2, <1>5 DEF Queued
  <2>2. Held' = Held
    BY <1>1, <2>1, SameReqs DEF SameConns
  <2> QED
    BY <1>1, <1>2, <1>5, <2>2, HostStepRef DEF SameConns
<1>6. CASE SecretServer
  <2> DEFINE d == [id |-> 0, k |-> 1, len |-> 1, ok |-> TRUE, holds |-> Nothing]
  <2>1. conn["secret"] # 0 /\ h2g' = Append(h2g, Piece(d)) /\ UNCHANGED out
    BY <1>6 DEF SecretServer, fileserver
  <2>2. d \in Pieces /\ d.holds = Nothing
    BY VsockConstants DEF Pieces, Nothing, Torn
  <2> HIDE DEF d
  <2>3. Elems(h2g') = Elems(h2g) \cup {Piece(d)} /\ Piece(d).data = d
    <3>1. Piece(d) \in HostPackets
      BY <2>2, PacketTypes
    <3> QED
      BY <1>1, <2>1, <3>1, ElemsPut DEF Piece
  <2>4. RetInv'
    BY <1>1, <1>4, <2>2, <2>3 DEF RetInv, FetchingSecret
  <2>5. ~(pc = "resp" /\ port = "file")
    <3> SUFFICES ASSUME pc = "resp", port = "file" PROVE FALSE
      OBVIOUS
    <3>1. SentInv /\ RespInv /\ ~FetchingSecret
      BY DEF LinkInv, FetchingSecret
    <3>2. Has(g2h, "rst") /\ ~Has(g2h, "rst")
      BY <2>1, <3>1 DEF SentInv, SentOf, RespInv, Has
    <3> QED
      BY <3>2
  <2>6. HoldInv'
    BY <1>1, <2>5 DEF HoldInv
  <2> QED
    BY <1>5, <2>1, <2>4, <2>6
<1>7. CASE ServerSend
  <2>1. /\ server # 0 /\ out \notin {None, << >>} /\ conns[server].live
        /\ h2g' = Append(h2g, Piece(Head(out))) /\ out' = Tail(out)
    BY <1>7 DEF ServerSend
  <2>2. out \in Seq(Pieces) /\ out # << >>
    BY <2>1 DEF TypeInv, HostType
  <2>3. /\ Head(out) = out[1] /\ out[1] \in Pieces /\ Tail(out) \in Seq(Pieces)
        /\ Elems(out) = {out[1]} \cup Elems(out')
    BY <2>1, <2>2, Take, ElemsTake
  <2>4. Elems(h2g') = Elems(h2g) \cup {Piece(out[1])} /\ Piece(out[1]).data = out[1]
    <3>1. Piece(out[1]) \in HostPackets
      BY <2>3, PacketTypes
    <3> QED
      BY <1>1, <2>1, <2>3, <3>1, ElemsPut DEF Piece
  <2>5. conn["file"] = server
    BY <2>1, LiveServer DEF LinkInv
  <2>6. ~FetchingSecret
    BY <2>1, WaitFacts DEF FileConns
  <2>7. RetInv'
    BY <1>1, <2>6 DEF RetInv, FetchingSecret
  <2>8. HoldInv'
    <3> SUFFICES ASSUME pc = "resp", port = "file"
                 PROVE  HoldInv'
      BY <1>1 DEF HoldInv
    <3>1. Elems(out) \subseteq GoodPieces
      BY <1>4, <2>1, <2>5 DEF HoldInv
    <3> QED
      BY <1>1, <1>3, <1>4, <2>3, <2>4, <3>1 DEF HoldInv
  <2>9. out # None /\ out' # None
    BY <2>1, <2>3, VsockConstants
  <2> QED
    BY <1>5, <2>7, <2>8, <2>9
<1> QED
  BY <1>6, <1>7

\* Nothing of an answer is there before its request is handled.
LEMMA UnansweredRef ==
    ASSUME TypeInv, LinkInv, pc = "resp", port = "file",
           conn["file"] \in Waiting \/ (conn["file"] = server /\ out = None)
    PROVE  Elems(got) = {} /\ ~Has(h2g, "rw")
<1>1. PICK n \in 1..MaxPieces : AnswerOf(n)
  BY DEF LinkInv, RespInv
<1>2. Sent(n) = 0
  BY DEF Sent
<1>3. Len(got) \in Nat
  BY LenProperties DEF TypeInv, GuestType
<1>4. Len(got) <= 0 /\ \A i \in 1..Len(h2g) : h2g[i].op = "rw" => h2g[i].data.k \in (Len(got) + 1)..0
  BY <1>1, <1>2 DEF AnswerOf, OnTheWay
<1>5. Len(got) = 0 /\ \A i \in 1..Len(h2g) : h2g[i].op # "rw"
  BY <1>3, <1>4
<1> QED
  BY <1>5 DEF Elems, Has

\* What the file server answers is so.
LEMMA GoodAnswer ==
    ASSUME TypeInv, TypeInv', ServerHandle, conns[server].req = call, UNCHANGED call
    PROVE  out' # None /\ Elems(out') \subseteq GoodPieces'
<1>1. /\ call \in FileCalls /\ files \in [Paths -> 0..Torn] /\ files' \in [Paths -> 0..Torn]
      /\ call.path \in Paths
  <2>1. call \in FileCalls
    BY HandleFacts DEF TypeInv
  <2> QED
    BY <2>1 DEF TypeInv, HostType, FileCalls
<1>2. \E ok \in BOOLEAN, n \in 1..MaxPieces, holds \in [data : 0..Torn, names : SUBSET Paths] :
         /\ out' = Response(call.id, ok, n, holds)
         /\ ok => /\ holds = Found(call)'
                  /\ call.op = "write" => files'[call.path] = call.id
                  /\ call.op = "read" => files'[call.path] # 0
  <2>1. 1 \in 1..MaxPieces /\ Nothing \in [data : 0..Torn, names : SUBSET Paths]
    BY VsockConstants DEF Nothing, Torn
  <2>2. CASE call.op = "write"
    <3>1. HandleWrite(call)
      BY <2>2 DEF ServerHandle
    <3>2. CASE /\ files' = [files EXCEPT ![call.path] = call.id]
               /\ out' = Response(call.id, TRUE, 1, [data |-> call.id, names |-> {}])
      <4>1. files'[call.path] = call.id
        BY <1>1, <3>2
      <4>2. Found(call)' = [data |-> call.id, names |-> {}]
        BY <2>2, <4>1 DEF Found
      <4>3. [data |-> call.id, names |-> {}] \in [data : 0..Torn, names : SUBSET Paths]
        BY <1>1, VsockConstants DEF FileCalls, Torn
      <4> QED
        BY <2>1, <2>2, <3>2, <4>1, <4>2, <4>3
    <3>3. CASE out' = Response(call.id, FALSE, 1, Nothing)
      BY <2>1, <3>3
    <3> QED
      BY <3>1, <3>2, <3>3 DEF HandleWrite
  <2>3. CASE call.op # "write"
    <3>1. HandleRead(call)
      BY <2>3 DEF ServerHandle
    <3>2. files' = files
      BY <3>1 DEF HandleRead
    <3>3. Found(call)' = Found(call)
      BY <3>2 DEF Found
    <3>4. Found(call) \in [data : 0..Torn, names : SUBSET Paths]
      <4>1. 0 \in 0..Torn
        BY VsockConstants DEF Torn
      <4> QED
        BY <1>1, <4>1 DEF Found
    <3>5. CASE out' = Response(call.id, FALSE, 1, Nothing)
      BY <2>1, <3>5
    <3>6. CASE /\ call.op = "list" \/ files[call.path] # 0
               /\ \E n \in 1..MaxPieces : out' = Response(call.id, TRUE, n, Found(call))
      <4>1. PICK n \in 1..MaxPieces : out' = Response(call.id, TRUE, n, Found(call))
        BY <3>6
      <4>2. call.op = "read" => files'[call.path] # 0
        BY <3>2, <3>6
      <4> QED
        BY <2>3, <3>3, <3>4, <4>1, <4>2
    <3> QED
      BY <3>1, <3>5, <3>6 DEF HandleRead
  <2> QED
    BY <2>2, <2>3
<1>3. PICK ok \in BOOLEAN, n \in 1..MaxPieces, holds \in [data : 0..Torn, names : SUBSET Paths] :
         /\ out' = Response(call.id, ok, n, holds)
         /\ ok => /\ holds = Found(call)'
                  /\ call.op = "write" => files'[call.path] = call.id
                  /\ call.op = "read" => files'[call.path] # 0
  BY <1>2
<1>4. call.id \in 0..MaxCalls
  BY <1>1, VsockConstants DEF FileCalls
<1>5. out' \in Seq(Pieces) /\ Len(out') = n
  BY <1>3, <1>4, ResponseFacts
<1>6. \A k \in 1..n : out'[k].ok = ok /\ out'[k].holds = holds
  BY <1>3 DEF Response
<1>7. \A e \in Elems(out') : e \in Pieces /\ e.ok = ok /\ e.holds = holds
  BY <1>5, <1>6, ElementOfSeq DEF Elems
<1>8. Elems(out') \subseteq GoodPieces'
  BY <1>3, <1>7 DEF GoodPieces
<1> QED
  BY <1>5, <1>8, VsockConstants

\* The file server handles a request.
LEMMA HandleRef ==
    ASSUME TypeInv, TypeInv', LinkInv, RefInv, ServerHandle
    PROVE  RefInv' /\ AStep
<1> DEFINE c == conns[server].req
<1>1. /\ UNCHANGED << pc, call, port, got, ret, g2h, h2g, conns, conn, backlog, server, budget >>
      /\ server # 0 /\ out = None
  BY DEF ServerHandle, guest
<1>2. /\ c \in FileCalls /\ c # NoCall
      /\ out' # None /\ server \in 1..Len(conns)
  <2>1. c \in FileCalls /\ server \in 0..Len(conns)
    BY HandleFacts DEF TypeInv, HostType
  <2>2. out' # None
    <3>1. PICK ok \in BOOLEAN, n \in 1..MaxPieces, holds \in [data : 0..Torn, names : SUBSET Paths] :
             out' = Response(c.id, ok, n, holds)
      BY HandleFacts DEF TypeInv
    <3>2. c.id \in 0..MaxCalls
      BY <2>1, VsockConstants DEF FileCalls
    <3> QED
      BY <3>1, <3>2, ResponseFacts, VsockConstants
  <2>3. NoCall \notin FileCalls
    BY DEF NoCall, FileCalls, Ops
  <2>4. server \in 1..Len(conns)
    BY <1>1, <2>1, FileConnsExist DEF TypeInv
  <2> QED
    BY <2>1, <2>2, <2>3, <2>4
<1>3. HostInv /\ NewestInv /\ OnceInv /\ NumInv /\ RetInv /\ HoldInv
  BY DEF LinkInv, RefInv
<1>4. Waiting' = Waiting /\ Queued' = Waiting /\ Queued = Waiting \cup {server} /\ server \notin Waiting
  <2>1. Waiting' = Waiting
    BY <1>1 DEF Waiting
  <2>2. server \notin Waiting
    <3>1. \A i \in Waiting : server < i /\ i \in Nat /\ server \in Nat
      BY <1>2, <1>3, FileConnsExist DEF HostInv, TypeInv
    <3> QED
      BY <3>1
  <2> QED
    BY <1>1, <1>2, <2>1, <2>2 DEF Queued
<1>5. NewestInv'
  BY <1>1, <1>3, <1>4 DEF NewestInv
<1>6. Asking' = Asking /\ Opening' = Opening /\ OneRw(g2h')
  BY <1>1, <1>3 DEF Asking, Opening, OnceInv
<1>7. /\ Asked' = Asked /\ OnceInv'
      /\ (\A i, j \in 1..Len(conns) :
             conns[i].req \in FileCalls /\ conns[i].req = conns[j].req => i = j)'
  BY <1>1, <1>6, SameReqs
<1>8. NumInv'
  <2>1. Asking' \cup Asked' \subseteq Asking \cup Asked /\ Asking' \cap Asked' = {}
    BY <1>3, <1>6, <1>7 DEF NumInv
  <2> QED
    BY <1>1, <1>7, <2>1, FewerNums
<1>9. RetInv'
  BY <1>1, <1>3 DEF RetInv, FetchingSecret
<1>10. HoldInv'
  <2> SUFFICES ASSUME pc = "resp", port = "file" PROVE HoldInv'
    BY <1>1 DEF HoldInv
  <2>1. conn["file"] # 0 /\ conns[conn["file"]].req \in {NoCall, call}
    BY DEF LinkInv, RespInv
  <2>2. conn["file"] \in Waiting \/ conn["file"] = server
    BY <1>1, <1>3, <2>1 DEF NewestInv
  <2>3. Elems(got) = {} /\ ~Has(h2g, "rw")
    BY <1>1, <2>2, UnansweredRef
  <2>4. conn["file"] = server => Elems(out') \subseteq GoodPieces'
    <3>1. conn["file"] = server => c = call
      BY <1>2, <2>1
    <3> QED
      BY <1>1, <3>1, GoodAnswer
  <2> QED
    BY <1>1, <2>3, <2>4 DEF HoldInv, Has
<1>11. ACall' = ACall /\ ARet' = ARet
  BY <1>1 DEF ACall, ARet, Returned
<1>12. Held = Held' \cup {c} /\ c \notin Held'
  <2>1. \A i \in Waiting : i \in 1..Len(conns) /\ i # server
    BY <1>4, FileConnsExist DEF TypeInv
  <2>2. \A i \in Waiting : conns[i].req # c
    BY <1>2, <1>3, <2>1 DEF NumInv
  <2>3. Held = {conns[i].req : i \in Waiting} \cup {c} /\ Held' = {conns[i].req : i \in Waiting}
    BY <1>1, <1>4 DEF Held
  <2> QED
    BY <2>2, <2>3
<1>13. c \notin Asking /\ c \notin Opening
  <2>1. c \in Asked
    BY <1>2 DEF Asked
  <2> HIDE DEF c
  <2>2. c \notin Asking
    BY <1>3, <2>1 DEF NumInv
  <2>3. c \notin Opening
    <3> SUFFICES ASSUME pc = "connect", c = call PROVE FALSE
      BY DEF Opening
    <3>1. port = "file"
      <4>1. SecretCall \notin FileCalls
        BY DEF SecretCall, FileCalls, Ops
      <4> QED
        BY <1>2, <4>1 DEF TypeInv, GuestType, Ports
    <3>2. c.id < c.id /\ c.id \in Nat
      <4>1. c.id \in Nat
        BY <1>2, VsockConstants DEF FileCalls
      <4> QED
        BY <1>3, <2>1, <3>1, <4>1 DEF NumInv
    <3> QED
      BY <3>2
  <2> QED
    BY <2>2, <2>3
<1>14. Pending = Pending' \cup {c} /\ c \notin Pending'
  <2> HIDE DEF c
  <2> QED
    BY <1>6, <1>12, <1>13 DEF Pending
<1>15. AStep
  <2>1. CASE c.op = "write"
    <3>1. files' \in {files, [files EXCEPT ![c.path] = c.id], [files EXCEPT ![c.path] = Torn]}
      BY <2>1 DEF ServerHandle, HandleWrite
    <3> HIDE DEF c
    <3>2. c \in Undone /\ Undone' = Undone \ {c}
      BY <1>14, <2>1, UndoneIs, UndoneNext
    <3> QED
      BY <1>11, <3>1, <3>2, AbsEffect
  <2>2. CASE c.op # "write"
    <3>1. files' = files
      BY <2>2 DEF ServerHandle, HandleRead
    <3> HIDE DEF c
    <3>2. {e \in Pending' : e.op = "write"} = {e \in Pending : e.op = "write"}
      BY <1>14, <2>2
    <3>3. Undone' = Undone
      BY <3>2, UndoneIs, UndoneNext
    <3> QED
      BY <1>11, <3>1, <3>3, AbsStutter
  <2> QED
    BY <2>1, <2>2
<1> QED
  BY <1>5, <1>7, <1>8, <1>9, <1>10, <1>15 DEF RefInv

-----------------------------------------------------------------------------
(* The link keeps the promise.                                              *)

\* At the start.
LEMMA RefInit ==
    ASSUME Init
    PROVE  RefInv /\ Promise!Init
<1>1. /\ pc = "boot" /\ call = NoCall /\ port = "secret" /\ g2h = << >> /\ h2g = << >>
      /\ conns = << >> /\ conn = [p \in Ports |-> 0] /\ backlog = << >> /\ server = 0
      /\ out = None /\ files = [p \in Paths |-> 0]
      /\ ret = [call |-> NoCall, ok |-> FALSE, data |-> << >>]
  BY DEF Init
<1>2. /\ Elems(g2h) = {} /\ Elems(h2g) = {} /\ Len(g2h) = 0 /\ Len(conns) = 0 /\ Len(backlog) = 0
      /\ conn["file"] = 0
  BY <1>1, ElemsEmpty DEF Ports
<1>3. NoCall \notin FileCalls
  BY DEF NoCall, FileCalls, Ops
<1>4. Asking = {} /\ Asked = {} /\ Waiting = {} /\ Opening = {}
  BY <1>1, <1>2 DEF Asking, Asked, Waiting, Opening
<1>5. RetInv /\ NewestInv /\ HoldInv
  BY <1>1, <1>2 DEF RetInv, NewestInv, HoldInv
<1>6. OnceInv
  BY <1>2 DEF OnceInv, OneRw
<1>7. NumInv
  BY <1>1, <1>2, <1>3, <1>4 DEF NumInv
<1>8. Undone = {}
  <2>1. Held = {}
    BY <1>1, <1>4 DEF Held, Queued
  <2>2. Pending = {}
    BY <1>4, <2>1 DEF Pending
  <2>3. TypeInv
    BY TypeInit
  <2> QED
    BY <2>2, <2>3, UndoneIs
<1>9. ARet = Failed(NoCall) /\ ACall = NoCall
  BY <1>1 DEF ARet, ACall, Failed, Returned, OfFile, Nothing, NoCall
<1>10. Promise!Init
  BY <1>1, <1>8, <1>9 DEF Promise!Init, Promise!Returned, ARet, ACall, Failed
<1> QED
  BY <1>5, <1>6, <1>7, <1>10 DEF RefInv

\* Every step keeps RefInv and is one of FileService.
LEMMA RefStep ==
    ASSUME TypeInv, LinkInv, RefInv, [Next]_vars
    PROVE  RefInv' /\ AStep
<1>1. TypeInv'
  BY TypeStep
<1>2. CASE UNCHANGED vars
  <2>1. /\ UNCHANGED << dev, pc, call, port, got, ret, fwd_cnt, g2h, h2g, conns, conn >>
        /\ UNCHANGED << backlog, server, out, files, budget >>
    BY <1>2 DEF vars, guest, fileserver
  <2>2. Waiting' = Waiting /\ Asking' = Asking /\ Asked' = Asked /\ Made' = Made
        /\ GoodPieces' = GoodPieces
    BY <2>1 DEF Waiting, Asking, Asked, Made, GoodPieces, Found
  <2>3. RetInv' /\ NewestInv' /\ OnceInv' /\ HoldInv'
    BY <2>1, <2>2 DEF RefInv, RetInv, NewestInv, OnceInv, HoldInv, FetchingSecret
  <2>4. NumInv'
    BY <2>1, <2>2 DEF RefInv, NumInv
  <2>5. Pending' = Pending /\ ACall' = ACall
    BY <2>1, <2>2 DEF Pending, Opening, Held, Queued, ACall
  <2>6. AStep
    BY <1>1, <2>1, <2>5, StutterRef
  <2> QED
    BY <2>3, <2>4, <2>6 DEF RefInv
<1>3. CASE Next
  BY <1>1, <1>3, CallsRef, ConnectRef, RespRef, TimeoutRef, KernelRef, MoveRef, SendRef, HandleRef
     DEF Next, Guest, FileServer
<1> QED
  BY <1>2, <1>3

\* As long as the wait loops of fetch_secret do not run out, the file calls keep
\* the promise of FileService, whatever timed out before: a call that succeeds
\* leaves no earlier write that could still change a file, a write that returned
\* true is what the file holds, and a read returns what the file holds when it
\* returns.
THEOREM VsockIsFileService ==
    ASSUME SecretTimeouts = 0
    PROVE  Spec => IsFileService
<1>1. Init => TypeInv /\ LinkInv /\ RefInv /\ Promise!Init
  BY TypeInit, LinkInit, RefInit
<1>2. TypeInv /\ LinkInv /\ RefInv /\ [Next]_vars => (TypeInv /\ LinkInv /\ RefInv)' /\ AStep
  BY TypeStep, LinkStep, RefStep
<1>3. AStep => [Promise!Next]_(Promise!vars)
  BY DEF AStep
<1> QED
  BY <1>1, <1>2, <1>3, PTL DEF Spec, IsFileService, Promise!Spec

=============================================================================

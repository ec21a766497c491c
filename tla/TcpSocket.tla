------------------------------ MODULE TcpSocket ------------------------------
(***************************************************************************)
(* The smoltcp TCP socket as net.rs uses it (external to the repository).  *)
(*                                                                         *)
(* A socket is a record: st is the TCP state, conn the number of the       *)
(* connection it carries (0 before the first), rx what recv_slice can      *)
(* still return, and out what the peer has not transmitted yet.  rx and    *)
(* out are sequences of tokens: pieces of the byte stream that the server  *)
(* code tells apart.  The handshake is one step, because SynReceived looks *)
(* to the server exactly like Listen (open, nothing to receive).           *)
(***************************************************************************)
EXTENDS Naturals, Sequences

SocketStates == {"Closed", "Listen", "SynSent", "Established", "CloseWait",
                 "LastAck", "FinWait1", "FinWait2", "Closing", "TimeWait"}

Sockets(Token) ==
    [st : SocketStates, conn : Nat, rx : Seq(Token), out : Seq(Token)]

NewSocket == [st |-> "Closed", conn |-> 0, rx |-> << >>, out |-> << >>]

is_open(s) == s.st \notin {"Closed", "TimeWait"}

may_send(s) == s.st \in {"Established", "CloseWait"}

may_recv(s) == s.st \in {"Established", "FinWait1", "FinWait2"} \/ s.rx # << >>

can_recv(s) == may_recv(s) /\ s.rx # << >>

\* listen() resets the socket, so bytes of the previous connection are gone.
Listen(s) == [s EXCEPT !.st = "Listen", !.rx = << >>, !.out = << >>]

\* connect() of the feed client; the answer the host will send is script.
Connect(conn, script) ==
    [st |-> "SynSent", conn |-> conn, rx |-> << >>, out |-> script]

Close(s) ==
    [s EXCEPT !.st = CASE s.st \in {"Listen", "SynSent"} -> "Closed"
                       [] s.st = "Established"           -> "FinWait1"
                       [] s.st = "CloseWait"             -> "LastAck"
                       [] OTHER                          -> s.st]

Min2(a, b) == IF a <= b THEN a ELSE b

\* recv_slice with a buffer of n tokens: what is returned and what is left.
Received(s, n) == SubSeq(s.rx, 1, Min2(n, Len(s.rx)))
AfterRecv(s, n) == [s EXCEPT !.rx = SubSeq(s.rx, Min2(n, Len(s.rx)) + 1, Len(s.rx))]

-----------------------------------------------------------------------------
(* What the peer and the network do to a socket while iface.poll runs.     *)

Accept(s, conn, script) ==
    [st |-> "Established", conn |-> conn, rx |-> << >>, out |-> script]

CanDeliver(s) == /\ s.st \in {"Established", "FinWait1", "FinWait2"}
                 /\ s.out # << >>

Deliver(s, k) == [s EXCEPT !.rx = @ \o SubSeq(s.out, 1, k),
                           !.out = SubSeq(s.out, k + 1, Len(s.out))]

\* The peer half-closes, whether or not it has sent all it meant to.
CanFin(s) == s.st \in {"Established", "FinWait1", "FinWait2"}

AfterFin(s) ==
    {[s EXCEPT !.st = t, !.out = << >>] :
        t \in CASE s.st = "Established" -> {"CloseWait"}
                [] s.st = "FinWait1"    -> {"Closing", "TimeWait"}
                [] OTHER                -> {"TimeWait"}}

\* The peer acknowledges our FIN.
CanAck(s) == s.st \in {"FinWait1", "Closing", "LastAck"}

AfterAck(s) ==
    [s EXCEPT !.st = CASE s.st = "FinWait1" -> "FinWait2"
                       [] s.st = "Closing"  -> "TimeWait"
                       [] OTHER             -> "Closed"]

\* A reset; received bytes stay readable until listen() discards them.
CanRst(s) == s.st \notin {"Closed", "Listen", "TimeWait"}

AfterRst(s) == [s EXCEPT !.st = "Closed", !.out = << >>]

=============================================================================

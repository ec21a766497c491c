---------------------------- MODULE Server_proofs ----------------------------
(***************************************************************************)
(* Proofs about Server, for every set of requests, uploads and feeds, every *)
(* number of connections and every size of the receive buffers.            *)
(*                                                                         *)
(* The invariant has one part for each port, one for the fetch, one for    *)
(* the deployment of modules and one for the disk.  The network and the    *)
(* loop touch the parts separately, so each part is shown to be preserved  *)
(* by the few actions that change its variables.                           *)
(***************************************************************************)
EXTENDS Server, NatLemmas, SequenceTheorems, TLAPS

\* The pieces of the stream of connection c.
TokenOf(c) == {t \in Token : t.c = c}

-----------------------------------------------------------------------------
(* Sequences and sockets.                                                   *)

\* A part of a sequence is a sequence of the same elements.
LEMMA Part ==
    ASSUME NEW T, NEW q \in Seq(T), NEW m \in Nat, m > 0, NEW n \in Nat, n <= Len(q)
    PROVE  SubSeq(q, m, n) \in Seq(T)
<1>1. \A i \in m..n : q[i] \in T
  BY ElementOfSeq, LenProperties
<1> QED
  BY <1>1, SubSeqProperties

\* Setting fields of a socket gives a socket.
LEMMA SocketState ==
    ASSUME NEW T, NEW s \in Sockets(T), NEW st \in SocketStates
    PROVE  /\ [s EXCEPT !.st = st] \in Sockets(T)
           /\ [s EXCEPT !.st = st, !.out = << >>] \in Sockets(T)
           /\ [s EXCEPT !.st = st, !.rx = << >>, !.out = << >>] \in Sockets(T)
  BY EmptySeq DEF Sockets

\* Likewise for its buffers.
LEMMA SocketBuffers ==
    ASSUME NEW T, NEW s \in Sockets(T), NEW rx \in Seq(T), NEW out \in Seq(T)
    PROVE  /\ [s EXCEPT !.rx = rx, !.out = out] \in Sockets(T)
           /\ [s EXCEPT !.rx = rx] \in Sockets(T)
  BY DEF Sockets

\* What the server and the network do to a socket gives a socket of the same
\* stream.
LEMMA SocketSteps ==
    ASSUME NEW T, NEW s \in Sockets(T)
    PROVE  /\ Listen(s) \in Sockets(T) /\ Close(s) \in Sockets(T)
           /\ AfterRst(s) \in Sockets(T)
           /\ CanAck(s) => AfterAck(s) \in Sockets(T)
           /\ CanFin(s) => AfterFin(s) \subseteq Sockets(T)
<1>1. Listen(s) \in Sockets(T)
  BY SocketState DEF Listen, SocketStates
<1>2. AfterRst(s) \in Sockets(T)
  BY SocketState DEF AfterRst, SocketStates
<1>3. Close(s) \in Sockets(T)
  <2> DEFINE st == CASE s.st \in {"Listen", "SynSent"} -> "Closed"
                       [] s.st = "Established"           -> "FinWait1"
                       [] s.st = "CloseWait"             -> "LastAck"
                       [] OTHER                          -> s.st
  <2>1. st \in SocketStates
    BY DEF Sockets, SocketStates
  <2> HIDE DEF st
  <2>2. [s EXCEPT !.st = st] \in Sockets(T)
    BY <2>1, SocketState
  <2> QED
    BY <2>2 DEF Close, st
<1>4. CanAck(s) => AfterAck(s) \in Sockets(T)
  <2> DEFINE st == CASE s.st = "FinWait1" -> "FinWait2"
                       [] s.st = "Closing"  -> "TimeWait"
                       [] OTHER             -> "Closed"
  <2>1. st \in SocketStates
    BY DEF SocketStates
  <2> HIDE DEF st
  <2>2. [s EXCEPT !.st = st] \in Sockets(T)
    BY <2>1, SocketState
  <2> QED
    BY <2>2 DEF AfterAck, st
<1>5. CanFin(s) => AfterFin(s) \subseteq Sockets(T)
  <2> DEFINE sts == CASE s.st = "Established" -> {"CloseWait"}
                [] s.st = "FinWait1"    -> {"Closing", "TimeWait"}
                [] OTHER                -> {"TimeWait"}
  <2>1. sts \subseteq SocketStates
    BY DEF SocketStates
  <2> HIDE DEF sts
  <2>2. \A t \in sts : [s EXCEPT !.st = t, !.out = << >>] \in Sockets(T)
    BY <2>1, SocketState
  <2> QED
    BY <2>2 DEF AfterFin, sts
<1> QED
  BY <1>1, <1>2, <1>3, <1>4, <1>5

\* recv_slice returns a piece of the stream and leaves a socket.
LEMMA RecvSteps ==
    ASSUME NEW T, NEW s \in Sockets(T), NEW n \in Nat
    PROVE  /\ Received(s, n) \in Seq(T)
           /\ AfterRecv(s, n) \in Sockets(T)
           /\ AfterRecv(s, n).conn = s.conn /\ AfterRecv(s, n).st = s.st
<1>1. s.rx \in Seq(T) /\ Len(s.rx) \in Nat
  BY LenProperties DEF Sockets
<1>2. Min2(n, Len(s.rx)) \in Nat /\ Min2(n, Len(s.rx)) <= Len(s.rx)
  BY <1>1 DEF Min2
<1>3. Received(s, n) \in Seq(T)
  BY <1>1, <1>2, Part DEF Received
<1>4. SubSeq(s.rx, Min2(n, Len(s.rx)) + 1, Len(s.rx)) \in Seq(T)
  BY <1>1, <1>2, Part
<1>5. AfterRecv(s, n) \in Sockets(T)
  BY <1>4, SocketBuffers DEF AfterRecv
<1> QED
  BY <1>3, <1>5 DEF AfterRecv, Sockets

\* So does the arrival of data.
LEMMA DeliverStep ==
    ASSUME NEW T, NEW s \in Sockets(T), NEW n \in 1..Len(s.out)
    PROVE  Deliver(s, n) \in Sockets(T)
<1>1. s.out \in Seq(T) /\ Len(s.out) \in Nat /\ s.rx \in Seq(T)
  BY LenProperties DEF Sockets
<1>2. SubSeq(s.out, 1, n) \in Seq(T) /\ SubSeq(s.out, n + 1, Len(s.out)) \in Seq(T)
  BY <1>1, Part
<1>3. s.rx \o SubSeq(s.out, 1, n) \in Seq(T)
  BY <1>1, <1>2, ConcatProperties
<1> QED
  BY <1>2, <1>3, SocketBuffers DEF Deliver

-----------------------------------------------------------------------------
(* The streams the clients send.                                            *)

\* The stream of one upload.
LEMMA UploadWireType ==
    ASSUME NEW c \in Nat, NEW i \in Nat, NEW r \in Upload
    PROVE  UploadWire(c, i, r) \in Seq(TokenOf(c))
<1> DEFINE line == [c |-> c, k |-> "line", path |-> r.path]
           eoh == [c |-> c, k |-> "eoh", len |-> r.len]
           wasm == [c |-> c, k |-> "wasm", id |-> << c, i >>, size |-> r.size, ok |-> r.ok]
<1>1. line \in TokenOf(c) /\ eoh \in TokenOf(c) /\ wasm \in TokenOf(c)
  BY DEF TokenOf, Token, Upload, ModuleId
<1> HIDE DEF line, eoh, wasm
<1>2. r.size \in Nat
  BY DEF Upload
<1>3. << line, eoh >> \in Seq(TokenOf(c))
  BY <1>1
<1>4. [j \in 1..r.size |-> wasm] \in Seq(TokenOf(c))
  BY <1>1, <1>2
<1>5. << line, eoh >> \o [j \in 1..r.size |-> wasm] \in Seq(TokenOf(c))
  BY <1>3, <1>4, ConcatProperties
<1> QED
  BY <1>5 DEF UploadWire, Copies, line, eoh, wasm

\* The stream of a script of uploads, by induction on its length.
LEMMA AdminWireType ==
    ASSUME NEW c \in Nat, NEW script \in Seq(Upload)
    PROVE  AdminWire(c, script) \in Seq(TokenOf(c))
<1> DEFINE S == Seq(TokenOf(c))
           n == Len(script)
           part == [i \in 1..n |-> UploadWire(c, i, script[i])]
           g == [i \in 1..n |-> [t \in S |-> t \o part[i]]]
           P(f) == f = [i \in 0..Len(script) |->
                          IF i = 0 THEN << >> ELSE f[i - 1] \o UploadWire(c, i, script[i])]
<1>1. n \in Nat /\ << >> \in S
  BY LenProperties, EmptySeq
<1>2. \A i \in 1..n : part[i] \in S
  <2> TAKE i \in 1..n
  <2>1. script[i] \in Upload /\ i \in Nat
    BY <1>1, ElementOfSeq
  <2>2. UploadWire(c, i, script[i]) \in S
    BY <2>1, UploadWireType
  <2> QED
    BY <2>2
<1>3. \A i \in 1..n : part[i] = UploadWire(c, i, script[i])
  OBVIOUS
<1> HIDE DEF part
<1>4. \A s, t \in S : s \o t \in S
  BY ConcatProperties
<1>5. ASSUME NEW f
      PROVE  P(f) <=> f = [i \in 0..n |-> IF i = 0 THEN << >> ELSE f[i - 1] \o part[i]]
  <2>1. [i \in 0..n |-> IF i = 0 THEN << >> ELSE f[i - 1] \o part[i]]
          = [i \in 0..n |->
                IF i = 0 THEN << >> ELSE f[i - 1] \o UploadWire(c, i, script[i])]
    BY <1>3, <1>1
  <2> QED
    BY <2>1
<1> HIDE DEF S, n, P
<1>6. g \in [1..n -> [S -> S]] /\ DOMAIN g = 1..n
  BY <1>2, <1>4
<1>7. \A i \in 1..n, t \in S : g[i][t] = t \o part[i]
  OBVIOUS
<1> HIDE DEF g
<1>8. PICK f \in [0..n -> S] : Follows(f, << >>, g)
  BY <1>1, <1>6, Recursion
<1>9. P(f)
  <2>1. \A i \in 1..n : f[i - 1] \in S
    BY <1>1, <1>8
  <2>2. \A i \in 1..n : f[i] = f[i - 1] \o part[i]
    BY <1>7, <1>8, <1>6, <2>1 DEF Follows
  <2>3. f = [i \in 0..n |-> IF i = 0 THEN << >> ELSE f[i - 1] \o part[i]]
    BY <1>1, <1>8, <2>2 DEF Follows
  <2> QED
    BY <1>5, <2>3
<1>10. ASSUME NEW h, P(h) PROVE h[n] \in S
  <2> DEFINE M == {i \in Nat : i <= n => h[i] \in S}
  <2>1. h = [i \in 0..n |-> IF i = 0 THEN << >> ELSE h[i - 1] \o part[i]]
    BY <1>10, <1>5
  <2>2. 0 \in M
    BY <1>1, <2>1
  <2>3. ASSUME NEW i \in Nat, i \in M PROVE i + 1 \in M
    <3> SUFFICES ASSUME i + 1 <= n PROVE h[i + 1] \in S
      OBVIOUS
    <3>1. i + 1 \in 0..n /\ i + 1 # 0 /\ (i + 1) - 1 = i /\ i + 1 \in 1..n
      BY <1>1
    <3>2. h[i + 1] = h[i] \o part[i + 1]
      BY <3>1, <2>1
    <3>3. h[i] \in S
      BY <1>1, <2>3
    <3> QED
      BY <1>4, <1>2, <3>1, <3>2, <3>3
  <2> HIDE DEF M
  <2>4. n \in M
    BY <1>1, <2>2, <2>3, Induction
  <2> QED
    BY <1>1, <2>4 DEF M
<1> QED
  BY <1>9, <1>10 DEF AdminWire, P, S, n

\* The stream of a request on port 80.
LEMMA HttpWireType ==
    ASSUME NEW c \in Nat, NEW r \in Requests80
    PROVE  HttpWire(c, r) \in Seq(TokenOf(c))
<1> DEFINE line == [c |-> c, k |-> "line", path |-> r.path]
           eoh == [c |-> c, k |-> "eoh", len |-> r.body]
           body == [c |-> c, k |-> "body"]
<1>1. r \in [path : Path, body : Nat]
  BY ServerConstants
<1>2. line \in TokenOf(c) /\ eoh \in TokenOf(c) /\ body \in TokenOf(c)
  BY <1>1 DEF TokenOf, Token
<1> HIDE DEF line, eoh, body
<1>3. << line, eoh >> \in Seq(TokenOf(c)) /\ [j \in 1..r.body |-> body] \in Seq(TokenOf(c))
  BY <1>1, <1>2
<1>4. << line, eoh >> \o [j \in 1..r.body |-> body] \in Seq(TokenOf(c))
  BY <1>3, ConcatProperties
<1> QED
  BY <1>4 DEF HttpWire, Copies, line, eoh, body

\* The stream of the feed host's answer.
LEMMA FeedWireType ==
    ASSUME NEW c \in Nat, NEW n \in Nat
    PROVE  FeedWire(c, n) \in Seq(FeedToken)
<1> DEFINE eoh == [c |-> c, k |-> "eoh"]
           body == [c |-> c, k |-> "body"]
<1>1. eoh \in FeedToken /\ body \in FeedToken
  BY DEF FeedToken
<1> HIDE DEF eoh, body
<1>2. << eoh >> \in Seq(FeedToken) /\ [j \in 1..n |-> body] \in Seq(FeedToken)
  BY <1>1
<1>3. << eoh >> \o [j \in 1..n |-> body] \in Seq(FeedToken)
  BY <1>2, ConcatProperties
<1> QED
  BY <1>3 DEF FeedWire, Copies, eoh, body

-----------------------------------------------------------------------------
(* Parsing.                                                                 *)

\* find_header_end returns 0 or the place of a blank line.
LEMMA HeaderEnd ==
    ASSUME NEW T, NEW buf \in Seq(T)
    PROVE  /\ find_header_end(buf) \in 0..Len(buf)
           /\ find_header_end(buf) # 0 => buf[find_header_end(buf)].k = "eoh"
<1> DEFINE Ends == {i \in DOMAIN buf : buf[i].k = "eoh"}
<1>1. Len(buf) \in Nat /\ Ends \subseteq 1..Len(buf)
  BY LenProperties
<1>2. CASE Ends = {}
  BY <1>1, <1>2 DEF find_header_end
<1>3. CASE Ends # {}
  <2>1. \E i \in Ends : \A j \in Ends : i <= j
    <3>1. Ends \subseteq Nat
      BY <1>1
    <3> HIDE DEF Ends
    <3> QED
      BY <1>3, <3>1, LeastNatural
  <2>2. (CHOOSE i \in Ends : \A j \in Ends : i <= j) \in Ends
    BY <2>1
  <2>3. find_header_end(buf) \in Ends
    BY <1>3, <2>2 DEF find_header_end
  <2> QED
    BY <1>1, <2>3
<1> QED
  BY <1>2, <1>3

\* What follows the header is part of the same stream.
LEMMA BodyType ==
    ASSUME NEW T, NEW buf \in Seq(T)
    PROVE  parse_body(buf) \in Seq(T)
<1>1. find_header_end(buf) \in 0..Len(buf) /\ Len(buf) \in Nat
  BY HeaderEnd, LenProperties
<1> QED
  BY <1>1, Part DEF parse_body, Drop

\* A path of one character.
LEMMA OneCharacter == << "?" >> \in Path /\ << "/" >> \in Path
<1>1. "?" \in Character /\ "/" \in Character
  BY DEF Character
<1>2. ASSUME NEW T, NEW a \in T PROVE << a >> \in Seq(T)
  OBVIOUS
<1> QED
  BY <1>1, <1>2 DEF Path

\* A complete header has a path, a route and a length or none.
LEMMA HeaderTypes ==
    ASSUME NEW buf \in Seq(Token), find_header_end(buf) # 0
    PROVE  /\ parse_path(buf) \in Path
           /\ parse_content_length(buf) \in Nat \cup {NoLength}
           /\ ParseRoutePrefix(parse_path(buf)) \in Path
<1>1. /\ find_header_end(buf) \in 1..Len(buf) /\ 1 \in 1..Len(buf)
      /\ buf[find_header_end(buf)].k = "eoh"
  BY HeaderEnd, LenProperties
<1>2. buf[1] \in Token /\ buf[find_header_end(buf)] \in Token
  BY <1>1, ElementOfSeq
<1>3. parse_path(buf) \in Path
  <2>1. CASE buf[1].k = "line"
    BY <1>2, <2>1 DEF Token, parse_path
  <2>2. CASE buf[1].k # "line"
    <3>1. << "?" >> \in Path
      BY OneCharacter
    <3> QED
      BY <2>2, <3>1 DEF parse_path
  <2> QED
    BY <2>1, <2>2
<1>4. parse_content_length(buf) \in Nat \cup {NoLength}
  BY <1>1, <1>2 DEF Token, parse_content_length
<1>5. \A path \in Path : ParseRoutePrefix(path) \in Path
  <2> TAKE path \in Path
  <2> DEFINE rest == Drop(path, Len(UpdateKey))
  <2>1. path \in Seq(Character) /\ Len(path) \in Nat /\ Len(UpdateKey) = 2
    BY LenProperties DEF Path, UpdateKey
  <2>2. rest \in Path
    BY <2>1, Part DEF Drop, Path
  <2>3. Root \in Path
    BY OneCharacter DEF Root
  <2> HIDE DEF rest
  <2> QED
    BY <2>2, <2>3 DEF ParseRoutePrefix, rest
<1> QED
  BY <1>3, <1>4, <1>5

-----------------------------------------------------------------------------
(* Routing.                                                                 *)

\* route_mut finds an entry with the longest of the prefixes that match, and
\* none only if none matches; by induction on the entries it has looked at.
LEMMA LongestPrefix ==
    ASSUME NEW A, NEW entries \in Seq([prefix : Path, app : A]), NEW path \in Path
    PROVE  LET i == RouteMut(entries, path)
               Matches(j) == StartsWith(path, entries[j].prefix)
           IN  /\ i \in 0..Len(entries)
               /\ i = 0 => \A j \in 1..Len(entries) : ~Matches(j)
               /\ i # 0 => /\ Matches(i)
                           /\ \A j \in 1..Len(entries) : Matches(j) =>
                                 Len(entries[j].prefix) <= Len(entries[i].prefix)
<1> DEFINE n == Len(entries)
           hit == [i \in 1..n |-> StartsWith(path, entries[i].prefix)]
           size == [i \in 1..n |-> Len(entries[i].prefix)]
           S == [len : Nat, idx : 0..n]
           a == [len |-> 0, idx |-> 0]
           Best(i, b) == IF hit[i] /\ size[i] >= b.len THEN [len |-> size[i], idx |-> i] ELSE b
           step == [i \in 1..n |-> [b \in S |-> Best(i, b)]]
           P(f) == f = [i \in 0..Len(entries) |->
                          IF i = 0 THEN [len |-> 0, idx |-> 0]
                          ELSE IF /\ StartsWith(path, entries[i].prefix)
                                  /\ Len(entries[i].prefix) >= f[i - 1].len
                               THEN [len |-> Len(entries[i].prefix), idx |-> i]
                               ELSE f[i - 1]]
<1>1. n \in Nat /\ a \in S
  BY LenProperties
<1>2. \A i \in 1..n : size[i] \in Nat /\ hit[i] \in BOOLEAN
  <2> TAKE i \in 1..n
  <2>1. entries[i] \in [prefix : Path, app : A]
    BY ElementOfSeq
  <2>2. entries[i].prefix \in Seq(Character)
    BY <2>1 DEF Path
  <2>3. Len(entries[i].prefix) \in Nat
    BY <2>2, LenProperties
  <2> QED
    BY <2>3 DEF StartsWith
<1>3. ASSUME NEW f
      PROVE  P(f) <=> f = [i \in 0..n |-> IF i = 0 THEN a ELSE Best(i, f[i - 1])]
  <2>1. [i \in 0..n |-> IF i = 0 THEN a ELSE Best(i, f[i - 1])]
          = [i \in 0..Len(entries) |->
                IF i = 0 THEN [len |-> 0, idx |-> 0]
                ELSE IF /\ StartsWith(path, entries[i].prefix)
                        /\ Len(entries[i].prefix) >= f[i - 1].len
                     THEN [len |-> Len(entries[i].prefix), idx |-> i]
                     ELSE f[i - 1]]
    BY <1>1
  <2> QED
    BY <2>1
<1> HIDE DEF P, hit, size, n, a
<1>4. \A i \in 1..n, b \in S : Best(i, b) \in S
  BY <1>1, <1>2
<1> HIDE DEF Best
<1>5. step \in [1..n -> [S -> S]] /\ DOMAIN step = 1..n
  BY <1>4
<1>6. \A i \in 1..n, b \in S : step[i][b] = Best(i, b)
  OBVIOUS
<1> HIDE DEF step, S
<1>7. PICK f \in [0..n -> S] : Follows(f, a, step)
  BY <1>1, <1>5, Recursion
<1>8. P(f)
  <2>1. \A i \in 1..n : f[i - 1] \in S
    BY <1>1, <1>7
  <2>2. \A i \in 1..n : f[i] = Best(i, f[i - 1])
    BY <1>5, <1>6, <1>7, <2>1 DEF Follows
  <2>3. f = [i \in 0..n |-> IF i = 0 THEN a ELSE Best(i, f[i - 1])]
    BY <1>1, <1>7, <2>2 DEF Follows
  <2> QED
    BY <1>3, <2>3
<1> DEFINE Right(i, b) ==
              /\ b \in S
              /\ b.idx = 0 => b.len = 0 /\ \A j \in 1..i : ~hit[j]
              /\ b.idx # 0 => /\ b.idx \in 1..i /\ hit[b.idx] /\ b.len = size[b.idx]
                              /\ \A j \in 1..i : hit[j] => size[j] <= b.len
<1>9. ASSUME NEW h, P(h) PROVE Right(n, h[n])
  <2> DEFINE M == {i \in Nat : i <= n => Right(i, h[i])}
  <2>1. h = [i \in 0..n |-> IF i = 0 THEN a ELSE Best(i, h[i - 1])]
    BY <1>3, <1>9
  <2>2. 0 \in M
    BY <1>1, <2>1 DEF a
  <2>3. ASSUME NEW i \in Nat, i \in M PROVE i + 1 \in M
    <3> SUFFICES ASSUME i + 1 <= n PROVE Right(i + 1, h[i + 1])
      OBVIOUS
    <3>1. i + 1 \in 1..n /\ i + 1 \in 0..n /\ i + 1 # 0 /\ (i + 1) - 1 = i
      BY <1>1
    <3>2. h[i + 1] = Best(i + 1, h[i])
      BY <2>1, <3>1
    <3> DEFINE b == h[i]
    <3>3. Right(i, b)
      BY <1>1, <2>3
    <3>4. h[i + 1] \in S
      BY <1>4, <3>1, <3>2, <3>3
    <3> HIDE DEF b
    <3> DEFINE new == [len |-> size[i + 1], idx |-> i + 1]
    <3>5. \A j \in 1..(i + 1) : j \in 1..i \/ j = i + 1
      OBVIOUS
    <3>6. \A j \in 1..i : j \in 1..n
      BY <1>1, <3>1
    <3>7. CASE hit[i + 1] /\ size[i + 1] >= b.len
      <4>1. Best(i + 1, b) = new
        BY <3>7 DEF Best
      <4>2. new.idx = i + 1 /\ new.len = size[i + 1] /\ new \in S
        BY <1>2, <3>1 DEF S
      <4>3. \A j \in 1..i : hit[j] => size[j] <= size[i + 1]
        BY <1>2, <3>1, <3>3, <3>6, <3>7 DEF S
      <4> HIDE DEF new
      <4>4. Right(i + 1, new)
        BY <1>2, <3>1, <3>5, <3>7, <4>2, <4>3
      <4> QED
        BY <3>2, <4>1, <4>4 DEF b
    <3>8. CASE ~(hit[i + 1] /\ size[i + 1] >= b.len)
      <4>1. Best(i + 1, b) = b
        BY <3>8 DEF Best
      <4>2. Right(i + 1, b)
        BY <1>2, <3>1, <3>3, <3>5, <3>8 DEF S
      <4> QED
        BY <3>2, <4>1, <4>2 DEF b
    <3> QED
      BY <3>7, <3>8
  <2> HIDE DEF M
  <2>4. n \in M
    BY <1>1, <2>2, <2>3, Induction
  <2> QED
    BY <1>1, <2>4 DEF M
<1>10. \E h : P(h) /\ RouteScan(entries, path) = h[n]
  BY <1>8 DEF RouteScan, P, n
<1>11. Right(n, RouteScan(entries, path))
  BY <1>9, <1>10
<1> QED
  BY <1>1, <1>11 DEF RouteMut, S, hit, size, n

-----------------------------------------------------------------------------
(* Who changes what.                                                        *)

\* Each part of the state is changed by few actions.
LEMMA Frames ==
    ASSUME [Next]_vars
    PROVE  /\ Poll80 \/ Http \/ UNCHANGED http
           /\ Poll81 \/ Admin \/ UNCHANGED << s81, admin_state, answers >>
           /\ Admin \/ UNCHANGED << disk, accepted >>
           /\ PollFeed \/ Tick \/ Fetch \/ UNCHANGED feed
           /\ DistributeFeed \/ Fetch \/ UNCHANGED pending_feed
           /\ \/ DistributeFeed \/ ApplyPending \/ Admin
              \/ /\ UNCHANGED << pending_entry, router, last_feed >>
                 /\ pc' = pc \/ pc \in {"poll", "fetch", "http"}
                 /\ pc' = pc \/ pc' \in {"fetch", "http", "admin"}
<1>1. CASE UNCHANGED vars
  BY <1>1 DEF vars, http, admin, feed
<1>2. CASE DistributeFeed
  BY <1>2 DEF DistributeFeed, http, admin, feed
<1>3. CASE ApplyPending
  BY <1>3 DEF ApplyPending, http, admin, feed
<1>4. CASE PollDone
  BY <1>4 DEF PollDone, http, admin, feed
<1>5. CASE Fetch
  BY <1>5 DEF Fetch, http, admin, feed
<1>6. CASE Http
  BY <1>6 DEF Http, http, admin, feed
<1>7. CASE Admin
  BY <1>7 DEF Admin, http, admin, feed
<1>8. CASE Poll80
  BY <1>8 DEF Poll80, http, admin, feed
<1>9. CASE Poll81
  BY <1>9 DEF Poll81, http, admin, feed
<1>10. CASE PollFeed
  BY <1>10 DEF PollFeed, http, admin, feed
<1>11. CASE Tick
  BY <1>11 DEF Tick, http, admin, feed
<1> QED
  BY <1>1, <1>2, <1>3, <1>4, <1>5, <1>6, <1>7, <1>8, <1>9, <1>10, <1>11
     DEF Next, Loop, Environment

\* What the network does to a socket that carries a connection: the stream and
\* the connection stay the same, and a side once closed stays closed.
LEMMA NetworkSteps ==
    ASSUME NEW T, NEW s \in Sockets(T), NEW t,
           \/ CanDeliver(s) /\ \E k \in 1..Len(s.out) : t = Deliver(s, k)
           \/ CanFin(s) /\ t \in AfterFin(s)
           \/ CanAck(s) /\ t = AfterAck(s)
           \/ CanRst(s) /\ t = AfterRst(s)
    PROVE  /\ t \in Sockets(T) /\ t.conn = s.conn
           /\ s.st # "Listen" /\ t.st # "Listen"
           /\ may_send(t) => may_send(s)
<1>1. CASE CanDeliver(s) /\ \E k \in 1..Len(s.out) : t = Deliver(s, k)
  <2>1. PICK k \in 1..Len(s.out) : t = Deliver(s, k)
    BY <1>1
  <2>2. t \in Sockets(T)
    BY <2>1, DeliverStep
  <2>3. t.conn = s.conn /\ t.st = s.st
    BY <2>1 DEF Deliver, Sockets
  <2> QED
    BY <1>1, <2>2, <2>3 DEF CanDeliver, may_send
<1>2. CASE CanFin(s) /\ t \in AfterFin(s)
  <2>1. t \in Sockets(T)
    BY <1>2, SocketSteps
  <2>2. t.conn = s.conn /\ t.st \in {"CloseWait", "Closing", "TimeWait"}
    BY <1>2 DEF AfterFin, Sockets, CanFin
  <2>3. t.st = "CloseWait" => s.st = "Established"
    BY <1>2 DEF AfterFin, Sockets, CanFin
  <2> QED
    BY <1>2, <2>1, <2>2, <2>3 DEF CanFin, may_send
<1>3. CASE CanAck(s) /\ t = AfterAck(s)
  <2>1. t \in Sockets(T)
    BY <1>3, SocketSteps
  <2>2. t.conn = s.conn /\ t.st \in {"FinWait2", "TimeWait", "Closed"}
    BY <1>3 DEF AfterAck, Sockets, CanAck
  <2> QED
    BY <1>3, <2>1, <2>2 DEF CanAck, may_send
<1>4. CASE CanRst(s) /\ t = AfterRst(s)
  <2>1. t \in Sockets(T)
    BY <1>4, SocketSteps
  <2>2. t.conn = s.conn /\ t.st = "Closed"
    BY <1>4 DEF AfterRst, Sockets, CanRst
  <2> QED
    BY <1>4, <2>1, <2>2 DEF CanRst, may_send
<1> QED
  BY <1>1, <1>2, <1>3, <1>4

\* A connection that begins.
LEMMA AcceptStep ==
    ASSUME NEW T, NEW c \in Nat, NEW wire \in Seq(T), NEW s
    PROVE  /\ Accept(s, c, wire) \in Sockets(T) /\ Accept(s, c, wire).conn = c
           /\ Accept(s, c, wire).st = "Established"
<1>1. << >> \in Seq(T) /\ "Established" \in SocketStates
  BY EmptySeq DEF SocketStates
<1> QED
  BY <1>1 DEF Accept, Sockets

-----------------------------------------------------------------------------
(* Port 80.                                                                 *)

\* No two entries of a history are of the same connection, and none is of a
\* connection after c.
Once(history, c) ==
    /\ \A i \in DOMAIN history : history[i].conn <= c
    /\ \A i, j \in DOMAIN history : i # j => history[i].conn # history[j].conn

\* There is an entry of connection c.
Has(history, c) == \E i \in DOMAIN history : history[i].conn = c

\* What is read belongs to the connection of the socket, a socket that listens
\* has nothing to read, and an answered connection is marked or over.
HttpInv ==
    /\ sent80 \in BOOLEAN
    /\ s80 \in Sockets(TokenOf(s80.conn)) /\ req_buf \in Seq(TokenOf(s80.conn))
    /\ s80.st = "Listen" => s80.rx = << >> /\ req_buf = << >>
    /\ replies \in Seq(Reply) /\ Once(replies, s80.conn)
    /\ Has(replies, s80.conn) => sent80 \/ s80.st = "Listen"

\* A new entry for connection c, which had none.
LEMMA OnceMore ==
    ASSUME NEW T, NEW history \in Seq(T), NEW e \in T, NEW c \in Nat, e.conn = c,
           \A x \in T : x.conn \in Nat, Once(history, c), ~Has(history, c)
    PROVE  Append(history, e) \in Seq(T) /\ Once(Append(history, e), c)
<1> DEFINE new == Append(history, e)
           n == Len(history)
<1>1. /\ n \in Nat /\ DOMAIN history = 1..n
      /\ new \in Seq(T) /\ DOMAIN new = 1..(n + 1)
      /\ \A i \in 1..n : new[i] = history[i]
      /\ new[n + 1] = e
  BY AppendProperties, LenProperties
<1> HIDE DEF new, n
<1>2. \A i \in 1..(n + 1) : i \in 1..n \/ i = n + 1
  BY <1>1
<1>3. \A i \in DOMAIN new : new[i].conn <= c
  BY <1>1, <1>2 DEF Once
<1>4. ASSUME NEW i \in DOMAIN new, NEW j \in DOMAIN new, i # j
      PROVE  new[i].conn # new[j].conn
  BY <1>1, <1>2, <1>4 DEF Once, Has
<1> QED
  BY <1>1, <1>3, <1>4 DEF Once, new

\* The next connection has no entry yet.
LEMMA OnceNext ==
    ASSUME NEW T, NEW history \in Seq(T), \A x \in T : x.conn \in Nat,
           NEW c \in Nat, Once(history, c)
    PROVE  Once(history, c + 1) /\ ~Has(history, c + 1)
<1>1. \A i \in DOMAIN history : history[i].conn \in Nat
  BY ElementOfSeq, LenProperties
<1> QED
  BY <1>1 DEF Once, Has

\* The part of a path that the application sees is a path.
LEMMA StripType ==
    ASSUME NEW path \in Path, NEW prefix \in Path, Len(prefix) <= Len(path)
    PROVE  StripPrefix(path, prefix) \in Path
<1>1. Len(path) \in Nat /\ Len(prefix) \in Nat
  BY LenProperties DEF Path
<1>2. Drop(path, Len(prefix)) \in Path
  BY <1>1, Part DEF Drop, Path
<1>3. Root \in Path
  BY OneCharacter DEF Root
<1> QED
  BY <1>2, <1>3 DEF StripPrefix

\* An answer is for the connection and has the shape of a reply.
LEMMA AnswerType ==
    ASSUME NEW c \in Nat, NEW buf \in Seq(Token), find_header_end(buf) # 0,
           router \in Seq(Route), NEW a \in Answer80(c, buf)
    PROVE  a \in Reply /\ a.conn = c
<1> DEFINE path == parse_path(buf)
           i == RouteMut(router, path)
           From(who) == [conn |-> c, path |-> path, from |-> who]
           arg == StripPrefix(path, router[i].prefix)
           body == Len(parse_body(buf))
           len == parse_content_length(buf)
           ByApp == [conn |-> c, path |-> path, from |-> "app",
                     app |-> router[i].app, prefix |-> router[i].prefix,
                     arg |-> arg, body |-> body, len |-> len]
<1>1. path \in Path /\ len \in Nat \cup {NoLength}
  BY HeaderTypes
<1>2. body \in Nat
  BY BodyType, LenProperties
<1>3. i \in 0..Len(router) /\ (i # 0 => StartsWith(path, router[i].prefix))
  BY <1>1, LongestPrefix DEF Route
<1>4. i # 0 => router[i] \in Route
  BY <1>3, ElementOfSeq, LenProperties
<1>5. i # 0 => router[i].app \in App /\ router[i].prefix \in Path
  BY <1>4 DEF Route
<1>6. i # 0 => arg \in Path
  BY <1>1, <1>3, <1>5, StripType DEF StartsWith
<1>7. a = From("static") \/ a = From("fallback") \/ (i # 0 /\ a = ByApp)
  BY DEF Answer80
<1> HIDE DEF path, i, arg, body, len
<1>8. CASE a = From("static") \/ a = From("fallback")
  BY <1>1, <1>8 DEF Reply
<1>9. CASE i # 0 /\ a = ByApp
  BY <1>1, <1>2, <1>5, <1>6, <1>9 DEF Reply
<1> QED
  BY <1>7, <1>8, <1>9

\* The tokens of one connection are tokens.
LEMMA StreamTypes ==
    ASSUME NEW c
    PROVE  /\ Seq(TokenOf(c)) \subseteq Seq(Token)
           /\ Sockets(TokenOf(c)) \subseteq Sockets(Token)
<1>1. TokenOf(c) \subseteq Token
  BY DEF TokenOf
<1>2. Seq(TokenOf(c)) \subseteq Seq(Token)
  <2> SUFFICES ASSUME NEW q \in Seq(TokenOf(c)) PROVE q \in Seq(Token)
    OBVIOUS
  <2>1. \A i \in 1..Len(q) : q[i] \in Token
    BY <1>1, ElementOfSeq
  <2>2. q = [i \in 1..Len(q) |-> q[i]] /\ Len(q) \in Nat
    BY LenProperties
  <2> QED
    BY <2>1, <2>2
<1> QED
  BY <1>2 DEF Sockets

\* The network keeps HttpInv.
LEMMA Poll80Inv ==
    ASSUME HttpInv, Poll80
    PROVE  HttpInv'
<1> DEFINE c == s80.conn
<1>1. s80 \in Sockets(TokenOf(c)) /\ c \in Nat
  BY DEF HttpInv, Sockets
<1>2. UNCHANGED << sent80, req_buf, replies >> /\ Network80
  BY DEF Poll80
<1>3. \A x \in Reply : x.conn \in Nat
  BY DEF Reply
<1>4. CASE /\ s80.st = "Listen" /\ s80.conn < MaxConn80
           /\ \E r \in Requests80 : s80' = Accept(s80, c + 1, HttpWire(c + 1, r))
  <2>1. PICK r \in Requests80 : s80' = Accept(s80, c + 1, HttpWire(c + 1, r))
    BY <1>4
  <2>2. HttpWire(c + 1, r) \in Seq(TokenOf(c + 1)) /\ c + 1 \in Nat
    BY <1>1, HttpWireType
  <2>3. s80' \in Sockets(TokenOf(c + 1)) /\ s80'.conn = c + 1 /\ s80'.st = "Established"
    BY <2>1, <2>2, AcceptStep
  <2>4. req_buf' = << >> /\ << >> \in Seq(TokenOf(c + 1))
    BY <1>2, <1>4, EmptySeq DEF HttpInv
  <2>5. Once(replies, c + 1) /\ ~Has(replies, c + 1)
    BY <1>1, <1>3, OnceNext DEF HttpInv
  <2>6. sent80' \in BOOLEAN /\ replies' \in Seq(Reply)
    BY <1>2 DEF HttpInv
  <2> QED
    BY <1>2, <2>3, <2>4, <2>5, <2>6 DEF HttpInv, Once, Has
<1>5. CASE \/ CanDeliver(s80) /\ \E k \in 1..Len(s80.out) : s80' = Deliver(s80, k)
           \/ CanFin(s80) /\ s80' \in AfterFin(s80)
           \/ CanAck(s80) /\ s80' = AfterAck(s80)
           \/ CanRst(s80) /\ s80' = AfterRst(s80)
  <2>1. /\ s80' \in Sockets(TokenOf(c)) /\ s80'.conn = c
        /\ s80.st # "Listen" /\ s80'.st # "Listen"
    BY <1>1, <1>5, NetworkSteps
  <2> QED
    BY <1>2, <2>1 DEF HttpInv, Once, Has
<1> QED
  BY <1>2, <1>4, <1>5 DEF Network80

\* The loop keeps HttpInv.
LEMMA HttpStepInv ==
    ASSUME HttpInv, router \in Seq(Route), Http
    PROVE  HttpInv'
<1> DEFINE c == s80.conn
           o == Reopened80
           buf == o.buf \o Received(o.s, Recv80)
           s == AfterRecv(o.s, Recv80)
<1>1. s80 \in Sockets(TokenOf(c)) /\ c \in Nat /\ Recv80 \in Nat
  BY ServerConstants DEF HttpInv, Sockets
<1>2. Listen(s80) \in Sockets(TokenOf(c)) /\ Listen(s80).conn = c /\ Listen(s80).st = "Listen"
      /\ Listen(s80).rx = << >>
  BY <1>1, SocketSteps DEF Listen, Sockets
<1>3. /\ o.s \in Sockets(TokenOf(c)) /\ o.s.conn = c /\ o.sent \in BOOLEAN
      /\ o.buf \in Seq(TokenOf(c))
      /\ o.s.st = "Listen" => o.s.rx = << >> /\ o.buf = << >>
      /\ Has(replies, c) => o.sent \/ o.s.st = "Listen"
  <2>1. CASE is_open(s80)
    BY <1>1, <2>1 DEF HttpInv, Reopened80
  <2>2. CASE ~is_open(s80)
    BY <1>1, <1>2, <2>2, EmptySeq DEF HttpInv, Reopened80
  <2> QED
    BY <2>1, <2>2
<1> HIDE DEF o
<1>4. /\ s \in Sockets(TokenOf(c)) /\ s.conn = c /\ s.st = o.s.st
      /\ Received(o.s, Recv80) \in Seq(TokenOf(c))
  BY <1>1, <1>3, RecvSteps
<1>5. buf \in Seq(TokenOf(c)) /\ buf \in Seq(Token)
  BY <1>3, <1>4, ConcatProperties, StreamTypes
<1> HIDE DEF buf, s, c
<1>6. CASE ~Ready80(o)
  <2>1. s80' = o.s /\ sent80' = o.sent /\ req_buf' = o.buf /\ UNCHANGED replies
    BY <1>6 DEF Http, o
  <2> QED
    BY <1>3, <2>1 DEF HttpInv, c
<1>7. CASE Ready80(o) /\ find_header_end(buf) = 0
  <2>1. s80' = s /\ sent80' = o.sent /\ req_buf' = buf /\ UNCHANGED replies
    BY <1>7 DEF Http, o, buf, s
  <2>2. o.s.st # "Listen"
    BY <1>3, <1>7 DEF Ready80, may_recv
  <2> QED
    BY <1>3, <1>4, <1>5, <2>1, <2>2 DEF HttpInv, c
<1>8. CASE Ready80(o) /\ find_header_end(buf) # 0
  <2>1. /\ \E a \in Answer80(s.conn, buf) : replies' = Append(replies, a)
        /\ s80' = Close(s) /\ sent80' = TRUE /\ req_buf' = buf
    BY <1>8 DEF Http, Finish80, o, buf, s
  <2>2. PICK a \in Answer80(s.conn, buf) : replies' = Append(replies, a)
    BY <2>1
  <2>3. a \in Reply /\ a.conn = c
    BY <1>1, <1>4, <1>5, <1>8, AnswerType
  <2>4. ~Has(replies, c)
    BY <1>3, <1>8 DEF Ready80, may_recv
  <2>5. Once(replies, c) /\ replies \in Seq(Reply) /\ \A x \in Reply : x.conn \in Nat
    BY DEF HttpInv, Reply, c
  <2>6. replies' \in Seq(Reply) /\ Once(replies', c)
    BY <1>1, <2>2, <2>3, <2>4, <2>5, OnceMore
  <2>7. s80' \in Sockets(TokenOf(c))
    BY <1>4, <2>1, SocketSteps
  <2>8. s80'.conn = c /\ s80'.st # "Listen"
    BY <1>4, <2>1 DEF Close, Sockets
  <2> QED
    BY <1>5, <2>1, <2>6, <2>7, <2>8 DEF HttpInv
<1> QED
  BY <1>6, <1>7, <1>8

-----------------------------------------------------------------------------
(* Port 8081.                                                               *)

\* As on port 80, with the state of the upload for the buffer; an answered
\* connection can no longer send.
AdminInv ==
    /\ s81 \in Sockets(TokenOf(s81.conn))
    /\ admin_state \in AdminStates(TokenOf(s81.conn))
    /\ s81.st = "Listen" => s81.rx = << >> /\ admin_state.k = "Idle"
    /\ answers \in Seq(AdminAnswer) /\ Once(answers, s81.conn)
    /\ Has(answers, s81.conn) => ~may_send(s81)

\* The network keeps AdminInv.
LEMMA Poll81Inv ==
    ASSUME AdminInv, Poll81
    PROVE  AdminInv'
<1> DEFINE c == s81.conn
<1>1. s81 \in Sockets(TokenOf(c)) /\ c \in Nat
  BY DEF AdminInv, Sockets
<1>2. UNCHANGED << admin_state, answers >> /\ Network81
  BY DEF Poll81
<1>3. \A x \in AdminAnswer : x.conn \in Nat
  BY DEF AdminAnswer
<1>4. CASE /\ s81.st = "Listen" /\ s81.conn < MaxConn81
           /\ \E script \in AdminScripts :
                 s81' = Accept(s81, c + 1, AdminWire(c + 1, script))
  <2>1. PICK script \in AdminScripts :
              s81' = Accept(s81, c + 1, AdminWire(c + 1, script))
    BY <1>4
  <2>2. AdminWire(c + 1, script) \in Seq(TokenOf(c + 1)) /\ c + 1 \in Nat
    <3>1. script \in Seq(Upload) /\ c + 1 \in Nat
      BY <1>1, ServerConstants
    <3> QED
      BY <3>1, AdminWireType
  <2>3. s81' \in Sockets(TokenOf(c + 1)) /\ s81'.conn = c + 1 /\ s81'.st = "Established"
    BY <2>1, <2>2, AcceptStep
  <2>4. admin_state' \in AdminStates(TokenOf(c + 1))
    BY <1>2, <1>4 DEF AdminInv, AdminStates
  <2>5. Once(answers, c + 1) /\ ~Has(answers, c + 1)
    BY <1>1, <1>3, OnceNext DEF AdminInv
  <2>6. answers' \in Seq(AdminAnswer)
    BY <1>2 DEF AdminInv
  <2> QED
    BY <1>2, <2>3, <2>4, <2>5, <2>6 DEF AdminInv, Once, Has
<1>5. CASE \/ CanDeliver(s81) /\ \E k \in 1..Len(s81.out) : s81' = Deliver(s81, k)
           \/ CanFin(s81) /\ s81' \in AfterFin(s81)
           \/ CanAck(s81) /\ s81' = AfterAck(s81)
           \/ CanRst(s81) /\ s81' = AfterRst(s81)
  <2>1. /\ s81' \in Sockets(TokenOf(c)) /\ s81'.conn = c
        /\ s81.st # "Listen" /\ s81'.st # "Listen"
        /\ may_send(s81') => may_send(s81)
    BY <1>1, <1>5, NetworkSteps
  <2> QED
    BY <1>2, <2>1 DEF AdminInv, Once, Has
<1> QED
  BY <1>2, <1>4, <1>5 DEF Network81

\* The end of an upload: one answer, if it can still be sent, and the close.
LEMMA FinishInv ==
    ASSUME NEW c \in Nat, NEW s \in Sockets(TokenOf(c)), s.conn = c,
           answers \in Seq(AdminAnswer), Once(answers, c),
           Has(answers, c) => ~may_send(s),
           NEW code \in {200, 400, 413}, Finish81(s), SendAnswer(s, code)
    PROVE  AdminInv'
<1> DEFINE a == [conn |-> s.conn, code |-> code]
<1>1. s81' = Close(s) /\ admin_state' = [k |-> "Idle"]
  BY DEF Finish81
<1>2. s81' \in Sockets(TokenOf(c))
  BY <1>1, SocketSteps
<1>3. s81'.conn = c /\ s81'.st # "Listen" /\ ~may_send(s81')
  BY <1>1 DEF Close, Sockets, may_send
<1>4. admin_state' \in AdminStates(TokenOf(c))
  BY <1>1 DEF AdminStates
<1>5. a \in AdminAnswer /\ a.conn = c /\ \A x \in AdminAnswer : x.conn \in Nat
  BY DEF AdminAnswer
<1>6. answers' = IF may_send(s) THEN Append(answers, a) ELSE answers
  BY DEF SendAnswer
<1> HIDE DEF a
<1>7. answers' \in Seq(AdminAnswer) /\ Once(answers', c)
  <2>1. CASE may_send(s)
    BY <1>5, <1>6, <2>1, OnceMore
  <2>2. CASE ~may_send(s)
    BY <1>6, <2>2
  <2> QED
    BY <2>1, <2>2
<1> QED
  BY <1>2, <1>3, <1>4, <1>7 DEF AdminInv

\* The socket and the state the loop works on after reopening a closed port.
LEMMA ReopenedType ==
    ASSUME AdminInv
    PROVE  LET c == s81.conn
               o == Reopened81
           IN  /\ c \in Nat /\ o.s \in Sockets(TokenOf(c)) /\ o.s.conn = c
               /\ o.state \in AdminStates(TokenOf(c))
               /\ o.s.st = "Listen" => o.s.rx = << >> /\ o.state.k = "Idle"
               /\ Has(answers, c) => ~may_send(o.s)
<1> DEFINE c == s81.conn
<1>1. s81 \in Sockets(TokenOf(c)) /\ c \in Nat
  BY DEF AdminInv, Sockets
<1>2. /\ Listen(s81) \in Sockets(TokenOf(c)) /\ Listen(s81).conn = c
      /\ Listen(s81).st = "Listen" /\ Listen(s81).rx = << >>
  BY <1>1, SocketSteps DEF Listen, Sockets
<1>3. CASE is_open(s81)
  BY <1>1, <1>3 DEF AdminInv, Reopened81
<1>4. CASE ~is_open(s81)
  BY <1>1, <1>2, <1>4 DEF AdminInv, Reopened81, AdminStates, may_send
<1> QED
  BY <1>3, <1>4

\* The loop keeps AdminInv, and hands over nothing or a typed module.
LEMMA AdminStepInv ==
    ASSUME AdminInv, Admin
    PROVE  /\ AdminInv'
           /\ \/ UNCHANGED << pending_entry, disk, accepted >>
              \/ \E prefix \in Path, wasm \in Seq(Token) :
                    /\ Persist(prefix, wasm)
                    /\ pending_entry' = [prefix |-> prefix, wasm |-> wasm]
                    /\ accepted' = IF Loads(wasm) THEN Put(accepted, prefix, wasm[1].id)
                                   ELSE accepted
<1> DEFINE c == s81.conn
           o == Reopened81
           s == o.s
<1>1. /\ c \in Nat /\ s \in Sockets(TokenOf(c)) /\ s.conn = c
      /\ o.state \in AdminStates(TokenOf(c))
      /\ s.st = "Listen" => s.rx = << >> /\ o.state.k = "Idle"
      /\ Has(answers, c) => ~may_send(s)
  BY ReopenedType
<1>2. answers \in Seq(AdminAnswer) /\ Once(answers, c)
  BY DEF AdminInv
<1>3. RecvHeader \in Nat /\ RecvBody \in Nat
  BY ServerConstants
<1>4. \/ o.state.k = "Idle" /\ AdminIdle(s)
      \/ o.state.k = "Headers" /\ AdminHeaders(s, o.state.buf)
      \/ o.state.k = "Body" /\ AdminBody(s, o.state.prefix, o.state.buf, o.state.total)
  BY DEF Admin
<1> HIDE DEF c, o, s
<1>5. CASE o.state.k = "Idle" /\ AdminIdle(s)
  <2>1. s81' = s /\ UNCHANGED << pending_entry, disk, accepted, answers >>
    BY <1>5 DEF AdminIdle
  <2>2. admin_state' = IF may_recv(s) THEN [k |-> "Headers", buf |-> << >>]
                       ELSE [k |-> "Idle"]
    BY <1>5 DEF AdminIdle
  <2>3. admin_state' \in AdminStates(TokenOf(c))
    BY <2>2, EmptySeq DEF AdminStates
  <2>4. s81'.st = "Listen" => s81'.rx = << >> /\ admin_state'.k = "Idle"
    BY <1>1, <2>1, <2>2 DEF may_recv
  <2> QED
    BY <1>1, <1>2, <2>1, <2>3, <2>4 DEF AdminInv
<1>6. CASE o.state.k = "Headers" /\ AdminHeaders(s, o.state.buf)
  <2> DEFINE buf == o.state.buf \o Received(s, RecvHeader)
             rest == AfterRecv(s, RecvHeader)
             total == parse_content_length(buf)
             prefix == ParseRoutePrefix(parse_path(buf))
             body == parse_body(buf)
  <2>1. /\ rest \in Sockets(TokenOf(c)) /\ rest.conn = c /\ rest.st = s.st
        /\ Received(s, RecvHeader) \in Seq(TokenOf(c))
    BY <1>1, <1>3, RecvSteps
  <2>2. o.state.buf \in Seq(TokenOf(c))
    BY <1>1, <1>6 DEF AdminStates
  <2>3. buf \in Seq(TokenOf(c)) /\ buf \in Seq(Token)
    BY <2>1, <2>2, ConcatProperties, StreamTypes
  <2>4. body \in Seq(TokenOf(c))
    BY <2>3, BodyType
  <2>5. find_header_end(buf) # 0 => total \in Nat \cup {NoLength} /\ prefix \in Path
    BY <2>3, HeaderTypes
  <2>6. UNCHANGED << pending_entry, disk, accepted >>
    BY <1>6 DEF AdminHeaders
  <2>7. s.st # "Listen"
    BY <1>1, <1>6
  <2>8. \/ /\ admin_state' = [k |-> "Headers", buf |-> buf]
           /\ s81' = rest /\ UNCHANGED answers
        \/ /\ find_header_end(buf) # 0 /\ total # NoLength
           /\ admin_state' = [k |-> "Body", prefix |-> prefix, buf |-> body,
                              total |-> total]
           /\ s81' = rest /\ UNCHANGED answers
        \/ Finish81(rest) /\ SendAnswer(rest, 400)
    BY <1>6 DEF AdminHeaders
  <2> HIDE DEF buf, rest, total, prefix, body
  <2>9. Has(answers, c) => ~may_send(rest)
    BY <1>1, <2>1 DEF may_send
  <2>10. CASE /\ admin_state' = [k |-> "Headers", buf |-> buf]
              /\ s81' = rest /\ UNCHANGED answers
    <3>1. admin_state' \in AdminStates(TokenOf(c))
      BY <2>3, <2>10 DEF AdminStates
    <3>2. AdminInv'
      BY <1>2, <2>1, <2>7, <2>9, <2>10, <3>1 DEF AdminInv
    <3> QED
      BY <2>6, <3>2
  <2>11. CASE /\ find_header_end(buf) # 0 /\ total # NoLength
              /\ admin_state' = [k |-> "Body", prefix |-> prefix, buf |-> body,
                                 total |-> total]
              /\ s81' = rest /\ UNCHANGED answers
    <3>1. admin_state' \in AdminStates(TokenOf(c))
      BY <2>4, <2>5, <2>11 DEF AdminStates
    <3>2. AdminInv'
      BY <1>2, <2>1, <2>7, <2>9, <2>11, <3>1 DEF AdminInv
    <3> QED
      BY <2>6, <3>2
  <2>12. CASE Finish81(rest) /\ SendAnswer(rest, 400)
    <3>1. AdminInv'
      BY <1>1, <1>2, <2>1, <2>9, <2>12, FinishInv
    <3> QED
      BY <2>6, <3>1
  <2> QED
    BY <2>8, <2>10, <2>11, <2>12
<1>7. CASE /\ o.state.k = "Body"
           /\ AdminBody(s, o.state.prefix, o.state.buf, o.state.total)
  <2> DEFINE prefix == o.state.prefix
             total == o.state.total
             buf == o.state.buf \o Received(s, RecvBody)
             rest == AfterRecv(s, RecvBody)
             wasm == SubSeq(buf, 1, total)
  <2>1. /\ rest \in Sockets(TokenOf(c)) /\ rest.conn = c /\ rest.st = s.st
        /\ Received(s, RecvBody) \in Seq(TokenOf(c))
    BY <1>1, <1>3, RecvSteps
  <2>2. o.state.buf \in Seq(TokenOf(c)) /\ prefix \in Path /\ total \in Nat
    BY <1>1, <1>7 DEF AdminStates
  <2>3. buf \in Seq(TokenOf(c)) /\ buf \in Seq(Token) /\ Len(buf) \in Nat
    BY <2>1, <2>2, ConcatProperties, StreamTypes, LenProperties
  <2>4. s.st # "Listen"
    BY <1>1, <1>7
  <2>5. Has(answers, c) => ~may_send(rest)
    BY <1>1, <2>1 DEF may_send
  <2>6. CASE Len(buf) < total
    <3>1. /\ admin_state' = [k |-> "Body", prefix |-> prefix, buf |-> buf,
                             total |-> total]
          /\ s81' = rest /\ UNCHANGED << pending_entry, disk, accepted, answers >>
      BY <1>7, <2>6 DEF AdminBody
    <3> HIDE DEF buf, rest, wasm, prefix, total
    <3>2. admin_state' \in AdminStates(TokenOf(c))
      BY <2>2, <2>3, <3>1 DEF AdminStates
    <3>3. AdminInv'
      BY <1>2, <2>1, <2>4, <2>5, <3>1, <3>2 DEF AdminInv
    <3> QED
      BY <3>1, <3>3
  <2>7. CASE ~(Len(buf) < total)
    <3>1. wasm \in Seq(Token)
      BY <2>2, <2>3, <2>7, Part
    <3>2. /\ Finish81(rest)
          /\ \/ /\ SendAnswer(rest, 413)
                /\ UNCHANGED << pending_entry, disk, accepted >>
             \/ /\ Persist(prefix, wasm)
                /\ pending_entry' = [prefix |-> prefix, wasm |-> wasm]
                /\ SendAnswer(rest, 200)
                /\ accepted' = IF Loads(wasm) THEN Put(accepted, prefix, wasm[1].id)
                               ELSE accepted
      BY <1>7, <2>7 DEF AdminBody
    <3> HIDE DEF buf, rest, wasm, prefix, total
    <3>3. AdminInv'
      BY <1>1, <1>2, <2>1, <2>5, <3>2, FinishInv
    <3> QED
      BY <2>2, <3>1, <3>2, <3>3
  <2> QED
    BY <2>6, <2>7
<1> QED
  BY <1>4, <1>5, <1>6, <1>7

-----------------------------------------------------------------------------
(* The fetch.                                                               *)

\* A fetch has a socket exactly while it is under way, its counters are within
\* the limits, and what it has received leaves room for more.
FeedInv ==
    /\ now \in 0..MaxTime /\ fetch_state \in FetchStates
    /\ feed_sock \in Sockets(FeedToken) \cup {None}
    /\ pending_feed \in Seq(FeedToken)
    /\ FeedSocketOwned
    /\ fetch_state.k = "Receiving" => Len(fetch_state.buf) < FeedMax

\* The network, the clock and the distribution of a feed keep FeedInv.
LEMMA PollFeedInv ==
    ASSUME FeedInv, PollFeed
    PROVE  FeedInv'
<1>1. feed_sock # None /\ feed_sock \in Sockets(FeedToken)
  BY DEF PollFeed, NetworkFeed, FeedInv
<1>2. UNCHANGED << fetch_state, now, pending_feed >>
  BY DEF PollFeed
<1>3. feed_sock' \in Sockets(FeedToken)
  <2>1. CASE feed_sock' = [feed_sock EXCEPT !.st = "Established"]
    <3>1. "Established" \in SocketStates
      BY DEF SocketStates
    <3> QED
      BY <1>1, <2>1, <3>1, SocketState
  <2>2. CASE \/ /\ CanDeliver(feed_sock)
                /\ \E k \in 1..Len(feed_sock.out) : feed_sock' = Deliver(feed_sock, k)
             \/ CanFin(feed_sock) /\ feed_sock' \in AfterFin(feed_sock)
             \/ CanRst(feed_sock) /\ feed_sock' = AfterRst(feed_sock)
    BY <1>1, <2>2, NetworkSteps
  <2> QED
    BY <2>1, <2>2 DEF PollFeed, NetworkFeed
<1>4. feed_sock' # None
  BY <1>3, ServerConstants
<1> QED
  BY <1>1, <1>2, <1>3, <1>4 DEF FeedInv, FeedSocketOwned

\* The three states of the fetch keep FeedInv.
LEMMA FetchInv ==
    ASSUME FeedInv, Fetch
    PROVE  FeedInv'
<1>1. /\ now \in Nat /\ now' = now /\ FeedInterval \in Nat /\ FeedMax \in Nat /\ FeedMax > 0
      /\ IdleLimit \in Nat /\ StaleLimit \in Nat /\ FeedAnswers \subseteq Nat /\ MaxTime \in Nat
  BY ServerConstants DEF Fetch, FeedInv
<1>2. Rest \in FetchStates /\ Rest.k = "Idle"
  BY <1>1 DEF Rest, FetchStates
<1>3. FetchIdle \/ FetchConnecting \/ FetchReceiving
  BY DEF Fetch
<1>4. \A t \in Sockets(FeedToken) : t # None
  BY ServerConstants
<1>5. CASE FetchIdle
  <2>1. UNCHANGED pending_feed /\ fetch_state.k = "Idle"
    BY <1>5 DEF FetchIdle
  <2>2. CASE UNCHANGED << fetch_state, feed_sock >>
    BY <1>1, <2>1, <2>2 DEF FeedInv, FeedSocketOwned
  <2>3. CASE fetch_state' = Rest /\ UNCHANGED feed_sock
    BY <1>1, <1>2, <2>1, <2>3 DEF FeedInv, FeedSocketOwned
  <2>4. CASE \E n \in FeedAnswers :
                /\ feed_sock' = Connect(now, FeedWire(now, n))
                /\ fetch_state' = [k |-> "Connecting", idle |-> 0]
    <3>1. PICK n \in FeedAnswers :
                /\ feed_sock' = Connect(now, FeedWire(now, n))
                /\ fetch_state' = [k |-> "Connecting", idle |-> 0]
      BY <2>4
    <3>2. FeedWire(now, n) \in Seq(FeedToken) /\ << >> \in Seq(FeedToken)
      BY <1>1, FeedWireType, EmptySeq
    <3>3. feed_sock' \in Sockets(FeedToken)
      BY <1>1, <3>1, <3>2 DEF Connect, Sockets, SocketStates
    <3>4. fetch_state' \in FetchStates /\ fetch_state'.k = "Connecting"
      BY <1>1, <3>1 DEF FetchStates
    <3> QED
      BY <1>1, <1>4, <2>1, <3>3, <3>4 DEF FeedInv, FeedSocketOwned
  <2> QED
    BY <1>5, <2>2, <2>3, <2>4 DEF FetchIdle
<1>6. CASE FetchConnecting
  <2>1. UNCHANGED pending_feed /\ fetch_state.k = "Connecting" /\ feed_sock # None
    BY <1>6 DEF FetchConnecting, FeedInv, FeedSocketOwned
  <2>2. fetch_state = [k |-> "Connecting", idle |-> fetch_state.idle]
        /\ fetch_state.idle \in Nat
    BY <1>1, <2>1 DEF FeedInv, FetchStates
  <2>3. CASE /\ fetch_state' = [k |-> "Receiving", buf |-> << >>, stale |-> 0]
             /\ UNCHANGED feed_sock
    <3>1. fetch_state' \in FetchStates /\ fetch_state'.k = "Receiving"
      BY <1>1, <2>3, EmptySeq DEF FetchStates
    <3>2. Len(fetch_state'.buf) < FeedMax
      BY <1>1, <2>3, EmptySeq
    <3> QED
      BY <1>1, <2>1, <2>3, <3>1, <3>2 DEF FeedInv, FeedSocketOwned
  <2>4. CASE EndFetch
    BY <1>1, <1>2, <2>1, <2>4 DEF EndFetch, FeedInv, FeedSocketOwned
  <2>5. CASE /\ ~GiveUp(feed_sock, fetch_state.idle) /\ UNCHANGED feed_sock
             /\ fetch_state' = [fetch_state EXCEPT !.idle = Waited(@)]
    <3>1. fetch_state' = [k |-> "Connecting", idle |-> fetch_state.idle + 1]
      BY <2>2, <2>5 DEF Waited
    <3>2. fetch_state.idle + 1 \in 0..IdleLimit + 1
      BY <1>1, <2>2, <2>5 DEF GiveUp
    <3>3. fetch_state' \in FetchStates /\ fetch_state'.k = "Connecting"
      BY <3>1, <3>2 DEF FetchStates
    <3> QED
      BY <1>1, <2>1, <2>5, <3>3 DEF FeedInv, FeedSocketOwned
  <2> QED
    BY <1>6, <2>3, <2>4, <2>5 DEF FetchConnecting
<1>7. CASE FetchReceiving
  <2> DEFINE old == fetch_state.buf
             room == WholeReads(FeedMax - Len(old))
             buf == old \o Received(feed_sock, room)
             sock == AfterRecv(feed_sock, room)
             stale == IF Len(buf) > Len(old) THEN 0 ELSE fetch_state.stale + 1
             body == parse_body(buf)
  <2>1. /\ fetch_state.k = "Receiving" /\ feed_sock \in Sockets(FeedToken)
        /\ feed_sock # None
    BY <1>7 DEF FetchReceiving, FeedInv, FeedSocketOwned
  <2>2. old \in Seq(FeedToken) /\ fetch_state.stale \in Nat
    BY <1>1, <2>1 DEF FeedInv, FetchStates
  <2>3. room \in Nat
    <3>1. PICK n \in Nat : n = FeedMax - Len(old)
      <4>1. Len(old) \in Nat /\ Len(old) < FeedMax
        BY <2>1, <2>2, LenProperties DEF FeedInv
      <4> HIDE DEF old
      <4>2. FeedMax - Len(old) \in Nat
        BY <1>1, <4>1
      <4> QED
        BY <4>2, Zenon
    <3>2. FeedRead \in Nat /\ FeedRead > 0
      BY ServerConstants
    <3>3. PICK m \in Nat : m = (n + FeedRead - 1) \div FeedRead
      BY <3>2
    <3>4. FeedRead * m \in Nat
      BY <3>2
    <3> QED
      BY <3>1, <3>3, <3>4 DEF WholeReads
  <2>4. Received(feed_sock, room) \in Seq(FeedToken) /\ sock \in Sockets(FeedToken)
    BY <2>1, <2>3, RecvSteps
  <2>5. buf \in Seq(FeedToken) /\ Len(buf) \in Nat
    BY <2>2, <2>4, ConcatProperties, LenProperties
  <2>6. body \in Seq(FeedToken)
    BY <2>5, BodyType
  <2>7. stale \in Nat
    <3> HIDE DEF buf, old
    <3> QED
      BY <2>2
  <2>8. \/ EndFetch /\ (pending_feed' = body \/ UNCHANGED pending_feed)
        \/ /\ ~FetchDone(sock, stale, buf)
           /\ fetch_state' = [k |-> "Receiving", buf |-> buf, stale |-> stale]
           /\ feed_sock' = sock /\ UNCHANGED pending_feed
    BY <1>7 DEF FetchReceiving
  <2> HIDE DEF old, room, buf, sock, stale, body
  <2>9. CASE EndFetch /\ (pending_feed' = body \/ UNCHANGED pending_feed)
    BY <1>1, <1>2, <2>6, <2>9 DEF EndFetch, FeedInv, FeedSocketOwned
  <2>10. CASE /\ ~FetchDone(sock, stale, buf)
              /\ fetch_state' = [k |-> "Receiving", buf |-> buf, stale |-> stale]
              /\ feed_sock' = sock /\ UNCHANGED pending_feed
    <3>1. stale \in 0..StaleLimit /\ Len(buf) < FeedMax
      BY <1>1, <2>5, <2>7, <2>10 DEF FetchDone
    <3>2. fetch_state' \in FetchStates /\ fetch_state'.k = "Receiving"
      BY <2>5, <2>10, <3>1 DEF FetchStates
    <3>3. Len(fetch_state'.buf) < FeedMax
      BY <2>10, <3>1
    <3> QED
      BY <1>1, <1>4, <2>4, <2>10, <3>2, <3>3 DEF FeedInv, FeedSocketOwned
  <2> QED
    BY <2>8, <2>9, <2>10
<1> QED
  BY <1>3, <1>5, <1>6, <1>7

-----------------------------------------------------------------------------
(* Deployment.                                                              *)

\* The uploaded module that waits is the one last accepted for its route, and
\* every route in service has been accepted once.
DeployInv ==
    /\ pc \in Steps /\ router \in Seq(Route) /\ pending_entry \in Entry \cup {None}
    /\ last_feed \in Seq(FeedToken)
    /\ DOMAIN accepted \subseteq Path /\ accepted \in [DOMAIN accepted -> ModuleId]
    /\ NoDeployLost /\ FeedCoherent
    /\ pending_entry # None /\ Loads(pending_entry.wasm) =>
          /\ pending_entry.prefix \in DOMAIN accepted
          /\ pending_entry.wasm[1].id = accepted[pending_entry.prefix]
    /\ \A i \in DOMAIN router : router[i].prefix \in DOMAIN accepted

\* A module that loads has an id.
LEMMA LoadedId ==
    ASSUME NEW wasm \in Seq(Token), Loads(wasm)
    PROVE  wasm[1].id \in ModuleId
<1>1. Len(wasm) \in Nat /\ DOMAIN wasm = 1..Len(wasm) /\ Len(wasm) # 0
  BY LenProperties, EmptySeq DEF Loads
<1>2. wasm[1] \in Token /\ wasm[1].k = "wasm"
  BY <1>1, ElementOfSeq DEF Loads
<1> QED
  BY <1>2 DEF Token

\* insert puts the application under its prefix and leaves the other routes
\* alone; every prefix keeps a single entry.
LEMMA InsertRoute ==
    ASSUME router \in Seq(Route), NEW prefix \in Path, NEW app \in App,
           \A i, j \in DOMAIN router : router[i].prefix = router[j].prefix => i = j
    PROVE  LET new == Insert(router, prefix, app)
           IN  /\ new \in Seq(Route)
               /\ \A i, j \in DOMAIN new : new[i].prefix = new[j].prefix => i = j
               /\ \E i \in DOMAIN new : new[i].prefix = prefix /\ new[i].app = app
               /\ \A i \in DOMAIN router :
                     router[i].prefix # prefix => i \in DOMAIN new /\ new[i] = router[i]
               /\ \A i \in DOMAIN new :
                     \/ new[i].prefix = prefix /\ new[i].app = app
                     \/ i \in DOMAIN router /\ new[i] = router[i]
<1> DEFINE Hits == {i \in DOMAIN router : router[i].prefix = prefix}
           e == [prefix |-> prefix, app |-> app]
           n == Len(router)
           new == Insert(router, prefix, app)
<1>1. n \in Nat /\ DOMAIN router = 1..n /\ router \in [1..n -> Route]
  BY LenProperties
<1>2. e \in Route /\ e.prefix = prefix /\ e.app = app
  BY DEF Route
<1> HIDE DEF e
<1>3. CASE Hits = {}
  <2>1. new = Append(router, e)
    BY <1>3 DEF Insert, e
  <2>2. /\ new \in Seq(Route) /\ DOMAIN new = 1..(n + 1)
        /\ \A i \in 1..n : new[i] = router[i]
        /\ new[n + 1] = e
    BY <1>1, <1>2, <2>1, AppendProperties, LenProperties
  <2> HIDE DEF new, n
  <2>3. \A i \in 1..(n + 1) : i \in 1..n \/ i = n + 1
    BY <1>1
  <2>4. n + 1 \in DOMAIN new /\ new[n + 1].prefix = prefix /\ new[n + 1].app = app
    BY <1>1, <1>2, <2>2
  <2>5. \A i \in 1..n : new[i].prefix # prefix
    BY <1>1, <1>3, <2>2
  <2>6. ASSUME NEW i \in DOMAIN new, NEW j \in DOMAIN new, new[i].prefix = new[j].prefix
        PROVE  i = j
    BY <1>1, <2>2, <2>3, <2>4, <2>5, <2>6
  <2>7. \A i \in DOMAIN router : i \in DOMAIN new /\ new[i] = router[i]
    BY <1>1, <2>2
  <2>8. \A i \in DOMAIN new : i = n + 1 \/ i \in DOMAIN router
    BY <1>1, <2>2, <2>3
  <2> QED
    BY <2>2, <2>4, <2>6, <2>7, <2>8 DEF new
<1>4. CASE Hits # {}
  <2>1. \E h \in Hits : \A g \in Hits : h <= g
    <3>1. Hits \subseteq Nat
      BY <1>1
    <3> HIDE DEF Hits
    <3> QED
      BY <1>4, <3>1, LeastNatural
  <2> DEFINE k == CHOOSE h \in Hits : \A g \in Hits : h <= g
  <2>2. k \in Hits
    BY <2>1
  <2>3. new = [router EXCEPT ![k].app = app]
    BY <1>4 DEF Insert
  <2> HIDE DEF k, new, n
  <2>4. k \in 1..n /\ router[k].prefix = prefix /\ router[k] \in Route
    BY <1>1, <2>2
  <2>5. [router[k] EXCEPT !.app = app] = e
    BY <2>4 DEF e, Route
  <2>6. new = [router EXCEPT ![k] = e]
    BY <2>3, <2>5
  <2>7. /\ DOMAIN new = 1..n /\ new[k] = e
        /\ \A i \in 1..n : i # k => new[i] = router[i]
    BY <1>1, <2>4, <2>6
  <2>8. new \in Seq(Route)
    BY <1>1, <1>2, <2>4, <2>6, ExceptSeq DEF n
  <2>9. \A i \in 1..n : new[i].prefix = router[i].prefix
    BY <1>2, <2>4, <2>7
  <2>10. \A i, j \in DOMAIN new : new[i].prefix = new[j].prefix => i = j
    BY <1>1, <2>7, <2>9
  <2>11. \A i \in DOMAIN router :
            router[i].prefix # prefix => i \in DOMAIN new /\ new[i] = router[i]
    BY <1>1, <2>4, <2>7
  <2>12. \A i \in DOMAIN new :
            \/ new[i].prefix = prefix /\ new[i].app = app
            \/ i \in DOMAIN router /\ new[i] = router[i]
    BY <1>1, <1>2, <2>7
  <2>13. k \in DOMAIN new /\ new[k].prefix = prefix /\ new[k].app = app
    BY <1>2, <2>4, <2>7
  <2> QED
    BY <2>8, <2>10, <2>11, <2>12, <2>13 DEF new
<1> QED
  BY <1>3, <1>4

\* A new feed reaches every application.
LEMMA DistributeInv ==
    ASSUME DeployInv, pending_feed \in Seq(FeedToken), DistributeFeed
    PROVE  DeployInv'
<1> DEFINE n == Len(router)
           app(i) == [id |-> router[i].app.id, feed |-> pending_feed]
           route(i) == [prefix |-> router[i].prefix, app |-> app(i)]
<1>1. /\ pc' = "swap" /\ pc = "feed" /\ UNCHANGED << pending_entry, accepted >>
  BY DEF DistributeFeed, admin
<1>2. n \in Nat /\ DOMAIN router = 1..n /\ \A i \in 1..n : router[i] \in Route
  BY LenProperties, ElementOfSeq DEF DeployInv
<1> HIDE DEF n
<1>3. CASE pending_feed = NoFeed
  <2>1. UNCHANGED << router, last_feed >>
    BY <1>3 DEF DistributeFeed
  <2> QED
    BY <1>1, <2>1 DEF DeployInv, NoDeployLost, FeedCoherent, Installs, Steps
<1>4. CASE pending_feed # NoFeed
  <2>1. /\ last_feed' = pending_feed
        /\ router' = [i \in DOMAIN router |->
                         [router[i] EXCEPT !.app.feed = pending_feed]]
    BY <1>4 DEF DistributeFeed
  <2>2. \A i \in 1..n : [router[i] EXCEPT !.app.feed = pending_feed] = route(i)
    BY <1>2 DEF Route, App
  <2>3. \A i \in 1..n : route(i) \in Route
    BY <1>2 DEF Route, App
  <2>4. DOMAIN router' = 1..n /\ \A i \in 1..n : router'[i] = route(i)
    BY <1>2, <2>1, <2>2
  <2>5. router' \in Seq(Route)
    <3>1. router' = [i \in 1..n |-> route(i)]
      BY <1>2, <2>1, <2>2
    <3> HIDE DEF route
    <3> QED
      BY <1>2, <2>3, <3>1
  <2>6. \A i \in 1..n : /\ router'[i].prefix = router[i].prefix
                        /\ router'[i].app.id = router[i].app.id
                        /\ router'[i].app.feed = pending_feed
    BY <2>4
  <2> HIDE DEF route, app
  <2>7. \A p \in DOMAIN accepted :
           \/ \E i \in DOMAIN router' : Installs(i, p)'
           \/ /\ pending_entry # None
              /\ pending_entry.prefix = p /\ Loads(pending_entry.wasm)
              /\ pending_entry.wasm[1].id = accepted[p]
    <3> TAKE p \in DOMAIN accepted
    <3>1. CASE \E i \in DOMAIN router : Installs(i, p)
      <4>1. PICK i \in 1..n : Installs(i, p)
        BY <1>2, <3>1
      <4>2. Installs(i, p)'
        BY <1>1, <2>6, <4>1 DEF Installs
      <4> QED
        BY <2>4, <4>2
    <3> QED
      BY <3>1 DEF DeployInv, NoDeployLost
  <2>8. \A i, j \in DOMAIN router' : router'[i].prefix = router'[j].prefix => i = j
    BY <1>2, <2>4, <2>6 DEF DeployInv, NoDeployLost
  <2>9. NoDeployLost'
    BY <1>1, <2>7, <2>8 DEF NoDeployLost
  <2>10. FeedCoherent'
    BY <2>1, <2>4, <2>6 DEF FeedCoherent
  <2>11. \A i \in DOMAIN router' : router'[i].prefix \in DOMAIN accepted
    BY <1>2, <2>4, <2>6 DEF DeployInv
  <2>12. pc' \in Steps
    BY <1>1 DEF Steps
  <2> QED
    BY <1>1, <2>1, <2>5, <2>9, <2>10, <2>11, <2>12 DEF DeployInv
<1> QED
  BY <1>3, <1>4

\* The waiting module takes over its route.
LEMMA ApplyInv ==
    ASSUME DeployInv, ApplyPending
    PROVE  DeployInv'
<1>1. /\ pc' \in Steps /\ pending_entry' = None /\ UNCHANGED << accepted, last_feed >>
  BY DEF ApplyPending, Steps, admin
<1>2. CASE pending_entry # None /\ Loads(pending_entry.wasm)
  <2> DEFINE q == pending_entry.prefix
             id == pending_entry.wasm[1].id
             new == Insert(router, q, NewApp(id))
  <2>1. router' = new
    BY <1>2 DEF ApplyPending
  <2>2. q \in Path /\ id \in ModuleId /\ q \in DOMAIN accepted /\ id = accepted[q]
    BY <1>2, LoadedId DEF DeployInv, Entry
  <2> HIDE DEF q, id
  <2>3. NewApp(id) \in App /\ NewApp(id).id = id /\ NewApp(id).feed = last_feed
    BY <2>2 DEF NewApp, App, DeployInv
  <2>4. /\ new \in Seq(Route)
        /\ \A i, j \in DOMAIN new : new[i].prefix = new[j].prefix => i = j
        /\ \E i \in DOMAIN new : new[i].prefix = q /\ new[i].app = NewApp(id)
        /\ \A i \in DOMAIN router :
              router[i].prefix # q => i \in DOMAIN new /\ new[i] = router[i]
        /\ \A i \in DOMAIN new :
              \/ new[i].prefix = q /\ new[i].app = NewApp(id)
              \/ i \in DOMAIN router /\ new[i] = router[i]
    BY <2>2, <2>3, InsertRoute DEF DeployInv, NoDeployLost
  <2> HIDE DEF new
  <2>5. \A p \in DOMAIN accepted : \E i \in DOMAIN new : Installs(i, p)'
    <3> TAKE p \in DOMAIN accepted
    <3>1. CASE p = q
      <4>1. PICK i \in DOMAIN new : new[i].prefix = q /\ new[i].app = NewApp(id)
        BY <2>4
      <4>2. Installs(i, p)'
        BY <1>1, <2>1, <2>2, <2>3, <3>1, <4>1 DEF Installs
      <4> QED
        BY <4>2
    <3>2. CASE p # q
      <4>1. PICK i \in DOMAIN router : Installs(i, p)
        BY <3>2 DEF DeployInv, NoDeployLost, q
      <4>2. i \in DOMAIN new /\ new[i] = router[i]
        BY <2>4, <3>2, <4>1 DEF Installs
      <4>3. Installs(i, p)'
        BY <1>1, <2>1, <4>1, <4>2 DEF Installs
      <4> QED
        BY <4>2, <4>3
    <3> QED
      BY <3>1, <3>2
  <2>6. NoDeployLost'
    BY <1>1, <2>1, <2>4, <2>5 DEF NoDeployLost
  <2>7. FeedCoherent'
    BY <1>1, <2>1, <2>3, <2>4 DEF FeedCoherent, DeployInv
  <2>8. \A i \in DOMAIN router' : router'[i].prefix \in DOMAIN accepted
    BY <2>1, <2>2, <2>4 DEF DeployInv
  <2> QED
    BY <1>1, <2>1, <2>4, <2>6, <2>7, <2>8 DEF DeployInv
<1>3. CASE ~(pending_entry # None /\ Loads(pending_entry.wasm))
  <2>1. UNCHANGED router
    BY <1>3 DEF ApplyPending
  <2>2. \A p \in DOMAIN accepted : \E i \in DOMAIN router : Installs(i, p)
    BY <1>3 DEF DeployInv, NoDeployLost
  <2>3. NoDeployLost'
    BY <1>1, <2>1, <2>2 DEF DeployInv, NoDeployLost, Installs
  <2> QED
    BY <1>1, <2>1, <2>3 DEF DeployInv, FeedCoherent
<1> QED
  BY <1>2, <1>3

\* A new module waits, and no other can have been waiting.
LEMMA HandOverInv ==
    ASSUME DeployInv, AdminInv, Admin
    PROVE  DeployInv'
<1>1. /\ pc = "admin" /\ pc' = "feed" /\ UNCHANGED << router, last_feed >>
  BY DEF Admin
<1>2. /\ pending_entry = None
      /\ \A p \in DOMAIN accepted : \E i \in DOMAIN router : Installs(i, p)
  BY <1>1 DEF DeployInv, NoDeployLost
<1>3. CASE UNCHANGED << pending_entry, disk, accepted >>
  <2>1. NoDeployLost' /\ FeedCoherent'
    BY <1>1, <1>2, <1>3 DEF DeployInv, NoDeployLost, Installs, FeedCoherent
  <2> QED
    BY <1>1, <1>3, <2>1 DEF DeployInv, Steps
<1>4. CASE \E prefix \in Path, wasm \in Seq(Token) :
              /\ Persist(prefix, wasm)
              /\ pending_entry' = [prefix |-> prefix, wasm |-> wasm]
              /\ accepted' = IF Loads(wasm) THEN Put(accepted, prefix, wasm[1].id)
                             ELSE accepted
  <2>1. PICK prefix \in Path, wasm \in Seq(Token) :
              /\ pending_entry' = [prefix |-> prefix, wasm |-> wasm]
              /\ accepted' = IF Loads(wasm) THEN Put(accepted, prefix, wasm[1].id)
                             ELSE accepted
    BY <1>4
  <2>2. /\ pending_entry' \in Entry /\ pending_entry' # None
        /\ pending_entry'.prefix = prefix /\ pending_entry'.wasm = wasm
    BY <2>1, ServerConstants DEF Entry
  <2>3. CASE ~Loads(wasm)
    <3>1. accepted' = accepted
      BY <2>1, <2>3
    <3>2. NoDeployLost' /\ FeedCoherent'
      BY <1>1, <1>2, <3>1 DEF DeployInv, NoDeployLost, Installs, FeedCoherent
    <3> QED
      BY <1>1, <2>2, <2>3, <3>1, <3>2 DEF DeployInv, Steps
  <2>4. CASE Loads(wasm)
    <3> DEFINE id == wasm[1].id
    <3>1. id \in ModuleId
      BY <2>4, LoadedId
    <3>2. accepted' = Put(accepted, prefix, id)
      BY <2>1, <2>4
    <3> HIDE DEF id
    <3>3. /\ DOMAIN accepted' = DOMAIN accepted \cup {prefix}
          /\ accepted'[prefix] = id
          /\ \A p \in DOMAIN accepted : p # prefix => accepted'[p] = accepted[p]
      BY <3>2 DEF Put
    <3>4. DOMAIN accepted' \subseteq Path /\ accepted' \in [DOMAIN accepted' -> ModuleId]
      BY <3>1, <3>2 DEF Put, DeployInv
    <3>5. ASSUME NEW p \in DOMAIN accepted', p # prefix
          PROVE  \E i \in DOMAIN router' : Installs(i, p)'
      BY <1>1, <1>2, <3>3, <3>5 DEF Installs
    <3>6. NoDeployLost'
      BY <1>1, <2>2, <2>4, <3>3, <3>5 DEF NoDeployLost, DeployInv, id
    <3>7. FeedCoherent'
      BY <1>1 DEF FeedCoherent, DeployInv
    <3>8. \A i \in DOMAIN router' : router'[i].prefix \in DOMAIN accepted'
      BY <1>1, <3>3 DEF DeployInv
    <3> QED
      BY <1>1, <2>2, <3>3, <3>4, <3>6, <3>7, <3>8 DEF DeployInv, Steps, id
  <2> QED
    BY <2>3, <2>4
<1> QED
  BY <1>3, <1>4, AdminStepInv

-----------------------------------------------------------------------------
(* The disk.                                                                *)

\* An upload replaces the file of its route and of the routes that share it.
LEMMA PersistInv ==
    ASSUME DeployedModulePersisted, AdminInv, Admin
    PROVE  DeployedModulePersisted'
<1>1. CASE UNCHANGED << pending_entry, disk, accepted >>
  BY <1>1 DEF DeployedModulePersisted, SharesFile
<1>2. CASE \E prefix \in Path, wasm \in Seq(Token) :
              /\ Persist(prefix, wasm)
              /\ pending_entry' = [prefix |-> prefix, wasm |-> wasm]
              /\ accepted' = IF Loads(wasm) THEN Put(accepted, prefix, wasm[1].id)
                             ELSE accepted
  <2>1. PICK prefix \in Path, wasm \in Seq(Token) :
              /\ Persist(prefix, wasm)
              /\ accepted' = IF Loads(wasm) THEN Put(accepted, prefix, wasm[1].id)
                             ELSE accepted
    BY <1>2
  <2> SUFFICES ASSUME NEW p \in DOMAIN accepted', accepted'[p] # BootId, StoreOutcomes # {}
               PROVE  /\ StoreKey(p) \in DOMAIN disk'
                      /\ LET file == disk'[StoreKey(p)]
                         IN  file = None \/ ~Loads(file) \/ SharesFile(p)'
                                 \/ file[1].id = accepted'[p]
    BY DEF DeployedModulePersisted
  <2> DEFINE key == StoreKey(prefix)
  <2>2. PICK v \in {wasm, None} : disk' = Put(disk, key, v)
    BY <2>1 DEF Persist
  <2>3. /\ DOMAIN disk' = DOMAIN disk \cup {key} /\ disk'[key] = v
        /\ \A k \in DOMAIN disk : k # key => disk'[k] = disk[k]
    BY <2>2 DEF Put
  <2>4. /\ Loads(wasm) => /\ DOMAIN accepted' = DOMAIN accepted \cup {prefix}
                          /\ accepted'[prefix] = wasm[1].id
                          /\ \A x \in DOMAIN accepted : x # prefix => accepted'[x] = accepted[x]
        /\ ~Loads(wasm) => accepted' = accepted
    BY <2>1 DEF Put
  <2> HIDE DEF key
  <2>5. CASE StoreKey(p) = key /\ (v = None \/ ~Loads(wasm))
    BY <2>3, <2>5
  <2>6. CASE StoreKey(p) = key /\ v # None /\ Loads(wasm)
    <3>1. CASE p = prefix
      BY <2>2, <2>3, <2>4, <2>6, <3>1
    <3>2. CASE p # prefix
      <4>1. SharesFile(p)'
        BY <2>4, <2>6, <3>2 DEF SharesFile, key
      <4> QED
        BY <2>3, <2>6, <4>1
    <3> QED
      BY <3>1, <3>2
  <2>7. CASE StoreKey(p) # key
    <3>1. p # prefix /\ p \in DOMAIN accepted /\ accepted'[p] = accepted[p]
      BY <2>4, <2>7 DEF key
    <3>2. /\ StoreKey(p) \in DOMAIN disk
          /\ LET file == disk[StoreKey(p)]
             IN  file = None \/ ~Loads(file) \/ SharesFile(p) \/ file[1].id = accepted[p]
      BY <3>1 DEF DeployedModulePersisted
    <3>3. StoreKey(p) \in DOMAIN disk' /\ disk'[StoreKey(p)] = disk[StoreKey(p)]
      BY <2>3, <2>7, <3>2
    <3>4. SharesFile(p) => SharesFile(p)'
      BY <2>4 DEF SharesFile
    <3> QED
      BY <3>1, <3>2, <3>3, <3>4
  <2> QED
    BY <2>5, <2>6, <2>7
<1> QED
  BY <1>1, <1>2, AdminStepInv

-----------------------------------------------------------------------------
(* The invariant.                                                           *)

ServerInv ==
    HttpInv /\ AdminInv /\ FeedInv /\ DeployInv /\ DeployedModulePersisted

\* The state before the first iteration.
LEMMA InitInv == Init => ServerInv
<1> SUFFICES ASSUME Init PROVE ServerInv
  OBVIOUS
<1> USE DEF Init
<1>1. \A T : << >> \in Seq(T) /\ Len(<< >>) = 0 /\ DOMAIN << >> = {}
  BY EmptySeq, LenProperties
<1>2. \A T : NewSocket \in Sockets(T)
  BY <1>1 DEF NewSocket, Sockets, SocketStates
<1>3. \A history : history = << >> => \A c : Once(history, c) /\ ~Has(history, c)
  BY DEF Once, Has
<1>4. HttpInv
  BY <1>1, <1>2, <1>3 DEF HttpInv, NewSocket
<1>5. AdminInv
  BY <1>1, <1>2, <1>3 DEF AdminInv, AdminStates, NewSocket
<1>6. FeedInv
  BY <1>1, ServerConstants DEF FeedInv, FeedSocketOwned, FetchStates, NoFeed
<1>7. DeployInv
  <2> DEFINE n == Len(BootRoutes)
  <2>1. n \in Nat /\ DOMAIN BootRoutes = 1..n /\ \A i \in 1..n : BootRoutes[i] \in Path
    BY ServerConstants, LenProperties, ElementOfSeq
  <2> HIDE DEF n
  <2>2. BootId \in ModuleId /\ NoFeed \in Seq(FeedToken)
    BY <1>1 DEF BootId, ModuleId, NoFeed
  <2>3. \A i \in 1..n : Fresh(BootRoutes[i]) \in Route
    BY <2>1, <2>2 DEF Fresh, Route, App
  <2>4. router \in Seq(Route) /\ DOMAIN router = 1..n
    <3>1. router = [i \in 1..n |-> Fresh(BootRoutes[i])]
      BY <2>1
    <3> QED
      BY <2>1, <2>3, <3>1
  <2>5. \A i \in 1..n : /\ router[i].prefix = BootRoutes[i]
                        /\ router[i].app.id = BootId /\ router[i].app.feed = NoFeed
    BY <2>1 DEF Fresh
  <2>6. DOMAIN accepted = {BootRoutes[i] : i \in 1..n}
        /\ \A p \in DOMAIN accepted : accepted[p] = BootId
    BY <2>1
  <2>7. DOMAIN accepted \subseteq Path /\ accepted \in [DOMAIN accepted -> ModuleId]
    BY <2>1, <2>2, <2>6
  <2>8. \A p \in DOMAIN accepted : \E i \in DOMAIN router : Installs(i, p)
    BY <2>4, <2>5, <2>6 DEF Installs
  <2>9. NoDeployLost
    BY <2>1, <2>4, <2>5, <2>8, ServerConstants DEF NoDeployLost
  <2>10. FeedCoherent
    BY <2>4, <2>5 DEF FeedCoherent
  <2> QED
    BY <2>2, <2>4, <2>5, <2>6, <2>7, <2>9, <2>10 DEF DeployInv, Steps
<1>8. DeployedModulePersisted
  BY DEF DeployedModulePersisted
<1> QED
  BY <1>4, <1>5, <1>6, <1>7, <1>8 DEF ServerInv

\* Every step keeps the invariant.
LEMMA StepInv ==
    ASSUME ServerInv, [Next]_vars
    PROVE  ServerInv'
<1> USE DEF ServerInv
<1>1. HttpInv'
  <2>1. CASE UNCHANGED http
    BY <2>1 DEF http, HttpInv, Once, Has
  <2> QED
    BY <2>1, Frames, Poll80Inv, HttpStepInv DEF DeployInv
<1>2. AdminInv'
  <2>1. CASE UNCHANGED << s81, admin_state, answers >>
    BY <2>1 DEF AdminInv, Once, Has
  <2> QED
    BY <2>1, Frames, Poll81Inv, AdminStepInv
<1>3. FeedInv'
  <2>1. CASE PollFeed
    BY <2>1, PollFeedInv
  <2>2. CASE Fetch
    BY <2>2, FetchInv
  <2>3. CASE UNCHANGED feed /\ UNCHANGED pending_feed
    BY <2>3 DEF feed, FeedInv, FeedSocketOwned
  <2>4. CASE Tick
    <3>1. /\ now' \in 0..MaxTime
          /\ UNCHANGED << fetch_state, feed_sock, pending_feed >>
      BY <2>4, ServerConstants DEF Tick, FeedInv
    <3> QED
      BY <3>1 DEF FeedInv, FeedSocketOwned
  <2>5. CASE DistributeFeed
    <3>1. UNCHANGED << fetch_state, feed_sock, now >>
      BY <2>5 DEF DistributeFeed, feed
    <3>2. pending_feed' \in Seq(FeedToken)
      BY <2>5, EmptySeq DEF DistributeFeed, NoFeed, FeedInv
    <3> QED
      BY <3>1, <3>2 DEF FeedInv, FeedSocketOwned
  <2> QED
    BY <2>1, <2>2, <2>3, <2>4, <2>5, Frames
<1>4. DeployInv'
  <2>1. CASE DistributeFeed
    BY <2>1, DistributeInv DEF FeedInv
  <2>2. CASE ApplyPending
    BY <2>2, ApplyInv
  <2>3. CASE Admin
    BY <2>3, HandOverInv
  <2>4. CASE ~DistributeFeed /\ ~ApplyPending /\ ~Admin
    <3>1. /\ UNCHANGED << pending_entry, router, last_feed >>
          /\ pc' = pc \/ pc \in {"poll", "fetch", "http"}
          /\ pc' = pc \/ pc' \in {"fetch", "http", "admin"}
          /\ UNCHANGED accepted
      BY <2>4, Frames
    <3>2. NoDeployLost' /\ FeedCoherent'
      BY <3>1 DEF DeployInv, NoDeployLost, FeedCoherent, Installs
    <3> QED
      BY <3>1, <3>2 DEF DeployInv, Steps
  <2> QED
    BY <2>1, <2>2, <2>3, <2>4
<1>5. DeployedModulePersisted'
  <2>1. CASE UNCHANGED << disk, accepted >>
    BY <2>1 DEF DeployedModulePersisted, SharesFile
  <2> QED
    BY <2>1, Frames, PersistInv
<1> QED
  BY <1>1, <1>2, <1>3, <1>4, <1>5

\* The invariant holds throughout.
LEMMA Invariance == Spec => []ServerInv
<1>1. Init => ServerInv
  BY InitInv
<1>2. ServerInv /\ [Next]_vars => ServerInv'
  BY StepInv
<1> QED
  BY <1>1, <1>2, PTL DEF Spec

-----------------------------------------------------------------------------
(* The theorems.                                                            *)

\* The variables of run_http_server keep their shape; in particular a fetch
\* never waits longer than its limits.
THEOREM ServerTypeOK == Spec => []TypeOK
<1>1. ServerInv => TypeOK
  BY StreamTypes DEF ServerInv, HttpInv, AdminInv, FeedInv, DeployInv, TypeOK, AdminStates
<1> QED
  BY <1>1, Invariance, PTL

\* On both ports a request is put together from the bytes of one connection,
\* whatever clients that were reset or that closed in mid-request left behind.
THEOREM ServerOneConnection == Spec => []OneConnectionPerRequest
<1>1. \A c : \A q \in Seq(TokenOf(c)) : Belong(q, c)
  <2> TAKE c
  <2> TAKE q \in Seq(TokenOf(c))
  <2>1. \A i \in DOMAIN q : q[i] \in TokenOf(c)
    BY ElementOfSeq, LenProperties
  <2> QED
    BY <2>1 DEF Belong, TokenOf
<1>2. ServerInv => OneConnectionPerRequest
  <2> SUFFICES ASSUME ServerInv PROVE OneConnectionPerRequest
    OBVIOUS
  <2>1. req_buf \in Seq(TokenOf(s80.conn)) /\ s80.rx \in Seq(TokenOf(s80.conn))
    BY DEF ServerInv, HttpInv, Sockets
  <2>2. admin_state.k # "Idle" => admin_state.buf \in Seq(TokenOf(s81.conn))
    BY DEF ServerInv, AdminInv, AdminStates
  <2> QED
    BY <1>1, <2>1, <2>2 DEF OneConnectionPerRequest
<1> QED
  BY <1>2, Invariance, PTL

\* Neither port answers a connection twice.
THEOREM ServerOneAnswer == Spec => []OneAnswerPerConnection
<1>1. ServerInv => OneAnswerPerConnection
  BY DEF ServerInv, HttpInv, AdminInv, Once, OneAnswerPerConnection
<1> QED
  BY <1>1, Invariance, PTL

\* A module that loads and was accepted on port 8081 is in service, or waits
\* and is in service before the loop polls the network again.
THEOREM ServerNoDeployLost == Spec => []NoDeployLost
<1>1. ServerInv => NoDeployLost
  BY DEF ServerInv, DeployInv
<1> QED
  BY <1>1, Invariance, PTL

\* A module in service that came over the network is on the disk, with the
\* exceptions DeployedModulePersisted names.
THEOREM ServerDeployPersisted == Spec => []DeployedModulePersisted
<1>1. ServerInv => DeployedModulePersisted
  BY DEF ServerInv
<1> QED
  BY <1>1, Invariance, PTL

\* All applications have the feed that was distributed last.
THEOREM ServerFeedCoherent == Spec => []FeedCoherent
<1>1. ServerInv => FeedCoherent
  BY DEF ServerInv, DeployInv
<1> QED
  BY <1>1, Invariance, PTL

\* The feed socket exists exactly while a fetch is under way.
THEOREM ServerFeedSocketOwned == Spec => []FeedSocketOwned
<1>1. ServerInv => FeedSocketOwned
  BY DEF ServerInv, FeedInv
<1> QED
  BY <1>1, Invariance, PTL

\* What is cut off a path and what is left make the path again.
LEMMA StripAndJoin ==
    ASSUME NEW path \in Path, NEW prefix \in Path, StartsWith(path, prefix)
    PROVE  \/ StripPrefix(path, prefix) = Root
           \/ prefix \o StripPrefix(path, prefix) = path
<1> DEFINE m == Len(prefix)
           n == Len(path)
<1>1. m \in Nat /\ n \in Nat /\ m <= n /\ SubSeq(path, 1, m) = prefix
  BY LenProperties DEF StartsWith, Path
<1>2. CASE m = n
  BY <1>2 DEF StripPrefix
<1>3. CASE m # n
  <2>1. StripPrefix(path, prefix) = SubSeq(path, m + 1, n)
    BY <1>3 DEF StripPrefix, Drop
  <2>2. SubSeq(path, 1, m) \o SubSeq(path, m + 1, n) = SubSeq(path, 1, n)
    <3>1. path \in Seq(Character) /\ 1 \in 1..Len(path) + 1
      BY <1>1 DEF Path
    <3>2. m \in (1 - 1)..Len(path) /\ n \in m..Len(path)
      BY <1>1
    <3> HIDE DEF m, n
    <3> QED
      BY <3>1, <3>2, ConcatAdjacentSubSeq
  <2>3. SubSeq(path, 1, n) = path
    BY SubSeqFull DEF Path
  <2> QED
    BY <1>1, <2>1, <2>2, <2>3
<1> QED
  BY <1>2, <1>3

\* An answer appears only when port 80 is served.
LEMMA NewReply ==
    ASSUME ServerInv, [Next]_vars, Len(replies') > Len(replies)
    PROVE  /\ pc = "http"
           /\ \E c \in Nat, buf \in Seq(Token) :
                 /\ find_header_end(buf) # 0
                 /\ \E a \in Answer80(c, buf) : replies' = Append(replies, a)
<1>1. replies \in Seq(Reply) /\ Len(replies) \in Nat
  BY LenProperties DEF ServerInv, HttpInv
<1>2. Http
  BY <1>1, Frames DEF Poll80, http
<1> DEFINE c == s80.conn
           o == Reopened80
           buf == o.buf \o Received(o.s, Recv80)
           s == AfterRecv(o.s, Recv80)
<1>3. s80 \in Sockets(TokenOf(c)) /\ c \in Nat /\ Recv80 \in Nat
  BY ServerConstants DEF ServerInv, HttpInv, Sockets
<1>4. Listen(s80) \in Sockets(TokenOf(c)) /\ Listen(s80).conn = c
  BY <1>3, SocketSteps DEF Listen, Sockets
<1>5. o.s \in Sockets(TokenOf(c)) /\ o.s.conn = c /\ o.buf \in Seq(TokenOf(c))
  <2>1. CASE is_open(s80)
    BY <1>3, <2>1 DEF ServerInv, HttpInv, Reopened80
  <2>2. CASE ~is_open(s80)
    BY <1>3, <1>4, <2>2, EmptySeq DEF Reopened80
  <2> QED
    BY <2>1, <2>2
<1> HIDE DEF o
<1>6. s.conn = c /\ Received(o.s, Recv80) \in Seq(TokenOf(c))
  BY <1>3, <1>5, RecvSteps
<1>7. buf \in Seq(Token)
  BY <1>5, <1>6, ConcatProperties, StreamTypes
<1>8. /\ find_header_end(buf) # 0
      /\ \E a \in Answer80(s.conn, buf) : replies' = Append(replies, a)
  <2>1. ~(replies' = replies)
    BY <1>1
  <2>2. \/ UNCHANGED replies
        \/ /\ find_header_end(buf) # 0
           /\ \E a \in Answer80(s.conn, buf) : replies' = Append(replies, a)
    BY <1>2 DEF Http, o
  <2> QED
    BY <2>1, <2>2
<1> HIDE DEF buf, s, c
<1>9. pc = "http"
  BY <1>2 DEF Http
<1> QED
  BY <1>3, <1>6, <1>7, <1>8, <1>9

\* An application that answers on port 80 is the module last accepted for the
\* longest matching prefix, and it answers with the feed distributed last.
THEOREM ServerReplyIsCurrent == Spec => ReplyIsCurrent
<1>1. ASSUME ServerInv, [Next]_vars PROVE CurrentReply
  <2> SUFFICES ASSUME Len(replies') > Len(replies)
               PROVE  LET r == replies'[Len(replies')]
                          Matching == {p \in DOMAIN accepted : StartsWith(r.path, p)}
                      IN  /\ r.from = "app" =>
                                /\ r.prefix \in Matching
                                /\ \A p \in Matching : Len(p) <= Len(r.prefix)
                                /\ r.app.id = accepted[r.prefix]
                                /\ r.app.feed = last_feed
                                /\ r.arg = Root \/ r.prefix \o r.arg = r.path
                          /\ Matching = {} => r.from # "app"
    BY DEF CurrentReply
  <2>1. /\ pc = "http"
        /\ \E c \in Nat, buf \in Seq(Token) :
              /\ find_header_end(buf) # 0
              /\ \E a \in Answer80(c, buf) : replies' = Append(replies, a)
    BY <1>1, NewReply
  <2>2. PICK c \in Nat, buf \in Seq(Token) :
              /\ find_header_end(buf) # 0
              /\ \E a \in Answer80(c, buf) : replies' = Append(replies, a)
    BY <2>1
  <2>3. PICK r \in Answer80(c, buf) : replies' = Append(replies, r)
    BY <2>2
  <2>4. replies \in Seq(Reply) /\ router \in Seq(Route) /\ NoDeployLost /\ FeedCoherent
        /\ \A i \in DOMAIN router : router[i].prefix \in DOMAIN accepted
    BY <1>1 DEF ServerInv, HttpInv, DeployInv
  <2>5. r \in Reply
    BY <2>2, <2>3, <2>4, AnswerType
  <2>6. replies'[Len(replies')] = r
    BY <2>3, <2>4, <2>5, AppendProperties, LenProperties
  <2> DEFINE path == parse_path(buf)
             i == RouteMut(router, path)
             Matches(j) == StartsWith(path, router[j].prefix)
  <2>7. path \in Path
    BY <2>2, HeaderTypes
  <2>8. /\ i \in 0..Len(router)
        /\ i = 0 => \A j \in 1..Len(router) : ~Matches(j)
        /\ i # 0 => /\ Matches(i)
                    /\ \A j \in 1..Len(router) : Matches(j) =>
                          Len(router[j].prefix) <= Len(router[i].prefix)
    BY <2>4, <2>7, LongestPrefix DEF Route
  <2>9. r.path = path
    BY DEF Answer80
  <2>10. r.from = "app" => /\ i # 0 /\ r.app = router[i].app
                           /\ r.prefix = router[i].prefix
                           /\ r.arg = StripPrefix(path, router[i].prefix)
    BY DEF Answer80
  <2> HIDE DEF path, i
  <2>11. DOMAIN router = 1..Len(router) /\ Len(router) \in Nat
         /\ \A j \in 1..Len(router) : router[j] \in Route
    BY <2>4, LenProperties, ElementOfSeq
  <2>12. \A p \in DOMAIN accepted : \E j \in 1..Len(router) : Installs(j, p)
    BY <2>1, <2>4, <2>11 DEF NoDeployLost
  <2>13. ASSUME r.from = "app"
         PROVE  /\ r.prefix \in DOMAIN accepted /\ StartsWith(path, r.prefix)
                /\ \A p \in DOMAIN accepted : StartsWith(path, p) => Len(p) <= Len(r.prefix)
                /\ r.app.id = accepted[r.prefix]
                /\ r.app.feed = last_feed
                /\ r.arg = Root \/ r.prefix \o r.arg = path
    <3>1. i \in 1..Len(router) /\ i \in DOMAIN router
      BY <2>8, <2>10, <2>11, <2>13
    <3>2. r.prefix = router[i].prefix /\ r.app = router[i].app
          /\ r.arg = StripPrefix(path, r.prefix)
      BY <2>10, <2>13
    <3>3. r.prefix \in DOMAIN accepted /\ StartsWith(path, r.prefix) /\ r.prefix \in Path
      BY <2>4, <2>8, <2>10, <2>11, <2>13, <3>1, <3>2 DEF Route
    <3>4. \A p \in DOMAIN accepted : StartsWith(path, p) => Len(p) <= Len(r.prefix)
      BY <2>8, <2>10, <2>12, <2>13, <3>2 DEF Installs
    <3>5. r.app.id = accepted[r.prefix]
      <4>1. PICK j \in 1..Len(router) : Installs(j, r.prefix)
        BY <2>12, <3>3
      <4>2. j = i
        BY <2>4, <2>11, <3>1, <3>2, <4>1 DEF Installs, NoDeployLost
      <4> QED
        BY <3>2, <4>1, <4>2 DEF Installs
    <3>6. r.app.feed = last_feed
      BY <2>4, <3>1, <3>2 DEF FeedCoherent
    <3>7. r.arg = Root \/ r.prefix \o r.arg = path
      BY <2>7, <3>2, <3>3, StripAndJoin
    <3> QED
      BY <3>3, <3>4, <3>5, <3>6, <3>7
  <2> QED
    BY <2>6, <2>9, <2>13
<1>2. ServerInv /\ [Next]_vars => [CurrentReply]_vars
  BY <1>1
<1> QED
  BY <1>2, Invariance, PTL DEF Spec, ReplyIsCurrent

=============================================================================

-------------------------------- MODULE Server --------------------------------
(***************************************************************************)
(* run_http_server of unikernel/src/net.rs: one loop that serves HTTP on   *)
(* port 80, accepts WASM modules on port 8081, fetches a feed every        *)
(* FeedInterval seconds and swaps modules and feeds into the running       *)
(* applications.                                                           *)
(*                                                                         *)
(* The loop body is cut at its blank lines into the steps of pc.  The      *)
(* network only touches the sockets inside iface.poll, so the peers' and   *)
(* the network's actions are enabled at pc = "poll", in any number and     *)
(* order.  Byte streams are sequences of tokens: a request line ("line"),  *)
(* the rest of the header up to the blank line ("eoh"), pieces of a body.  *)
(***************************************************************************)
EXTENDS Naturals, Sequences, TcpSocket, Router

CONSTANTS
    Requests80,     \* requests clients of port 80 make: [path, body]
    AdminScripts,   \* what an admin client sends: sequences of
                    \* [path, len, size, ok]; len = NoLength: no such header
    FeedAnswers,    \* sizes of the bodies the feed host may answer with
    StaticPaths,    \* paths with a static file
    BootRoutes,     \* prefixes installed by the registry before the loop
    StoreOutcomes,  \* results of KvStore::write; {} when there is no disk
    MaxConn80, MaxConn81,           \* bounds on the number of connections
    MaxTime,                        \* bound on the clock
    Recv80, RecvHeader, RecvBody,   \* tokens one recv_slice call returns
    MaxWasm,        \* MAX_WASM_SIZE in body tokens
    FeedMax,        \* FEED_MAX_SIZE in tokens
    FeedRead,       \* what one read of the fetch takes, 4096 bytes in tokens
    FeedInterval,   \* FEED_INTERVAL_SECS
    IdleLimit,      \* polls the feed client waits for the handshake
    StaleLimit,     \* polls it waits for more data
    NoLength,       \* a request without Content-Length
    None            \* Option::None

-----------------------------------------------------------------------------
(* The pieces of the byte streams, with the connection c that carries them, *)
(* and the values built from them.                                          *)

Upload == [path : Path, len : Nat \cup {NoLength}, size : Nat, ok : BOOLEAN]
ModuleId == Nat \X Nat

Token ==
    [c : Nat, k : {"line"}, path : Path]
        \cup [c : Nat, k : {"eoh"}, len : Nat \cup {NoLength}]
        \cup [c : Nat, k : {"body"}]
        \cup [c : Nat, k : {"wasm"}, id : ModuleId, size : Nat, ok : BOOLEAN]

FeedToken == [c : Nat, k : {"eoh", "body"}]

Entry == [prefix : Path, wasm : Seq(Token)]

ASSUME ServerConstants ==
    /\ {MaxConn80, MaxConn81, MaxTime, MaxWasm, IdleLimit, StaleLimit} \subseteq Nat
    /\ {Recv80, RecvHeader, RecvBody, FeedMax, FeedRead, FeedInterval} \subseteq Nat \ {0}
    /\ FeedAnswers \subseteq Nat
    /\ StoreOutcomes \subseteq {"written", "failed"}
    /\ Requests80 \subseteq [path : Path, body : Nat]
    /\ AdminScripts \subseteq Seq(Upload)
    /\ BootRoutes \in Seq(Path)
    /\ \A i, j \in DOMAIN BootRoutes : BootRoutes[i] = BootRoutes[j] => i = j
    /\ None \notin Entry \cup Sockets(FeedToken)

VARIABLES
    pc,            \* the next step of the loop body
    s80, sent80, req_buf,
    s81, admin_state,
    pending_entry, \* the module to install at the top of the next iteration
    router,        \* sequence of [prefix, app], app = [id, feed]
    fetch_state, feed_sock,
    pending_feed, last_feed,
    now,           \* rtc::read_unix_timestamp
    disk,          \* the store: file name -> module id
    accepted,      \* history: prefix -> last loadable module handed over
    replies,       \* history: the answers given on port 80, in order
    answers        \* history: the answers given on port 8081, in order

vars == << pc, s80, sent80, req_buf, s81, admin_state, pending_entry, router,
           fetch_state, feed_sock, pending_feed, last_feed, now, disk,
           accepted, replies, answers >>

http  == << s80, sent80, req_buf, replies >>
admin == << s81, admin_state, disk, accepted, answers >>
feed  == << fetch_state, feed_sock, now >>

-----------------------------------------------------------------------------
(* Values.                                                                  *)

NoFeed == << >>

Steps == {"feed", "swap", "poll", "fetch", "http", "admin"}

\* A module is named by the connection that uploaded it and its place in it;
\* the modules of the registry are named BootId.
BootId == << 0, 0 >>

Copies(token, n) == [i \in 1..n |-> token]

\* The byte stream of an HTTP request on port 80.
HttpWire(c, r) ==
    << [c |-> c, k |-> "line", path |-> r.path],
       [c |-> c, k |-> "eoh", len |-> r.body] >>
        \o Copies([c |-> c, k |-> "body"], r.body)

\* The byte stream of an upload; size is the module's true size, ok says that
\* the module links and instantiates.
UploadWire(c, i, r) ==
    << [c |-> c, k |-> "line", path |-> r.path],
       [c |-> c, k |-> "eoh", len |-> r.len] >>
        \o Copies([c |-> c, k |-> "wasm", id |-> << c, i >>, size |-> r.size,
                   ok |-> r.ok], r.size)

AdminWire(c, script) ==
    LET wire[i \in 0..Len(script)] ==
            IF i = 0 THEN << >> ELSE wire[i - 1] \o UploadWire(c, i, script[i])
    IN  wire[Len(script)]

FeedWire(c, n) == << [c |-> c, k |-> "eoh"] >> \o Copies([c |-> c, k |-> "body"], n)

-----------------------------------------------------------------------------
(* Parsing.                                                                 *)

\* Position of the blank line, 0 when the header is not complete.
find_header_end(buf) ==
    LET Ends == {i \in DOMAIN buf : buf[i].k = "eoh"}
    IN  IF Ends = {} THEN 0 ELSE CHOOSE i \in Ends : \A j \in Ends : i <= j

parse_content_length(buf) == buf[find_header_end(buf)].len

\* The path of the first line; a header that lost its request line has no
\* path that starts with /update.
parse_path(buf) == IF buf[1].k = "line" THEN buf[1].path ELSE << "?" >>

parse_body(buf) == Drop(buf, find_header_end(buf))

\* WasmApp::from_bytes succeeds on exactly the bytes of a sound module.
Loads(wasm) ==
    /\ wasm # << >>
    /\ \A i \in DOMAIN wasm : wasm[i].k = "wasm" /\ wasm[i] = wasm[1]
    /\ wasm[1].ok /\ Len(wasm) = wasm[1].size

\* "/" is stored as app.wasm, "/x" as x.wasm.
StoreKey(prefix) == IF prefix = Root THEN << "app" >> ELSE Drop(prefix, 1)

-----------------------------------------------------------------------------

Fresh(prefix) == [prefix |-> prefix, app |-> [id |-> BootId, feed |-> NoFeed]]

Init ==
    /\ pc = "feed"
    /\ s80 = NewSocket /\ sent80 = FALSE /\ req_buf = << >>
    /\ s81 = NewSocket /\ admin_state = [k |-> "Idle"]
    /\ pending_entry = None
    /\ router = [i \in DOMAIN BootRoutes |-> Fresh(BootRoutes[i])]
    /\ fetch_state = [k |-> "Idle", next_ts |-> 0] /\ feed_sock = None
    /\ pending_feed = NoFeed /\ last_feed = NoFeed
    /\ now = 0
    /\ disk = << >>
    /\ accepted = [p \in {BootRoutes[i] : i \in DOMAIN BootRoutes} |-> BootId]
    /\ replies = << >> /\ answers = << >>

Put(f, k, v) == [x \in DOMAIN f \cup {k} |-> IF x = k THEN v ELSE f[x]]

-----------------------------------------------------------------------------
(* Top of the loop: the feed first, then the module.                        *)

\* pending_feed is an Option; the empty feed is never put into it.
DistributeFeed ==
    /\ pc = "feed"
    /\ IF pending_feed = NoFeed
       THEN UNCHANGED << router, last_feed, pending_feed >>
       ELSE /\ last_feed' = pending_feed
            /\ router' = [i \in DOMAIN router |->
                             [router[i] EXCEPT !.app.feed = pending_feed]]
            /\ pending_feed' = NoFeed
    /\ pc' = "swap"
    /\ UNCHANGED << http, admin, feed, pending_entry >>

NewApp_WithoutFeed(id) == [id |-> id, feed |-> NoFeed]

\* update_feed is skipped for an empty last_feed, which is what a new
\* application has anyway.
NewApp(id) == [id |-> id, feed |-> last_feed]

ApplyPending ==
    /\ pc = "swap"
    /\ pending_entry' = None
    /\ IF pending_entry # None /\ Loads(pending_entry.wasm)
       THEN router' = Insert(router, pending_entry.prefix,
                             NewApp(pending_entry.wasm[1].id))
       ELSE UNCHANGED router
    /\ pc' = "poll"
    /\ UNCHANGED << http, admin, feed, pending_feed, last_feed >>

-----------------------------------------------------------------------------
(* iface.poll: what clients, the feed host and the network do meanwhile.    *)

Network80 ==
    \/ /\ s80.st = "Listen" /\ s80.conn < MaxConn80
       /\ \E r \in Requests80 :
             s80' = Accept(s80, s80.conn + 1, HttpWire(s80.conn + 1, r))
    \/ /\ CanDeliver(s80)
       /\ \E k \in 1..Len(s80.out) : s80' = Deliver(s80, k)
    \/ CanFin(s80) /\ s80' \in AfterFin(s80)
    \/ CanAck(s80) /\ s80' = AfterAck(s80)
    \/ CanRst(s80) /\ s80' = AfterRst(s80)

Network81 ==
    \/ /\ s81.st = "Listen" /\ s81.conn < MaxConn81
       /\ \E script \in AdminScripts :
             s81' = Accept(s81, s81.conn + 1, AdminWire(s81.conn + 1, script))
    \/ /\ CanDeliver(s81)
       /\ \E k \in 1..Len(s81.out) : s81' = Deliver(s81, k)
    \/ CanFin(s81) /\ s81' \in AfterFin(s81)
    \/ CanAck(s81) /\ s81' = AfterAck(s81)
    \/ CanRst(s81) /\ s81' = AfterRst(s81)

NetworkFeed ==
    /\ feed_sock # None
    /\ \/ /\ feed_sock.st = "SynSent"
          /\ feed_sock' = [feed_sock EXCEPT !.st = "Established"]
       \/ /\ CanDeliver(feed_sock)
          /\ \E k \in 1..Len(feed_sock.out) : feed_sock' = Deliver(feed_sock, k)
       \/ CanFin(feed_sock) /\ feed_sock' \in AfterFin(feed_sock)
       \/ CanRst(feed_sock) /\ feed_sock' = AfterRst(feed_sock)

Poll80 == /\ pc = "poll" /\ Network80
          /\ UNCHANGED << pc, sent80, req_buf, replies, admin, feed,
                          pending_entry, router, pending_feed, last_feed >>

Poll81 == /\ pc = "poll" /\ Network81
          /\ UNCHANGED << pc, http, admin_state, disk, accepted, answers, feed,
                          pending_entry, router, pending_feed, last_feed >>

PollFeed == /\ pc = "poll" /\ NetworkFeed
            /\ UNCHANGED << pc, http, admin, fetch_state, now,
                            pending_entry, router, pending_feed, last_feed >>

Tick == /\ pc = "poll" /\ now < MaxTime
        /\ now' = now + 1
        /\ UNCHANGED << pc, http, admin, fetch_state, feed_sock,
                        pending_entry, router, pending_feed, last_feed >>

PollDone == /\ pc = "poll" /\ pc' = "fetch"
            /\ UNCHANGED << http, admin, feed, pending_entry, router,
                            pending_feed, last_feed >>

-----------------------------------------------------------------------------
(* The background fetch.                                                    *)

Rest == [k |-> "Idle", next_ts |-> now + FeedInterval]

EndFetch_KeepSocket == fetch_state' = Rest /\ UNCHANGED feed_sock

EndFetch == fetch_state' = Rest /\ feed_sock' = None

FetchIdle ==
    /\ fetch_state.k = "Idle"
    /\ IF now >= fetch_state.next_ts
       THEN \/ \E n \in FeedAnswers :
                  /\ feed_sock' = Connect(now, FeedWire(now, n))
                  /\ fetch_state' = [k |-> "Connecting", idle |-> 0]
            \/ fetch_state' = Rest /\ UNCHANGED feed_sock  \* connect() fails
       ELSE UNCHANGED << fetch_state, feed_sock >>
    /\ UNCHANGED pending_feed

GiveUp_OnlyClosed(sock, idle) == ~is_open(sock)

GiveUp(sock, idle) == ~is_open(sock) \/ idle > IdleLimit

Waited_Restarted(idle) == 0

Waited(idle) == idle + 1

FetchConnecting ==
    /\ fetch_state.k = "Connecting"
    /\ IF may_send(feed_sock)
       THEN /\ fetch_state' = [k |-> "Receiving", buf |-> << >>, stale |-> 0]
            /\ UNCHANGED feed_sock
       ELSE IF GiveUp(feed_sock, fetch_state.idle)
       THEN EndFetch
       ELSE /\ fetch_state' = [fetch_state EXCEPT !.idle = Waited(@)]
            /\ UNCHANGED feed_sock
    /\ UNCHANGED pending_feed

FetchDone(sock, stale, buf) ==
    ~may_recv(sock) \/ stale > StaleLimit \/ Len(buf) >= FeedMax

\* The whole reads that take at least n tokens.
WholeReads(n) == FeedRead * ((n + FeedRead - 1) \div FeedRead)

\* The socket is read until it is empty or FEED_MAX_SIZE is reached, and the last
\* read may go beyond it; the answer ends with the
\* connection, with silence, or when it is too long.  Its body, as far as it
\* has come, becomes the next feed.
FetchReceiving ==
    /\ fetch_state.k = "Receiving"
    /\ LET room  == WholeReads(FeedMax - Len(fetch_state.buf))
           buf   == fetch_state.buf \o Received(feed_sock, room)
           sock  == AfterRecv(feed_sock, room)
           stale == IF Len(buf) > Len(fetch_state.buf) THEN 0
                    ELSE fetch_state.stale + 1
           body  == parse_body(buf)
       IN  IF FetchDone(sock, stale, buf)
           THEN /\ EndFetch
                /\ IF find_header_end(buf) # 0 /\ body # << >>
                   THEN pending_feed' = body
                   ELSE UNCHANGED pending_feed
           ELSE /\ fetch_state' = [k |-> "Receiving", buf |-> buf, stale |-> stale]
                /\ feed_sock' = sock
                /\ UNCHANGED pending_feed

Fetch == /\ pc = "fetch" /\ (FetchIdle \/ FetchConnecting \/ FetchReceiving)
         /\ pc' = "http"
         /\ UNCHANGED << http, admin, now, pending_entry, router, last_feed >>

-----------------------------------------------------------------------------
(* Port 80.                                                                 *)

\* Who answers: a static file on an exact match, else the application with
\* the longest prefix, else (no application, or it trapped) the fallback.
Answer80(c, buf) ==
    LET path == parse_path(buf)
        i    == RouteMut(router, path)
        From(who) == [conn |-> c, path |-> path, from |-> who]
        ByApp == [conn |-> c, path |-> path, from |-> "app",
                  app |-> router[i].app, prefix |-> router[i].prefix,
                  arg |-> StripPrefix(path, router[i].prefix),
                  body |-> Len(parse_body(buf)),
                  len  |-> parse_content_length(buf)]
    IN  CASE path \in StaticPaths -> {From("static")}
          [] path \notin StaticPaths /\ i = 0 -> {From("fallback")}
          [] OTHER -> {ByApp, From("fallback")}

Reopened80_KeepBuffer ==
    IF is_open(s80) THEN [s |-> s80, sent |-> sent80, buf |-> req_buf]
    ELSE [s |-> Listen(s80), sent |-> FALSE, buf |-> req_buf]

\* A closed socket listens again and forgets the connection it carried.
Reopened80 ==
    IF is_open(s80) THEN [s |-> s80, sent |-> sent80, buf |-> req_buf]
    ELSE [s |-> Listen(s80), sent |-> FALSE, buf |-> << >>]

Ready80_Established(o) == o.s.st = "Established" /\ ~o.sent

Ready80(o) == may_recv(o.s) /\ ~o.sent

Finish80_Unclosed(s) == s80' = s /\ sent80' = TRUE

Finish80(s) == s80' = Close(s) /\ sent80' = TRUE

Http ==
    /\ pc = "http"
    /\ LET o   == Reopened80
           buf == o.buf \o Received(o.s, Recv80)
           s   == AfterRecv(o.s, Recv80)
       IN  IF ~Ready80(o)
           THEN /\ s80' = o.s /\ sent80' = o.sent /\ req_buf' = o.buf
                /\ UNCHANGED replies
           ELSE IF find_header_end(buf) = 0
           THEN /\ s80' = s /\ sent80' = o.sent /\ req_buf' = buf
                /\ UNCHANGED replies
           ELSE /\ \E a \in Answer80(s.conn, buf) : replies' = Append(replies, a)
                /\ Finish80(s) /\ req_buf' = buf
    /\ pc' = "admin"
    /\ UNCHANGED << admin, feed, pending_entry, router, pending_feed, last_feed >>

-----------------------------------------------------------------------------
(* Port 8081.                                                               *)

Reopened81_KeepState ==
    IF is_open(s81) THEN [s |-> s81, state |-> admin_state]
    ELSE [s |-> Listen(s81), state |-> admin_state]

Reopened81 ==
    IF is_open(s81) THEN [s |-> s81, state |-> admin_state]
    ELSE [s |-> Listen(s81), state |-> [k |-> "Idle"]]

\* send_slice: nothing is sent once the server has closed its side.
SendAnswer(s, code) ==
    answers' = IF may_send(s) THEN Append(answers, [conn |-> s.conn, code |-> code])
               ELSE answers

Finish81_Unclosed(s) == s81' = s /\ admin_state' = [k |-> "Idle"]

Finish81(s) == s81' = Close(s) /\ admin_state' = [k |-> "Idle"]

AdminIdle(s) ==
    /\ s81' = s
    /\ admin_state' = IF may_recv(s) THEN [k |-> "Headers", buf |-> << >>]
                      ELSE [k |-> "Idle"]
    /\ UNCHANGED << pending_entry, disk, accepted, answers >>

AdminHeaders(s, hdr_buf) ==
    LET buf    == hdr_buf \o Received(s, RecvHeader)
        rest   == AfterRecv(s, RecvHeader)
        total  == parse_content_length(buf)
        prefix == ParseRoutePrefix(parse_path(buf))
    IN  /\ IF ~can_recv(s) \/ find_header_end(buf) = 0
           THEN /\ admin_state' = [k |-> "Headers", buf |-> buf]
                /\ s81' = rest /\ UNCHANGED answers
           ELSE IF total # NoLength
           THEN /\ admin_state' = [k |-> "Body", prefix |-> prefix,
                                   buf |-> parse_body(buf), total |-> total]
                /\ s81' = rest /\ UNCHANGED answers
           ELSE Finish81(rest) /\ SendAnswer(rest, 400)
        /\ UNCHANGED << pending_entry, disk, accepted >>

Persist_OnlyNew(prefix, wasm) ==
    disk' = IF StoreKey(prefix) \in DOMAIN disk THEN disk
            ELSE Put(disk, StoreKey(prefix), wasm)

\* KvStore::write of the module; its result is only logged.  After a write
\* that failed nothing is known of the file.
Persist(prefix, wasm) ==
    IF StoreOutcomes = {} THEN UNCHANGED disk
    ELSE \E outcome \in StoreOutcomes :
            disk' = Put(disk, StoreKey(prefix),
                        IF outcome = "written" THEN wasm ELSE None)

AdminBody(s, prefix, old_buf, total) ==
    LET buf  == old_buf \o Received(s, RecvBody)
        rest == AfterRecv(s, RecvBody)
        wasm == SubSeq(buf, 1, total)
    IN  IF Len(buf) < total
        THEN /\ admin_state' = [k |-> "Body", prefix |-> prefix, buf |-> buf,
                                total |-> total]
             /\ s81' = rest
             /\ UNCHANGED << pending_entry, disk, accepted, answers >>
        ELSE /\ Finish81(rest)
             /\ IF total > MaxWasm
                THEN /\ SendAnswer(rest, 413)
                     /\ UNCHANGED << pending_entry, disk, accepted >>
                ELSE /\ Persist(prefix, wasm)
                     /\ pending_entry' = [prefix |-> prefix, wasm |-> wasm]
                     /\ SendAnswer(rest, 200)
                     /\ accepted' = IF Loads(wasm)
                                    THEN Put(accepted, prefix, wasm[1].id)
                                    ELSE accepted

\* The trailing "if !s.is_open() { Idle }" of the last two states never finds
\* the socket closed: close() leads from an open state to an open state.
Admin ==
    /\ pc = "admin"
    /\ LET o == Reopened81
       IN  \/ o.state.k = "Idle" /\ AdminIdle(o.s)
           \/ o.state.k = "Headers" /\ AdminHeaders(o.s, o.state.buf)
           \/ /\ o.state.k = "Body"
              /\ AdminBody(o.s, o.state.prefix, o.state.buf, o.state.total)
    /\ pc' = "feed"
    /\ UNCHANGED << http, feed, router, pending_feed, last_feed >>

-----------------------------------------------------------------------------

Loop == DistributeFeed \/ ApplyPending \/ PollDone \/ Fetch \/ Http \/ Admin

Environment == Poll80 \/ Poll81 \/ PollFeed \/ Tick

Next == Loop \/ Environment

\* The timer interrupt ends every hlt, so the loop runs forever.
Spec == Init /\ [][Next]_vars /\ WF_vars(Loop)

\* A client that ends its connection: it sends its FIN and acknowledges ours.
\* Poll steps recur, so its step is enabled again and again, never for good.
PeerEnds80 ==
    /\ pc = "poll"
    /\ \/ CanFin(s80) /\ s80' \in AfterFin(s80)
       \/ CanAck(s80) /\ s80' = AfterAck(s80)
    /\ UNCHANGED << pc, sent80, req_buf, replies, admin, feed, pending_entry,
                    router, pending_feed, last_feed >>

PeerSpec == Spec /\ SF_vars(PeerEnds80)

-----------------------------------------------------------------------------
(* Safety.                                                                  *)

AdminStates(T) ==
    [k : {"Idle"}]
        \cup [k : {"Headers"}, buf : Seq(T)]
        \cup [k : {"Body"}, prefix : Path, buf : Seq(T), total : Nat]

FetchStates ==
    [k : {"Idle"}, next_ts : Nat]
        \cup [k : {"Connecting"}, idle : 0..IdleLimit + 1]
        \cup [k : {"Receiving"}, buf : Seq(FeedToken), stale : 0..StaleLimit]

App == [id : ModuleId, feed : Seq(FeedToken)]
Route == [prefix : Path, app : App]

Reply ==
    [conn : Nat, path : Path, from : {"static", "fallback"}]
        \cup [conn : Nat, path : Path, from : {"app"}, app : App, prefix : Path,
              arg : Path, body : Nat, len : Nat \cup {NoLength}]

AdminAnswer == [conn : Nat, code : {200, 400, 413}]

\* Shape of the loop's variables.  The waiting counters of a fetch stay within
\* their limits, and a reply of an application names the module that gave it.
TypeOK ==
    /\ pc \in Steps
    /\ s80 \in Sockets(Token) /\ sent80 \in BOOLEAN /\ req_buf \in Seq(Token)
    /\ s81 \in Sockets(Token) /\ admin_state \in AdminStates(Token)
    /\ pending_entry \in Entry \cup {None} /\ router \in Seq(Route)
    /\ fetch_state \in FetchStates /\ feed_sock \in Sockets(FeedToken) \cup {None}
    /\ pending_feed \in Seq(FeedToken) /\ last_feed \in Seq(FeedToken)
    /\ now \in 0..MaxTime
    /\ DOMAIN accepted \subseteq Path /\ accepted \in [DOMAIN accepted -> ModuleId]
    /\ replies \in Seq(Reply)
    /\ answers \in Seq(AdminAnswer)

Belong(buf, c) == \A i \in DOMAIN buf : buf[i].c = c

\* A request is put together from the bytes of one connection: whatever a
\* client left behind when it was reset or closed in mid-request is never
\* prefixed to what the next client sends, on either port (req_buf.clear() and
\* admin_state = Idle on reopening).
OneConnectionPerRequest ==
    /\ Belong(req_buf, s80.conn) /\ Belong(s80.rx, s80.conn)
    /\ admin_state.k # "Idle" => Belong(admin_state.buf, s81.conn)

\* No connection gets two answers: sent80 and the closed sending side stop the
\* loop from answering again although the socket can still receive.
OneAnswerPerConnection ==
    /\ \A i, j \in DOMAIN replies : i # j => replies[i].conn # replies[j].conn
    /\ \A i, j \in DOMAIN answers : i # j => answers[i].conn # answers[j].conn

Installs(i, p) == router[i].prefix = p /\ router[i].app.id = accepted[p]

\* A loadable module handed over on port 8081 is never lost: it is the one
\* installed under its prefix, or it waits in pending_entry, and it waits only
\* until the top of the next iteration.
NoDeployLost ==
    /\ \A p \in DOMAIN accepted :
          \/ \E i \in DOMAIN router : Installs(i, p)
          \/ /\ pending_entry # None
             /\ pending_entry.prefix = p /\ Loads(pending_entry.wasm)
             /\ pending_entry.wasm[1].id = accepted[p]
    /\ pc \in {"poll", "fetch", "http", "admin"} => pending_entry = None
    /\ \A i, j \in DOMAIN router : router[i].prefix = router[j].prefix => i = j

SharesFile(p) == \E q \in DOMAIN accepted \ {p} : StoreKey(q) = StoreKey(p)

\* A module in service that came over the network is also on the disk
\* (net.rs:429), whatever uploads to other routes, too long or cut short came
\* between.  The exceptions are the code's: the write failed, a module that
\* does not load was uploaded to the route since and replaced the file but
\* not the module, or another route has the same file ("/" and "/app").
DeployedModulePersisted ==
    \A p \in DOMAIN accepted :
        accepted[p] # BootId /\ StoreOutcomes # {} =>
            /\ StoreKey(p) \in DOMAIN disk
            /\ LET file == disk[StoreKey(p)]
               IN  file = None \/ ~Loads(file) \/ SharesFile(p)
                       \/ file[1].id = accepted[p]

\* All applications see the same feed, the last one distributed, also those
\* swapped in since (net.rs:246: the new module does not wait for 60 seconds).
FeedCoherent == \A i \in DOMAIN router : router[i].app.feed = last_feed

\* The SocketSet holds a feed socket exactly while a fetch is under way, so
\* fetches that fail or stall leave no socket behind.
FeedSocketOwned == (feed_sock = None) = (fetch_state.k = "Idle")

CurrentReply ==
    Len(replies') > Len(replies) =>
        LET r == replies'[Len(replies')]
            Matching == {p \in DOMAIN accepted : StartsWith(r.path, p)}
        IN  /\ r.from = "app" => /\ r.prefix \in Matching
                                 /\ \A p \in Matching : Len(p) <= Len(r.prefix)
                                 /\ r.app.id = accepted[r.prefix]
                                 /\ r.app.feed = last_feed
                                 /\ r.arg = Root \/ r.prefix \o r.arg = r.path
            /\ Matching = {} => r.from # "app"

\* An application that answers is the one last accepted for the longest of the
\* deployed prefixes of the path, and it answers with the current feed.
ReplyIsCurrent == [][CurrentReply]_vars

-----------------------------------------------------------------------------
(* Liveness.                                                                *)

Complete80 == find_header_end(req_buf \o s80.rx) # 0 /\ is_open(s80)
Answered80 == \E i \in DOMAIN replies : replies[i].conn = s80.conn

\* A request whose header has reached the server is answered unless the
\* connection is reset first, also when the client has half-closed.
RequestAnswered == Complete80 ~> (Answered80 \/ ~is_open(s80))

\* Every fetch ends, whatever the feed host does: it refuses, accepts and says
\* nothing, stalls in mid-answer, or answers without end.
FetchEnds == (fetch_state.k # "Idle") ~> (fetch_state.k = "Idle")

\* After an answered request port 80 listens again, provided the client ends
\* its side of the connection.
AnsweredPortReopens == sent80 ~> (s80.st = "Listen")

-----------------------------------------------------------------------------
(* What the repository says of the program and the loop does not do.        *)

\* main.rs:147: the HTTP server keeps running; so port 80 comes back to Listen
\* after every client that ends its connection.
PortReopens == (s80.st = "Established") ~> (s80.st = "Listen")

\* unikernel/wasm/editor.wat:5: a save carries the file in the body of its POST;
\* so an application is handed the body as long as the client declared it.
BodyComplete ==
    \A i \in DOMAIN replies :
        replies[i].from = "app" => replies[i].body = replies[i].len

=============================================================================

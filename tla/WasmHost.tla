------------------------------ MODULE WasmHost ------------------------------
(***************************************************************************)
(* The WASM runtime of unikernel/src/wasm_rt.rs: loading a module, handing *)
(* a request to it through its linear memory, and the host functions the   *)
(* module may call.  The files are those of FileService.                   *)
(*                                                                         *)
(* A memory is a function from addresses to cells; a cell stands for a     *)
(* run of bytes, and the layout constants are the code's, scaled down.     *)
(* Pointers and lengths are i32, which "as usize" extends with their sign. *)
(***************************************************************************)
EXTENDS Integers, Sequences, SequencesExt

CONSTANTS
    PAGE,             \* cells of a page of linear memory
    MAX_PAGES,        \* MAX_WASM_MEMORY_PAGES
    MAX_BYTES,        \* MAX_WASM_BYTES
    METHOD_MAX, PATH_MAX, BODY_MAX,
    FUEL_PER_REQUEST,
    USIZE,            \* 2^64
    RECV_MAX,         \* the bytes net.rs takes from the socket at once
    SEND_MAX,         \* what send_raw can put into a packet: BUF_SIZE less headers
    Modules,          \* the modules that may be uploaded
    Requests,         \* the requests clients send: [path, body]
    MaxRequests,      \* module -> bound on their number
    Ptrs, Lens,       \* the i32 arguments an arbitrary module uses
    Feed,             \* feed_cache
    Zero,             \* an untouched cell
    NoValue,          \* there is no value, or no host function to return from
    Paths, Disks, Absent, Torn   \* of the file service

VARIABLES
    app,      \* the loaded module
    mem,      \* its linear memory
    fuel,     \* what is left of the request's fuel
    pc,       \* "idle", "guest", "host", or "panic" for the whole kernel
    req,      \* the request under way, as handed over: [path, body]
    hc,       \* the last host call or return: [fn, a, al, b, bl]
    rv,       \* what it returned, NoValue before the first one
    answer,   \* what handle_request returned last
    served,   \* requests handed over
    files, call, undone, ret  \* of the file service

\* What a cell holds; STRING has the others, but the provers only know of the
\* ones named here.
Cells == STRING \cup {Zero, "m", "doc", "nl", "quote", "comma", "[", "]", "json", "200", "400",
                     "404", "read", "save", "files"}

\* A host function and its arguments, or the end of the request.
HostCalls ==
    [fn : {"log", "now", "random", "get_feed", "file_read", "file_write", "file_list", "return"},
     a : Int, al : Int, b : Int, bl : Int]

\* A memory never reaches the end of usize.  What was said of a module, a
\* request or a file is of the kind it should be.
ASSUME WasmConstants ==
    /\ {PAGE, MAX_PAGES, METHOD_MAX, PATH_MAX, BODY_MAX, RECV_MAX, SEND_MAX, USIZE} \subseteq Nat
    /\ MAX_PAGES * PAGE < USIZE
    /\ \A m \in Modules : m.pages \in Nat /\ \A i \in DOMAIN m.data : m.data[i] \in Cells
    /\ \A r \in Requests : r.path \in Seq(Cells) /\ r.body \in Seq(Cells)
    /\ Ptrs \cup Lens \subseteq Int
    /\ Feed \in Seq(Cells) /\ Torn \in Seq(Cells)
    /\ IsFiniteSet(Paths) /\ \A p \in Paths : p \in Seq(Cells) /\ p # << >>
    /\ \A d \in Disks : /\ d = [p \in Paths |-> d[p]]
                        /\ \A p \in Paths : d[p] = Absent \/ d[p] \in Seq(Cells)
    /\ Absent \notin Seq(Cells)
    /\ NoValue \notin Int /\ NoValue \notin HostCalls /\ NoValue \notin Seq(Cells)

Method == << "m" >>
NoCall == [op |-> "none", path |-> << >>]
DataOf(c) == c.data
F == INSTANCE FileService WITH Calls <- {NoCall}  \* HostCall makes the calls

host == << app, mem, fuel, pc, req, hc, rv, answer, served >>
service == << files, call, undone, ret >>
vars == << host, service >>

METHOD_OFF == PAGE
PATH_OFF == METHOD_OFF + METHOD_MAX
BODY_OFF == PATH_OFF + PATH_MAX

-----------------------------------------------------------------------------
(* Loading.  A module is [name, size, parses, pages, starts, exports].      *)

\* WasmApp::from_bytes and load.
from_bytes(m) ==
    /\ m.size <= MAX_BYTES /\ m.parses
    /\ m.pages <= MAX_PAGES /\ m.starts
    /\ {"handle_request", "get_response_ptr", "memory"} \subseteq m.exports

Init ==
    /\ app \in {m \in Modules : from_bytes(m)}
    /\ mem = [i \in 0..(app.pages * PAGE - 1) |-> IF i \in DOMAIN app.data THEN app.data[i] ELSE Zero]
    /\ fuel = 0 /\ pc = "idle" /\ served = 0
    /\ req = [path |-> << >>, body |-> << >>] /\ answer = NoValue
    /\ hc = NoValue /\ rv = NoValue
    /\ F!Init

-----------------------------------------------------------------------------
(* Memory.                                                                  *)

Least(a, b) == IF a < b THEN a ELSE b
Size == app.pages * PAGE

AsUsize(i) == i % USIZE

\* A sum of two usize wraps (the release profile).
Add(a, b) == (a + b) % USIZE

\* "[start..end]" on the memory panics unless this holds.
InBounds(start, end) == start <= end /\ end <= Size

Bytes(m, start, end) == [i \in 1..(end - start) |-> m[start + i - 1]]
Put(m, off, s) ==
    [i \in DOMAIN m |-> IF i - off \in 0..(Len(s) - 1) THEN s[i - off + 1] ELSE m[i]]

\* The end of an argument (ptr, len): cut to the memory.
End(ptr, len) == Least(Add(AsUsize(ptr), AsUsize(len)), Size)

ArgOK(ptr, len) == InBounds(AsUsize(ptr), End(ptr, len))
Arg(m, ptr, len) == Bytes(m, AsUsize(ptr), End(ptr, len))

CopyLen_Whole(result, max) == Len(result)

CopyLen(result, max) == Least(Len(result), AsUsize(max))

\* get_feed, file_read and file_list hand over their result: at most max cells
\* from out on, or -1 when they do not fit the memory.
Deliver(m, out, max, result) ==
    LET start == AsUsize(out)
        n == CopyLen(result, max)
        end == Add(start, n)
    IN  IF end > Size THEN pc' = "guest" /\ rv' = -1 /\ mem' = m
        ELSE IF start > end THEN pc' = "panic" /\ mem' = m /\ UNCHANGED rv
        ELSE pc' = "guest" /\ rv' = n /\ mem' = Put(m, start, SubSeq(result, 1, n))

-----------------------------------------------------------------------------
(* The request.                                                             *)

Delivered_Whole(body) == {body}

\* net.rs hands over what it has of the body when the header is complete: a
\* prefix that came in one recv_slice.
Delivered(body) == {SubSeq(body, 1, n) : n \in 0..Least(Len(body), RECV_MAX)}

\* handle_request up to the call: the request is copied into its area, cut to
\* the room there is, over what an earlier request left there, and the fuel is
\* set.
HandleRequest(path, body) ==
    LET p == SubSeq(path, 1, Least(Len(path), PATH_MAX))
        b == SubSeq(body, 1, Least(Len(body), BODY_MAX))
    IN
    /\ pc = "idle" /\ served < MaxRequests[app.name]
    /\ served' = served + 1
    /\ req' = [path |-> path, body |-> body]
    /\ hc' = NoValue /\ rv' = NoValue /\ answer' = NoValue
    /\ IF InBounds(BODY_OFF, BODY_OFF + Len(b))
       THEN /\ mem' = Put(Put(Put(mem, METHOD_OFF, Method), PATH_OFF, p), BODY_OFF, b)
            /\ fuel' = FUEL_PER_REQUEST /\ pc' = "guest"
       ELSE pc' = "panic" /\ UNCHANGED << mem, fuel >>
    /\ UNCHANGED << app, service >>

\* The lengths the module is called with.
pl == Least(Len(req.path), PATH_MAX)
bl == Least(Len(req.body), BODY_MAX)

\* The end of handle_request: the module returned len and its get_response_ptr
\* returned ptr; m is its memory.
Respond(m, ptr, len) ==
    LET end == Add(AsUsize(ptr), len)
    IN  /\ mem' = m
        /\ IF len <= 0 \/ end > Size THEN answer' = NoValue /\ pc' = "idle"
           ELSE IF AsUsize(ptr) > end THEN pc' = "panic" /\ UNCHANGED answer
           ELSE answer' = Bytes(m, AsUsize(ptr), end) /\ pc' = "idle"
        /\ hc' = [fn |-> "return", a |-> ptr, al |-> len, b |-> 0, bl |-> 0]
        /\ UNCHANGED << app, fuel, req, rv, served, service >>

\* handle_request returns None, with the memory as it is.
Trap ==
    /\ pc = "guest"
    /\ pc' = "idle" /\ answer' = NoValue
    /\ UNCHANGED << app, mem, fuel, req, hc, rv, served, service >>

Burnt_Nothing == fuel

Burnt == fuel - 1

-----------------------------------------------------------------------------
(* The host functions.  c is [fn, a, al, b, bl], m the memory at the call.  *)

\* log reads its argument, now and random read none.
Scalar(c, m) ==
    /\ c.fn \in {"log", "now", "random"}
    /\ IF c.fn = "log" /\ ~ArgOK(c.a, c.al) THEN pc' = "panic" ELSE pc' = "guest"
    /\ rv' = 0 /\ mem' = m
    /\ UNCHANGED service

GetFeed(c, m) ==
    /\ c.fn = "get_feed"
    /\ IF Feed = << >> THEN pc' = "guest" /\ rv' = 0 /\ mem' = m
       ELSE Deliver(m, c.b, c.bl, Feed)
    /\ UNCHANGED service

Op(fn) == CASE fn = "file_read" -> "read" [] fn = "file_write" -> "write"
            [] fn = "file_list" -> "list"

\* What the file server knows: the directory and the paths below it.  Paths are
\* those that realpath leaves as they are: two names for one file ("a" and "./a")
\* are not among them.
Known(op, path) == path \in (IF op = "list" THEN {<< "doc" >>} ELSE Paths)

IsUtf8(s) == \A i \in DOMAIN s : s[i] # "bad"

\* file_read, file_write and file_list up to the answer of the host.
\* send_raw asserts that a write fits one packet.
FileCall(c, m) ==
    /\ c.fn \in {"file_read", "file_write", "file_list"}
    /\ mem' = m
    /\ IF ~ArgOK(c.a, c.al) THEN pc' = "panic" /\ UNCHANGED << rv, service >>
       ELSE LET path == Arg(m, c.a, c.al) IN
       IF ~IsUtf8(path) THEN pc' = "guest" /\ rv' = -1 /\ UNCHANGED service
       ELSE IF c.fn = "file_write" /\ ~ArgOK(c.b, c.bl)
       THEN pc' = "panic" /\ UNCHANGED << rv, service >>
       ELSE LET data == IF c.fn = "file_write" THEN Arg(m, c.b, c.bl) ELSE << >> IN
       IF Len(path) + Len(data) > SEND_MAX THEN pc' = "panic" /\ UNCHANGED << rv, service >>
       ELSE LET f == [op |-> Op(c.fn), path |-> path, data |-> data] IN
       IF Known(f.op, path) THEN pc' = "host" /\ F!Begin(f) /\ UNCHANGED rv
       ELSE pc' = "guest" /\ rv' = -1 /\ F!Refuse(f)

HostCall(c, m) ==
    /\ pc = "guest" /\ fuel > 0
    /\ hc' = c /\ fuel' = Burnt
    /\ Scalar(c, m) \/ GetFeed(c, m) \/ FileCall(c, m)
    /\ UNCHANGED << app, req, answer, served >>

\* The file server's listing: the names in some order, one per line.
Lines(names) ==
    LET joined[n \in 0..Len(names)] ==
            IF n = 0 THEN << >>
            ELSE (IF n = 1 THEN << >> ELSE joined[n - 1] \o << "nl" >>) \o names[n]
    IN  joined[Len(names)]
Listings(paths) == {Lines(s) : s \in SetToSeqs({Tail(p) : p \in paths})}

\* The host answered, or the wait loop ran out.
HostReturn ==
    /\ pc = "host"
    /\ F!Succeed \/ F!Fail
    /\ IF ~ret'.ok THEN pc' = "guest" /\ rv' = -1 /\ UNCHANGED mem
       ELSE IF hc.fn = "file_write" THEN pc' = "guest" /\ rv' = 0 /\ UNCHANGED mem
       ELSE \E result \in IF hc.fn = "file_list" THEN Listings(ret'.names) ELSE {ret'.data} :
               Deliver(mem, hc.b, hc.bl, result)
    /\ UNCHANGED << app, fuel, req, hc, answer, served >>

\* The host carries out a write whose call has given up.
HostLate ==
    /\ \E c \in undone : F!Effect(c)
    /\ UNCHANGED host

-----------------------------------------------------------------------------
(* An arbitrary module: any calls, any result, a trap or an endless loop.   *)

HostFunction(fn, a, al, b, n) == [fn |-> fn, a |-> a, al |-> al, b |-> b, bl |-> n]

AnyHostCall ==
    /\ app.name = "any"
    /\ \/ \E fn \in {"log", "get_feed"}, p \in Ptrs, n \in Lens :
            HostCall(HostFunction(fn, p, n, p, n), mem)
       \/ \E fn \in {"now", "random"} : HostCall(HostFunction(fn, 0, 0, 0, 0), mem)
       \/ \E fn \in {"file_read", "file_write", "file_list"} :
            \E a, b \in Ptrs, al, n \in Lens : HostCall(HostFunction(fn, a, al, b, n), mem)

AnyReturn ==
    /\ app.name = "any" /\ pc = "guest"
    /\ \E ptr \in Ptrs, len \in Lens : Respond(mem, ptr, len)

\* A trap of its own, or the end of the fuel.
AnyTrap == app.name = "any" /\ Trap

\* One turn of a loop, as long as there is fuel.
AnyLoop ==
    /\ app.name = "any" /\ pc = "guest" /\ fuel > 0
    /\ fuel' = Burnt
    /\ UNCHANGED << app, mem, pc, req, hc, rv, answer, served, service >>

AnyModule == AnyReturn \/ AnyTrap \/ AnyLoop \/ AnyHostCall

Request == \E r \in Requests : \E b \in Delivered(r.body) : HandleRequest(r.path, b)

-----------------------------------------------------------------------------
(* Properties.                                                              *)

\* wasm_rt.rs:138, 170, 222: a host function changes only the cells from the
\* given pointer on, as many as it reports and never more than the module
\* allowed, and none when it reports an error.
HostWritesConfined ==
    [][hc' # NoValue /\ pc' = "guest" =>
          /\ rv' = -1 \/ rv' <= AsUsize(hc'.bl)
          /\ pc = "host" \/ app.name = "any" => \A i \in DOMAIN mem :
                mem'[i] # mem[i] => i - AsUsize(hc'.b) \in 0..(rv' - 1)]_vars

Inside(ptr, len) == ptr >= 0 /\ len >= 0 /\ ptr + len <= Size

\* A module stops the kernel only by a memory without the request area, a range
\* that is not inside its memory, or a file call longer than a packet; the
\* editor never does.
PanicOnlyOutside ==
    pc = "panic" =>
        /\ app.name # "editor"
        /\ IF hc = NoValue THEN Size < BODY_OFF + BODY_MAX
           ELSE \/ ~Inside(hc.a, hc.al) \/ ~Inside(hc.b, hc.bl)
                \/ hc.al + (IF hc.fn = "file_write" THEN hc.bl ELSE 0) > SEND_MAX

\* Whatever the module does, looping and calling included, the request ends: the
\* module is out of fuel at last.  The loop goes on, or the kernel has stopped
\* where PanicOnlyOutside allows it.
RequestEnds == (pc \in {"guest", "host"}) ~> (pc \in {"idle", "panic"})
=============================================================================

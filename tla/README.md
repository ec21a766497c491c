# A TLA+ verification of conulayer

conulayer is a unikernel (`unikernel/src/*.rs`) that boots on QEMU, fetches WASM
modules and static files from a registry, and then runs one loop that serves HTTP
on port 80, accepts new modules on port 8081 and fetches a feed in the background.
It has its own virtio-net, virtio-blk and virtio-vsock drivers, a key-value store
on the block device, and a file service reached over vsock (`alpine/`). This
directory holds TLA+ models of these parts, TLC runs that check them on small
instances and TLAPS proofs of the results that hold for every instance.

Paths below are relative to the repository root; `net.rs:348` means
`unikernel/src/net.rs`, line 348.

## 1. Inventory

| component | state it keeps | operations | what is hard |
|---|---|---|---|
| server loop (`net.rs`) | sockets of ports 80 and 8081, `req_buf`, `sent80`, `AdminState`, `pending_entry`, `FetchState`, feed caches, the router | one iteration: feed, swap, poll, fetch, port 80, port 8081 | clients that reset, close or half-close at any point; uploads, requests and fetches in any order; waits that must end |
| router (`net.rs:147-185`) | list of (prefix, app) | insert, longest-prefix lookup, route of an upload | overlapping prefixes, `/` as fallback |
| virtio-net (`virtio_net.rs`) | descriptor tables, rings, 16-bit indices | `init`, `try_recv`, `send_packet`; smoltcp's `Device` calls the last two | wrap-around, buffers owned by two sides, buffer reuse |
| queue memory (`virtio_net.rs`, `blk.rs`, `vsock.rs`, each alike) | where the tables of a queue lie | `avail_offset`, `used_offset`, `queue_mem_size` | the queue size is the device's, and the device computes the same places by itself |
| virtio-blk (`blk.rs`) | one descriptor chain, `last_used` | `do_io` | late completion after a timeout |
| store (`store.rs`) | superblock, directory sectors, data sectors | open, write, delete, read, list | failing sectors, power loss between sectors, full disk, space reuse |
| vsock (`vsock.rs`) and file server (`alpine/vsock-file-server.py`) | `fwd_cnt`, two packet queues; the host's connections and files | `fetch_secret`, `file_read`, `file_write`, `file_list` | leftovers of a call that timed out; everyone waiting for everyone |
| RTC (`rtc.rs`) | none (the chip's registers) | `read_unix_timestamp` | registers that change while they are read, leap years |
| boot (`main.rs`, `pci.rs`, `fw_cfg.rs`, the `init` functions) | the devices found, their queues, the secret | `pci::find`, `find_cap`, `fetch_secret`, `fw_cfg`, three `init`s | a machine without a device, with odd queue sizes, or with a cyclic capability list |
| registry (`registry.rs`) | the fetched files | `fetch_all`, `do_fetch`, loading of the routes | a registry that refuses, stalls or never closes |
| bulletin board (`unikernel/wasm/bbs.wat`) | count and twenty slots in linear memory | `$post`, `$msgs` | reuse of slots, shift when full, JSON escaping |
| WASM runtime (`wasm_rt.rs`) | linear memory, fuel and feed of each module | `from_bytes`, `handle_request`, seven host functions | pointers from the module, endless loops, a panic stops the whole kernel |
| editor (`unikernel/wasm/editor.wat`) | buffers in linear memory | routes `files`, `read`, `save` | leftovers of earlier requests, calls that fail and happen all the same |
| equaliser, MCP server, scripts, `idt`, `timer`, `serial`, `boot.s` | see section 8 | | |

How they interact. There is one CPU and no preemption: the drivers are called from
the loop, and concurrency comes from the devices (which share the rings), the TCP
peers (whose packets are applied inside `iface.poll`), the RTC chip and the host.
`main.rs` asks for the secret (vsock, else the firmware configuration), starts the
network card, opens the store, fetches the registry's files, loads them, and calls
`run_http_server`, which never returns. The admin port writes a module to the store and leaves it in `pending_entry`; the top of the next
iteration installs it. WASM modules reach the host's files through the host
functions of `wasm_rt.rs`, which call `vsock.rs`.

`PROJECT.json` lists every component with its status and, under `hazards`, what is
hard to test in this code at the line where it bites.

## 2. Modules

| module | models | notes |
|---|---|---|
| `TcpSocket` | smoltcp's TCP socket (external) | states, `is_open`, `may_recv`, `listen`, `close`; what a peer can do |
| `Router` | `WasmRouter`, `parse_route_prefix` | paths are sequences of characters, as the code compares bytes |
| `Server` | `run_http_server` | extends the two above; `pc` walks through the blocks of an iteration |
| `MC_Server` | instances of `Server` | requests, upload scripts |
| `NatLemmas` | lemmas on numbers: least element, induction, functions defined by recursion, remainders | used by the proofs |
| `VirtQueue` | ring arithmetic shared by both queues | |
| `VirtioRx`, `VirtioTx` | `try_recv`, `send_packet` and the device | unbounded counts; the 16-bit registers are their remainders |
| `VirtioNet` | both queues as smoltcp's `Device` drives them | extends the two above |
| `BlkDriver` | `do_io` and the device | |
| `MC_Devices` | `VirtioNet`, `BlkDriver` and `Rtc`, one in use at a time | |
| `KvStore` | `store.rs`, one step per sector write | |
| `KvMap` | what the store promises: a map whose calls take time | refined by `KvStore` (`IsMap`) |
| `MC_KvStore` | instance of `KvStore` | |
| `FileService` | what `file_read`, `file_write`, `file_list` promise | refined by `Vsock` (`IsFileService`), used by `WasmHost` |
| `Vsock` | `vsock.rs`, host kernel, file server | packets are FIFO in each direction; nothing reads the call number an answer carries |
| `Rtc` | `read_unix_timestamp` and the chip | a timestamp is a pair (days, seconds) |
| `QueueLayout` | the layout of a virtqueue in memory | extended by `Devices` |
| `Devices` | `pci::find`, capabilities, the drivers' `init`, `fw_cfg.rs` | pure operators, used by `Boot` |
| `Boot`, `MC_Boot` | `kernel_main` and `registry.rs` | 17 machines |
| `WasmHost` | `wasm_rt.rs` | an instance of `FileService` carries out the file calls |
| `Editor`, `MC_Editor` | `editor.wat` | extends `WasmHost` |
| `Bbs` | `bbs.wat` | |
| `MC_Apps` | `Editor` and `Bbs`, one in use at a time | |
| `JsonReader` | a client that reads an array of strings (external) | extended by `Editor` and `Bbs` |
| `BbsBoard` | what the board promises: the last posts | refined by `Bbs` (`IsBoard`) |
| `VirtioNet_proofs`, `KvStore_proofs`, `Server_proofs`, `Vsock_proofs`, `Boot_proofs`, `Apps_proofs`, `Device_proofs` | theorems, each about the module it is named after; `Device_proofs` about `BlkDriver` and `Rtc`, `Apps_proofs` about `WasmHost`, `Editor` and `Bbs` | section 6 |

### Correspondence to the code

`Server`. One iteration is `DistributeFeed` (net.rs:235), `ApplyPending` (243),
`PollDone` (255), `Fetch` (258), `Http` (341), `Admin` (390), in this order. The
peers act only while `pc = "poll"`, because smoltcp applies packets only inside
`iface.poll`, and as often as they like there. Byte streams are sequences of tokens
(request line, end of header, pieces of body, pieces of a module), each marked with
its connection, and `recv_slice` returns a bounded number of them, so a header or a
body can be split anywhere a property could tell. A module is a run of tokens with
its true size: a `Content-Length` that is too short gives a module that does not
load. A feed is read in pieces of `FeedRead` (4096 bytes in the code) while less than `FeedMax`
is there, so the last piece may go beyond the limit (`WholeReads`). `accepted`, `replies` and `answers` are history variables.

`VirtioRx`, `VirtioTx`. Each action is one group of ring accesses between two
fences; the device acts between them. `Overflows` is the checked `+= 1` of the dev
profile (`OverflowChecks`). `VirtioNet` puts them together the way one thread does:
a `try_recv` and a `send_packet` never overlap, and the device works on both queues at
any time.

`BlkDriver`. `Submit`, `Finish`, `Timeout` are the three parts of `do_io`. The
device may fetch, complete or fail a request at any time, also after the call that
made it is over; it then finds reused memory.

`KvStore`. `op` is what the running call has in memory: the directory it read, the
slot and sector it chose. A step is one `write_sectors` call. A failed read leaves
zeros, as `read_dir` and `read` ignore the result: `ReadFrom` is `read` with any directory and
data sectors failing, `Results` all that it may return. A name that is too long for an entry is
modelled by `Cut`: stored cut, compared whole.

`Vsock`. The wait loops of `connect_port` and `recv_file_resp` take one packet per
step; a timeout is possible at every one of them. The host kernel accepts or refuses
a connection, resets what belongs to none, and sends no more than `BufAlloc` ahead of
the `fwd_cnt` it has heard of; the Python server handles one connection at a time. A
write that fails on the host leaves the file `Torn`. `IsFileService` maps this to
`FileService`: the writes that may still be carried out are that of a call waiting for
its connection and those in a packet, in the backlog or in the server's hands.

`Rtc`. One register per step while the chip may raise its update flag, update or
stand still. Only the first and the last second of each day are kept, the ones next
to a change of date.

`Boot`. `kernel_main` in its order: `VsockInit` and one `FindCap` per link of the
capability list, `FetchSecret`, `FwCfg`, `NetInit`, `BlkInit`, then `do_fetch` turn by
turn with its two wait loops, and `Load`, one turn per file; the registry may answer with
the file, an error page or an empty body. A queue is recorded as its size, the bytes allocated for it and the number of
descriptors the driver fills, next to the size the device has for it (`init` of
virtio_net.rs uses the size of the first queue for both); `QueueLayout` says where its tables
are. A card with an empty queue makes the first frame sent divide by zero (`CannotSend`). `CAP_GUARD` is the
32 of vsock.rs, 4 in the run.

`WasmHost`. `HandleRequest` copies a request into page 1 and sets the fuel; `HostCall`
is a host function up to its return or to the wait for the host, `HostReturn` the rest.
`pc = "panic"` is the kernel's panic handler, which halts the machine. Pointers are i32
that `as usize` extends with their sign (`AsUsize`, modulo `USIZE`), and sums wrap. Cells
stand for runs of bytes and the layout constants are scaled down in their order and
proportion to one another (`MC_Editor.cfg`). A module named "any" makes any calls with
any arguments of `Ptrs` and `Lens`, loops, traps or returns.

`Editor`. Each route before and after its one file call. `maybe` is a history variable:
for each path the contents its file may have, going by the answers a client has seen; a
read that shows anything else empties it.

`Bbs`. `$post` and `$msgs` on the slots; bytes are told apart as far as the escaping
does.

`JsonReader`. What the browser does with a listing and with the messages: brackets, commas,
strings with escaped quotes and backslashes; a control byte in a string, or any other escape,
counts as an error. Both applications are checked and proved through it.

## 3. Runs

| run | what it checks | instance | distinct states |
|---|---|---|---|
| `server_deploy` | requests and uploads are never put together from two connections; one answer per connection; an accepted module is installed, survives later uploads and is on disk; all modules have the same feed; an answer comes from the longest deployed prefix, current module and current feed | 2 admin connections with 8 upload scripts (too long, cut short, no length, empty, pipelined, not loadable), 1 client, 1 fetch | 7.3 M |
| `server_live` | complete requests are answered, the port listens again after an answer, fetches end and leak no socket, leftovers of one client never reach the next | 2 clients with a body, 2 feed answers, 2 fetch times | 470 k |
| `devices` | network card: frames in order, each once; every buffer in exactly one place; rings never overrun; completed frames are delivered; a frame goes out as it was sent unless a burst of `QUEUE_BUFS` overtakes it. Disk: synchronous and durable until a timeout; calls return. Clock: the time of one instant of the call, and the Unix time in the years whose leap days the code counts | 4 slots, 2 buffers, indices modulo 8, 9 frames each way, a device as far behind as it likes; 2 sectors, 2 contents, 3 calls; every day of 2000, 2001, 2024, 2025, 2070, 2099 in both modes | 476 k |
| `kv` | read after write, layout, no sector of another file or of older contents whatever reads fail, no harm to other files, refinement of a map | 3 names (one too long), 3 contents, 3 directory and 4 data sectors, 4 calls, 2 failures of any kind | 4.0 M |
| `vsock` | answers belong to their call; the file calls implement `FileService`; nobody waits for ever unless the answer is longer than the buffer | the secret and 3 file calls on one path, 2 timeouts, answers of up to 3 packets with a buffer of 2 | 2.2 M |
| `boot` | the boot ends; queue memory is sound exactly if the driver fills no more slots than there are and has the size the device has; every file is taken for its own entry and the routes are exactly the modules that arrived whole | 17 machines that differ in one thing from the usual one; 2 modules, 1 static file | 125 k |
| `apps` | editor: a read shows what was saved, a JSON reader gets the names of a listing unless one needs an escape; host functions write only where and as much as they were told; the kernel panics only over a range outside the memory or a packet that is too long, never over the editor; requests end. Bulletin board: the slots are the list of the last posts as a JSON reader sees it | the editor with 3 requests of 10 kinds on 3 paths, and an arbitrary module of 1 or 2 pages; 3 slots of 2 bytes, 6 bodies | 200 k |
| `server_halfclose`, `server_body`, `tx_burst`, `rtc_leap`, `editor_quote` | violations, section 5 | | |

`devices` and `apps` put together components that share no variable and that the one thread of
the kernel uses one at a time; `active` says which one a behaviour is about, and the others stay
in an initial state.

Why the bounds are enough. The ring widths are chosen so that slots wrap more than
twice and indices at least once, and a burst may be several times the number of buffers. The server runs have two connections where one
connection's leftovers could reach the next, and every kind of upload; more
connections repeat these. The store has one sector less than its contents need, so
that it runs full, and two failures so that combinations occur. In `vsock` two calls
may time out before a third, in any combination of their stages. The machines of `boot`
lack each device in turn, have a queue shorter than the driver's sixteen buffers, an empty one, a transmit queue that is
shorter or longer than the receive queue, a BAR of
the wrong kind, refused features, no capabilities and a list with a cycle, which only the
guard ends. In `apps` a request can follow the late effect of the one before, a name and a
file are longer than their buffers, a body is cut at every length, and the board fills and
shifts. The
bounds themselves (`Max...`) are guards of the environment's actions, of the number
of calls and of the faults, never of the code's own steps.

`CHECK_DEADLOCK FALSE` is set where the environment may stop: no more calls, requests,
frames or days, or because the boot is over. The server loop is checked for deadlock.

Every property has a mutant in `PROJECT.json`: a plausible error in the code
(an operator named `<definition>_<what>`, next to the definition) under which the
same run finds it violated.

## 4. Fairness

* `Server`: `WF(Loop)`. The loop is `loop { ... hlt }` and the timer interrupt ends
  every `hlt`. Nothing is assumed of the peers, except in `PeerSpec`, where a client
  that can close or acknowledge does so eventually (TCP retransmits). It is strong
  fairness because the step is possible only during `iface.poll`. It is needed for
  "the port listens again" only.
* `VirtioNet`: weak fairness of receiving, which the loop polls, and of a transmission
  that has begun; none of starting one and none of the device.
* `BlkDriver`: weak fairness of the driver, which polls. None of the device:
  `CallReturns` holds although the device may never answer.
* `Vsock`: weak fairness of the guest's polling, the host kernel and the servers;
  none of timeouts.
* `Boot`: weak fairness of the kernel, none of the registry.
* `Editor`: weak fairness of the module, which runs as long as it has fuel, and of the
  return of a file call, which `CallAnswered` or the timeout of the wait loop gives. None
  of requests, and none of what the host does with a write that was given up.

## 5. Where the code and its documents disagree

Five runs are expected to find a violation.

* `server_halfclose`: a client that closes its side before the header is complete
  leaves the port-80 socket in CloseWait. It is open, so net.rs:343 does not listen
  again, and it cannot receive, so net.rs:348 skips the branch that would close it.
  `main.rs:147` says that the server keeps running; the trace shows a port that never
  serves again, under fairness of the loop and of the client.
* `server_body`: net.rs:354 answers when the header is complete and never looks at
  `Content-Length`; a body in a later segment is cut off, although
  `unikernel/wasm/editor.wat:5` saves files with such requests.
* `tx_burst`: `send_packet` never looks at the used ring (virtio_net.rs:260), so a burst of one
  frame more than there are transmit buffers overwrites a frame the device has not fetched, and
  a later one goes out twice. `docs/PLAN.md:256` and `:382` say that the sixteen buffers cure the
  overwriting when one poll sends several packets; answers of 173 KB (`:302`) have more.
  `IntactWithinBufs` says what the buffers do give.
* `rtc_leap`: rtc.rs:71 counts leap years as `yy / 4 - yy / 100 + yy / 400` from 1970, which is
  a day short in every year 1 mod 4, 2025 among them, and from 2070 on. rtc.rs:38 and :70 and
  `PLAN_HOST_FUNCTIONS.md:35` promise the Unix time. `ClockExact` says when it is right.
* `editor_quote`: `$files` copies names between quotes as they are (editor.wat:131), so after a
  file `a"` has been saved the listing is not JSON, against editor.wat:3. `PlainNamesListed` is
  what holds.

The following were met while modelling. The models contain the behaviour, and the
properties are stated so as to hold with it, with the exception named in the
property's comment:

* Device timeouts (`Synchronous`, `WritesLand`): after `do_io` gives up, the late completion is
  taken for that of the next request (blk.rs:203), which then returns true before it has been
  carried out, and the device writes into a stack frame that is gone (blk.rs:145). Without the
  premise `Punctual` the run fails: a call times out, the next one is submitted, the device
  completes the first request, and the second call finds the used index moved.
* Failing reads (`NeverOthersContents`): store.rs:83 ignores a data sector that cannot be read,
  so `read` returns zeros in its place inside `Some`, where store.rs:60 knows the data or `None`.
  The property says that zeros are all that can go wrong.
* Full disk and overwrite (`ReadBack`, `KvMap!WriteFails`): a write that fails may have
  overwritten the file's own old sectors (store.rs:118).
* Long names (`Known`): a name of 20 bytes or more is stored cut, never found again, and
  each write of it takes a new slot (store.rs:135).
* A superblock write that fails during `open` goes unnoticed; after the next restart
  everything is formatted again (`OtherFilesSafe`, the case of both kinds of failure).
* `Preempted = TRUE` in `Rtc`: a guest suspended between two register reads returns a
  time that never was (`OneInstant` fails); rtc.rs:42 reads the update flag once, before them.
* `SecretTimeouts = 1` in `Vsock`: a late RESPONSE of the timed-out secret connection is
  taken for that of the next call, which then returns the answer to the one before
  (vsock.rs:508 compares no ports). `VsockAnswersOwnRequest` has the absence of this
  timeout as its hypothesis. A connect that times out sends no reset (vsock.rs:518), so its
  connection stays with the host. Data left over from an earlier call is also counted
  in the new connection's `fwd_cnt` (vsock.rs:405).
* `OverflowChecks = TRUE` in `VirtioRx`: in the dev profile that `run_test.sh:13` builds,
  the 65536th frame panics (virtio_net.rs:233).
* An upload is answered 200 before the module is compiled (net.rs:442), a static file
  hides a module deployed to its route (net.rs:357), the routes `/` and `/app` share a
  file and a module that does not load replaces the file of the one in service (net.rs:430;
  the exceptions in `DeployedModulePersisted`), and nothing reads the stored modules at boot.
* A queue shorter than `QUEUE_BUFS` (`QueueMemorySound`): `init` fills sixteen descriptors
  whatever size the device reports, and with a shorter queue they run into the avail ring
  (virtio_net.rs:161). The size of the transmit queue is read and ignored (virtio_net.rs:191,
  against :3), so a device with another size for it looks for the rings elsewhere. A size of 0 is
  not refused and the first frame sent divides by it (virtio_net.rs:260, `BootEnds`). QEMU
  reports 256 for both.
* The event queue of vsock has one page, and its used ring lies beyond it
  (vsock.rs:333); it is sound because it is given no buffers.
* A request is copied to page 1 of the module's memory without a look at its size
  (wasm_rt.rs:266): a module with one page that loads panics at its first request.
  Negative or wrapping pointers of a host call pass the check of the end and panic in the
  slice (wasm_rt.rs:158). `PanicOnlyOutside` names these cases.
* `send_raw` asserts that a file request fits one packet (vsock.rs:363). The editor stays
  below it only because port 80 hands over what one `recv_slice` returned.
* A file longer than the 64 KB the guest announces stalls until the timeout, since no
  credit is given before it is complete (vsock.rs:75; the exception `Stalled` in
  `CallAnswered`).
* A save that the editor reports as failed may still happen (`maybe`); a listing that
  failed is shown as an empty one. A read of a name that is longer than the buffer shows the
  file whose name is its beginning (editor.wat:185, `Learn`).
* The limit on pages is compared with the declared minimum (wasm_rt.rs:85); a module may
  grow its memory later.
* `do_fetch` does not look at the status line, so an error page is taken for a static
  file (registry.rs:199).

## 6. Proofs

Every theorem below is checked by TLAPS for all values of the constants that satisfy the
named assumptions; `PROJECT.json` lists the property each one states. In each module the
property itself is not inductive; the module defines an invariant that is, and has one
lemma per action of the specification that preserves it. TLC checked each of these
invariants on the run's instance before it was proved.

`NatLemmas` holds what several proofs need: remainders (two counts less than a ring apart
fall into different slots), the least element of a set of numbers, induction over a set
(`Induction`), and the existence of functions defined by recursion (`Recursion`), with which
what a loop over a sequence computes can be proved.

`VirtioNet_proofs` is about `NetSpec`, for every ring size, number of buffers, index width
and number of frames (`RxConstants`, `TxConstants`: buffers fit the ring, the ring size
divides the index width, both profiles): `RxTypeCorrect`, `RxDeliversInOrder`,
`RxConservesBuffers`, `RxNeverOverruns` and, for a device as far behind as it likes,
`TxKeepsFrames` (`IntactWithinBufs`). `IInv` adds
to the receive properties: the order of the four counts and that the driver lacks at most
the descriptor in its hand (`Counts`); that no descriptor is in two places and none is
nowhere (`Apart`, `Covered`); that the slot written before the index is published keeps its
descriptor (`Listed`); that a completed buffer keeps its frame until it is copied
(`Content`). `TxIInv` says that the last `QUEUE_BUFS` frames that have been begun
are in their buffers, and that the slot of every frame leads to its buffer, whether or not the
buffer still holds it. The heart
of each step is arithmetic on remainders: a slot that is written is never one that is still
to be read, also when the 16-bit registers wrap.

`Device_proofs`: `BlkSynchronous` and `BlkWritesLand`, for any sectors, contents, number of
calls and device behaviour (`BlkConstants`: `None` is no request). `BlkInv` counts what the
device has (`Counts`), says that a timeout leaves the driver behind for good (`Lag`), and, as
long as there was none, that there is one request and where it is: not fetched, in the
device, or answered, and then status byte and effect belong together (`OneRequest`). And
`ClockIsExact`, for every set of start years of two digits, if the guest is not suspended
between two reads: `DateInv` says that the chip's date is one of the calendar and `epoch_day` its
number, across the ends of months, leap years and years (`MidnightDate`), and `ReadInv` that
what a call has read belongs to the instant at which it began; `DaysOfDate` compares the formula
of rtc.rs with the calendar, with the recursive `DaysBeforeMonth` given by its table
(`DaysBefore`): they agree in the years of `LeapDaysCounted`. The run checks six start years, the
theorem all.

`KvStore_proofs`: `KvReadBack`, `KvNeverOthersContents`, `KvLayoutSound`, `KvOtherFilesSafe` and
the refinement `KvIsMap`, for every size of disk and directory, all names and contents and any
number of faults (`KvConstants`: sizes are numbers, the marks for nothing and unknown are no
contents). `TypeInv` includes that a write in progress goes behind all files of both
directories, the one in memory and the one on the disk (`Writing`). `SafeInv` says what a call
in progress has in common with the disk: as long as no read fails, and writes fail or power
is lost but not both, only an empty directory is formatted and the other names' entries are
the same in memory and on disk. `ContentsInv` says which of the two directories has the
contents at each stage of a call. `KvNeverOthersContents` is about every result `read` may have when any sectors of the
directory and of the data fail in it: an entry that is found is the one the name has on the disk
(`Results`). `KvIsMap` maps the disk to what `read` returns for each name and `op` to the call of
`KvMap`: a call begins as its `Begin`, the sector writes are stutters, which is where the other
names' contents must stay the same, and the last one is its `Succeed`, a full disk its `Fail`.

`Server_proofs`: `ServerTypeOK`, `ServerOneConnection`, `ServerOneAnswer`, `ServerNoDeployLost`,
`ServerDeployPersisted`, `ServerFeedCoherent`, `ServerFeedSocketOwned` and the action property
`ServerReplyIsCurrent`, for any clients, requests, upload scripts, routes, chunk sizes and
limits (`ServerConstants`: limits are numbers, boot routes differ). `ServerInv` is a conjunction
per part of the loop. `HttpInv` and `AdminInv` say that what is buffered, in the socket and in
the server, are tokens of the socket's connection, and that a socket that listens has
nothing left over, which is why the reset on listening is needed. `FeedInv` ties the socket
to the state of the fetch. `DeployInv` says that the module that waits is the one last
accepted for its route and that prefixes are unique. `ServerReplyIsCurrent` rests on
`LongestPrefix`: the scan of `route_mut` finds an entry with the longest matching prefix, and
none only if none matches, proved by induction on the table.

`Vsock_proofs`: `VsockTypeOK`, and `VsockAnswersOwnRequest`: if `SecretTimeouts = 0`, a call that
succeeds returns the whole answer to its own request, for any number of calls, timeouts of
file calls, credit updates and lengths of answers (`VsockConstants`). `vsock.rs` compares
neither ports nor call numbers, so this is about what can be under way together. `LinkInv` says:
until the secret is there nothing else is (`SecretInv`); in the packets of the guest there is
one reset at most, for the connection there is, and everything of that connection comes
before it (`SentInv`); the server has each connection once, in the order they were made
(`HostInv`); nothing has been asked on a connection that is not going to be reset
(`FreshInv`); a RESPONSE on the way belongs to the current connection, since the receive
ring is drained before a request is sent and the host answers only after the old connection
is reset (`ConnectInv`); and while a call waits, what it has, what is on the way and what
the server has left are the consecutive pieces of one answer, its own (`RespInv`). With a
timeout of the secret `SecretInv` ends while its packets are under way, and the theorem is
false (section 5).

The refinement `VsockIsFileService`, under the same hypothesis: the driver, the packets under way
and the server on the host implement `FileService`, with the write that waits for its
connection, those on the way and those the server has not begun as what is still undone.
`LinkInv` says that an answer is the call's own; the refinement also needs what the answer says,
and that nothing older is left when it comes. `RefInv` adds: before the secret is there no call has returned (`RetInv`); the
current connection is the newest and the server comes to it last (`NewestInv`); one request at most is
on the way, and none to a connection that already has one (`OnceInv`); no two requests have
the same number (`NumInv`); and what the pieces of an answer say is so, wherever they are: in the
server, on the way or in the driver (`HoldInv`). Each step of the link is then a step of
`FileService` or a stutter: what the server does with a request is its `Effect`, a timeout or a
reset its `Fail`, and the last piece of an answer its `Succeed`, because by then every older
connection has been served and nothing is undone (`ServedRef`).

`Boot_proofs`: `BootQueuesSound`, for every page size of at least 42 bytes (`PageSize`; the
event queue's avail ring must fit a page), every set of machines whose queue sizes are numbers
(`QueueSizes`), and all other constants (`DeviceConstants`). `LayoutOfQueueMemory` is about
`queue_mem_size`: the used ring starts at the first page boundary after the avail ring and the
memory ends at the first one after the used ring (`PageUpBounds`), so the tables are apart
and inside exactly if the driver fills no more descriptors than there are; two sizes give the
same places only if they are equal, since the avail ring starts where the descriptors end. `BootInv` then
says that every queue was allocated with `queue_mem_size` or is the event queue. And
`BootRoutesOfOwnFiles`, for any entries, file sizes and poll limits (`BootConstants`): `FetchInv`
says that what do_fetch has received, what can be received and what is still to come, in this
order, are one answer for the entry being fetched, with the end of the header at most in
front, and that the results that have been looked at are routes exactly if they load.

`Apps_proofs` is first about `Spec` of `Editor`, with the editor or an arbitrary module loaded:
`OnlyOutsidePanics`, the action property `HostFunctionsConfined`, `EditorReadsSaves` and
`EditorListsNames`, for any requests, files, contents, modules, pointers and lengths, and every
layout of memory within two assumptions. `WasmConstants`: an accepted memory is smaller than
`usize` can say (1 MB against 2^64), and modules, requests and files consist of cells.
`EditorConstants`: the areas of editor.wat follow each other inside its memory (body up to
99584, scratch 131072, read buffer 131328 to 163840, list buffer 196608 to 229376, fixed data from
262144 on); an answer of three cells for each of a listing, more than the loop can write, ends
before the fixed data (in the code even before the list buffer it is made from); what one
`recv_slice` hands over (1024 bytes, net.rs:349) fits the body area (32768) and a packet (4096 less
the header); and a file's name is not empty and has no newline, as the names of saves do not.

The inductive invariant `EditorInv` has two layers. `HostInv` is about any module: a file call that
waits is the one the module made, with the editor's buffer inside its memory (`Calling`), and a
result is an error or no more than was allowed (`Back`). `HostCallStep` and `ReturnStep` prove it for
each host function with the wrap-around of `as usize` and of the sums, and give
`HostFunctionsConfined` and `OnlyOutsidePanics`. The second layer is about the editor: the request
lies where `handle_request` put it, until the answer overwrites it (`AreaInv`); a call has the path
and the data its request asks for (`CallInv`); what a file holds, and what writes that were given
up may still do to it, is in `maybe` or is that of the save under way (`FilesInv`); a result at hand
is still that of the file, since a call that succeeds comes after every earlier write
(`ResultInv`); and the bytes in the list buffer are the lines of the names there were (`LinesInv`).
`EditorListsNames` rests on `JsonOfLines`: what the loop of `$files` makes of the lines is the array
of the names (`Listed`), by induction on the names (`NextName`) and on the cells of each
(`RunsName`), with the recursive functions `Lines` and `Json` given by `Recursion`; and on
`ListingRead`: a JSON reader gets the names back from it, one at a time (`NameRead`), if none has
a quote, a backslash or a control byte.

`BoardIsBoard`, the refinement of `BbsBoard` by `Bbs`, is for every number and size of slots and all
bodies (`BbsConstants`: at least one slot of one byte, and bodies of the four kinds of byte). `PostStep` says what the memory copies of `$post` leave in
each slot: in the last one the message and its length, in the others what was there or, on a full
board, what the slot after held; `PostIsPost` concludes that the slots hold the last posts, since
only a slot's first bytes, as many as its length word says, are read. `ReadBoard` says that a client
reading the JSON of `$msgs` gets the messages on the board without their control bytes. It is an
induction over the messages (`ReadString`) and, inside, over the bytes of each (`ReadMessage`): after
every byte the reader is inside the string, with what has been shown so far, because the two
bytes that would lead it out are escaped (`ReadByte`). `FlattenFollows` and `ReadingFollows` give the
two recursions, of the writer and of the reader, by `Recursion`.

What stays with TLC. Liveness (`FramesDelivered`, `CallReturns`, `CallAnswered`, `BootEnds`,
`RequestEnds` and those of `server_live`): the prover has no rules for fairness. Every invariant,
action property and refinement of a passing run has a theorem.

## 7. Plan

Done: the server with its router, both rings and their composition, block driver, store,
vsock with the file service it implements, RTC, boot with the devices and the layout of their
queues, WASM runtime, editor, bulletin board; theorems about all of them (section 6). Next, in
this order:

1. A composition of `KvStore` and `BlkDriver`: the store over a device that times out.
2. The transmit buffer of port 80 by size (net.rs:382).

## 8. Not modelled

* `idt.rs`, `timer.rs`: a table and a tick. The waits of the code are counted polls, and the
  fairness of the server loop is all that the tick gives it.
* `serial.rs`: port output without state. `boot.s`, `linker.ld`: straight-line machine
  set-up.
* The heap and `memory.grow`: how much memory is left is not part of any model, and the
  interpreter itself (wasmi) is external.
* The port I/O of the feature negotiation, console output, URL parsing, the HTML pages.
* The secret server of `install.sh` closes its connection after the answer, and for an empty
  secret sends nothing else: the wait loops of the guest drop the packet that says so, so the
  model leaves it out (`SecretServer`).
* Two names for one file (`a` and `./a`): the file server resolves names with `realpath`
  (vsock-file-server.py:39), and the paths of `Vsock` and `WasmHost` are resolved ones (`Known`).
* The slots of the vsock rings, which work as those of `VirtioRx`.
* `app.wat` answers with a constant; `eq_gen.py` generates a page whose state lives in the
  browser.
* `alpine/mcp-server/server.py`: stateless; its requests are those of the admin client.
* Shell scripts.

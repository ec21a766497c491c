------------------------------- MODULE MC_Boot -------------------------------
(***************************************************************************)
(* Boot with two modules and a static file, on machines that differ in one *)
(* thing each from the usual one.                                          *)
(***************************************************************************)
EXTENDS Boot

MC_Entries == << [kind |-> "wasm", route |-> "/"], [kind |-> "wasm", route |-> "/bbs"],
                 [kind |-> "static", route |-> "/"] >>

Cap(c, n) == [cap |-> c, next |-> n]
Caps == << Cap("pci", 2), Cap("notify", 3), Cap("common", 0) >>
Dev(id, bar, size) == [id |-> id, bar |-> bar, size |-> size, tx_size |-> size,
                       features |-> TRUE, caps |-> Caps]
Vsock == Dev("vsock", "mem", 8)
Machine(vsock, net, blk) ==
    [pci |-> << [f \in 0..7 |-> None], [[f \in 0..7 |-> None] EXCEPT ![0] = net, ![1] = blk],
                [[f \in 0..7 |-> None] EXCEPT ![0] = vsock] >>,
     multi |-> {2}, fw |-> << [name |-> "etc/boot", size |-> 1], [name |-> "opt/secret", size |-> 300] >>]
Usual == Machine(Vsock, Dev("net", "io", 256), Dev("blk", "io", 128))

MC_Machines ==
    {Usual, [Usual EXCEPT !.fw = None], [Usual EXCEPT !.multi = {}]}
    \cup {Machine(v, Dev("net", "io", 256), None) :
            v \in {None, [Vsock EXCEPT !.caps[3].next = 1, !.caps[3].cap = "pci"],
                   [Vsock EXCEPT !.caps = << >>], [Vsock EXCEPT !.features = FALSE], [Vsock EXCEPT !.bar = "io"]}}
    \cup {Machine(None, n, None) : n \in {None, Dev("net", "mem", 256), Dev("net", "io", 4), Dev("net", "io", 0)}}
    \cup {Machine(None, [Dev("net", "io", 16) EXCEPT !.tx_size = n], None) : n \in {8, 512}}
    \cup {Machine(None, Dev("net", "io", 16), Dev("blk", "io", n)) : n \in {0, 2, 4}}

=============================================================================

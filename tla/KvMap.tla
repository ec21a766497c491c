-------------------------------- MODULE KvMap --------------------------------
(***************************************************************************)
(* What KvStore (unikernel/src/store.rs) promises its caller: a map from   *)
(* names to contents.  A write or delete takes time; meanwhile, and after  *)
(* a write that fails, its own name's contents are unknown and those of    *)
(* the other names are as before.  A failure of the machine leaves all of  *)
(* them unknown.                                                           *)
(***************************************************************************)
CONSTANTS Names, Contents, Unknown, None, NoCall

VARIABLES
    kv,    \* name -> contents
    call   \* the call under way

Pending(n, c) == [name |-> n, value |-> c]

Init == kv = [n \in Names |-> None] /\ call = NoCall

\* write(n, c), or delete(n) if c is None: it goes on only if there is a file.
Begin(n, c) ==
    /\ call = NoCall /\ (c = None => kv[n] # None)
    /\ call' = Pending(n, c)
    /\ kv' = [kv EXCEPT ![n] = Unknown]

Succeed(n, c) ==
    /\ call = Pending(n, c) /\ call' = NoCall
    /\ kv' = [kv EXCEPT ![n] = c]

Fail(n, c) == call = Pending(n, c) /\ call' = NoCall /\ UNCHANGED kv

MachineFails == kv' = [n \in Names |-> Unknown] /\ call' = NoCall

Next ==
    \/ \E n \in Names, c \in Contents \cup {None} : Begin(n, c) \/ Succeed(n, c)
    \/ \E n \in Names, c \in Contents : Fail(n, c)
    \/ MachineFails

Spec == Init /\ [][Next]_<< kv, call >>

=============================================================================

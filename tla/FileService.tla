---------------------------- MODULE FileService ----------------------------
(***************************************************************************)
(* What file_read, file_write and file_list of unikernel/src/vsock.rs      *)
(* promise their callers, who make one call at a time.                     *)
(*                                                                         *)
(* A call that fails says nothing of its effect: a write may be carried    *)
(* out, half carried out or lost after its caller was told that it failed. *)
(* But a call that succeeds comes after everything that was issued before  *)
(* it: from then on no earlier write can touch a file.                     *)
(***************************************************************************)
CONSTANTS
    Paths,   \* file names under /data
    Calls,   \* the calls that may be made: records with an op and a path
    DataOf(_), \* what a write stores
    Disks,   \* what the host's files may hold at first
    Absent,  \* the contents of a file that does not exist
    Torn,    \* the contents of a file a failed write left half written
    NoCall   \* no call is under way

VARIABLES
    files,   \* path -> its contents
    call,    \* the call under way, of Calls
    undone,  \* the writes that may still be carried out
    ret      \* the last return: [call, ok, data, names]

vars == << files, call, undone, ret >>

Returned(c, ok, data, names) == [call |-> c, ok |-> ok, data |-> data, names |-> names]

Init ==
    /\ files \in Disks /\ call = NoCall /\ undone = {}
    /\ ret = Returned(NoCall, FALSE, Absent, {})

Writes(c) == IF c.op = "write" THEN {c} ELSE {}

Begin(c) ==
    /\ call = NoCall
    /\ call' = c /\ undone' = undone \cup Writes(c)
    /\ UNCHANGED << files, ret >>

\* The host carries out a write, breaks it off, or loses it.
Effect(c) ==
    /\ undone' = undone \ {c}
    /\ files' \in {files, [files EXCEPT ![c.path] = DataOf(c)], [files EXCEPT ![c.path] = Torn]}
    /\ UNCHANGED << call, ret >>

\* What a call that succeeds returns: the names there are, or the contents.
Found(c) ==
    IF c.op = "list" THEN Returned(c, TRUE, Absent, {p \in Paths : files[p] # Absent})
    ELSE Returned(c, TRUE, files[c.path], {})

\* Success: every write is over, and this one's data is what the file holds.
Succeed ==
    /\ call # NoCall /\ undone = {}
    /\ CASE call.op = "write" -> files[call.path] = DataOf(call)
         [] call.op = "read" -> files[call.path] # Absent
         [] OTHER -> TRUE
    /\ ret' = Found(call)
    /\ call' = NoCall
    /\ UNCHANGED << files, undone >>

Fail ==
    /\ call # NoCall
    /\ ret' = Returned(call, FALSE, Absent, {})
    /\ call' = NoCall
    /\ undone' \in {undone, undone \ {call}}
    /\ UNCHANGED files

\* A call that fails before anything was sent.
Refuse(c) ==
    /\ call = NoCall
    /\ ret' = Returned(c, FALSE, Absent, {})
    /\ UNCHANGED << files, call, undone >>

Next ==
    \/ \E c \in Calls : Begin(c) \/ Refuse(c)
    \/ \E c \in undone : Effect(c)
    \/ Succeed \/ Fail

Spec == Init /\ [][Next]_vars
=============================================================================

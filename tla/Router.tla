-------------------------------- MODULE Router --------------------------------
(***************************************************************************)
(* WasmRouter and parse_route_prefix of unikernel/src/net.rs.              *)
(*                                                                         *)
(* Paths are sequences of characters, as the code matches bytes and not    *)
(* path segments.  The router is the sequence of its entries, each a       *)
(* prefix and the application installed there.                             *)
(***************************************************************************)
EXTENDS Naturals, Sequences

\* STRING has them all; the provers only know of the ones named here.
Character == STRING \cup {"/", "u", "?"}

Path == Seq(Character)

Root == << "/" >>

\* The word after the slash of "/update", one character in this alphabet.
UpdateKey == << "/", "u" >>

StartsWith(path, prefix) ==
    /\ Len(prefix) <= Len(path)
    /\ SubSeq(path, 1, Len(prefix)) = prefix

Drop(path, n) == SubSeq(path, n + 1, Len(path))

-----------------------------------------------------------------------------

Insert_Push(entries, prefix, app) ==
    Append(entries, [prefix |-> prefix, app |-> app])

\* The first entry with this prefix gets the new application; otherwise the
\* entry is pushed at the end.
Insert(entries, prefix, app) ==
    LET Hits == {i \in DOMAIN entries : entries[i].prefix = prefix}
    IN  IF Hits = {}
        THEN Append(entries, [prefix |-> prefix, app |-> app])
        ELSE LET i == CHOOSE h \in Hits : \A g \in Hits : h <= g
             IN  [entries EXCEPT ![i].app = app]

\* The scan of route_mut up to entry n: best_len and best_idx (0 for None).
RouteScan(entries, path) ==
    LET best[n \in 0..Len(entries)] ==
            IF n = 0 THEN [len |-> 0, idx |-> 0]
            ELSE IF /\ StartsWith(path, entries[n].prefix)
                    /\ Len(entries[n].prefix) >= best[n - 1].len
                 THEN [len |-> Len(entries[n].prefix), idx |-> n]
                 ELSE best[n - 1]
    IN  best[Len(entries)]

RouteMut_FirstMatch(entries, path) ==
    LET Hits == {i \in DOMAIN entries : StartsWith(path, entries[i].prefix)}
    IN  IF Hits = {} THEN 0 ELSE CHOOSE i \in Hits : \A j \in Hits : i <= j

\* Index of the entry that serves the path, 0 when there is none.
RouteMut(entries, path) == RouteScan(entries, path).idx

\* What the application sees of the path: the prefix is cut off, and nothing
\* left means "/".
StripPrefix(path, prefix) ==
    IF Len(path) = Len(prefix) THEN Root ELSE Drop(path, Len(prefix))

\* "/update" and "/update/" address "/", "/update" followed by more addresses
\* what follows, and every other path addresses "/".
ParseRoutePrefix(path) ==
    LET rest == Drop(path, Len(UpdateKey))
    IN  IF ~StartsWith(path, UpdateKey) \/ rest \in {<< >>, Root}
        THEN Root
        ELSE rest

=============================================================================

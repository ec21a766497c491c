-------------------------------- MODULE Editor --------------------------------
(***************************************************************************)
(* The text editor of unikernel/wasm/editor.wat: a module of WasmHost that *)
(* lists, reads and saves files through the host functions.  A header, a   *)
(* fixed answer, "doc/" and a route are one cell each.                     *)
(***************************************************************************)
EXTENDS WasmHost, JsonReader

CONSTANTS
    NAME_MAX,            \* 240
    SCRATCH,             \* 131072, where a path is put together
    READ_BUF, READ_MAX,  \* 131328, 32512
    LIST_BUF, LIST_MAX,  \* 196608, 32768
    DOC                  \* 262513, the cell "doc"

\* editor.wat's areas follow each other and are inside its memory, the longest
\* answer ends below the fixed data, a cut path is none of the routes, and what
\* one recv_slice delivers fits the request area and a packet.  File names come
\* from saves: they have no newline.
ASSUME EditorConstants ==
    /\ {NAME_MAX, SCRATCH, READ_BUF, READ_MAX, LIST_BUF, LIST_MAX, DOC} \subseteq Nat
    /\ BODY_OFF + BODY_MAX <= SCRATCH /\ SCRATCH + 1 + NAME_MAX <= READ_BUF
    /\ READ_BUF + READ_MAX <= LIST_BUF /\ LIST_BUF + LIST_MAX <= DOC
    /\ 3 * LIST_MAX + 4 <= DOC
    /\ PATH_MAX >= 2 /\ RECV_MAX <= BODY_MAX
    /\ RECV_MAX <= SEND_MAX /\ 1 + NAME_MAX <= SEND_MAX
    /\ \A m \in Modules : m.name = "editor" =>
          DOC < m.pages * PAGE /\ DOC \in DOMAIN m.data /\ m.data[DOC] = "doc"
    /\ \A p \in Paths : p[1] = "doc" /\ Len(p) > 1 /\ \A i \in DOMAIN p : p[i] # "nl"

VARIABLE
    maybe   \* history: path -> what its file may hold, going by the answers

evars == << vars, maybe >>

EditorInit == Init /\ maybe = [p \in Paths |-> {files[p]}]

-----------------------------------------------------------------------------
(* The reference: what a request asks for, from its bytes alone.            *)

Newlines(b) == {i \in DOMAIN b : b[i] = "nl"}
FirstNewline(b) == CHOOSE i \in Newlines(b) : \A j \in Newlines(b) : i <= j
NameIn(b) == SubSeq(b, 1, FirstNewline(b) - 1)
ContentIn(b) == SubSeq(b, FirstNewline(b) + 1, Len(b))
WellFormed(b) == Newlines(b) # {} /\ Len(NameIn(b)) \in 1..NAME_MAX
DocPath(name) == << "doc" >> \o name
Cut(s) == SubSeq(s, 1, Least(Len(s), READ_MAX))

\* What the client knows of the files after an answer: a save that was
\* confirmed is the file; one that failed may have happened, may have torn the
\* file or may happen later; a read shows the file whose name is the first
\* NAME_MAX bytes of the one asked for (editor.wat:185).
Learn(a) ==
    maybe' = [p \in Paths |->
        IF req.path = << "save" >> /\ WellFormed(req.body) /\ p = DocPath(NameIn(req.body))
        THEN IF a = << "200" >> THEN {ContentIn(req.body)}
             ELSE maybe[p] \cup {ContentIn(req.body), Torn}
        ELSE IF /\ req.path = << "read" >> /\ a # NoValue /\ a[1] = "200"
                /\ p = DocPath(SubSeq(req.body, 1, Least(Len(req.body), NAME_MAX)))
        THEN {c \in maybe[p] \ {Absent} : a = << "200" >> \o Cut(c)}
        ELSE maybe[p]]

-----------------------------------------------------------------------------
(* The handlers.  A handler makes at most one file call: rv = NoValue before *)
(* it, and the handler goes on with its result.                             *)

At == app.name = "editor" /\ pc = "guest"
Path == Bytes(mem, PATH_OFF, PATH_OFF + pl)

\* An answer is written to page 0 and its end is the length returned.
Answer(s) == Respond(Put(mem, 0, s), 0, Len(s)) /\ Learn(answer')

\* The path is put together at SCRATCH and the file call made with it.
CallWithPath(fn, name, b, n) ==
    /\ HostCall(HostFunction(fn, SCRATCH, 1 + Len(name), b, n),
                Put(mem, SCRATCH, << mem[DOC] >> \o name))
    /\ UNCHANGED maybe

NotFound ==
    /\ At /\ rv = NoValue /\ Path \notin {<< "files" >>, << "read" >>, << "save" >>}
    /\ Answer(<< "404" >>)

\* $read.
ReadName == Bytes(mem, BODY_OFF, BODY_OFF + Least(bl, NAME_MAX))

ReadCall ==
    /\ At /\ rv = NoValue /\ Path = << "read" >>
    /\ IF ReadName = << >> THEN Answer(<< "400" >>)
       ELSE CallWithPath("file_read", ReadName, READ_BUF, READ_MAX)

ReadLen_Max == READ_MAX

ReadLen == rv

ReadAnswer ==
    /\ At /\ rv # NoValue /\ Path = << "read" >>
    /\ Answer(IF rv < 0 THEN << "404" >>
              ELSE << "200" >> \o Bytes(mem, READ_BUF, READ_BUF + ReadLen))

\* $save: the first newline splits the body.
Body == Bytes(mem, BODY_OFF, BODY_OFF + bl)
nl_pos == CHOOSE i \in 0..(bl - 1) : /\ mem[BODY_OFF + i] = "nl"
                                     /\ \A j \in 0..(i - 1) : mem[BODY_OFF + j] # "nl"

SaveCall ==
    /\ At /\ rv = NoValue /\ Path = << "save" >>
    /\ IF Newlines(Body) = {} \/ nl_pos = 0 \/ nl_pos > NAME_MAX THEN Answer(<< "400" >>)
       ELSE CallWithPath("file_write", Bytes(mem, BODY_OFF, BODY_OFF + nl_pos),
                         BODY_OFF + nl_pos + 1, bl - (nl_pos + 1))

SaveAnswer ==
    /\ At /\ rv # NoValue /\ Path = << "save" >>
    /\ Answer(IF rv < 0 THEN << "400" >> ELSE << "200" >>)

\* $files: the lines become a JSON array; an empty line is no name.  st.in is
\* $in_name, st.first is $first.
JsonStep_NoComma(st, b) ==
    IF b = "nl"
    THEN [st EXCEPT !.out = IF st.in THEN Append(@, "quote") ELSE @, !.in = FALSE]
    ELSE [out |-> st.out \o (IF st.in THEN << >> ELSE << "quote" >>) \o << b >>,
          first |-> FALSE, in |-> TRUE]

JsonStep(st, b) ==
    IF b = "nl"
    THEN [st EXCEPT !.out = IF st.in THEN Append(@, "quote") ELSE @, !.in = FALSE]
    ELSE [out |-> st.out \o (IF st.in THEN << >>
                             ELSE IF st.first THEN << "quote" >> ELSE << "comma", "quote" >>) \o << b >>,
          first |-> FALSE, in |-> TRUE]

Json(lines) ==
    LET st[i \in 0..Len(lines)] ==
            IF i = 0 THEN [out |-> << "[" >>, first |-> TRUE, in |-> FALSE]
            ELSE JsonStep(st[i - 1], lines[i])
        end == st[Len(lines)]
    IN  end.out \o (IF end.in THEN << "quote" >> ELSE << >>) \o << "]" >>

FilesCall ==
    /\ At /\ rv = NoValue /\ Path = << "files" >>
    /\ HostCall(HostFunction("file_list", DOC, 1, LIST_BUF, LIST_MAX), mem)
    /\ UNCHANGED maybe

FilesAnswer ==
    /\ At /\ rv # NoValue /\ Path = << "files" >>
    /\ Answer(<< "json" >> \o Json(IF rv > 0 THEN Bytes(mem, LIST_BUF, LIST_BUF + rv) ELSE << >>))

EditorModule ==
    NotFound \/ ReadCall \/ ReadAnswer \/ SaveCall \/ SaveAnswer \/ FilesCall \/ FilesAnswer

-----------------------------------------------------------------------------

Next ==
    \/ (Request \/ HostReturn \/ HostLate \/ AnyModule) /\ UNCHANGED maybe
    \/ EditorModule

\* The module runs on as long as it has fuel, and a file call returns or times
\* out (Vsock).  Nobody is obliged to send a request, and the host need not
\* carry out what was given up.
Fairness ==
    /\ WF_evars(EditorModule) /\ WF_evars(AnyModule /\ UNCHANGED maybe)
    /\ WF_evars(HostReturn /\ UNCHANGED maybe)

Spec == EditorInit /\ [][Next]_evars /\ Fairness

-----------------------------------------------------------------------------
(* Properties.                                                              *)

\* editor.wat:4-5: what a read shows is the last save that was confirmed, or
\* one that failed after it and was carried out late or half, cut to the
\* buffer; never another file, an old version or bytes of an earlier request.
ReadsAreSaves == \A p \in Paths : maybe[p] # {}

\* There is a listing, it succeeded and it fits its buffer whatever its order.
ListingFits ==
    /\ app.name = "editor" /\ pc = "idle" /\ req.path = << "files" >> /\ ret.ok
    /\ \A l \in Listings(ret.names) : Len(l) <= LIST_MAX

\* What a JSON reader gets from the answer is an array of the names, each once.
ReadAsNames ==
    LET r == Reading(Tail(answer))
    IN  r.at = "done" /\ r.all \in SetToSeqs({Tail(p) : p \in ret.names})

\* A name that JSON shows as it is.
Plain(name) == \A i \in DOMAIN name : name[i] \notin {"quote", "bslash", "ctl"}

\* editor.wat:3: the answer is a JSON array of exactly the names there are.
ListIsNames == ListingFits => ReadAsNames

\* So it is as long as no name has a quote, a backslash or a control byte in it.
PlainNamesListed ==
    ListingFits /\ (\A p \in ret.names : Plain(Tail(p))) => ReadAsNames
=============================================================================

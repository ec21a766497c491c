----------------------------- MODULE JsonReader -----------------------------
(***************************************************************************)
(* A client that reads an answer as a JSON array of strings: the browser   *)
(* pages of the bulletin board and of the editor do (external).  The cells *)
(* "[" and "]" stand for the fixed text around the strings as well; "ctl"  *)
(* is a control byte, which a JSON string cannot hold.                     *)
(***************************************************************************)
EXTENDS Naturals, Sequences

\* r holds the strings read, the one being read, and where the reader stands.
\* A backslash before anything but a quote or a backslash stands for a byte that
\* is not the one after it, or for none: it counts as an error.
Read(r, c) ==
    CASE r.at = "escape" /\ c \in {"quote", "bslash"} ->
            [r EXCEPT !.at = "string", !.cur = Append(@, c)]
      [] r.at = "string" /\ c = "bslash" -> [r EXCEPT !.at = "escape"]
      [] r.at = "string" /\ c = "quote" ->
            [r EXCEPT !.at = "end", !.cur = << >>, !.all = Append(@, r.cur)]
      [] r.at = "string" /\ c \notin {"bslash", "quote", "ctl"} ->
            [r EXCEPT !.cur = Append(@, c)]
      [] r.at = "array" /\ c = "[" -> [r EXCEPT !.at = "first"]
      [] r.at \in {"first", "start"} /\ c = "quote" -> [r EXCEPT !.at = "string"]
      [] r.at = "end" /\ c = "comma" -> [r EXCEPT !.at = "start"]
      [] r.at \in {"first", "end"} /\ c = "]" -> [r EXCEPT !.at = "done"]
      [] OTHER -> [r EXCEPT !.at = "error"]

\* The reader at the end of what it was given.
Reading(json) ==
    LET r[i \in 0..Len(json)] ==
            IF i = 0 THEN [at |-> "array", cur |-> << >>, all |-> << >>]
            ELSE Read(r[i - 1], json[i])
    IN  r[Len(json)]

Parsed(json) ==
    LET r == Reading(json)
    IN  IF r.at = "done" THEN r.all ELSE << << "invalid" >> >>

=============================================================================

--------------------------------- MODULE Bbs ---------------------------------
(***************************************************************************)
(* The bulletin board unikernel/wasm/bbs.wat in its linear memory: a       *)
(* message count, MaxMsgs slots of a length word and MaxLen bytes, and the *)
(* request and response areas.  Bytes are told apart as far as the JSON    *)
(* writer does: a plain character, a quote, a backslash, a control byte.   *)
(*                                                                         *)
(* Slots are reused, so a slot's bytes beyond its length word are those of *)
(* an earlier message.                                                     *)
(***************************************************************************)
EXTENDS Naturals, Sequences, SequencesExt, JsonReader

CONSTANTS
    Posts,      \* bodies clients send: sequences of bytes
    MaxMsgs,    \* 20
    MaxLen      \* 252

ASSUME BbsConstants ==
    /\ MaxMsgs \in Nat \ {0} /\ MaxLen \in Nat \ {0}
    /\ Posts \subseteq Seq({"chr", "quote", "bslash", "ctl"})

VARIABLES
    posts,   \* the word at 131072
    lens,    \* slot -> its length word
    texts,   \* slot -> its bytes
    shown    \* what the client reads from the last answer of $msgs

bbs_vars == << posts, lens, texts, shown >>

Slots == 0..MaxMsgs - 1
Blank == [k \in 1..MaxLen |-> "zero"]

BbsInit ==
    /\ posts = 0
    /\ lens = [s \in Slots |-> 0] /\ texts = [s \in Slots |-> Blank]
    /\ shown = << >>

-----------------------------------------------------------------------------
(* $post.                                                                   *)

StoredLen(body) == IF Len(body) > MaxLen THEN MaxLen ELSE Len(body)

Full == posts >= MaxMsgs

\* memory.copy of (MaxMsgs - 1) slots onto the slot before.
Shifted(f) == [s \in Slots |-> IF s < MaxMsgs - 1 THEN f[s + 1] ELSE f[s]]

\* memory.copy of the body over what the slot held.
Copied(old, body, n) == [k \in 1..MaxLen |-> IF k <= n THEN body[k] ELSE old[k]]

\* The board is shifted when it is full, else the count goes up; then the
\* message goes into the last slot.
Post(body) ==
    LET n         == StoredLen(body)
        slot      == IF Full THEN MaxMsgs - 1 ELSE posts
        old_lens  == IF Full THEN Shifted(lens) ELSE lens
        old_texts == IF Full THEN Shifted(texts) ELSE texts
    IN  /\ n # 0
        /\ posts' = IF Full THEN posts ELSE posts + 1
        /\ lens' = [old_lens EXCEPT ![slot] = n]
        /\ texts' = [old_texts EXCEPT ![slot] = Copied(@, body, n)]
        /\ UNCHANGED shown

-----------------------------------------------------------------------------
(* $msgs.                                                                   *)

Escape_QuoteOnly(c) == CASE c = "quote" -> << "bslash", "quote" >>
                         [] c = "ctl"   -> << >>
                         [] OTHER       -> << c >>

\* A quote and a backslash get a backslash, a control byte is dropped.
Escape(c) == CASE c = "quote"  -> << "bslash", "quote" >>
               [] c = "bslash" -> << "bslash", "bslash" >>
               [] c = "ctl"    -> << >>
               [] OTHER        -> << c >>

Escaped(msg) == FlattenSeq([k \in DOMAIN msg |-> Escape(msg[k])])

\* The messages in the slots.
Board == [k \in 1..posts |-> SubSeq(texts[k - 1], 1, lens[k - 1])]

\* A comma after every message but the last.
Comma(k) == IF k < posts THEN << "comma" >> ELSE << >>

\* A string between quotes for each message, with commas between them.
JsonString(k) == << "quote" >> \o Escaped(Board[k]) \o << "quote" >> \o Comma(k)
BbsJson == << "[" >> \o FlattenSeq([k \in 1..posts |-> JsonString(k)]) \o << "]" >>

Msgs == shown' = Parsed(BbsJson) /\ UNCHANGED << posts, lens, texts >>

\* An empty post (400) and an unknown path (404) change nothing.
BbsNext == Msgs \/ \E body \in Posts : Post(body)
BbsSpec == BbsInit /\ [][BbsNext]_bbs_vars

-----------------------------------------------------------------------------
(* Properties.                                                              *)

\* The slots behave as the list of the last posts, and a JSON reader of the
\* answer gets exactly those: no bytes of an earlier message in a reused slot,
\* no message lost or repeated by the shift, no quote that ends a string early.
Abstract == INSTANCE BbsBoard WITH board <- Board
IsBoard == Abstract!Spec

=============================================================================

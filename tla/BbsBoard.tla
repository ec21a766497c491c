------------------------------- MODULE BbsBoard -------------------------------
(***************************************************************************)
(* What the bulletin board promises: the last MaxMsgs posts, oldest first, *)
(* each cut to MaxLen characters; an empty post is refused.                *)
(***************************************************************************)
EXTENDS Naturals, Sequences, SequencesExt

CONSTANTS Posts, MaxMsgs, MaxLen

VARIABLES board, shown

Init == board = << >> /\ shown = << >>

Cut(s, n) == SubSeq(s, 1, IF Len(s) <= n THEN Len(s) ELSE n)
LastOf(s, n) == SubSeq(s, IF Len(s) <= n THEN 1 ELSE Len(s) - n + 1, Len(s))

Post(p) ==
    /\ p # << >>
    /\ board' = LastOf(Append(board, Cut(p, MaxLen)), MaxMsgs)
    /\ UNCHANGED shown

\* Control characters are not shown.
Visible(msg) == FlattenSeq([k \in DOMAIN msg |-> IF msg[k] = "ctl" THEN << >> ELSE << msg[k] >>])

Show == /\ shown' = [k \in DOMAIN board |-> Visible(board[k])]
        /\ UNCHANGED board

Next == Show \/ \E p \in Posts : Post(p)

Spec == Init /\ [][Next]_<< board, shown >>

=============================================================================

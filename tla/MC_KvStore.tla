------------------------------ MODULE MC_KvStore ------------------------------
(***************************************************************************)
(* Instances of KvStore for TLC.                                           *)
(***************************************************************************)
EXTENDS KvStore

\* A content of one sector, one of two sectors and an empty one.
MC_Values == {[id |-> 1, size |-> 1], [id |-> 2, size |-> 2], [id |-> 0, size |-> 0]}

\* A key that the directory cannot hold in full.
MC_Cut == [n \in {"long"} |-> "lon"]

=============================================================================

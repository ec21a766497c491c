------------------------------- MODULE MC_Apps -------------------------------
(***************************************************************************)
(* The applications.  Each module has a memory of its own and a request is *)
(* over before the next is looked at, so the bulletin board and the module *)
(* on WasmHost are explored with the other one at rest.                    *)
(***************************************************************************)
EXTENDS MC_Editor, Bbs

\* Bodies that are empty, short, full and too long for two bytes, with every
\* kind of byte at either end.
MC_Posts == { << >>, << "chr" >>, << "ctl", "quote" >>, << "bslash", "chr" >>,
              << "quote", "bslash" >>, << "chr", "bslash", "quote" >> }

VARIABLE active   \* the application that is sent requests

all == << evars, bbs_vars, active >>

\* One module stands for all of WasmHost while the board is in use.
AtRest == app.name = "editor"

AppsInit ==
    /\ EditorInit /\ BbsInit
    /\ active \in {"host", "bbs"} /\ (active = "bbs" => AtRest)

HostStep == active = "host" /\ Next /\ UNCHANGED << bbs_vars, active >>
BbsStep == active = "bbs" /\ BbsNext /\ UNCHANGED << evars, active >>

AppsNext == HostStep \/ BbsStep

AppsSpec == AppsInit /\ [][AppsNext]_all /\ Fairness

==============================================================================

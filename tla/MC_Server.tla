------------------------------ MODULE MC_Server ------------------------------
(***************************************************************************)
(* Instances of Server for TLC.  "/u" stands for /update, "/b" for /bbs.   *)
(***************************************************************************)
EXTENDS Server

Bbs == << "/", "b" >>

Get(path, body) == [path |-> path, body |-> body]
Post(path, len, size, ok) == [path |-> path, len |-> len, size |-> size, ok |-> ok]

MC_BootRoutes == << Root >>
MC_NoRoutes == << >>
MC_StaticBbs == {Bbs}

\* A request for each application, the second with a body and a path below
\* the prefix.
MC_Requests == {Get(Root, 0), Get(Bbs \o Root, 1)}
MC_RequestWithBody == {Get(Bbs \o Root, 1)}
MC_OneRequest == {Get(Bbs, 0)}

\* Deploys to "/bbs" and "/", one that does not load, one cut short by its own
\* Content-Length, one too large, one without Content-Length, an empty one, and
\* two requests on one connection.
MC_Deploys ==
    { << Post(UpdateKey \o Bbs, 1, 1, TRUE) >>,
      << Post(UpdateKey, 2, 2, TRUE) >>,
      << Post(UpdateKey \o Bbs, 1, 1, FALSE) >>,
      << Post(UpdateKey \o Root, 1, 2, TRUE) >>,
      << Post(UpdateKey \o Bbs, 3, 3, TRUE) >>,
      << Post(UpdateKey \o Bbs, NoLength, 1, TRUE) >>,
      << Post(UpdateKey, 0, 0, FALSE) >>,
      << Post(UpdateKey \o Bbs, 1, 1, TRUE), Post(UpdateKey, 1, 1, TRUE) >> }

=============================================================================

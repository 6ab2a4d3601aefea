------------------------------- MODULE MCLoops --------------------------------
(***************************************************************************)
(* A small instance of Loops: three levels of directories, and system      *)
(* calls that hit the same path with different intents and spellings.      *)
(***************************************************************************)
EXTENDS Loops

MCPath == {"/", "/a", "/a/b", "/a/b/c", "/d"}
MCAbove == [p \in MCPath |-> CASE p = "/" -> {}
                               [] p \in {"/a", "/d"} -> {"/"}
                               [] p = "/a/b" -> {"/", "/a"}
                               [] p = "/a/b/c" -> {"/", "/a", "/a/b"}]
Nothing == {}

Sys(sys, p, said, need) ==
  [sys |-> sys, paths |-> <<p>>, need |-> need, said |-> said,
   quiet |-> FALSE, tolerated |-> TRUE]
MCSteps == {Sys("openat", "/a", "/a", "ro"), Sys("unlink", "/a", "/d", "rw"),
            Sys("openat", "/d", "/d", "rw"), Sys("rename", "/a/b", "/a", "rw")}
=============================================================================

------------------------------ MODULE MCDispatch ------------------------------
(***************************************************************************)
(* A small machine for TLC: a home directory with one file, a directory    *)
(* that does not exist yet, /usr, /dev/null, and tool calls that between   *)
(* them meet every way a denial is found or missed.                        *)
(***************************************************************************)
EXTENDS Dispatch, TLC

MCPath == {"/", "/usr", "/null", "/h", "/h/f", "/h/s", "/h/s/x"}
MCAbove ==
  [p \in MCPath |->
     CASE p = "/" -> {}
       [] p \in {"/usr", "/null", "/h"} -> {"/"}
       [] p \in {"/h/f", "/h/s"} -> {"/", "/h"}
       [] p = "/h/s/x" -> {"/", "/h", "/h/s"}]
MCTree ==
  [p \in MCPath |-> CASE p \in {"/", "/usr", "/h"} -> "dir"
                      [] p \in {"/null", "/h/f"} -> "file"
                      [] p \in {"/h/s", "/h/s/x"} -> "absent"]
MCTrees == {MCTree}
MCBaselineRO == {"/usr"}
MCBaselineRWFiles == {"/null"}
NoLocks == {}
FLocked == {"/h/f"}

FileVolatile == [p \in {"/h/f"} |-> "file"]
NothingVolatile == [p \in {} |-> "file"]

FileCall(tool, p, args, mention) ==
  [tool |-> tool, args |-> args, target |-> p, script |-> <<>>,
   mention |-> mention]
ShellCall(script) ==
  [tool |-> "run_shell", args |-> "ok", target |-> "/", script |-> script,
   mention |-> NoPath]

\* A step whose error message names the path as it is.
Does(sys, paths, need, tolerated) ==
  [sys |-> sys, paths |-> paths, need |-> need, said |-> paths[1],
   quiet |-> FALSE, tolerated |-> tolerated]
Quietly(step) == [step EXCEPT !.quiet = TRUE]
Says(step, p) == [step EXCEPT !.said = p]
Echo(p) == [sys |-> "echo", paths |-> <<>>, need |-> "ro", said |-> p,
            quiet |-> FALSE, tolerated |-> TRUE]

ReadF == FileCall("read_file", "/h/f", "ok", NoPath)
ReadLog == FileCall("read_file", "/h/f", "ok", "/h/s/x")
WriteF == FileCall("write_file", "/h/f", "ok", NoPath)
WriteX == FileCall("write_file", "/h/s/x", "ok", NoPath)
ListH == FileCall("list_dir", "/h", "ok", NoPath)
Mistyped == [ShellCall(<<>>) EXCEPT !.args = "mistyped"]
Malformed == FileCall("read_file", "/h/f", "malformed", NoPath)
Unknown == FileCall("fetch", "/h/f", "ok", NoPath)

\* cat /h/f > /dev/null; mkdir /h/s && mv /h/f /h/s/x
Move == ShellCall(<<Does("openat", <<"/null">>, "rw", FALSE),
                    Quietly(Does("openat", <<"/h/f">>, "ro", TRUE)),
                    Does("mkdir", <<"/h/s">>, "rw", FALSE),
                    Does("rename", <<"/h/f", "/h/s/x">>, "rw", FALSE)>>)
\* cat f; rm f, with both the agent and the command in /h: the spelling is
\* relative, as a /proc lookup of the tracer that fails leaves it
Remove == ShellCall(<<Does("openat", <<"/h/f">>, "ro", TRUE),
                      Does("unlink", <<"/h/f">>, "rw", FALSE)>>)
\* cd /h; cat f, run by an agent whose own directory is /
Elsewhere ==
  ShellCall(<<Says(Does("openat", <<"/h/f">>, "ro", FALSE), "/h/s")>>)
\* a program that binds a socket, with an optional configuration file
Bind == ShellCall(<<Does("openat", <<"/h">>, "ro", TRUE),
                    Does("bind", <<"/h/f">>, "rw", FALSE)>>)
\* a command that repeats somebody's error message
Gossip == ShellCall(<<Echo("/h/f")>>)

MCCalls == {ReadF, ReadLog, WriteF, WriteX, ListH, Mistyped, Malformed,
            Unknown, Move, Remove, Elsewhere, Bind, Gossip}

\* Smaller sets of calls for particular questions.
LoopCalls == {WriteX, Remove}
WriteCalls == {WriteF}
\* cat /h/f 2>&1 || true, which says so and succeeds
Probe == ShellCall(<<Does("openat", <<"/h/f">>, "ro", TRUE)>>)
ProbeCalls == {Probe}
=============================================================================

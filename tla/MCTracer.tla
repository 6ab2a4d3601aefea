------------------------------- MODULE MCTracer -------------------------------
(***************************************************************************)
(* A shell and one more process, for TLC.  A call with two path operands,  *)
(* one with one (which can also succeed and replace the program), and fork *)
(* as the call that is not recorded.                                       *)
(***************************************************************************)
EXTENDS Tracer

MCPid == {"shell", "child"}
MCFsCalls == [rename |-> 2, execve |-> 1]
MCOtherCalls == {"fork"}
TwoAndOne == [shell |-> 2, child |-> 1]
OneEach == [shell |-> 1, child |-> 1]
Stopped == {<<"child", "STOP">>, <<"shell", "TERM">>}
NobodySends == {}
AnyoneKilled == MCPid
NobodyKilled == {}
=============================================================================

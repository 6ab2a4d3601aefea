-------------------------------- MODULE Trace ---------------------------------
(***************************************************************************)
(* What ptrace.Run promises, without system calls, stops or signals.       *)
(*                                                                         *)
(* A command is a growing and shrinking set of live processes.  While Run  *)
(* has not returned it records failures, each once and each of a process   *)
(* that is alive.  It returns a trace only when nothing of the command is  *)
(* alive any more, or an error and no trace: then what is alive goes on,   *)
(* unless Run killed it, and is not observed.                              *)
(***************************************************************************)
EXTENDS Sequences

CONSTANTS
  Pid,
  RootPid,
  Failure    \* what can be recorded of a process

VARIABLES
  alive,
  recorded,  \* the sequence of failures, pairs of a process and a Failure
  outcome    \* "none", "traced", "error"

vars == <<alive, recorded, outcome>>

Init ==
  /\ alive = {}
  /\ recorded = <<>>
  /\ outcome = "none"

Start ==
  /\ outcome = "none" /\ alive = {}
  /\ alive' = {RootPid}
  /\ UNCHANGED <<recorded, outcome>>

Spawn(p) ==
  /\ outcome # "traced" /\ alive # {} /\ p \notin alive
  /\ alive' = alive \cup {p}
  /\ UNCHANGED <<recorded, outcome>>

End(p) ==
  /\ alive' = alive \ {p}
  /\ UNCHANGED <<recorded, outcome>>

Record(p, f) ==
  /\ outcome = "none" /\ p \in alive
  /\ \A i \in DOMAIN recorded : recorded[i] # <<p, f>>
  /\ recorded' = Append(recorded, <<p, f>>)
  /\ UNCHANGED <<alive, outcome>>

Return ==
  /\ outcome = "none" /\ alive = {}
  /\ outcome' = "traced"
  /\ UNCHANGED <<alive, recorded>>

Fail ==
  /\ outcome = "none"
  /\ alive' \in {alive, {}}
  /\ recorded' = <<>>
  /\ outcome' = "error"

Next ==
  \/ Start \/ Return \/ Fail
  \/ \E p \in Pid : \/ Spawn(p) \/ End(p)
                    \/ \E f \in Failure : Record(p, f)

Spec == Init /\ [][Next]_vars
=============================================================================
